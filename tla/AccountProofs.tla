----------------------------- MODULE AccountProofs -----------------------------
(***************************************************************************)
(* Proofs about VirtualAccount, for every set of sleeves, symbols, orders, *)
(* broker ids, fills and bounds, and about AccountSync, for every set of   *)
(* importers, rows and orders.                                             *)
(***************************************************************************)
EXTENDS AccountSync, InductionLemmas


-------------------------------------------------------------------------------
(* Dictionaries. *)

\* Adding an entry of the right type keeps a dictionary a dictionary.
LEMMA PutIsDict ==
  ASSUME NEW f, NEW Keys, NEW Values, IsDict(f, Keys, Values),
         NEW k \in Keys, NEW v \in Values
  PROVE  IsDict(Put(f, k, v), Keys, Values)
BY DEF IsDict, Put

\* Removing an entry keeps a dictionary a dictionary.
LEMMA DropIsDict ==
  ASSUME NEW f, NEW Keys, NEW Values, IsDict(f, Keys, Values), NEW k
  PROVE  IsDict(Drop(f, k), Keys, Values)
BY DEF IsDict, Drop

\* The empty dictionary is a dictionary of any type.
LEMMA EmptyIsDict ==
  ASSUME NEW Keys, NEW Values
  PROVE  IsDict(EmptyDict, Keys, Values)
BY DEF IsDict, EmptyDict

\* What an entry added to a dictionary changes, and what it does not.
LEMMA PutEntries ==
  ASSUME NEW f, NEW k, NEW v
  PROVE  /\ DOMAIN Put(f, k, v) = DOMAIN f \cup {k}
         /\ Put(f, k, v)[k] = v
         /\ \A x \in DOMAIN f : x # k => Put(f, k, v)[x] = f[x]
BY DEF Put

\* The cash a sleeve may be initialized with is an amount of a currency.
LEMMA OpeningType ==
  ASSUME NEW opening \in Openings
  PROVE  /\ opening.sleeve \in Sleeves
         /\ opening.currency \in Currencies
         /\ opening.amount \in Nat
BY BoundAssumption

-------------------------------------------------------------------------------
(* One fill. *)

HeldType == [Sleeves -> [Symbols -> Nat]]
PositionDict(p) == IsDict(p, Sleeves \X Symbols, PositionType)

\* A row presented to the store is well typed, whatever its order id is.
LEMMA RowType ==
  ASSUME NEW row \in Rows
  PROVE  /\ row.id \in FillIds
         /\ row.order \in OrderKeys
         /\ row.broker \in BrokerIds \cup {NoBroker}
         /\ row.symbol \in Symbols
         /\ row.side \in Sides
         /\ row.quantity \in Nat \ {0}
         /\ row.price \in Nat \ {0}
         /\ row.unitFee \in Nat
BY FillAssumption DEF FillRow

\* A sale that fits keeps every holding a natural number.
LEMMA HeldAfterType ==
  ASSUME NEW h \in HeldType, NEW s \in Sleeves, NEW row \in Rows,
         NEW q \in Nat, CanApply(h, s, row, q)
  PROVE  HeldAfter(h, s, row, q) \in HeldType
<1>1. row.symbol \in Symbols /\ row.side \in Sides
  BY RowType
<1>2. h[s][row.symbol] \in Nat
  BY <1>1 DEF HeldType
<1>3. CASE row.side = "buy"
  BY <1>1, <1>2, <1>3 DEF HeldAfter, HeldType
<1>4. CASE row.side = "sell"
  <2>1. h[s][row.symbol] - q \in Nat
    BY <1>2, <1>4 DEF CanApply
  <2> QED BY <1>1, <1>4, <2>1 DEF HeldAfter, HeldType
<1> QED BY <1>1, <1>3, <1>4 DEF Sides

\* A fill moves the holding of its own sleeve and symbol and no other.
LEMMA HeldAfterValue ==
  ASSUME NEW h \in HeldType, NEW s \in Sleeves, NEW row \in Rows, NEW q \in Nat,
         NEW t \in Sleeves, NEW y \in Symbols
  PROVE  HeldAfter(h, s, row, q)[t][y] =
           IF t = s /\ y = row.symbol
           THEN IF row.side = "buy" THEN h[t][y] + q ELSE h[t][y] - q
           ELSE h[t][y]
BY RowType DEF HeldAfter, HeldType

\* The position states stay well typed: a position that is kept has shares.
LEMMA PositionsAfterType ==
  ASSUME NEW h \in HeldType, NEW s \in Sleeves, NEW row \in Rows, NEW q \in Nat,
         CanApply(h, s, row, q), NEW p, PositionDict(p)
  PROVE  PositionDict(PositionsAfter(p, h, s, row, q))
<1> DEFINE key   == <<s, row.symbol>>
           total == HeldAfter(h, s, row, q)[s][row.symbol]
           open  == key \in DOMAIN p /\ h[s][row.symbol] > 0
           high  == IF open THEN Larger(p[key].high, row.price) ELSE row.price
<1>1. row.symbol \in Symbols /\ row.price \in Nat \ {0} /\ key \in Sleeves \X Symbols
  BY RowType
<1>2. total \in Nat
  BY HeldAfterType, <1>1 DEF HeldType
<1>3. high \in Nat \ {0}
  <2>1. key \in DOMAIN p => p[key].high \in Nat \ {0}
    BY DEF PositionDict, IsDict, PositionType
  <2> QED BY <1>1, <2>1 DEF Larger
<1>4. CASE total = 0
  BY <1>4, DropIsDict DEF PositionsAfter, PositionDict
<1>5. CASE total # 0
  <2>1. [quantity |-> total, high |-> high, last |-> row.price] \in PositionType
    BY <1>1, <1>2, <1>3, <1>5 DEF PositionType
  <2> HIDE DEF total, high, open
  <2>2. PositionsAfter(p, h, s, row, q)
          = Put(p, key, [quantity |-> total, high |-> high, last |-> row.price])
    BY <1>5 DEF PositionsAfter, total, high, open
  <2> QED BY <1>1, <2>1, <2>2, PutIsDict DEF PositionDict
<1> QED BY <1>4, <1>5

\* The sleeve a fill is put to exists.
LEMMA TargetType ==
  ASSUME NEW row \in Rows, NEW s \in Sleeves \cup {NoSleeve}, NEW own, NEW ix,
         IsDict(own, OrderKeys, OwnerType)
  PROVE  TargetSleeve(row, s, own, ix) \in Sleeves
BY SleeveAssumption DEF TargetSleeve, IsOwned, IsDict, OwnerType

\* The ownership a fill may add is well typed.
LEMMA OwnerAfterFillType ==
  ASSUME NEW row \in Rows, NEW s \in Sleeves \cup {NoSleeve}, NEW own, NEW ix,
         IsDict(own, OrderKeys, OwnerType)
  PROVE  IsDict(OwnerAfterFill(row, s, own, ix), OrderKeys, OwnerType)
<1> DEFINE rec == [sleeve |-> TargetSleeve(row, s, own, ix), broker |-> row.broker]
<1>1. rec \in OwnerType
  BY TargetType, RowType DEF OwnerType
<1> HIDE DEF rec
<1>2. IsDict(Put(own, row.order, rec), OrderKeys, OwnerType)
  BY <1>1, RowType, PutIsDict
<1> QED BY <1>2 DEF OwnerAfterFill, rec

\* The ledger entry of a fill is well typed.
LEMMA EntryTypeOK ==
  ASSUME NEW s \in Sleeves, NEW row \in Rows, NEW q \in Nat \ {0}
  PROVE  Entry(s, row, q) \in EntryType
BY RowType DEF Entry, EntryType

\* Order ownership and the alias index stay well typed when an id is bound.
LEMMA BoundType ==
  ASSUME NEW o \in Orders, NEW b \in BrokerIds \cup {NoBroker}, LedgerTypeOK
  PROVE  /\ IsDict(OwnerBound(o, b), OrderKeys, OwnerType)
         /\ IsDict(IndexBound(o, b), BrokerIds, OrderKeys)
<1>1. IsDict(owner, OrderKeys, OwnerType) /\ IsDict(index, BrokerIds, OrderKeys)
  BY DEF LedgerTypeOK
<1>2. o \in DOMAIN owner => BoundBroker(o, b) \in BrokerIds \cup {NoBroker}
  BY <1>1 DEF BoundBroker, IsDict, OwnerType
<1>3. IsDict(OwnerBound(o, b), OrderKeys, OwnerType)
  BY <1>1, <1>2 DEF OwnerBound, IsDict, OwnerType
<1>4. \A a \in BrokerIds \cup {NoBroker} : AliasSet(a) \subseteq BrokerIds
  BY BrokerIdAssumption DEF AliasSet
<1>5. IsDict(IndexBound(o, b), BrokerIds, OrderKeys)
  BY <1>1, <1>2, <1>4 DEF IndexBound, IndexWith, IsDict, OrderKeys
<1> QED BY <1>3, <1>5

-------------------------------------------------------------------------------
(* One part of an allocation. *)

PartType == [slot : Slots, sleeve : Sleeves, quantity : Nat]

\* The parts a call can have are parts.
LEMMA PartsAreParts ==
  ASSUME NEW slot \in Slots, NEW Q \in SUBSET Nat, NEW part \in Part(slot, Q)
  PROVE  part \in PartType
BY DEF Part, PartType

\* A part is posted under an id no broker fill and no event has.
LEMMA PartIdType ==
  ASSUME NEW row \in Rows, NEW part \in PartType
  PROVE  /\ PartId(row, part) \in AllocationIds
         /\ PartId(row, part) \in LedgerIds
         /\ PartId(row, part) \notin FillIds
         /\ PartId(row, part)[1] = row.id
         /\ PartId(row, part)[3] = part.sleeve
BY RowType, FillAssumption DEF PartId, PartType, AllocationIds, LedgerIds

\* Every component of the state a part changes stays well typed.
LEMMA PartStepType ==
  ASSUME NEW row \in Rows, NEW part \in PartType, NEW h \in HeldType,
         NEW p, PositionDict(p), PartFits(h, row, part),
         NEW f, IsDict(f, LedgerIds, EntryType),
         NEW a, IsDict(a, AllocationIds, Nat \ {0})
  PROVE  /\ PartHeld(h, row, part) \in HeldType
         /\ PositionDict(PartPositions(p, h, row, part))
         /\ IsDict(PartFills(f, row, part), LedgerIds, EntryType)
         /\ IsDict(PartAllocations(a, row, part), AllocationIds, Nat \ {0})
<1>1. CASE IsLive(row, part)
  <2>1. part.sleeve \in Sleeves /\ part.quantity \in Nat \ {0}
    BY <1>1 DEF PartType, IsLive
  <2>2. CanApply(h, part.sleeve, row, part.quantity)
    BY <1>1 DEF PartFits
  <2>3. HeldAfter(h, part.sleeve, row, part.quantity) \in HeldType
    BY <2>1, <2>2, HeldAfterType
  <2>4. PositionDict(PositionsAfter(p, h, part.sleeve, row, part.quantity))
    BY <2>1, <2>2, PositionsAfterType
  <2>5. Entry(part.sleeve, row, part.quantity) \in EntryType
    BY <2>1, EntryTypeOK
  <2>6. IsDict(Put(f, PartId(row, part), Entry(part.sleeve, row, part.quantity)),
               LedgerIds, EntryType)
    BY <2>5, PartIdType, PutIsDict
  <2>7. IsDict(Put(a, PartId(row, part), part.quantity), AllocationIds, Nat \ {0})
    BY <2>1, PartIdType, PutIsDict
  <2> QED
    BY <1>1, <2>3, <2>4, <2>6, <2>7
    DEF PartHeld, PartPositions, PartFills, PartAllocations
<1>2. CASE ~IsLive(row, part)
  BY <1>2 DEF PartHeld, PartPositions, PartFills, PartAllocations
<1> QED BY <1>1, <1>2

-------------------------------------------------------------------------------
(* Types. *)

\* Applying a fill whose id is new keeps the ledgers well typed.
LEMMA ApplyNewFillType ==
  ASSUME LedgerTypeOK, NEW row \in Rows, NEW s \in Sleeves \cup {NoSleeve},
         NEW own, NEW ix, IsDict(own, OrderKeys, OwnerType),
         ApplyNewFill(row, s, own, ix)
  PROVE  /\ known' \subseteq Sleeves
         /\ held' \in HeldType
         /\ PositionDict(positions')
         /\ IsDict(owner', OrderKeys, OwnerType)
         /\ IsDict(fills', LedgerIds, EntryType)
<1> DEFINE target == TargetSleeve(row, s, own, ix)
<1>1. target \in Sleeves
  BY TargetType
<1>2. held \in HeldType /\ PositionDict(positions)
  BY DEF LedgerTypeOK, HeldType, PositionDict
<1>3. row.quantity \in Nat \ {0} /\ row.id \in LedgerIds
  BY RowType DEF LedgerIds
<1>4. Entry(target, row, row.quantity) \in EntryType
  BY <1>1, <1>3, EntryTypeOK
<1>5. CanApply(held, target, row, row.quantity)
  BY DEF ApplyNewFill
<1> HIDE DEF target
<1>6. IsDict(Put(fills, row.id, Entry(target, row, row.quantity)), LedgerIds, EntryType)
  BY <1>3, <1>4, PutIsDict DEF LedgerTypeOK
<1>7. held' \in HeldType
  BY <1>1, <1>2, <1>3, <1>5, HeldAfterType DEF ApplyNewFill, target
<1>8. PositionDict(positions')
  BY <1>1, <1>2, <1>3, <1>5, PositionsAfterType DEF ApplyNewFill, target
<1>9. IsDict(owner', OrderKeys, OwnerType)
  BY OwnerAfterFillType DEF ApplyNewFill
<1> QED
  BY <1>1, <1>6, <1>7, <1>8, <1>9 DEF ApplyNewFill, target, LedgerTypeOK

\* Every operation of the store keeps the ledgers well typed.
LEMMA LedgerTypeStep ==
  ASSUME LedgerTypeOK, [Next]_vars
  PROVE  LedgerTypeOK'
<1> USE DEF LedgerTypeOK
<1>1. ASSUME NEW s \in Sleeves, CurrentPortfolio(s)
      PROVE  LedgerTypeOK'
  BY <1>1 DEF CurrentPortfolio, orderVars, ledgerVars
<1>2. ASSUME NEW s \in Sleeves, NEW y \in Symbols, NEW price \in Marks,
             UpdatePositionMark(s, y, price)
      PROVE  LedgerTypeOK'
  <2> DEFINE old == positions[<<s, y>>]
             new == [quantity |-> old.quantity, high |-> Larger(old.high, price),
                     last |-> price]
  <2>1. <<s, y>> \in DOMAIN positions /\ old \in PositionType
    BY <1>2 DEF UpdatePositionMark, IsDict
  <2>2. new \in PositionType
    BY <2>1, BoundAssumption DEF PositionType, Larger
  <2>3. positions' = [positions EXCEPT ![<<s, y>>] = new]
    BY <1>2 DEF UpdatePositionMark
  <2> HIDE DEF new
  <2>4. IsDict(positions', Sleeves \X Symbols, PositionType)
    BY <2>1, <2>2, <2>3 DEF IsDict
  <2> QED BY <1>2, <2>4 DEF UpdatePositionMark, orderVars, ledgerVars
<1>3. ASSUME NEW s \in Sleeves, NEW c \in Currencies, NEW amount \in Nat,
             NEW o \in Overwrites, InitializeSleeve(s, c, amount, o)
      PROVE  LedgerTypeOK'
  <2>1. held' \in [Sleeves -> [Symbols -> Nat]]
    BY <1>3 DEF InitializeSleeve
  <2> QED BY <1>3, <2>1 DEF InitializeSleeve, orderVars, ledgerVars
<1>4. ASSUME NEW from \in Sleeves, NEW to \in Sleeves, NEW c \in Currencies,
             NEW amount \in Amounts, TransferCash(from, to, c, amount)
      PROVE  LedgerTypeOK'
  BY <1>4 DEF TransferCash, orderVars, ledgerVars
<1>5. ASSUME NEW c \in Currencies, NEW balance \in Balances, SyncAccountCash(c, balance)
      PROVE  LedgerTypeOK'
  BY <1>5, SleeveAssumption DEF SyncAccountCash, orderVars, ledgerVars
<1>6. ASSUME NEW o \in Orders, NEW b \in BrokerIds \cup {NoBroker}, RegisterOrder(o, b)
      PROVE  LedgerTypeOK'
  <2>1. SleeveOf[o] \in Sleeves /\ AliasSet(b) \subseteq BrokerIds /\ o \in OrderKeys
    BY SleeveAssumption, BrokerIdAssumption DEF AliasSet, OrderKeys
  <2>2. IsDict(owner', OrderKeys, OwnerType)
    <3> [sleeve |-> SleeveOf[o], broker |-> b] \in OwnerType
      BY <2>1 DEF OwnerType
    <3> QED BY <1>6, <2>1, PutIsDict DEF RegisterOrder
  <2>3. IsDict(index', BrokerIds, OrderKeys)
    BY <1>6, <2>1 DEF RegisterOrder, IndexWith, IsDict
  <2> QED BY <1>6, <2>1, <2>2, <2>3 DEF RegisterOrder, ledgerVars
<1>7. ASSUME NEW o \in Orders, NEW b \in BrokerIds \cup {NoBroker},
             AcknowledgeOrderEvent(o, b)
      PROVE  LedgerTypeOK'
  BY <1>7, BoundType, SleeveAssumption DEF AcknowledgeOrderEvent, ledgerVars
<1>8. ASSUME NEW o \in Orders, NEW b \in BrokerIds, BindBrokerOrder(o, b)
      PROVE  LedgerTypeOK'
  BY <1>8, BoundType DEF BindBrokerOrder, ledgerVars
<1>9. ASSUME NEW row \in Rows, NEW s \in Sleeves \cup {NoSleeve}, ApplyFill(row, s)
      PROVE  LedgerTypeOK'
  BY <1>9, ApplyNewFillType DEF ApplyFill, HeldType, PositionDict
<1>10. ASSUME NEW row \in EventRows, ApplyOrderEvent(row)
       PROVE  LedgerTypeOK'
  <2> DEFINE own == OwnerBound(row.order, row.broker)
             ix  == IndexBound(row.order, row.broker)
  <2>1. row \in Rows /\ row.order \in Orders /\ SleeveOf[row.order] \in Sleeves
    BY FillAssumption, SleeveAssumption
  <2>2. /\ IsDict(own, OrderKeys, OwnerType)
        /\ IsDict(ix, BrokerIds, OrderKeys)
    BY <2>1, RowType, BoundType
  <2> HIDE DEF own, ix
  <2>3. CASE ApplyNewFill(row, SleeveOf[row.order], own, ix)
    BY <1>10, <2>1, <2>2, <2>3, ApplyNewFillType
    DEF ApplyOrderEvent, HeldType, PositionDict, own, ix
  <2>4. CASE owner' = own /\ UNCHANGED <<known, cash, held, positions, fills>>
    BY <1>10, <2>2, <2>4 DEF ApplyOrderEvent, own, ix
  <2> QED BY <1>10, <2>3, <2>4 DEF ApplyOrderEvent, own, ix
<1>11. ASSUME NEW row \in Rows, RecordBrokerFill(row)
       PROVE  LedgerTypeOK'
  BY <1>11, RowType, PutIsDict DEF RecordBrokerFill, orderVars
<1>12. ASSUME NEW f \in FillIds, IgnoreBrokerFill(f)
       PROVE  LedgerTypeOK'
  BY <1>12 DEF IgnoreBrokerFill, orderVars
<1>13. ASSUME NEW row \in Rows, NEW p1 \in PartType, NEW p2 \in PartType,
              AllocateFill(row, p1, p2)
       PROVE  LedgerTypeOK'
  <2>1. held \in HeldType /\ PositionDict(positions)
    BY DEF HeldType, PositionDict
  <2>2. /\ PartHeld(held, row, p1) \in HeldType
        /\ PositionDict(PartPositions(positions, held, row, p1))
        /\ IsDict(PartFills(fills, row, p1), LedgerIds, EntryType)
        /\ IsDict(PartAllocations(allocations, row, p1), AllocationIds, Nat \ {0})
    BY <1>13, <2>1, PartStepType DEF AllocateFill
  <2>3. /\ held' \in HeldType
        /\ PositionDict(positions')
        /\ IsDict(fills', LedgerIds, EntryType)
        /\ IsDict(allocations', AllocationIds, Nat \ {0})
    <3>1. PartFits(PartHeld(held, row, p1), row, p2)
      BY <1>13 DEF AllocateFill
    <3> QED BY <1>13, <2>2, <3>1, PartStepType DEF AllocateFill
  <2>4. known' \subseteq Sleeves
    BY <1>13 DEF AllocateFill, LiveParts, PartType
  <2> QED BY <1>13, <2>3, <2>4 DEF AllocateFill, HeldType, PositionDict, orderVars
<1>14. CASE UNCHANGED vars
  BY <1>14 DEF vars
<1>15. \A row \in Rows : /\ \A p \in Part(1, 1 .. row.quantity) : p \in PartType
                         /\ \A p \in Part(2, 0 .. row.quantity) : p \in PartType
  BY RowType, PartsAreParts DEF Slots
<1> QED
  BY <1>1, <1>2, <1>3, <1>4, <1>5, <1>6, <1>7, <1>8, <1>9, <1>10, <1>11, <1>12,
     <1>13, <1>14, <1>15, OpeningType
  DEF Next

\* Every reachable state has well-typed ledgers, ownership and holdings; in
\* particular no sleeve ever holds a negative number of shares.
THEOREM LedgerTypeCorrect == Spec => []LedgerTypeOK
<1>1. Init => LedgerTypeOK
  BY EmptyIsDict DEF Init, LedgerTypeOK
<1>2. LedgerTypeOK /\ [Next]_vars => LedgerTypeOK'
  BY LedgerTypeStep
<1> QED BY <1>1, <1>2, PTL DEF Spec

-------------------------------------------------------------------------------
(* The ledgers. *)

LedgerInv == AllocationsPosted /\ IgnoredNeverAllocated /\ IndexOwned

\* What the ledger of fills gains from a part.
LEMMA PartFillsEntries ==
  ASSUME NEW row, NEW part, NEW f
  PROVE  /\ DOMAIN PartFills(f, row, part)
              = DOMAIN f \cup (IF IsLive(row, part) THEN {PartId(row, part)} ELSE {})
         /\ \A i \in DOMAIN f : i # PartId(row, part) => PartFills(f, row, part)[i] = f[i]
         /\ IsLive(row, part) => PartFills(f, row, part)[PartId(row, part)]
                                   = Entry(part.sleeve, row, part.quantity)
<1>1. CASE IsLive(row, part)
  <2>1. PartFills(f, row, part)
          = Put(f, PartId(row, part), Entry(part.sleeve, row, part.quantity))
    BY <1>1 DEF PartFills
  <2> QED BY <1>1, <2>1 DEF Put
<1>2. CASE ~IsLive(row, part)
  BY <1>2 DEF PartFills
<1> QED BY <1>1, <1>2

\* What the ledger of allocations gains from a part.
LEMMA PartAllocationsEntries ==
  ASSUME NEW row, NEW part, NEW a
  PROVE  /\ DOMAIN PartAllocations(a, row, part)
              = DOMAIN a \cup (IF IsLive(row, part) THEN {PartId(row, part)} ELSE {})
         /\ \A i \in DOMAIN a :
              i # PartId(row, part) => PartAllocations(a, row, part)[i] = a[i]
         /\ IsLive(row, part) =>
              PartAllocations(a, row, part)[PartId(row, part)] = part.quantity
<1>1. CASE IsLive(row, part)
  <2>1. PartAllocations(a, row, part) = Put(a, PartId(row, part), part.quantity)
    BY <1>1 DEF PartAllocations
  <2> QED BY <1>1, <2>1 DEF Put
<1>2. CASE ~IsLive(row, part)
  BY <1>2 DEF PartAllocations
<1> QED BY <1>1, <1>2

\* A dictionary that gains an entry under a new key extends the old one.
LEMMA PutExtends ==
  ASSUME NEW f, NEW k, NEW v, k \notin DOMAIN f
  PROVE  Extends(f, Put(f, k, v))
BY DEF Extends, Put

\* An allocation call appends its live parts, under ids nothing had, to the
\* ledgers of fills and of allocations.
LEMMA AllocationAppends ==
  ASSUME LedgerTypeOK, LedgerInv, NEW row \in Rows,
         NEW p1 \in PartType, NEW p2 \in PartType, p1.slot # p2.slot,
         AllocateFill(row, p1, p2)
  PROVE  /\ Extends(fills, fills')
         /\ Extends(allocations, allocations')
         /\ AllocationsPosted'
         /\ IgnoredNeverAllocated'
<1> DEFINE i1 == PartId(row, p1)
           i2 == PartId(row, p2)
           new == {i \in {i1, i2} : \/ i = i1 /\ IsLive(row, p1)
                                    \/ i = i2 /\ IsLive(row, p2)}
<1>1. i1 # i2 /\ i1 \notin FillIds /\ i2 \notin FillIds
  BY PartIdType DEF PartId
<1>2. /\ i1[1] = row.id /\ i2[1] = row.id
      /\ i1[3] = p1.sleeve /\ i2[3] = p2.sleeve
  BY PartIdType
<1>3. /\ IsLive(row, p1) => i1 \notin DOMAIN allocations /\ i1 \notin DOMAIN fills
      /\ IsLive(row, p2) => i2 \notin DOMAIN allocations /\ i2 \notin DOMAIN fills
  BY <1>1 DEF LedgerInv, AllocationsPosted, IsLive
<1>4. /\ fills' = PartFills(PartFills(fills, row, p1), row, p2)
      /\ allocations' = PartAllocations(PartAllocations(allocations, row, p1), row, p2)
      /\ UNCHANGED <<brokerFills, ignored>>
      /\ row.id \in DOMAIN brokerFills
      /\ row.id \notin ignored
  BY DEF AllocateFill
<1> HIDE DEF i1, i2
<1>5. /\ DOMAIN fills' = DOMAIN fills \cup new
      /\ \A i \in DOMAIN fills : fills'[i] = fills[i]
      /\ IsLive(row, p1) => fills'[i1] = Entry(p1.sleeve, row, p1.quantity)
      /\ IsLive(row, p2) => fills'[i2] = Entry(p2.sleeve, row, p2.quantity)
  <2>1. /\ DOMAIN fills' = DOMAIN PartFills(fills, row, p1)
                             \cup (IF IsLive(row, p2) THEN {i2} ELSE {})
        /\ \A i \in DOMAIN PartFills(fills, row, p1) :
             i # i2 => fills'[i] = PartFills(fills, row, p1)[i]
        /\ IsLive(row, p2) => fills'[i2] = Entry(p2.sleeve, row, p2.quantity)
    <3> DEFINE f == PartFills(fills, row, p1)
    <3>1. fills' = PartFills(f, row, p2)
      BY <1>4
    <3> HIDE DEF f
    <3>2. fills' = IF IsLive(row, p2) THEN Put(f, i2, Entry(p2.sleeve, row, p2.quantity))
                                      ELSE f
      BY <3>1 DEF PartFills, i2
    <3>3. QED BY <3>2 DEF Put, f
  <2>2. /\ DOMAIN PartFills(fills, row, p1)
             = DOMAIN fills \cup (IF IsLive(row, p1) THEN {i1} ELSE {})
        /\ \A i \in DOMAIN fills : i # i1 => PartFills(fills, row, p1)[i] = fills[i]
        /\ IsLive(row, p1) =>
             PartFills(fills, row, p1)[i1] = Entry(p1.sleeve, row, p1.quantity)
    BY PartFillsEntries DEF i1
  <2>3. /\ ~IsLive(row, p1) => PartFills(fills, row, p1) = fills
        /\ ~IsLive(row, p2) => fills' = PartFills(fills, row, p1)
    BY <1>4 DEF PartFills
  <2>4. DOMAIN fills' = DOMAIN fills \cup new
    BY <2>1, <2>2, <1>1
  <2>5. \A i \in DOMAIN fills : fills'[i] = fills[i]
    BY <1>3, <2>1, <2>2, <2>3
  <2>6. IsLive(row, p1) => fills'[i1] = Entry(p1.sleeve, row, p1.quantity)
    BY <1>1, <2>1, <2>2
  <2> QED BY <2>1, <2>4, <2>5, <2>6
<1>6. /\ DOMAIN allocations' = DOMAIN allocations \cup new
      /\ \A i \in DOMAIN allocations : allocations'[i] = allocations[i]
      /\ IsLive(row, p1) => allocations'[i1] = p1.quantity
      /\ IsLive(row, p2) => allocations'[i2] = p2.quantity
  <2>1. /\ DOMAIN allocations' = DOMAIN PartAllocations(allocations, row, p1)
                                   \cup (IF IsLive(row, p2) THEN {i2} ELSE {})
        /\ \A i \in DOMAIN PartAllocations(allocations, row, p1) :
             i # i2 => allocations'[i] = PartAllocations(allocations, row, p1)[i]
        /\ IsLive(row, p2) => allocations'[i2] = p2.quantity
    <3> DEFINE a == PartAllocations(allocations, row, p1)
    <3>1. allocations' = PartAllocations(a, row, p2)
      BY <1>4
    <3> HIDE DEF a
    <3>2. allocations' = IF IsLive(row, p2) THEN Put(a, i2, p2.quantity) ELSE a
      BY <3>1 DEF PartAllocations, i2
    <3>3. QED BY <3>2 DEF Put, a
  <2>2. /\ DOMAIN PartAllocations(allocations, row, p1)
             = DOMAIN allocations \cup (IF IsLive(row, p1) THEN {i1} ELSE {})
        /\ \A i \in DOMAIN allocations :
             i # i1 => PartAllocations(allocations, row, p1)[i] = allocations[i]
        /\ IsLive(row, p1) => PartAllocations(allocations, row, p1)[i1] = p1.quantity
    BY PartAllocationsEntries DEF i1
  <2>3. /\ ~IsLive(row, p1) => PartAllocations(allocations, row, p1) = allocations
        /\ ~IsLive(row, p2) => allocations' = PartAllocations(allocations, row, p1)
    BY <1>4 DEF PartAllocations
  <2>4. DOMAIN allocations' = DOMAIN allocations \cup new
    BY <2>1, <2>2, <1>1
  <2>5. \A i \in DOMAIN allocations : allocations'[i] = allocations[i]
    BY <1>3, <2>1, <2>2, <2>3
  <2>6. IsLive(row, p1) => allocations'[i1] = p1.quantity
    BY <1>1, <2>1, <2>2
  <2> QED BY <2>1, <2>4, <2>5, <2>6
<1>7. Extends(fills, fills') /\ Extends(allocations, allocations')
  BY <1>5, <1>6 DEF Extends
<1>8. ASSUME NEW a \in DOMAIN allocations'
      PROVE  /\ a[1] \in DOMAIN brokerFills'
             /\ a \in DOMAIN fills'
             /\ fills'[a].sleeve = a[3]
             /\ fills'[a].quantity = allocations'[a]
             /\ a[1] \notin ignored'
  <2>1. CASE a \in DOMAIN allocations
    BY <1>4, <1>5, <1>6, <2>1 DEF LedgerInv, AllocationsPosted, IgnoredNeverAllocated
  <2>2. CASE a = i1 /\ IsLive(row, p1)
    BY <1>2, <1>4, <1>5, <1>6, <2>2 DEF Entry
  <2>3. CASE a = i2 /\ IsLive(row, p2)
    BY <1>2, <1>4, <1>5, <1>6, <2>3 DEF Entry
  <2> QED BY <1>6, <2>1, <2>2, <2>3
<1>9. DOMAIN fills' \ FillIds \subseteq DOMAIN allocations'
  BY <1>5, <1>6 DEF LedgerInv, AllocationsPosted
<1> QED BY <1>7, <1>8, <1>9 DEF AllocationsPosted, IgnoredNeverAllocated

\* Binding an id points the index at an owned order only, and owns nothing new.
LEMMA BoundOwned ==
  ASSUME IndexOwned, NEW o, NEW b
  PROVE  /\ DOMAIN OwnerBound(o, b) = DOMAIN owner
         /\ \A a \in DOMAIN IndexBound(o, b) : IndexBound(o, b)[a] \in DOMAIN owner
BY DEF IndexOwned, OwnerBound, IndexBound, IndexWith

\* A fill that is new is appended to the ledger under its own id.
LEMMA NewFillAppends ==
  ASSUME LedgerInv, NEW row \in Rows, row.id \notin DOMAIN fills,
         NEW s, NEW own, NEW ix, DOMAIN own = DOMAIN owner,
         ApplyNewFill(row, s, own, ix), UNCHANGED <<brokerFills, allocations, ignored>>
  PROVE  /\ Extends(fills, fills')
         /\ AllocationsPosted'
         /\ IgnoredNeverAllocated'
         /\ DOMAIN owner \subseteq DOMAIN owner'
<1> DEFINE e == Entry(TargetSleeve(row, s, own, ix), row, row.quantity)
<1>1. fills' = Put(fills, row.id, e) /\ row.id \in FillIds
  BY RowType DEF ApplyNewFill
<1> HIDE DEF e
<1>2. /\ Extends(fills, fills')
      /\ DOMAIN fills' = DOMAIN fills \cup {row.id}
  BY <1>1 DEF Extends, Put
<1>3. AllocationsPosted'
  BY <1>1, <1>2 DEF LedgerInv, AllocationsPosted, Extends
<1>4. DOMAIN own \subseteq DOMAIN owner'
  BY DEF ApplyNewFill, OwnerAfterFill, Put
<1> QED BY <1>2, <1>3, <1>4 DEF LedgerInv, IgnoredNeverAllocated

\* A dictionary extends itself.
LEMMA ExtendsRefl == ASSUME NEW f PROVE Extends(f, f)
BY DEF Extends

\* What a step does to the ledgers.
Appends ==
  /\ Extends(fills, fills')
  /\ Extends(brokerFills, brokerFills')
  /\ Extends(allocations, allocations')
  /\ ignored \subseteq ignored'

\* A step that leaves the ledgers and the ownership alone.
LEMMA LedgersKept ==
  ASSUME LedgerInv, UNCHANGED <<orderVars, ledgerVars>>
  PROVE  LedgerInv' /\ Appends
<1>1. UNCHANGED <<owner, index, fills, brokerFills, allocations, ignored>>
  BY DEF orderVars, ledgerVars
<1> QED
  BY <1>1, ExtendsRefl
  DEF LedgerInv, AllocationsPosted, IgnoredNeverAllocated, IndexOwned, Appends

\* Every operation keeps the ledgers consistent and only appends to them.
LEMMA LedgerStep ==
  ASSUME LedgerTypeOK, LedgerInv, [Next]_vars
  PROVE  LedgerInv' /\ Appends
<1>1. ASSUME NEW s \in Sleeves, CurrentPortfolio(s)
      PROVE  LedgerInv' /\ Appends
  BY <1>1, LedgersKept DEF CurrentPortfolio
<1>2. ASSUME NEW s \in Sleeves, NEW y \in Symbols, NEW price \in Marks,
             UpdatePositionMark(s, y, price)
      PROVE  LedgerInv' /\ Appends
  BY <1>2, LedgersKept DEF UpdatePositionMark
<1>3. ASSUME NEW s \in Sleeves, NEW c \in Currencies, NEW amount \in Nat,
             NEW o \in Overwrites, InitializeSleeve(s, c, amount, o)
      PROVE  LedgerInv' /\ Appends
  BY <1>3, LedgersKept DEF InitializeSleeve
<1>4. ASSUME NEW from \in Sleeves, NEW to \in Sleeves, NEW c \in Currencies,
             NEW amount \in Amounts, TransferCash(from, to, c, amount)
      PROVE  LedgerInv' /\ Appends
  BY <1>4, LedgersKept DEF TransferCash
<1>5. ASSUME NEW c \in Currencies, NEW balance \in Balances, SyncAccountCash(c, balance)
      PROVE  LedgerInv' /\ Appends
  BY <1>5, LedgersKept DEF SyncAccountCash
<1>6. ASSUME NEW o \in Orders, NEW b \in BrokerIds \cup {NoBroker}, RegisterOrder(o, b)
      PROVE  LedgerInv' /\ Appends
  <2>1. UNCHANGED <<fills, brokerFills, allocations, ignored>>
    BY <1>6 DEF RegisterOrder, ledgerVars
  <2>2. IndexOwned'
    BY <1>6 DEF RegisterOrder, IndexWith, Put, LedgerInv, IndexOwned
  <2> QED BY <2>1, <2>2, ExtendsRefl
          DEF LedgerInv, AllocationsPosted, IgnoredNeverAllocated, Appends
<1>7. ASSUME NEW o \in Orders, NEW b \in BrokerIds \cup {NoBroker},
             UNCHANGED ledgerVars,
             owner' = OwnerBound(o, b), index' = IndexBound(o, b)
      PROVE  LedgerInv' /\ Appends
  <2>1. UNCHANGED <<fills, brokerFills, allocations, ignored>>
    BY <1>7 DEF ledgerVars
  <2>2. IndexOwned'
    BY <1>7, BoundOwned DEF LedgerInv, IndexOwned
  <2> QED BY <2>1, <2>2, ExtendsRefl
          DEF LedgerInv, AllocationsPosted, IgnoredNeverAllocated, Appends
<1>8. ASSUME NEW row \in Rows, NEW s \in Sleeves \cup {NoSleeve}, ApplyFill(row, s)
      PROVE  LedgerInv' /\ Appends
  <2>1. /\ Extends(fills, fills')
        /\ AllocationsPosted' /\ IgnoredNeverAllocated'
        /\ DOMAIN owner \subseteq DOMAIN owner'
    BY <1>8, NewFillAppends DEF ApplyFill
  <2>2. IndexOwned'
    BY <1>8, <2>1 DEF ApplyFill, LedgerInv, IndexOwned
  <2> QED BY <1>8, <2>1, <2>2, ExtendsRefl DEF ApplyFill, LedgerInv, Appends
<1>9. ASSUME NEW row \in EventRows, ApplyOrderEvent(row)
      PROVE  LedgerInv' /\ Appends
  <2> DEFINE own == OwnerBound(row.order, row.broker)
             ix  == IndexBound(row.order, row.broker)
             s   == SleeveOf[row.order]
  <2>1. row \in Rows
    BY FillAssumption
  <2>2. /\ DOMAIN own = DOMAIN owner
        /\ \A a \in DOMAIN ix : ix[a] \in DOMAIN owner
    BY BoundOwned DEF LedgerInv
  <2>3. index' = ix /\ UNCHANGED <<brokerFills, allocations, ignored>>
    BY <1>9 DEF ApplyOrderEvent
  <2>4. \/ owner' = own /\ UNCHANGED fills
        \/ row.id \notin DOMAIN fills /\ ApplyNewFill(row, s, own, ix)
    BY <1>9 DEF ApplyOrderEvent
  <2> HIDE DEF own, ix, s
  <2>5. CASE owner' = own /\ UNCHANGED fills
    BY <2>2, <2>3, <2>5, ExtendsRefl
    DEF LedgerInv, AllocationsPosted, IgnoredNeverAllocated, IndexOwned, Appends
  <2>6. CASE row.id \notin DOMAIN fills /\ ApplyNewFill(row, s, own, ix)
    <3>1. /\ Extends(fills, fills')
          /\ AllocationsPosted' /\ IgnoredNeverAllocated'
          /\ DOMAIN owner \subseteq DOMAIN owner'
      BY <2>1, <2>2, <2>3, <2>6, NewFillAppends
    <3>2. IndexOwned'
      BY <2>2, <2>3, <3>1 DEF IndexOwned
    <3> QED BY <2>3, <3>1, <3>2, ExtendsRefl DEF LedgerInv, Appends
  <2> QED BY <2>4, <2>5, <2>6
<1>10. ASSUME NEW row \in Rows, RecordBrokerFill(row)
       PROVE  LedgerInv' /\ Appends
  <2>1. /\ brokerFills' = Put(brokerFills, row.id, row)
        /\ row.id \notin DOMAIN brokerFills
        /\ UNCHANGED <<owner, index, fills, allocations, ignored>>
    BY <1>10 DEF RecordBrokerFill, orderVars
  <2>2. Extends(brokerFills, brokerFills')
    BY <2>1, PutExtends
  <2> QED BY <2>1, <2>2, ExtendsRefl
          DEF LedgerInv, AllocationsPosted, IgnoredNeverAllocated, IndexOwned,
              Appends, Extends
<1>11. ASSUME NEW f \in FillIds, IgnoreBrokerFill(f)
       PROVE  LedgerInv' /\ Appends
  BY <1>11, ExtendsRefl
  DEF IgnoreBrokerFill, orderVars, LedgerInv, AllocationsPosted,
      IgnoredNeverAllocated, IndexOwned, Appends
<1>12. ASSUME NEW row \in Rows, NEW p1 \in PartType, NEW p2 \in PartType,
              p1.slot # p2.slot, AllocateFill(row, p1, p2)
       PROVE  LedgerInv' /\ Appends
  <2>1. UNCHANGED <<owner, index, brokerFills, ignored>>
    BY <1>12 DEF AllocateFill, orderVars
  <2>2. /\ Extends(fills, fills') /\ Extends(allocations, allocations')
        /\ AllocationsPosted' /\ IgnoredNeverAllocated'
    BY <1>12, AllocationAppends
  <2> QED BY <2>1, <2>2, ExtendsRefl DEF LedgerInv, IndexOwned, Appends
<1>13. CASE UNCHANGED vars
  BY <1>13, LedgersKept DEF vars, orderVars, ledgerVars
<1>14. \A row \in Rows :
         \A p1 \in Part(1, 1 .. row.quantity), p2 \in Part(2, 0 .. row.quantity) :
           p1 \in PartType /\ p2 \in PartType /\ p1.slot # p2.slot
  BY RowType DEF Part, PartType, Slots
<1>15. ASSUME NEW o \in Orders, NEW b \in BrokerIds \cup {NoBroker},
              AcknowledgeOrderEvent(o, b)
       PROVE  LedgerInv' /\ Appends
  BY <1>7, <1>15 DEF AcknowledgeOrderEvent
<1>16. ASSUME NEW o \in Orders, NEW b \in BrokerIds, BindBrokerOrder(o, b)
       PROVE  LedgerInv' /\ Appends
  BY <1>7, <1>16 DEF BindBrokerOrder
<1> QED
  BY <1>1, <1>2, <1>3, <1>4, <1>5, <1>6, <1>8, <1>9, <1>10, <1>11, <1>12, <1>13,
     <1>14, <1>15, <1>16, OpeningType
  DEF Next

\* Every reachable state has consistent ledgers: each allocation has its posted
\* entry for its own sleeve and quantity, an ignored raw fill is never
\* allocated, and an indexed broker order id leads to an owned order.
THEOREM LedgersConsistent ==
  Spec => [](AllocationsPosted /\ IgnoredNeverAllocated /\ IndexOwned)
<1>1. Init => LedgerTypeOK /\ LedgerInv
  BY EmptyIsDict
  DEF Init, LedgerTypeOK, LedgerInv, AllocationsPosted, IgnoredNeverAllocated,
      IndexOwned, EmptyDict
<1>2. LedgerTypeOK /\ LedgerInv /\ [Next]_vars => LedgerTypeOK' /\ LedgerInv'
  BY LedgerTypeStep, LedgerStep
<1>3. LedgerInv => AllocationsPosted /\ IgnoredNeverAllocated /\ IndexOwned
  BY DEF LedgerInv
<1> QED BY <1>1, <1>2, <1>3, PTL DEF Spec

\* No operation changes or removes what a ledger holds.
THEOREM AppendOnly == Spec => LedgersAppendOnly
<1>1. Init => LedgerTypeOK /\ LedgerInv
  BY EmptyIsDict
  DEF Init, LedgerTypeOK, LedgerInv, AllocationsPosted, IgnoredNeverAllocated,
      IndexOwned, EmptyDict
<1>2. LedgerTypeOK /\ LedgerInv /\ [Next]_vars => LedgerTypeOK' /\ LedgerInv'
  BY LedgerTypeStep, LedgerStep
<1>3. LedgerTypeOK /\ LedgerInv /\ [Next]_vars =>
        [/\ Extends(fills, fills')
         /\ Extends(brokerFills, brokerFills')
         /\ Extends(allocations, allocations')
         /\ ignored \subseteq ignored']_vars
  BY LedgerStep DEF Appends
<1> QED BY <1>1, <1>2, <1>3, PTL DEF Spec, LedgersAppendOnly

-------------------------------------------------------------------------------
(* Positions.  They mirror the holdings as long as no sleeve is initialized  *)
(* a second time: initialize_sleeve's overwrite drops the holdings and keeps *)
(* the position states.                                                      *)

\* PositionMirrorsHolding for holdings h, positions p and known sleeves k.
Mirrors(h, p, k) ==
  \A s \in Sleeves, y \in Symbols :
    /\ h[s][y] > 0 => s \in k
    /\ <<s, y>> \in DOMAIN p <=> h[s][y] > 0
    /\ <<s, y>> \in DOMAIN p => /\ p[<<s, y>>].quantity = h[s][y]
                                /\ p[<<s, y>>].high >= p[<<s, y>>].last

\* A fill applied to a sleeve moves its holding and its position state alike.
LEMMA FillMirrors ==
  ASSUME NEW h \in HeldType, NEW p, PositionDict(p), NEW k, Mirrors(h, p, k),
         NEW s \in Sleeves, NEW row \in Rows, NEW q \in Nat \ {0},
         CanApply(h, s, row, q)
  PROVE  Mirrors(HeldAfter(h, s, row, q), PositionsAfter(p, h, s, row, q), k \cup {s})
<1> DEFINE key   == <<s, row.symbol>>
           h2    == HeldAfter(h, s, row, q)
           p2    == PositionsAfter(p, h, s, row, q)
           total == h2[s][row.symbol]
           open  == key \in DOMAIN p /\ h[s][row.symbol] > 0
           high  == IF open THEN Larger(p[key].high, row.price) ELSE row.price
           rec   == [quantity |-> total, high |-> high, last |-> row.price]
<1>1. row.symbol \in Symbols /\ row.price \in Nat
  BY RowType
<1>2. h2 \in HeldType
  BY HeldAfterType
<1>3. total \in Nat
  BY <1>1, <1>2 DEF HeldType
<1>4. high \in Nat /\ high >= row.price
  <2>1. key \in DOMAIN p => p[key].high \in Nat
    BY DEF PositionDict, IsDict, PositionType
  <2> QED BY <1>1, <2>1 DEF Larger
<1>5. p2 = IF total = 0 THEN Drop(p, key) ELSE Put(p, key, rec)
  BY DEF PositionsAfter
<1>6. \A t \in Sleeves, y \in Symbols : <<t, y>> # key => h2[t][y] = h[t][y]
  BY HeldAfterValue
<1>7. rec.quantity = total /\ rec.high = high /\ rec.last = row.price
  OBVIOUS
<1> HIDE DEF h2, p2, total, open, high, rec
<1>8. ASSUME NEW t \in Sleeves, NEW y \in Symbols, <<t, y>> = key
      PROVE  /\ h2[t][y] = total
             /\ <<t, y>> \in DOMAIN p2 <=> total > 0
             /\ total > 0 => p2[<<t, y>>] = rec
  <2>1. h2[t][y] = total
    BY <1>8 DEF total
  <2>2. CASE total = 0
    BY <1>5, <1>8, <2>1, <2>2 DEF Drop
  <2>3. CASE total > 0
    BY <1>5, <1>8, <2>1, <2>3 DEF Put
  <2> QED BY <1>3, <2>1, <2>2, <2>3
<1>9. ASSUME NEW t \in Sleeves, NEW y \in Symbols, <<t, y>> # key
      PROVE  /\ h2[t][y] = h[t][y]
             /\ <<t, y>> \in DOMAIN p2 <=> <<t, y>> \in DOMAIN p
             /\ <<t, y>> \in DOMAIN p => p2[<<t, y>>] = p[<<t, y>>]
  <2>1. h2[t][y] = h[t][y]
    BY <1>6, <1>9
  <2>2. CASE total = 0
    BY <1>5, <1>9, <2>1, <2>2 DEF Drop
  <2>3. CASE total # 0
    BY <1>5, <1>9, <2>1, <2>3 DEF Put
  <2> QED BY <2>1, <2>2, <2>3
<1>10. SUFFICES ASSUME NEW t \in Sleeves, NEW y \in Symbols
       PROVE  /\ h2[t][y] > 0 => t \in k \cup {s}
              /\ <<t, y>> \in DOMAIN p2 <=> h2[t][y] > 0
              /\ <<t, y>> \in DOMAIN p2 => /\ p2[<<t, y>>].quantity = h2[t][y]
                                           /\ p2[<<t, y>>].high >= p2[<<t, y>>].last
  BY DEF Mirrors, h2, p2
<1>11. CASE <<t, y>> = key
  BY <1>1, <1>3, <1>4, <1>7, <1>8, <1>11
<1>12. CASE <<t, y>> # key
  BY <1>9, <1>12 DEF Mirrors
<1> QED BY <1>11, <1>12

\* The same of one part of an allocation.
LEMMA PartMirrors ==
  ASSUME NEW row \in Rows, NEW part \in PartType, NEW h \in HeldType,
         NEW p, PositionDict(p), PartFits(h, row, part), NEW k, Mirrors(h, p, k)
  PROVE  Mirrors(PartHeld(h, row, part), PartPositions(p, h, row, part),
                 k \cup (IF IsLive(row, part) THEN {part.sleeve} ELSE {}))
<1>1. CASE IsLive(row, part)
  <2>1. part.sleeve \in Sleeves /\ part.quantity \in Nat \ {0}
    BY <1>1 DEF PartType, IsLive
  <2>2. CanApply(h, part.sleeve, row, part.quantity)
    BY <1>1 DEF PartFits
  <2> QED BY <1>1, <2>1, <2>2, FillMirrors DEF PartHeld, PartPositions
<1>2. CASE ~IsLive(row, part)
  <2>1. k \cup {} = k
    OBVIOUS
  <2> QED BY <1>2, <2>1 DEF PartHeld, PartPositions
<1> QED BY <1>1, <1>2

\* PositionMirrorsHolding is Mirrors of the current state.
LEMMA MirrorsState == PositionMirrorsHolding <=> Mirrors(held, positions, known)
BY DEF PositionMirrorsHolding, Mirrors

\* Known sleeves may be added without moving any holding.
LEMMA MirrorsMore ==
  ASSUME NEW h, NEW p, NEW k, NEW m, Mirrors(h, p, k), k \subseteq m
  PROVE  Mirrors(h, p, m)
BY DEF Mirrors

\* A fill that is new keeps positions and holdings alike.
LEMMA NewFillMirrors ==
  ASSUME LedgerTypeOK, PositionMirrorsHolding, NEW row \in Rows,
         NEW s \in Sleeves \cup {NoSleeve}, NEW own, NEW ix,
         IsDict(own, OrderKeys, OwnerType), ApplyNewFill(row, s, own, ix)
  PROVE  Mirrors(held', positions', known')
<1> DEFINE target == TargetSleeve(row, s, own, ix)
<1>1. target \in Sleeves /\ row.quantity \in Nat \ {0}
  BY TargetType, RowType
<1>2. held \in HeldType /\ PositionDict(positions) /\ Mirrors(held, positions, known)
  BY MirrorsState DEF LedgerTypeOK, HeldType, PositionDict
<1>3. /\ CanApply(held, target, row, row.quantity)
      /\ known' = known \cup {target}
      /\ held' = HeldAfter(held, target, row, row.quantity)
      /\ positions' = PositionsAfter(positions, held, target, row, row.quantity)
  BY DEF ApplyNewFill
<1> HIDE DEF target
<1> QED BY <1>1, <1>2, <1>3, FillMirrors

\* Every operation but a second initialization keeps them alike.
LEMMA PositionStep ==
  ASSUME Overwrites \subseteq {FALSE}, LedgerTypeOK, PositionMirrorsHolding,
         [Next]_vars
  PROVE  Mirrors(held', positions', known')
<1>0. Mirrors(held, positions, known) /\ held \in HeldType /\ PositionDict(positions)
  BY MirrorsState DEF LedgerTypeOK, HeldType, PositionDict
<1>1. ASSUME UNCHANGED <<held, positions>>, known \subseteq known'
      PROVE  Mirrors(held', positions', known')
  <2>1. held' = held /\ positions' = positions
    BY <1>1
  <2> QED BY <1>0, <1>1, <2>1, MirrorsMore
<1>2. ASSUME NEW s \in Sleeves, NEW y \in Symbols, NEW price \in Marks,
             UpdatePositionMark(s, y, price)
      PROVE  Mirrors(held', positions', known')
  <2> DEFINE key == <<s, y>>
             new == [quantity |-> positions[key].quantity,
                     high |-> Larger(positions[key].high, price), last |-> price]
  <2>1. /\ key \in DOMAIN positions
        /\ positions' = [positions EXCEPT ![key] = new]
        /\ held' = held /\ known' = known
    BY <1>2 DEF UpdatePositionMark
  <2>2. new.quantity = positions[key].quantity /\ new.high >= new.last
    <3>1. positions[key].high \in Nat
      BY <1>0, <2>1 DEF PositionDict, IsDict, PositionType
    <3> QED BY <3>1, BoundAssumption DEF Larger
  <2> HIDE DEF new
  <2> QED BY <1>0, <2>1, <2>2 DEF Mirrors
<1>3. ASSUME NEW s \in Sleeves, NEW c \in Currencies, NEW amount \in Nat,
             NEW o \in Overwrites, InitializeSleeve(s, c, amount, o)
      PROVE  Mirrors(held', positions', known')
  <2>1. s \notin known
    BY <1>3 DEF InitializeSleeve
  <2>2. \A y \in Symbols : held[s][y] = 0
    <3> SUFFICES ASSUME NEW y \in Symbols PROVE held[s][y] = 0
      OBVIOUS
    <3>1. held[s][y] \in Nat
      BY <1>0 DEF HeldType
    <3>2. ~(held[s][y] > 0)
      BY <2>1 DEF PositionMirrorsHolding
    <3> QED BY <3>1, <3>2
  <2>3. held' = held
    BY <1>0, <1>3, <2>2 DEF InitializeSleeve, HeldType
  <2> QED BY <1>1, <1>3, <2>3 DEF InitializeSleeve
<1>4. ASSUME NEW row \in Rows, NEW s \in Sleeves \cup {NoSleeve}, ApplyFill(row, s)
      PROVE  Mirrors(held', positions', known')
  BY <1>4, NewFillMirrors DEF ApplyFill, LedgerTypeOK
<1>5. ASSUME NEW row \in EventRows, ApplyOrderEvent(row)
      PROVE  Mirrors(held', positions', known')
  <2> DEFINE own == OwnerBound(row.order, row.broker)
             ix  == IndexBound(row.order, row.broker)
             s   == SleeveOf[row.order]
  <2>1. row \in Rows /\ s \in Sleeves /\ IsDict(own, OrderKeys, OwnerType)
    BY FillAssumption, SleeveAssumption, RowType, BoundType
  <2>2. \/ UNCHANGED <<known, held, positions>>
        \/ ApplyNewFill(row, s, own, ix)
    BY <1>5 DEF ApplyOrderEvent
  <2> HIDE DEF own, ix, s
  <2> QED BY <1>1, <2>1, <2>2, NewFillMirrors
<1>6. ASSUME NEW row \in Rows, NEW p1 \in PartType, NEW p2 \in PartType,
             AllocateFill(row, p1, p2)
      PROVE  Mirrors(held', positions', known')
  <2> DEFINE h1 == PartHeld(held, row, p1)
             q1 == PartPositions(positions, held, row, p1)
             k1 == known \cup (IF IsLive(row, p1) THEN {p1.sleeve} ELSE {})
             k2 == k1 \cup (IF IsLive(row, p2) THEN {p2.sleeve} ELSE {})
  <2>1. /\ PartFits(held, row, p1)
        /\ PartFits(h1, row, p2)
        /\ held' = PartHeld(h1, row, p2)
        /\ positions' = PartPositions(q1, h1, row, p2)
    BY <1>6 DEF AllocateFill
  <2>2. known' = k2
    BY <1>6 DEF AllocateFill, LiveParts
  <2>3. h1 \in HeldType /\ PositionDict(q1)
    BY <1>0, <2>1, PartStepType DEF LedgerTypeOK
  <2>4. Mirrors(h1, q1, k1)
    BY <1>0, <2>1, PartMirrors
  <2> HIDE DEF h1, q1, k1
  <2>5. Mirrors(held', positions', k2)
    BY <2>1, <2>3, <2>4, PartMirrors
  <2> QED BY <2>2, <2>5
<1>7. \A row \in Rows :
        \A p1 \in Part(1, 1 .. row.quantity), p2 \in Part(2, 0 .. row.quantity) :
          p1 \in PartType /\ p2 \in PartType
  BY RowType, PartsAreParts DEF Slots
<1>8. ASSUME NEW s \in Sleeves, CurrentPortfolio(s)
      PROVE  Mirrors(held', positions', known')
  BY <1>1, <1>8 DEF CurrentPortfolio
<1>9. ASSUME NEW from \in Sleeves, NEW to \in Sleeves, NEW c \in Currencies,
             NEW amount \in Amounts, TransferCash(from, to, c, amount)
      PROVE  Mirrors(held', positions', known')
  BY <1>1, <1>9 DEF TransferCash
<1>10. ASSUME NEW c \in Currencies, NEW balance \in Balances, SyncAccountCash(c, balance)
       PROVE  Mirrors(held', positions', known')
  BY <1>1, <1>10 DEF SyncAccountCash
<1>11. ASSUME NEW o \in Orders, NEW b \in BrokerIds \cup {NoBroker},
              RegisterOrder(o, b) \/ AcknowledgeOrderEvent(o, b) \/ BindBrokerOrder(o, b)
       PROVE  Mirrors(held', positions', known')
  BY <1>1, <1>11 DEF RegisterOrder, AcknowledgeOrderEvent, BindBrokerOrder
<1>12. ASSUME NEW row \in Rows, RecordBrokerFill(row)
       PROVE  Mirrors(held', positions', known')
  BY <1>1, <1>12 DEF RecordBrokerFill
<1>13. ASSUME NEW f \in FillIds, IgnoreBrokerFill(f)
       PROVE  Mirrors(held', positions', known')
  BY <1>1, <1>13 DEF IgnoreBrokerFill
<1>14. CASE UNCHANGED vars
  BY <1>1, <1>14 DEF vars
<1> QED
  BY <1>2, <1>3, <1>4, <1>5, <1>6, <1>7, <1>8, <1>9, <1>10, <1>11, <1>12, <1>13, <1>14, OpeningType
  DEF Next

\* The initial state has neither holdings nor positions.
LEMMA PositionInit == Init => PositionMirrorsHolding
BY DEF Init, PositionMirrorsHolding, EmptyDict

\* Without a second initialization of a sleeve, a position state exists exactly
\* for the shares a known sleeve holds, with a watermark not below its last price.
THEOREM PositionsCorrect ==
  ASSUME Overwrites \subseteq {FALSE}
  PROVE  Spec => []PositionMirrorsHolding
<1>1. Init => LedgerTypeOK /\ PositionMirrorsHolding
  BY EmptyIsDict, PositionInit DEF Init, LedgerTypeOK
<1>2. LedgerTypeOK /\ PositionMirrorsHolding /\ [Next]_vars
        => LedgerTypeOK' /\ PositionMirrorsHolding'
  BY LedgerTypeStep, PositionStep DEF PositionMirrorsHolding, Mirrors
<1> QED BY <1>1, <1>2, PTL DEF Spec

\* A watermark that is kept is not lowered; a purchase closes no position and a
\* sale opens none.
Raised(p, p2, side) ==
  /\ \A x \in DOMAIN p \cap DOMAIN p2 : p2[x].high >= p[x].high
  /\ side = "buy" => DOMAIN p \subseteq DOMAIN p2
  /\ side = "sell" => DOMAIN p2 \subseteq DOMAIN p

\* One fill lowers no watermark.
LEMMA FillRaises ==
  ASSUME NEW h \in HeldType, NEW p, PositionDict(p), NEW k, Mirrors(h, p, k),
         NEW s \in Sleeves, NEW row \in Rows, NEW q \in Nat \ {0},
         CanApply(h, s, row, q)
  PROVE  Raised(p, PositionsAfter(p, h, s, row, q), row.side)
<1> DEFINE key   == <<s, row.symbol>>
           had   == h[s][row.symbol]
           total == HeldAfter(h, s, row, q)[s][row.symbol]
           open  == key \in DOMAIN p /\ had > 0
           high  == IF open THEN Larger(p[key].high, row.price) ELSE row.price
           rec   == [quantity |-> total, high |-> high, last |-> row.price]
           p2    == PositionsAfter(p, h, s, row, q)
<1>1. /\ row.symbol \in Symbols /\ row.price \in Nat /\ row.side \in Sides
      /\ had \in Nat
  BY RowType DEF HeldType
<1>2. /\ total = IF row.side = "buy" THEN had + q ELSE had - q
      /\ total \in Nat
  <2>1. total = IF row.side = "buy" THEN had + q ELSE had - q
    BY <1>1 DEF HeldAfter, HeldType
  <2> QED BY <1>1, <2>1 DEF CanApply, Sides
<1>3. p2 = IF total = 0 THEN Drop(p, key) ELSE Put(p, key, rec)
  BY DEF PositionsAfter
<1>4. key \in DOMAIN p <=> had > 0
  BY <1>1 DEF Mirrors
<1>5. key \in DOMAIN p => rec.high >= p[key].high
  <2>1. key \in DOMAIN p => p[key].high \in Nat
    BY DEF PositionDict, IsDict, PositionType
  <2> QED BY <1>1, <1>4, <2>1 DEF Larger
<1>6. \A x \in DOMAIN p : p[x].high \in Nat
  BY DEF PositionDict, IsDict, PositionType
<1> HIDE DEF key, had, total, rec, p2
<1>7. CASE total = 0
  <2>1. DOMAIN p2 = DOMAIN p \ {key} /\ \A x \in DOMAIN p2 : p2[x] = p[x]
    BY <1>3, <1>7 DEF Drop
  <2>2. row.side # "buy"
    BY <1>1, <1>2, <1>7
  <2> QED BY <1>6, <2>1, <2>2 DEF Raised, p2
<1>8. CASE total # 0
  <2>1. /\ DOMAIN p2 = DOMAIN p \cup {key} /\ p2[key] = rec
        /\ \A x \in DOMAIN p : x # key => p2[x] = p[x]
    BY <1>3, <1>8 DEF Put
  <2>2. row.side = "sell" => key \in DOMAIN p
    BY <1>1, <1>2, <1>4, <1>8
  <2>3. \A x \in DOMAIN p \cap DOMAIN p2 : p2[x].high >= p[x].high
    BY <1>5, <1>6, <2>1
  <2> QED BY <2>1, <2>2, <2>3 DEF Raised, p2
<1> QED BY <1>7, <1>8

\* What is left alone is not lowered.
LEMMA RaisedSame ==
  ASSUME NEW p, PositionDict(p), NEW side
  PROVE  Raised(p, p, side)
<1>1. \A x \in DOMAIN p : p[x].high \in Nat
  BY DEF PositionDict, IsDict, PositionType
<1> QED BY <1>1 DEF Raised

\* Two fills of one side lower no watermark either: what the first closes the
\* second does not open.
LEMMA RaisedTwice ==
  ASSUME NEW p, PositionDict(p), NEW p1, PositionDict(p1), NEW p2, PositionDict(p2),
         NEW side \in Sides, Raised(p, p1, side), Raised(p1, p2, side)
  PROVE  Raised(p, p2, side)
<1>1. ASSUME NEW x \in DOMAIN p \cap DOMAIN p2 PROVE x \in DOMAIN p1
  BY DEF Raised, Sides
<1>2. ASSUME NEW x \in DOMAIN p \cap DOMAIN p2 PROVE p2[x].high >= p[x].high
  <2>1. x \in DOMAIN p1
    BY <1>1
  <2>2. p[x].high \in Nat /\ p1[x].high \in Nat /\ p2[x].high \in Nat
    BY <2>1 DEF PositionDict, IsDict, PositionType
  <2>3. p1[x].high >= p[x].high /\ p2[x].high >= p1[x].high
    BY <2>1 DEF Raised
  <2> QED BY <2>2, <2>3
<1> QED BY <1>2 DEF Raised

\* A part of an allocation is one fill, or nothing.
LEMMA PartRaises ==
  ASSUME NEW row \in Rows, NEW part \in PartType, NEW h \in HeldType,
         NEW p, PositionDict(p), PartFits(h, row, part), NEW k, Mirrors(h, p, k)
  PROVE  Raised(p, PartPositions(p, h, row, part), row.side)
<1>1. CASE IsLive(row, part)
  <2>1. part.sleeve \in Sleeves /\ part.quantity \in Nat \ {0}
    BY <1>1 DEF PartType, IsLive
  <2>2. CanApply(h, part.sleeve, row, part.quantity)
    BY <1>1 DEF PartFits
  <2> QED BY <1>1, <2>1, <2>2, FillRaises DEF PartPositions
<1>2. CASE ~IsLive(row, part)
  BY <1>2, RaisedSame DEF PartPositions
<1> QED BY <1>1, <1>2

\* No operation lowers the watermark of a position it leaves open.
LEMMA RaisedStep ==
  ASSUME Overwrites \subseteq {FALSE}, LedgerTypeOK, PositionMirrorsHolding,
         [Next]_vars
  PROVE  \E side : Raised(positions, positions', side)
<1> DEFINE Goal == \E side : Raised(positions, positions', side)
<1>0. Mirrors(held, positions, known) /\ held \in HeldType /\ PositionDict(positions)
  BY MirrorsState DEF LedgerTypeOK, HeldType, PositionDict
<1>1. ASSUME positions' = positions PROVE Goal
  BY <1>0, <1>1, RaisedSame
<1>2. ASSUME NEW s \in Sleeves, NEW y \in Symbols, NEW price \in Marks,
             UpdatePositionMark(s, y, price)
      PROVE  Goal
  <2> DEFINE key == <<s, y>>
             new == [quantity |-> positions[key].quantity,
                     high |-> Larger(positions[key].high, price), last |-> price]
  <2>1. key \in DOMAIN positions /\ positions' = [positions EXCEPT ![key] = new]
    BY <1>2 DEF UpdatePositionMark
  <2>2. \A x \in DOMAIN positions : positions[x].high \in Nat
    BY <1>0 DEF PositionDict, IsDict, PositionType
  <2>3. new.high >= positions[key].high
    BY <2>1, <2>2, BoundAssumption DEF Larger
  <2> HIDE DEF new, key
  <2>4. Raised(positions, positions', "buy")
    BY <2>1, <2>2, <2>3 DEF Raised
  <2> QED BY <2>4
<1>3. ASSUME NEW row \in Rows, NEW s \in Sleeves \cup {NoSleeve},
             NEW own, NEW ix, IsDict(own, OrderKeys, OwnerType), ApplyNewFill(row, s, own, ix)
      PROVE  Goal
  <2> DEFINE target == TargetSleeve(row, s, own, ix)
  <2>1. target \in Sleeves /\ row.quantity \in Nat \ {0}
    BY <1>3, TargetType, RowType
  <2>2. /\ CanApply(held, target, row, row.quantity)
        /\ positions' = PositionsAfter(positions, held, target, row, row.quantity)
    BY <1>3 DEF ApplyNewFill
  <2> HIDE DEF target
  <2> QED BY <1>0, <2>1, <2>2, FillRaises
<1>4. ASSUME NEW row \in EventRows, ApplyOrderEvent(row) PROVE Goal
  <2> DEFINE own == OwnerBound(row.order, row.broker)
             ix  == IndexBound(row.order, row.broker)
             s   == SleeveOf[row.order]
  <2>1. row \in Rows /\ s \in Sleeves /\ IsDict(own, OrderKeys, OwnerType)
    BY FillAssumption, SleeveAssumption, RowType, BoundType
  <2>2. positions' = positions \/ ApplyNewFill(row, s, own, ix)
    BY <1>4 DEF ApplyOrderEvent
  <2> HIDE DEF own, ix, s, Goal
  <2> QED BY <1>1, <1>3, <2>1, <2>2
<1>5. ASSUME NEW row \in Rows, NEW p1 \in PartType, NEW p2 \in PartType,
             AllocateFill(row, p1, p2)
      PROVE  Goal
  <2> DEFINE h1 == PartHeld(held, row, p1)
             q1 == PartPositions(positions, held, row, p1)
             k1 == known \cup (IF IsLive(row, p1) THEN {p1.sleeve} ELSE {})
  <2>1. /\ PartFits(held, row, p1) /\ PartFits(h1, row, p2)
        /\ positions' = PartPositions(q1, h1, row, p2)
    BY <1>5 DEF AllocateFill
  <2>2. h1 \in HeldType /\ PositionDict(q1)
    BY <1>0, <2>1, PartStepType DEF LedgerTypeOK
  <2>3. Mirrors(h1, q1, k1) /\ Raised(positions, q1, row.side)
    BY <1>0, <2>1, PartMirrors, PartRaises
  <2> HIDE DEF h1, q1, k1
  <2>4. Raised(q1, positions', row.side)
    BY <2>1, <2>2, <2>3, PartRaises
  <2>5. PositionDict(positions')
    BY <2>1, <2>2, PartStepType DEF LedgerTypeOK
  <2>6. row.side \in Sides
    BY RowType
  <2>7. Raised(positions, positions', row.side)
    BY <1>0, <2>2, <2>3, <2>4, <2>5, <2>6, RaisedTwice
  <2> QED BY <2>7
<1>6. \A row \in Rows :
        \A p1 \in Part(1, 1 .. row.quantity), p2 \in Part(2, 0 .. row.quantity) :
          p1 \in PartType /\ p2 \in PartType
  BY RowType, PartsAreParts DEF Slots
<1> HIDE DEF Goal
<1>7. ASSUME NEW row \in Rows, NEW s \in Sleeves \cup {NoSleeve}, ApplyFill(row, s)
      PROVE  Goal
  BY <1>3, <1>7 DEF ApplyFill, LedgerTypeOK
<1>8. ASSUME NEW a, NEW b, NEW c, NEW d,
             CurrentPortfolio(a) \/ InitializeSleeve(a, b, c, d) \/ TransferCash(a, b, c, d)
               \/ SyncAccountCash(a, b) \/ RegisterOrder(a, b) \/ AcknowledgeOrderEvent(a, b)
               \/ BindBrokerOrder(a, b) \/ RecordBrokerFill(a) \/ IgnoreBrokerFill(a)
               \/ UNCHANGED vars
      PROVE  Goal
  BY <1>1, <1>8 DEF CurrentPortfolio, InitializeSleeve, TransferCash, SyncAccountCash,
                    RegisterOrder, AcknowledgeOrderEvent, BindBrokerOrder, RecordBrokerFill,
                    IgnoreBrokerFill, vars
<1>9. Goal
  BY <1>2, <1>4, <1>5, <1>6, <1>7, <1>8 DEF Next
<1> QED BY <1>9 DEF Goal

\* Without a second initialization of a sleeve, no mark and no fill at a lower
\* price lowers the watermark of a position that stays open, nor does a split
\* fill both of whose parts the same sleeve takes.
THEOREM WatermarksKept ==
  ASSUME Overwrites \subseteq {FALSE}
  PROVE  Spec => WatermarkNeverFalls
<1> DEFINE Inv == LedgerTypeOK /\ PositionMirrorsHolding
<1>1. Init => Inv
  BY EmptyIsDict, PositionInit DEF Init, LedgerTypeOK
<1>2. Inv /\ [Next]_vars => Inv'
  BY LedgerTypeStep, PositionStep DEF PositionMirrorsHolding, Mirrors
<1>3. Inv /\ [Next]_vars =>
        [\A k \in DOMAIN positions \cap DOMAIN positions' :
           positions'[k].high >= positions[k].high]_vars
  BY RaisedStep DEF Raised
<1> QED BY <1>1, <1>2, <1>3, PTL DEF Spec, WatermarkNeverFalls

-------------------------------------------------------------------------------
(* The store implements PortfolioLedger. *)

\* What a covered fill is in the abstract ledger.
LEMMA FillMoves ==
  ASSUME NEW h \in HeldType, NEW s \in Sleeves, NEW row \in Rows,
         NEW q \in Nat \ {0}, CanApply(h, s, row, q)
  PROVE  /\ Posted!Covered(h, Entry(s, row, q))
         /\ HeldAfter(h, s, row, q) = Posted!Moved(h, Entry(s, row, q))
<1>1. row.symbol \in Symbols /\ row.side \in Sides
  BY RowType
<1>2. h[s][row.symbol] \in Nat
  BY <1>1 DEF HeldType
<1>3. /\ Entry(s, row, q).sleeve = s /\ Entry(s, row, q).symbol = row.symbol
      /\ Entry(s, row, q).side = row.side /\ Entry(s, row, q).quantity = q
  BY DEF Entry
<1>4. Posted!Covered(h, Entry(s, row, q))
  BY <1>1, <1>2, <1>3 DEF Posted!Covered, Posted!Delta, CanApply, Sides
<1>5. Posted!Delta(Entry(s, row, q)) = IF row.side = "buy" THEN q ELSE -q
  BY <1>3 DEF Posted!Delta
<1>6. Posted!Moved(h, Entry(s, row, q))
        = [h EXCEPT ![s][row.symbol] = @ + (IF row.side = "buy" THEN q ELSE -q)]
  BY <1>3, <1>5 DEF Posted!Moved
<1>7. HeldAfter(h, s, row, q)
        = [h EXCEPT ![s][row.symbol] = @ + (IF row.side = "buy" THEN q ELSE -q)]
  BY <1>1, <1>2 DEF HeldAfter, HeldType
<1> QED BY <1>4, <1>6, <1>7

\* A fill whose id is new is one posting.
LEMMA NewFillPosts ==
  ASSUME LedgerTypeOK, NEW row \in Rows, NEW s \in Sleeves \cup {NoSleeve},
         NEW own, NEW ix, IsDict(own, OrderKeys, OwnerType),
         row.id \notin DOMAIN fills, ApplyNewFill(row, s, own, ix)
  PROVE  Posted!Next
<1> DEFINE target == TargetSleeve(row, s, own, ix)
           e == Entry(target, row, row.quantity)
<1>1. target \in Sleeves /\ row.quantity \in Nat \ {0} /\ row.id \in LedgerIds
  BY TargetType, RowType DEF LedgerIds
<1>2. /\ CanApply(held, target, row, row.quantity)
      /\ held' = HeldAfter(held, target, row, row.quantity)
      /\ fills' = Put(fills, row.id, e)
  BY DEF ApplyNewFill
<1>3. e \in EntryType
  BY <1>1, EntryTypeOK
<1>4. Posted!Covered(held, e) /\ held' = Posted!Moved(held, e)
  BY <1>1, <1>2, FillMoves DEF LedgerTypeOK, HeldType
<1> HIDE DEF e
<1>5. fills' = Posted!With(fills, row.id, e)
  BY <1>2 DEF Put, Posted!With
<1>6. row.id \in Posted!Fresh \cap DOMAIN fills' /\ fills'[row.id] = e
  BY <1>1, <1>2 DEF Put, Posted!Fresh
<1>7. Posted!Post(row.id, e)
  BY <1>3, <1>4, <1>5 DEF Posted!Post
<1> QED BY <1>6, <1>7 DEF Posted!Next

\* An allocation call posts its live parts: none, one or two.
LEMMA AllocationPosts ==
  ASSUME LedgerTypeOK, LedgerInv, NEW row \in Rows,
         NEW p1 \in PartType, NEW p2 \in PartType, p1.slot # p2.slot,
         AllocateFill(row, p1, p2)
  PROVE  Posted!Next \/ UNCHANGED <<held, fills>>
<1> DEFINE i1 == PartId(row, p1)
           i2 == PartId(row, p2)
           e1 == Entry(p1.sleeve, row, p1.quantity)
           e2 == Entry(p2.sleeve, row, p2.quantity)
           h1 == PartHeld(held, row, p1)
           g1 == PartFills(fills, row, p1)
<1>1. i1 # i2 /\ i1 \in LedgerIds \ FillIds /\ i2 \in LedgerIds \ FillIds
  BY PartIdType DEF PartId
<1>2. /\ IsLive(row, p1) => i1 \notin DOMAIN fills
      /\ IsLive(row, p2) => i2 \notin DOMAIN fills
  BY <1>1 DEF LedgerInv, AllocationsPosted, IsLive
<1>3. /\ PartFits(held, row, p1) /\ PartFits(h1, row, p2)
      /\ held' = PartHeld(h1, row, p2) /\ fills' = PartFills(g1, row, p2)
  BY DEF AllocateFill
<1>4. held \in HeldType /\ h1 \in HeldType
  BY <1>3, PartStepType DEF LedgerTypeOK, HeldType, PositionDict
<1>5. IsLive(row, p1) =>
        /\ e1 \in EntryType
        /\ Posted!Covered(held, e1) /\ h1 = Posted!Moved(held, e1)
        /\ g1 = Posted!With(fills, i1, e1)
  <2> SUFFICES ASSUME IsLive(row, p1)
      PROVE  /\ e1 \in EntryType
             /\ Posted!Covered(held, e1) /\ h1 = Posted!Moved(held, e1)
             /\ g1 = Posted!With(fills, i1, e1)
    OBVIOUS
  <2>1. /\ p1.sleeve \in Sleeves /\ p1.quantity \in Nat \ {0}
        /\ CanApply(held, p1.sleeve, row, p1.quantity)
    BY <1>3 DEF PartType, IsLive, PartFits
  <2>2. h1 = HeldAfter(held, p1.sleeve, row, p1.quantity) /\ g1 = Put(fills, i1, e1)
    BY DEF PartHeld, PartFills
  <2>3. Put(fills, i1, e1) = Posted!With(fills, i1, e1)
    BY DEF Put, Posted!With
  <2>4. e1 \in EntryType
    BY <2>1, EntryTypeOK
  <2>5. /\ Posted!Covered(held, e1)
        /\ HeldAfter(held, p1.sleeve, row, p1.quantity) = Posted!Moved(held, e1)
    BY <1>4, <2>1, FillMoves
  <2> QED BY <2>2, <2>3, <2>4, <2>5
<1>6. IsLive(row, p2) =>
        /\ e2 \in EntryType
        /\ Posted!Covered(h1, e2) /\ held' = Posted!Moved(h1, e2)
        /\ fills' = Posted!With(g1, i2, e2)
  <2> SUFFICES ASSUME IsLive(row, p2)
      PROVE  /\ e2 \in EntryType
             /\ Posted!Covered(h1, e2) /\ held' = Posted!Moved(h1, e2)
             /\ fills' = Posted!With(g1, i2, e2)
    OBVIOUS
  <2>1. /\ p2.sleeve \in Sleeves /\ p2.quantity \in Nat \ {0}
        /\ CanApply(h1, p2.sleeve, row, p2.quantity)
    BY <1>3 DEF PartType, IsLive, PartFits
  <2>2. held' = HeldAfter(h1, p2.sleeve, row, p2.quantity) /\ fills' = Put(g1, i2, e2)
    BY <1>3 DEF PartHeld, PartFills
  <2> HIDE DEF g1, h1
  <2>3. Put(g1, i2, e2) = Posted!With(g1, i2, e2)
    BY DEF Put, Posted!With
  <2>4. e2 \in EntryType
    BY <2>1, EntryTypeOK
  <2>5. /\ Posted!Covered(h1, e2)
        /\ HeldAfter(h1, p2.sleeve, row, p2.quantity) = Posted!Moved(h1, e2)
    BY <1>4, <2>1, FillMoves
  <2> QED BY <2>2, <2>3, <2>4, <2>5
<1>7. /\ ~IsLive(row, p1) => h1 = held /\ g1 = fills
      /\ ~IsLive(row, p2) => held' = h1 /\ fills' = g1
  BY <1>3 DEF PartHeld, PartFills
<1> HIDE DEF i1, i2, e1, e2, h1, g1
<1>8. CASE IsLive(row, p1) /\ IsLive(row, p2)
  <2>1. Posted!PostTwo(i1, e1, i2, e2)
    BY <1>1, <1>5, <1>6, <1>8 DEF Posted!PostTwo
  <2>2. /\ i1 \in Posted!Fresh \cap DOMAIN fills' /\ fills'[i1] = e1
        /\ i2 \in Posted!Fresh \cap DOMAIN fills' /\ fills'[i2] = e2
    BY <1>1, <1>2, <1>5, <1>6, <1>8 DEF Posted!Fresh, Posted!With
  <2> QED BY <2>1, <2>2 DEF Posted!Next
<1>9. CASE IsLive(row, p1) /\ ~IsLive(row, p2)
  <2>1. Posted!Post(i1, e1)
    BY <1>5, <1>7, <1>9 DEF Posted!Post
  <2>2. i1 \in Posted!Fresh \cap DOMAIN fills' /\ fills'[i1] = e1
    BY <1>1, <1>2, <1>5, <1>7, <1>9 DEF Posted!Fresh, Posted!With
  <2> QED BY <2>1, <2>2 DEF Posted!Next
<1>10. CASE ~IsLive(row, p1) /\ IsLive(row, p2)
  <2>1. Posted!Post(i2, e2)
    BY <1>6, <1>7, <1>10 DEF Posted!Post
  <2>2. i2 \in Posted!Fresh \cap DOMAIN fills' /\ fills'[i2] = e2
    BY <1>1, <1>2, <1>6, <1>7, <1>10 DEF Posted!Fresh, Posted!With
  <2> QED BY <2>1, <2>2 DEF Posted!Next
<1>11. CASE ~IsLive(row, p1) /\ ~IsLive(row, p2)
  BY <1>7, <1>11
<1> QED BY <1>8, <1>9, <1>10, <1>11

\* Every operation posts entries of the abstract ledger, or leaves it alone.
LEMMA PostingStep ==
  ASSUME Overwrites \subseteq {FALSE}, LedgerTypeOK, LedgerInv,
         PositionMirrorsHolding, [Next]_vars
  PROVE  [Posted!Next]_<<held, fills>>
<1>1. ASSUME NEW s \in Sleeves, NEW c \in Currencies, NEW amount \in Nat,
             NEW o \in Overwrites, InitializeSleeve(s, c, amount, o)
      PROVE  UNCHANGED <<held, fills>>
  <2>1. s \notin known /\ held \in HeldType
    BY <1>1 DEF InitializeSleeve, LedgerTypeOK, HeldType
  <2>2. \A y \in Symbols : held[s][y] = 0
    <3> SUFFICES ASSUME NEW y \in Symbols PROVE held[s][y] = 0
      OBVIOUS
    <3>1. held[s][y] \in Nat
      BY <2>1 DEF HeldType
    <3>2. ~(held[s][y] > 0)
      BY <2>1 DEF PositionMirrorsHolding
    <3> QED BY <3>1, <3>2
  <2>3. held' = held
    BY <1>1, <2>1, <2>2 DEF InitializeSleeve, HeldType
  <2> QED BY <1>1, <2>3 DEF InitializeSleeve, ledgerVars
<1>2. ASSUME NEW row \in Rows, NEW s \in Sleeves \cup {NoSleeve}, ApplyFill(row, s)
      PROVE  Posted!Next
  BY <1>2, NewFillPosts DEF ApplyFill, LedgerTypeOK
<1>3. ASSUME NEW row \in EventRows, ApplyOrderEvent(row)
      PROVE  Posted!Next \/ UNCHANGED <<held, fills>>
  <2> DEFINE own == OwnerBound(row.order, row.broker)
             ix  == IndexBound(row.order, row.broker)
             s   == SleeveOf[row.order]
  <2>1. row \in Rows /\ s \in Sleeves /\ IsDict(own, OrderKeys, OwnerType)
    BY FillAssumption, SleeveAssumption, RowType, BoundType
  <2>2. \/ UNCHANGED <<held, fills>>
        \/ row.id \notin DOMAIN fills /\ ApplyNewFill(row, s, own, ix)
    BY <1>3 DEF ApplyOrderEvent
  <2> HIDE DEF own, ix, s
  <2> QED BY <2>1, <2>2, NewFillPosts
<1>4. ASSUME NEW row \in Rows, NEW p1 \in PartType, NEW p2 \in PartType,
             p1.slot # p2.slot, AllocateFill(row, p1, p2)
      PROVE  Posted!Next \/ UNCHANGED <<held, fills>>
  BY <1>4, AllocationPosts
<1>5. \A row \in Rows :
        \A p1 \in Part(1, 1 .. row.quantity), p2 \in Part(2, 0 .. row.quantity) :
          p1 \in PartType /\ p2 \in PartType /\ p1.slot # p2.slot
  BY RowType DEF Part, PartType, Slots
<1>6. ASSUME NEW s \in Sleeves, CurrentPortfolio(s)
      PROVE  UNCHANGED <<held, fills>>
  BY <1>6 DEF CurrentPortfolio, ledgerVars
<1>7. ASSUME NEW s \in Sleeves, NEW y \in Symbols, NEW price \in Marks,
             UpdatePositionMark(s, y, price)
      PROVE  UNCHANGED <<held, fills>>
  BY <1>7 DEF UpdatePositionMark, ledgerVars
<1>8. ASSUME NEW from \in Sleeves, NEW to \in Sleeves, NEW c \in Currencies,
             NEW amount \in Amounts, TransferCash(from, to, c, amount)
      PROVE  UNCHANGED <<held, fills>>
  BY <1>8 DEF TransferCash, ledgerVars
<1>9. ASSUME NEW c \in Currencies, NEW balance \in Balances, SyncAccountCash(c, balance)
      PROVE  UNCHANGED <<held, fills>>
  BY <1>9 DEF SyncAccountCash, ledgerVars
<1>10. ASSUME NEW o \in Orders, NEW b \in BrokerIds \cup {NoBroker},
              RegisterOrder(o, b) \/ AcknowledgeOrderEvent(o, b) \/ BindBrokerOrder(o, b)
       PROVE  UNCHANGED <<held, fills>>
  BY <1>10 DEF RegisterOrder, AcknowledgeOrderEvent, BindBrokerOrder, ledgerVars
<1>11. ASSUME NEW row \in Rows, RecordBrokerFill(row)
       PROVE  UNCHANGED <<held, fills>>
  BY <1>11 DEF RecordBrokerFill
<1>12. ASSUME NEW f \in FillIds, IgnoreBrokerFill(f)
       PROVE  UNCHANGED <<held, fills>>
  BY <1>12 DEF IgnoreBrokerFill
<1>13. CASE UNCHANGED vars
  BY <1>13 DEF vars
<1> QED
  BY <1>1, <1>2, <1>3, <1>4, <1>5, <1>6, <1>7, <1>8, <1>9, <1>10, <1>11, <1>12, <1>13, OpeningType
  DEF Next

\* Without a second initialization of a sleeve, the store implements the
\* abstract ledger: shares move only by posting an entry under an id that was
\* never posted, and no sleeve ever goes short.
THEOREM Implements ==
  ASSUME Overwrites \subseteq {FALSE}
  PROVE  Spec => PostsLedger
<1> DEFINE Inv == LedgerTypeOK /\ LedgerInv /\ PositionMirrorsHolding
<1>1. Init => Inv
  BY EmptyIsDict, PositionInit
  DEF Init, LedgerTypeOK, LedgerInv, AllocationsPosted, IgnoredNeverAllocated,
      IndexOwned, EmptyDict
<1>2. Inv /\ [Next]_vars => Inv'
  BY LedgerTypeStep, LedgerStep, PositionStep DEF PositionMirrorsHolding, Mirrors
<1>3. Init => Posted!Init
  BY DEF Init, Posted!Init, EmptyDict
<1>4. Inv /\ [Next]_vars => [Posted!Next]_<<held, fills>>
  BY PostingStep
<1> QED
  BY <1>1, <1>2, <1>3, <1>4, PTL DEF Spec, PostsLedger, Posted!Spec, Posted!ledger

-------------------------------------------------------------------------------
(* Holdings are what the ledger adds up to.                                  *)

FillDict(f) == IsDict(f, LedgerIds, EntryType) /\ IsFiniteSet(DOMAIN f)

\* HoldingsMatchFills for holdings h and a ledger f.
Tallied(h, f) == \A s \in Sleeves, y \in Symbols : h[s][y] = Tally(f, s, y)

\* A ledger with one more entry is one.
LEMMA FillDictWith ==
  ASSUME NEW f, FillDict(f), NEW i \in LedgerIds, NEW e \in EntryType
  PROVE  FillDict(Posted!With(f, i, e))
<1>1. IsFiniteSet(DOMAIN Posted!With(f, i, e))
  BY FS_AddElement DEF FillDict, Posted!With
<1>2. Posted!With(f, i, e) = Put(f, i, e)
  BY DEF Posted!With, Put
<1> QED BY <1>1, <1>2, PutIsDict DEF FillDict

\* An entry added to the ledger counts where it belongs and nowhere else.
LEMMA TallyWith ==
  ASSUME NEW f, FillDict(f), NEW i \in LedgerIds, i \notin DOMAIN f,
         NEW e \in EntryType, NEW s \in Sleeves, NEW y \in Symbols
  PROVE  /\ Tally(f, s, y) \in Int
         /\ Tally(Posted!With(f, i, e), s, y) =
              IF e.sleeve = s /\ e.symbol = y THEN Tally(f, s, y) + Signed(e)
                                              ELSE Tally(f, s, y)
<1> DEFINE g == Posted!With(f, i, e)
           A == EntriesIn(f, s, y)
           B == EntriesIn(g, s, y)
           W == [k \in DOMAIN f |-> Signed(f[k])]
           V == [k \in DOMAIN g |-> Signed(g[k])]
<1>1. /\ DOMAIN g = DOMAIN f \cup {i} /\ g[i] = e
      /\ \A k \in DOMAIN f : g[k] = f[k]
  BY DEF Posted!With
<1>2. IsFiniteSet(A) /\ A \subseteq DOMAIN f
  BY FS_Subset DEF EntriesIn, FillDict
<1>3. \A k \in DOMAIN f : f[k].side \in Sides /\ f[k].quantity \in Nat
  BY DEF FillDict, IsDict, EntryType
<1>4. \A k \in A : W[k] \in Int
  BY <1>2, <1>3 DEF Signed
<1>5. \A k \in A : V[k] = W[k]
  BY <1>1, <1>2
<1>6. Signed(e) \in Int
  BY DEF EntryType, Signed
<1> HIDE DEF g
<1>7. V[i] = Signed(e)
  BY <1>1
<1>8. Tally(f, s, y) = SumFunctionOnSet(W, A) /\ Tally(g, s, y) = SumFunctionOnSet(V, B)
  BY DEF Tally
<1>9. i \notin A
  BY <1>2
<1>10. SumFunctionOnSet(W, A) \in Int
  <2> HIDE DEF W, A
  <2> QED BY <1>2, <1>4, SumType
<1>11. CASE e.sleeve = s /\ e.symbol = y
  <2>1. B = A \cup {i}
    BY <1>1, <1>11 DEF EntriesIn
  <2> HIDE DEF W, V, A, B
  <2>2. SumFunctionOnSet(V, A \cup {i}) = SumFunctionOnSet(W, A) + V[i]
    BY <1>2, <1>4, <1>5, <1>6, <1>7, <1>9, SumAdd
  <2> QED BY <1>7, <1>8, <1>10, <1>11, <2>1, <2>2 DEF g
<1>12. CASE ~(e.sleeve = s /\ e.symbol = y)
  <2>1. B = A
    BY <1>1, <1>12 DEF EntriesIn
  <2> HIDE DEF W, V, A, B
  <2>2. SumFunctionOnSet(V, A) = SumFunctionOnSet(W, A)
    BY <1>2, <1>5, SumSame
  <2> QED BY <1>8, <1>10, <1>12, <2>1, <2>2 DEF g
<1> QED BY <1>11, <1>12

\* A posting moves a holding by what it adds to the ledger.
LEMMA TalliedWith ==
  ASSUME NEW h \in HeldType, NEW f, FillDict(f), Tallied(h, f),
         NEW i \in LedgerIds, i \notin DOMAIN f, NEW e \in EntryType,
         Posted!Covered(h, e)
  PROVE  /\ Posted!Moved(h, e) \in HeldType
         /\ FillDict(Posted!With(f, i, e))
         /\ Tallied(Posted!Moved(h, e), Posted!With(f, i, e))
<1>1. /\ e.sleeve \in Sleeves /\ e.symbol \in Symbols
      /\ Posted!Delta(e) = Signed(e) /\ Signed(e) \in Int
  BY DEF EntryType, Posted!Delta, Signed
<1>2. h[e.sleeve][e.symbol] + Signed(e) \in Nat
  <2>1. h[e.sleeve][e.symbol] \in Nat
    BY <1>1 DEF HeldType
  <2> QED BY <1>1, <2>1 DEF Posted!Covered
<1>3. /\ Posted!Moved(h, e) \in HeldType
      /\ \A s \in Sleeves, y \in Symbols :
           Posted!Moved(h, e)[s][y] =
             IF e.sleeve = s /\ e.symbol = y THEN h[s][y] + Signed(e) ELSE h[s][y]
  BY <1>1, <1>2 DEF Posted!Moved, HeldType
<1>4. FillDict(Posted!With(f, i, e))
  BY FillDictWith
<1>5. ASSUME NEW s \in Sleeves, NEW y \in Symbols
      PROVE  Posted!Moved(h, e)[s][y] = Tally(Posted!With(f, i, e), s, y)
  <2>1. h[s][y] = Tally(f, s, y)
    BY DEF Tallied
  <2> QED BY <1>3, <2>1, TallyWith
<1> QED BY <1>3, <1>4, <1>5 DEF Tallied

\* What the abstract ledger keeps: holdings that its entries add up to.
LEMMA PostingTallied ==
  ASSUME held \in HeldType, FillDict(fills), Tallied(held, fills),
         [Posted!Next]_<<held, fills>>
  PROVE  FillDict(fills') /\ Tallied(held', fills')
<1>1. CASE UNCHANGED <<held, fills>>
  BY <1>1
<1>2. ASSUME NEW i \in Posted!Fresh, NEW e, Posted!Post(i, e)
      PROVE  FillDict(fills') /\ Tallied(held', fills')
  <2>1. i \in LedgerIds /\ i \notin DOMAIN fills
    BY DEF Posted!Fresh
  <2> QED BY <1>2, <2>1, TalliedWith DEF Posted!Post
<1>3. ASSUME NEW i \in Posted!Fresh, NEW e, NEW j \in Posted!Fresh, NEW f,
             Posted!PostTwo(i, e, j, f)
      PROVE  FillDict(fills') /\ Tallied(held', fills')
  <2> DEFINE h1 == Posted!Moved(held, e)
             f1 == Posted!With(fills, i, e)
  <2>1. /\ i \in LedgerIds /\ i \notin DOMAIN fills
        /\ j \in LedgerIds /\ j \notin DOMAIN fills /\ i # j
        /\ e \in EntryType /\ f \in EntryType
        /\ Posted!Covered(held, e) /\ Posted!Covered(h1, f)
        /\ held' = Posted!Moved(h1, f) /\ fills' = Posted!With(f1, j, f)
    BY <1>3 DEF Posted!Fresh, Posted!PostTwo
  <2>2. h1 \in HeldType /\ FillDict(f1) /\ Tallied(h1, f1)
    BY <2>1, TalliedWith
  <2>3. j \notin DOMAIN f1
    BY <2>1 DEF Posted!With
  <2> HIDE DEF h1, f1
  <2> QED BY <2>1, <2>2, <2>3, TalliedWith
<1> QED BY <1>1, <1>2, <1>3 DEF Posted!Next

\* Nothing posted and nothing held.
LEMMA TalliedInit == ASSUME Init PROVE FillDict(fills) /\ Tallied(held, fills)
<1>1. fills = EmptyDict /\ DOMAIN fills = {}
  BY DEF Init, EmptyDict
<1>2. FillDict(fills)
  BY <1>1, EmptyIsDict, FS_EmptySet DEF FillDict
<1> SUFFICES ASSUME NEW s \in Sleeves, NEW y \in Symbols PROVE held[s][y] = Tally(fills, s, y)
  BY <1>2 DEF Tallied
<1>3. EntriesIn(fills, s, y) = {}
  BY <1>1 DEF EntriesIn
<1>4. Tally(fills, s, y) = 0
  BY <1>3, SumEmpty DEF Tally
<1> QED BY <1>4 DEF Init

\* Without a second initialization of a sleeve, what a sleeve holds of a symbol
\* is what the entries of its ledger add up to, whatever mix of order events,
\* imports and operators' splits posted them.
THEOREM HoldingsTally ==
  ASSUME Overwrites \subseteq {FALSE}
  PROVE  Spec => []HoldingsMatchFills
<1> DEFINE Inv == /\ LedgerTypeOK /\ LedgerInv /\ PositionMirrorsHolding
                  /\ FillDict(fills) /\ Tallied(held, fills)
<1>1. Init => Inv
  BY EmptyIsDict, PositionInit, TalliedInit
  DEF Init, LedgerTypeOK, LedgerInv, AllocationsPosted, IgnoredNeverAllocated,
      IndexOwned, EmptyDict
<1>2. Inv /\ [Next]_vars => Inv'
  <2> SUFFICES ASSUME Inv, [Next]_vars PROVE Inv'
    OBVIOUS
  <2>1. LedgerTypeOK' /\ LedgerInv' /\ PositionMirrorsHolding'
    BY LedgerTypeStep, LedgerStep, PositionStep DEF PositionMirrorsHolding, Mirrors
  <2>2. held \in HeldType
    BY DEF LedgerTypeOK, HeldType
  <2>3. FillDict(fills') /\ Tallied(held', fills')
    BY <2>2, PostingStep, PostingTallied
  <2> QED BY <2>1, <2>3
<1>3. Inv => HoldingsMatchFills
  BY DEF Tallied, HoldingsMatchFills
<1> QED BY <1>1, <1>2, <1>3, PTL DEF Spec

-------------------------------------------------------------------------------
(* Raw fills are split into no more shares than they have.                   *)

AllocationDict(a) == IsDict(a, AllocationIds, Nat \ {0}) /\ IsFiniteSet(DOMAIN a)

\* AllocatedOf for a ledger of allocations a, and what a part adds to it.
AllocatedIn(a, f) == SumFunctionOnSet(a, {i \in DOMAIN a : i[1] = f})
Adds(row, part) == IF IsLive(row, part) THEN part.quantity ELSE 0

\* A part that is posted adds its quantity to what its own raw fill is split into.
LEMMA AllocatedWithPart ==
  ASSUME NEW row \in Rows, NEW part \in PartType, NEW a, AllocationDict(a),
         IsLive(row, part) => PartId(row, part) \notin DOMAIN a, NEW f
  PROVE  /\ AllocatedIn(a, f) \in Int
         /\ AllocationDict(PartAllocations(a, row, part))
         /\ AllocatedIn(PartAllocations(a, row, part), f)
              = AllocatedIn(a, f) + (IF f = row.id THEN Adds(row, part) ELSE 0)
<1> DEFINE i == PartId(row, part)
           b == PartAllocations(a, row, part)
           A == {k \in DOMAIN a : k[1] = f}
           B == {k \in DOMAIN b : k[1] = f}
<1>1. IsFiniteSet(A) /\ \A k \in A : a[k] \in Int
  BY FS_Subset DEF AllocationDict, IsDict
<1>2. AllocatedIn(a, f) = SumFunctionOnSet(a, A) /\ SumFunctionOnSet(a, A) \in Int
  BY <1>1, SumType DEF AllocatedIn
<1>3. AllocatedIn(b, f) = SumFunctionOnSet(b, B)
  BY DEF AllocatedIn
<1>4. i[1] = row.id /\ i \in AllocationIds
  BY PartIdType
<1>5. CASE ~IsLive(row, part)
  BY <1>2, <1>5 DEF PartAllocations, Adds
<1>6. CASE IsLive(row, part)
  <2>1. /\ DOMAIN b = DOMAIN a \cup {i} /\ b[i] = part.quantity
        /\ \A k \in DOMAIN a : b[k] = a[k]
        /\ i \notin DOMAIN a
    <3>1. b = Put(a, i, part.quantity)
      BY <1>6 DEF PartAllocations
    <3> HIDE DEF b
    <3> QED BY <1>6, <3>1 DEF Put
  <2>2. part.quantity \in Nat \ {0}
    BY <1>6 DEF PartType, IsLive
  <2>3. AllocationDict(b)
    <3>1. b = Put(a, i, part.quantity)
      BY <1>6 DEF PartAllocations
    <3>2. IsFiniteSet(DOMAIN b)
      BY <2>1, FS_AddElement DEF AllocationDict
    <3> QED BY <1>4, <2>2, <3>1, <3>2, PutIsDict DEF AllocationDict
  <2> HIDE DEF i, b
  <2>4. CASE f = row.id
    <3>1. B = A \cup {i} /\ i \notin A
      BY <1>4, <2>1, <2>4
    <3> HIDE DEF A, B
    <3>2. SumFunctionOnSet(b, A \cup {i}) = SumFunctionOnSet(a, A) + b[i]
      <4>1. \A k \in A : b[k] = a[k] /\ a[k] \in Int
        BY <1>1, <2>1 DEF A
      <4> QED BY <1>1, <2>1, <2>2, <3>1, <4>1, SumAdd
    <3> QED BY <1>2, <1>3, <1>6, <2>1, <2>3, <2>4, <3>1, <3>2 DEF Adds, b
  <2>5. CASE f # row.id
    <3>1. B = A
      BY <1>4, <2>1, <2>5
    <3>2. \A k \in A : b[k] = a[k]
      BY <2>1
    <3> HIDE DEF A, B
    <3>3. SumFunctionOnSet(b, A) = SumFunctionOnSet(a, A)
      BY <1>1, <3>2, SumSame
    <3> QED BY <1>2, <1>3, <2>3, <2>5, <3>1, <3>3 DEF b
  <2> QED BY <2>4, <2>5
<1> QED BY <1>5, <1>6

\* What the live parts of a call ask for is what each of them asks for.
LEMMA LiveQuantity ==
  ASSUME NEW row \in Rows, NEW p1 \in PartType, NEW p2 \in PartType, p1.slot # p2.slot
  PROVE  QuantityOf(LiveParts(row, p1, p2)) = Adds(row, p1) + Adds(row, p2)
<1> DEFINE One(p) == {part \in {p} : IsLive(row, part)}
           Sum(S) == QuantityOf(S)
<1>1. ASSUME NEW S, IsFiniteSet(S), S \subseteq PartType, NEW p \in PartType, p \notin S
      PROVE  Sum(S) \in Int /\ Sum(S \cup {p}) = Sum(S) + p.quantity
  <2> DEFINE W == [part \in S |-> part.quantity]
             V == [part \in S \cup {p} |-> part.quantity]
  <2>1. /\ \A q \in S : V[q] = W[q] /\ W[q] \in Int
        /\ V[p] = p.quantity /\ V[p] \in Int
    BY <1>1 DEF PartType
  <2> HIDE DEF W, V
  <2>2. /\ SumFunctionOnSet(V, S \cup {p}) = SumFunctionOnSet(W, S) + V[p]
        /\ SumFunctionOnSet(W, S) \in Int
    BY <1>1, <2>1, SumAdd
  <2> QED BY <2>1, <2>2 DEF QuantityOf, W, V
<1>2. Sum({}) = 0
  BY SumEmpty DEF QuantityOf
<1>3. IsFiniteSet({}) /\ IsFiniteSet({p1})
  BY FS_EmptySet, FS_Singleton
<1>4. p1 # p2 /\ p1.quantity \in Int /\ p2.quantity \in Int
  BY DEF PartType
<1> HIDE DEF Sum
<1>5. Sum({p1}) = p1.quantity /\ Sum({p2}) = p2.quantity
  <2>1. {} \cup {p1} = {p1} /\ {} \cup {p2} = {p2}
    OBVIOUS
  <2>2. Sum({} \cup {p1}) = Sum({}) + p1.quantity /\ Sum({} \cup {p2}) = Sum({}) + p2.quantity
    BY <1>1, <1>3
  <2> QED BY <1>2, <1>4, <2>1, <2>2
<1>6. Sum({p1, p2}) = p1.quantity + p2.quantity
  <2>1. {p1} \cup {p2} = {p1, p2}
    OBVIOUS
  <2>2. Sum({p1} \cup {p2}) = Sum({p1}) + p2.quantity
    BY <1>1, <1>3, <1>4
  <2> QED BY <1>5, <2>1, <2>2
<1>7. CASE IsLive(row, p1) /\ IsLive(row, p2)
  <2>1. LiveParts(row, p1, p2) = {p1, p2}
    BY <1>7 DEF LiveParts
  <2> QED BY <1>6, <1>7, <2>1 DEF Adds, Sum
<1>8. CASE IsLive(row, p1) /\ ~IsLive(row, p2)
  <2>1. LiveParts(row, p1, p2) = {p1}
    BY <1>8 DEF LiveParts
  <2> QED BY <1>4, <1>5, <1>8, <2>1 DEF Adds, Sum
<1>9. CASE ~IsLive(row, p1) /\ IsLive(row, p2)
  <2>1. LiveParts(row, p1, p2) = {p2}
    BY <1>9 DEF LiveParts
  <2> QED BY <1>4, <1>5, <1>9, <2>1 DEF Adds, Sum
<1>10. CASE ~IsLive(row, p1) /\ ~IsLive(row, p2)
  <2>1. LiveParts(row, p1, p2) = {}
    BY <1>10 DEF LiveParts
  <2> QED BY <1>2, <1>10, <2>1 DEF Adds, Sum
<1> QED BY <1>7, <1>8, <1>9, <1>10

\* A fill's allocations are positive and stay within it.
SplitInv == AllocationDict(allocations) /\ AllocationsWithinFill

\* An allocation call keeps within its raw fill and leaves the others as they were.
LEMMA AllocateWithin ==
  ASSUME SplitInv, NEW row \in Rows, NEW p1 \in PartType, NEW p2 \in PartType,
         p1.slot # p2.slot, AllocateFill(row, p1, p2)
  PROVE  SplitInv'
<1> DEFINE a1 == PartAllocations(allocations, row, p1)
<1>1. /\ allocations' = PartAllocations(a1, row, p2)
      /\ brokerFills' = brokerFills /\ brokerFills[row.id] = row
      /\ AllocatedOf(row.id) + QuantityOf(LiveParts(row, p1, p2)) <= row.quantity
  BY DEF AllocateFill, FitsFill
<1>2. IsLive(row, p1) => PartId(row, p1) \notin DOMAIN allocations
  BY DEF IsLive
<1>3. AllocationDict(a1)
  BY <1>2, AllocatedWithPart DEF SplitInv
<1>4. IsLive(row, p2) => PartId(row, p2) \notin DOMAIN a1
  <2>1. DOMAIN a1 \subseteq DOMAIN allocations \cup {PartId(row, p1)}
    BY DEF PartAllocations, Put
  <2>2. PartId(row, p1) # PartId(row, p2)
    BY DEF PartId
  <2> QED BY <2>1, <2>2 DEF IsLive
<1> HIDE DEF a1
<1>5. AllocationDict(allocations')
  BY <1>1, <1>3, <1>4, AllocatedWithPart
<1>6. ASSUME NEW f \in DOMAIN brokerFills
      PROVE  AllocatedIn(allocations', f) <= brokerFills[f].quantity
  <2>1. /\ AllocatedIn(allocations, f) \in Int
        /\ AllocatedIn(a1, f)
             = AllocatedIn(allocations, f) + (IF f = row.id THEN Adds(row, p1) ELSE 0)
    BY <1>2, AllocatedWithPart DEF SplitInv, a1
  <2>2. AllocatedIn(allocations', f)
          = AllocatedIn(a1, f) + (IF f = row.id THEN Adds(row, p2) ELSE 0)
    BY <1>1, <1>3, <1>4, AllocatedWithPart
  <2>3. Adds(row, p1) \in Int /\ Adds(row, p2) \in Int
    BY DEF Adds, PartType
  <2>4. AllocatedIn(allocations, f) = AllocatedOf(f)
    BY DEF AllocatedIn, AllocatedOf
  <2>5. CASE f = row.id
    <3>1. AllocatedIn(allocations', f)
            = AllocatedOf(f) + QuantityOf(LiveParts(row, p1, p2))
      BY <2>1, <2>2, <2>3, <2>4, <2>5, LiveQuantity
    <3> QED BY <1>1, <2>5, <3>1
  <2>6. CASE f # row.id
    <3>1. AllocatedIn(allocations', f) = AllocatedOf(f)
      BY <2>1, <2>2, <2>4, <2>6
    <3> QED BY <3>1 DEF SplitInv, AllocationsWithinFill
  <2> QED BY <2>5, <2>6
<1> QED BY <1>1, <1>5, <1>6 DEF SplitInv, AllocationsWithinFill, AllocatedOf, AllocatedIn

\* A raw fill that is recorded has not been split yet.
LEMMA RecordWithin ==
  ASSUME SplitInv, LedgerInv, NEW row \in Rows, RecordBrokerFill(row)
  PROVE  SplitInv'
<1>1. /\ brokerFills' = Put(brokerFills, row.id, row) /\ row.id \notin DOMAIN brokerFills
      /\ allocations' = allocations
  BY DEF RecordBrokerFill
<1>2. {a \in DOMAIN allocations : a[1] = row.id} = {}
  BY <1>1 DEF LedgerInv, AllocationsPosted
<1>3. AllocatedOf(row.id) = 0
  BY <1>2, SumEmpty DEF AllocatedOf
<1>4. ASSUME NEW f \in DOMAIN brokerFills'
      PROVE  AllocatedOf(f) <= brokerFills'[f].quantity
  <2>0. /\ DOMAIN brokerFills' = DOMAIN brokerFills \cup {row.id}
        /\ brokerFills'[row.id] = row
        /\ \A g \in DOMAIN brokerFills : brokerFills'[g] = brokerFills[g]
    BY <1>1 DEF Put
  <2>1. CASE f = row.id
    <3>1. brokerFills'[f].quantity \in Nat
      BY <2>0, <2>1, RowType
    <3> QED BY <1>3, <2>1, <3>1
  <2>2. CASE f # row.id
    <3>1. f \in DOMAIN brokerFills /\ brokerFills'[f] = brokerFills[f]
      BY <1>4, <2>0, <2>2
    <3> QED BY <3>1 DEF SplitInv, AllocationsWithinFill
  <2> QED BY <2>1, <2>2
<1> QED BY <1>1, <1>4 DEF SplitInv, AllocationsWithinFill, AllocatedOf

\* Steps that touch neither table keep this.
LEMMA SplitKept ==
  ASSUME SplitInv, UNCHANGED <<brokerFills, allocations>>
  PROVE  SplitInv'
BY DEF SplitInv, AllocationsWithinFill, AllocatedOf

\* No other operation touches raw fills and allocations.
LEMMA SplitStep ==
  ASSUME SplitInv, LedgerInv, [Next]_vars
  PROVE  SplitInv'
<1>1. ASSUME NEW row \in Rows, RecordBrokerFill(row) PROVE SplitInv'
  BY <1>1, RecordWithin
<1>2. ASSUME NEW row \in Rows,
             NEW p1 \in Part(1, 1 .. row.quantity), NEW p2 \in Part(2, 0 .. row.quantity),
             AllocateFill(row, p1, p2)
      PROVE  SplitInv'
  <2>1. p1 \in PartType /\ p2 \in PartType /\ p1.slot # p2.slot
    BY RowType DEF Part, PartType, Slots
  <2> QED BY <1>2, <2>1, AllocateWithin
<1>3. ASSUME UNCHANGED ledgerVars PROVE SplitInv'
  BY <1>3, SplitKept DEF ledgerVars
<1>4. ASSUME UNCHANGED vars PROVE SplitInv'
  BY <1>4, SplitKept DEF vars
<1>5. ASSUME NEW s, NEW c, NEW a, NEW o,
             InitializeSleeve(s, c, a, o) \/ CurrentPortfolio(s) \/ UpdatePositionMark(s, c, a)
               \/ TransferCash(s, c, a, o) \/ SyncAccountCash(s, c)
               \/ RegisterOrder(s, c) \/ AcknowledgeOrderEvent(s, c) \/ BindBrokerOrder(s, c)
      PROVE  SplitInv'
  BY <1>3, <1>5 DEF InitializeSleeve, CurrentPortfolio, UpdatePositionMark, TransferCash,
                    SyncAccountCash, RegisterOrder, AcknowledgeOrderEvent, BindBrokerOrder
<1>6. ASSUME NEW row, NEW s, ApplyFill(row, s) \/ ApplyOrderEvent(row) \/ IgnoreBrokerFill(s)
      PROVE  SplitInv'
  BY <1>6, SplitKept DEF ApplyFill, ApplyOrderEvent, IgnoreBrokerFill
<1> QED
  BY <1>1, <1>2, <1>4, <1>5, <1>6 DEF Next

\* Cash is a whole number of every currency, transfers are recorded in order, and
\* the account has finitely many sleeves.
CashTypeOK ==
  /\ cash \in [Sleeves -> [Currencies -> Int]]
  /\ transfers \in Seq([from : Sleeves, to : Sleeves, currency : Currencies, amount : Amounts])
  /\ IsFiniteSet(known)

\* Cash is a whole number for each sleeve and currency, when it is seeded
LEMMA CashEnsuredType ==
  ASSUME CashTypeOK, NEW S
  PROVE  CashEnsured(S) \in [Sleeves -> [Currencies -> Int]]
<1>1. \A s \in Sleeves : SeedCash[s] \in [Currencies -> Int] /\ cash[s] \in [Currencies -> Int]
  BY SleeveAssumption DEF CashTypeOK
<1>2. \A s \in Sleeves :
        [c \in Currencies |-> IF cash[s][c] = 0 THEN SeedCash[s][c] ELSE cash[s][c]]
          \in [Currencies -> Int]
  BY <1>1
<1> QED BY <1>1, <1>2 DEF CashEnsured

\* and when a fill is paid.
LEMMA CashAfterType ==
  ASSUME NEW c \in [Sleeves -> [Currencies -> Int]], NEW s \in Sleeves, NEW row \in Rows,
         NEW q \in Nat
  PROVE  CashAfter(c, s, row, q) \in [Sleeves -> [Currencies -> Int]]
<1>1. CurrencyOf[row.symbol] \in Currencies /\ row.price \in Int /\ row.unitFee \in Int
  BY RowType, SleeveAssumption
<1> DEFINE d == CurrencyOf[row.symbol]
           new == IF row.side = "buy" THEN c[s][d] - q * (row.price + row.unitFee)
                  ELSE c[s][d] + NonNegative(q * (row.price - row.unitFee))
<1>2. new \in Int
  <2>1. c[s][d] \in Int /\ q * (row.price + row.unitFee) \in Int
        /\ q * (row.price - row.unitFee) \in Int
    BY <1>1
  <2> QED BY <2>1 DEF NonNegative
<1>3. CashAfter(c, s, row, q) = [c EXCEPT ![s][d] = new]
  BY <1>1 DEF CashAfter
<1> HIDE DEF new, d
<1> QED BY <1>1, <1>2, <1>3 DEF d

\* The sleeves a call names are finitely many.
LEMMA LiveSleeves ==
  ASSUME NEW row \in Rows, NEW p1 \in PartType, NEW p2 \in PartType
  PROVE  /\ {part.sleeve : part \in LiveParts(row, p1, p2)} \subseteq Sleeves
         /\ IsFiniteSet({part.sleeve : part \in LiveParts(row, p1, p2)})
<1> DEFINE L == {part.sleeve : part \in LiveParts(row, p1, p2)}
<1>1. L \subseteq {p1.sleeve} \cup {p2.sleeve}
  BY DEF LiveParts
<1>2. IsFiniteSet({p1.sleeve} \cup {p2.sleeve})
  BY FS_Singleton, FS_Union
<1>3. IsFiniteSet(L)
  <2> HIDE DEF L
  <2> QED BY <1>1, <1>2, FS_Subset
<1> QED BY <1>1, <1>3 DEF PartType

\* The residual sleeve's share of a balance is a whole number.
LEMMA CashOfOthersType ==
  ASSUME LedgerTypeOK, CashTypeOK, NEW c \in Currencies
  PROVE  CashOfOthers(c) \in Int
<1> DEFINE W == [s \in Sleeves |-> cash[s][c]]
           S == known \ {CashSleeve}
<1>1. IsFiniteSet(S)
  BY FS_Subset DEF CashTypeOK
<1>2. \A s \in S : W[s] \in Int
  BY DEF LedgerTypeOK, CashTypeOK
<1> HIDE DEF W, S
<1>3. SumFunctionOnSet(W, S) \in Int
  BY <1>1, <1>2, SumType
<1> QED BY <1>3 DEF CashOfOthers, W, S

\* What a part of an allocation does to the cash is typed.
LEMMA PartCashType ==
  ASSUME NEW c \in [Sleeves -> [Currencies -> Int]], NEW row \in Rows, NEW part \in PartType
  PROVE  PartCash(c, row, part) \in [Sleeves -> [Currencies -> Int]]
<1>1. part.sleeve \in Sleeves /\ part.quantity \in Nat
  BY DEF PartType
<1> QED BY <1>1, CashAfterType DEF PartCash

\* Every operation of the store keeps the cash typed.
LEMMA CashTypeStep ==
  ASSUME LedgerTypeOK, CashTypeOK, [Next]_vars
  PROVE  CashTypeOK'
<1> DEFINE CashType == [Sleeves -> [Currencies -> Int]]
           Transfer == [from : Sleeves, to : Sleeves, currency : Currencies, amount : Amounts]
<1>0. /\ cash \in CashType /\ transfers \in Seq(Transfer) /\ IsFiniteSet(known)
      /\ \A s : IsFiniteSet(known \cup {s})
      /\ \A s, r : IsFiniteSet(known \cup {s, r})
  <2>1. \A s, r : known \cup {s, r} = (known \cup {s}) \cup {r}
    OBVIOUS
  <2> QED BY <2>1, FS_AddElement DEF CashTypeOK
<1>1. \A S : CashEnsured(S) \in CashType
  BY CashEnsuredType
<1> HIDE DEF CashType, Transfer
<1>3. ASSUME NEW s \in Sleeves, CurrentPortfolio(s) PROVE CashTypeOK'
  BY <1>0, <1>1, <1>3 DEF CurrentPortfolio, CashTypeOK, CashType, Transfer
<1>4. ASSUME NEW opening \in Openings, NEW o \in Overwrites,
             InitializeSleeve(opening.sleeve, opening.currency, opening.amount, o)
      PROVE  CashTypeOK'
  <2> DEFINE s == opening.sleeve
             fresh == [d \in Currencies |-> IF d = opening.currency THEN opening.amount ELSE 0]
             new == [d \in Currencies |->
                       IF fresh[d] = 0 /\ s \in CurrencySeeded /\ DOMAIN fills = {}
                                       /\ transfers = <<>>
                       THEN SeedCash[s][d] ELSE fresh[d]]
  <2>1. s \in Sleeves /\ SeedCash[s] \in [Currencies -> Nat] /\ fresh \in [Currencies -> Int]
    BY OpeningType, SleeveAssumption
  <2>2. new \in [Currencies -> Int]
    BY <2>1
  <2>3. cash' = [cash EXCEPT ![s] = new] /\ known' = known \cup {s} /\ transfers' = transfers
    BY <1>4 DEF InitializeSleeve
  <2> HIDE DEF new, s
  <2> QED BY <1>0, <2>1, <2>2, <2>3 DEF CashTypeOK, CashType, Transfer
<1>5. ASSUME NEW from \in Sleeves, NEW to \in Sleeves, NEW c \in Currencies,
             NEW amount \in Amounts, TransferCash(from, to, c, amount)
      PROVE  CashTypeOK'
  <2>1. amount \in Int
    BY BoundAssumption
  <2> DEFINE e == CashEnsured({from, to})
             debited == [e EXCEPT ![from][c] = @ - amount]
             row == [from |-> from, to |-> to, currency |-> c, amount |-> amount]
  <2>2. /\ cash' = [debited EXCEPT ![to][c] = @ + amount]
        /\ transfers' = Append(transfers, row) /\ known' = known \cup {from, to}
    BY <1>5 DEF TransferCash
  <2>3. row \in Transfer
    BY DEF Transfer
  <2>4. e \in CashType
    BY <1>1
  <2> HIDE DEF row, e
  <2>5. debited \in CashType
    BY <2>1, <2>4 DEF CashType
  <2> HIDE DEF debited
  <2>6. cash' \in CashType
    BY <2>1, <2>2, <2>5 DEF CashType
  <2>7. transfers' \in Seq(Transfer)
    BY <1>0, <2>2, <2>3
  <2>8. IsFiniteSet(known')
    BY <1>0, <2>2
  <2> QED BY <2>6, <2>7, <2>8 DEF CashTypeOK, CashType, Transfer
<1>6. ASSUME NEW c \in Currencies, NEW balance \in Balances, SyncAccountCash(c, balance)
      PROVE  CashTypeOK'
  <2>1. balance \in Int /\ CashOfOthers(c) \in Int
    BY BoundAssumption, CashOfOthersType
  <2> DEFINE e == CashEnsured({CashSleeve})
             rest == NonNegative(balance - CashOfOthers(c))
  <2>2. e \in CashType /\ rest \in Int
    BY <1>1, <2>1 DEF NonNegative
  <2>3. /\ cash' = [e EXCEPT ![CashSleeve][c] = rest]
        /\ known' = known \cup {CashSleeve} /\ transfers' = transfers
    BY <1>6 DEF SyncAccountCash
  <2> HIDE DEF e, rest
  <2>4. cash' \in CashType
    BY <2>2, <2>3 DEF CashType
  <2> QED BY <1>0, <2>3, <2>4 DEF CashTypeOK, CashType, Transfer
<1>7. ASSUME NEW o \in Orders, NEW b, RegisterOrder(o, b) \/ AcknowledgeOrderEvent(o, b)
      PROVE  CashTypeOK'
  BY <1>0, <1>1, <1>7 DEF RegisterOrder, AcknowledgeOrderEvent, CashTypeOK, CashType, Transfer
<1>8. ASSUME NEW row \in Rows, NEW s \in Sleeves \cup {NoSleeve}, NEW own, NEW ix,
             IsDict(own, OrderKeys, OwnerType), ApplyNewFill(row, s, own, ix),
             transfers' = transfers
      PROVE  CashTypeOK'
  <2> DEFINE target == TargetSleeve(row, s, own, ix)
  <2>1. target \in Sleeves /\ row.quantity \in Nat
    BY <1>8, TargetType, RowType
  <2>2. /\ cash' = CashAfter(CashEnsured({target}), target, row, row.quantity)
        /\ known' = known \cup {target}
    BY <1>8 DEF ApplyNewFill
  <2> HIDE DEF target
  <2> QED BY <1>0, <1>1, <1>8, <2>1, <2>2, CashAfterType DEF CashTypeOK, CashType, Transfer
<1>9. ASSUME NEW row \in Rows, NEW s \in Sleeves \cup {NoSleeve}, ApplyFill(row, s)
      PROVE  CashTypeOK'
  BY <1>8, <1>9 DEF ApplyFill, LedgerTypeOK
<1>10. ASSUME NEW row \in EventRows, ApplyOrderEvent(row)
       PROVE  CashTypeOK'
  <2> DEFINE own == OwnerBound(row.order, row.broker)
             ix  == IndexBound(row.order, row.broker)
             s   == SleeveOf[row.order]
  <2>1. row \in Rows /\ s \in Sleeves /\ IsDict(own, OrderKeys, OwnerType)
    BY FillAssumption, SleeveAssumption, RowType, BoundType
  <2>2. \/ UNCHANGED <<cash, known, transfers>>
        \/ ApplyNewFill(row, s, own, ix) /\ transfers' = transfers
    BY <1>10 DEF ApplyOrderEvent
  <2> HIDE DEF own, ix, s
  <2> QED BY <1>0, <1>8, <2>1, <2>2 DEF CashTypeOK, CashType, Transfer
<1>11. ASSUME NEW row \in Rows, NEW p1 \in PartType, NEW p2 \in PartType,
              AllocateFill(row, p1, p2)
       PROVE  CashTypeOK'
  <2> DEFINE L == {part.sleeve : part \in LiveParts(row, p1, p2)}
             settled == IF IsLive(row, p1) THEN known \ {p1.sleeve} ELSE {}
             e == CashEnsured(L \ settled)
  <2>1. /\ known' = known \cup L
        /\ cash' = PartCash(PartCash(e, row, p1), row, p2)
        /\ transfers' = transfers
    BY <1>11 DEF AllocateFill
  <2>2. IsFiniteSet(known \cup L)
    <3>1. IsFiniteSet(L)
      BY LiveSleeves
    <3> HIDE DEF L
    <3> QED BY <1>0, <3>1, FS_Union
  <2>3. e \in CashType
    BY <1>1
  <2> HIDE DEF L, e
  <2>4. cash' \in CashType
    BY <2>1, <2>3, PartCashType DEF CashType
  <2> QED BY <1>0, <2>1, <2>2, <2>4 DEF CashTypeOK, CashType, Transfer
<1>12. ASSUME UNCHANGED <<known, cashVars>> PROVE CashTypeOK'
  BY <1>12 DEF cashVars, CashTypeOK
<1>13. ASSUME NEW a, NEW b, NEW c, UpdatePositionMark(a, b, c) \/ BindBrokerOrder(a, b)
       PROVE  CashTypeOK'
  BY <1>12, <1>13 DEF UpdatePositionMark, BindBrokerOrder
<1>14. ASSUME NEW row, RecordBrokerFill(row) \/ IgnoreBrokerFill(row) PROVE CashTypeOK'
  BY <1>12, <1>14 DEF RecordBrokerFill, IgnoreBrokerFill
<1>15. CASE UNCHANGED vars
  BY <1>12, <1>15 DEF vars, cashVars
<1>16. \A row \in Rows :
         \A p1 \in Part(1, 1 .. row.quantity), p2 \in Part(2, 0 .. row.quantity) :
           p1 \in PartType /\ p2 \in PartType
  BY RowType DEF Part, PartType, Slots
<1> QED
  BY <1>3, <1>4, <1>5, <1>6, <1>7, <1>9, <1>10, <1>11, <1>13, <1>14, <1>15, <1>16
  DEF Next

\* No cash, no transfer, no sleeve and no raw fill.
LEMMA CashInit == ASSUME Init PROVE CashTypeOK /\ SplitInv
<1>1. CashTypeOK
  BY FS_EmptySet DEF Init, CashTypeOK
<1>2. AllocationDict(allocations)
  BY EmptyIsDict, FS_EmptySet DEF Init, AllocationDict, EmptyDict
<1>3. AllocationsWithinFill
  BY DEF Init, AllocationsWithinFill, EmptyDict
<1> QED BY <1>1, <1>2, <1>3 DEF SplitInv

\* The four records of fills never contradict each other: a raw fill is split
\* into no more shares than it has and into none once it is ignored, and an
\* indexed broker order number leads to an order whose owner is known.
THEOREM FillRecordsCorrect == Spec => []FillRecordsAgree
<1> DEFINE Inv == LedgerTypeOK /\ LedgerInv /\ CashTypeOK /\ SplitInv
<1>1. Init => Inv
  BY EmptyIsDict, CashInit
  DEF Init, LedgerTypeOK, LedgerInv, AllocationsPosted, IgnoredNeverAllocated,
      IndexOwned, EmptyDict
<1>2. Inv /\ [Next]_vars => Inv'
  BY LedgerTypeStep, LedgerStep, CashTypeStep, SplitStep
<1>3. Inv => FillRecordsAgree
  BY DEF FillRecordsAgree, TypeOK, CashTypeOK, LedgerInv, SplitInv
<1> QED BY <1>1, <1>2, <1>3, PTL DEF Spec

-------------------------------------------------------------------------------
(* Cash is what the ledger explains.                                         *)

TransferRow == [from : Sleeves, to : Sleeves, currency : Currencies, amount : Amounts]
CashType == [Sleeves -> [Currencies -> Int]]

\* CashMatchesLedger for cash m, a ledger f, transfers t and known sleeves K.
Explained(f, t, s, c) ==
  SeedCash[s][c] + Moved(t, "to", s, c) - Moved(t, "from", s, c) + PaidIn(f, s, c)
CashRight(m, f, t, K) ==
  \A s \in K \ {CashSleeve}, c \in Currencies : m[s][c] = Explained(f, t, s, c)

\* Only known sleeves have fills and transfers.
KnownOnly(f, t, K) ==
  /\ \A i \in DOMAIN f : f[i].sleeve \in K
  /\ \A k \in DOMAIN t : t[k].from \in K /\ t[k].to \in K

\* An entry pays a whole number.
LEMMA CashFlowType == ASSUME NEW x \in EntryType PROVE CashFlow(x) \in Int
<1>1. x.quantity \in Nat /\ x.price \in Nat /\ x.unitFee \in Nat
  BY DEF EntryType
<1>2. x.quantity * (x.price + x.unitFee) \in Int /\ x.quantity * (x.price - x.unitFee) \in Int
  BY <1>1
<1> QED BY <1>2 DEF CashFlow, NonNegative

\* What a sleeve's fills paid is a whole number.
LEMMA PaidInType ==
  ASSUME NEW f, FillDict(f), NEW s, NEW c
  PROVE  PaidIn(f, s, c) \in Int
<1> DEFINE A == {k \in DOMAIN f : f[k].sleeve = s /\ CurrencyOf[f[k].symbol] = c}
           W == [k \in DOMAIN f |-> CashFlow(f[k])]
<1>1. IsFiniteSet(A) /\ A \subseteq DOMAIN f
  BY FS_Subset DEF FillDict
<1>2. \A x \in EntryType : CashFlow(x) \in Int
  BY CashFlowType
<1>3. \A k \in A : W[k] \in Int
  BY <1>1, <1>2 DEF FillDict, IsDict
<1>4. PaidIn(f, s, c) = SumFunctionOnSet(W, A)
  BY DEF PaidIn
<1> HIDE DEF A, W
<1> QED BY <1>1, <1>3, <1>4, SumType

\* An entry added to the ledger pays where it belongs and nowhere else.
LEMMA PaidInWith ==
  ASSUME NEW f, FillDict(f), NEW i \in LedgerIds, i \notin DOMAIN f,
         NEW e \in EntryType, NEW s \in Sleeves, NEW c \in Currencies
  PROVE  /\ PaidIn(f, s, c) \in Int
         /\ PaidIn(Put(f, i, e), s, c) =
              IF e.sleeve = s /\ CurrencyOf[e.symbol] = c THEN PaidIn(f, s, c) + CashFlow(e)
                                                          ELSE PaidIn(f, s, c)
<1> DEFINE g == Put(f, i, e)
           A == {k \in DOMAIN f : f[k].sleeve = s /\ CurrencyOf[f[k].symbol] = c}
           B == {k \in DOMAIN g : g[k].sleeve = s /\ CurrencyOf[g[k].symbol] = c}
           W == [k \in DOMAIN f |-> CashFlow(f[k])]
           V == [k \in DOMAIN g |-> CashFlow(g[k])]
<1>1. /\ DOMAIN g = DOMAIN f \cup {i} /\ g[i] = e
      /\ \A k \in DOMAIN f : g[k] = f[k]
  BY DEF Put
<1>2. IsFiniteSet(A) /\ A \subseteq DOMAIN f
  BY FS_Subset DEF FillDict
<1>3. \A x \in EntryType : CashFlow(x) \in Int
  BY CashFlowType
<1>4. \A k \in A : W[k] \in Int
  BY <1>2, <1>3 DEF FillDict, IsDict
<1>5. \A k \in A : V[k] = W[k]
  BY <1>1, <1>2
<1>6. CashFlow(e) \in Int
  BY <1>3
<1> HIDE DEF g
<1>7. V[i] = CashFlow(e)
  BY <1>1
<1>8. PaidIn(f, s, c) = SumFunctionOnSet(W, A) /\ PaidIn(g, s, c) = SumFunctionOnSet(V, B)
  BY DEF PaidIn
<1>9. i \notin A
  BY <1>2
<1>10. SumFunctionOnSet(W, A) \in Int
  <2> HIDE DEF W, A
  <2> QED BY <1>2, <1>4, SumType
<1>11. CASE e.sleeve = s /\ CurrencyOf[e.symbol] = c
  <2>1. B = A \cup {i}
    BY <1>1, <1>11
  <2> HIDE DEF W, V, A, B
  <2>2. SumFunctionOnSet(V, A \cup {i}) = SumFunctionOnSet(W, A) + V[i]
    BY <1>2, <1>4, <1>5, <1>6, <1>7, <1>9, SumAdd
  <2> QED BY <1>7, <1>8, <1>10, <1>11, <2>1, <2>2 DEF g
<1>12. CASE ~(e.sleeve = s /\ CurrencyOf[e.symbol] = c)
  <2>1. B = A
    BY <1>1, <1>12
  <2> HIDE DEF W, V, A, B
  <2>2. SumFunctionOnSet(V, A) = SumFunctionOnSet(W, A)
    BY <1>2, <1>5, SumSame
  <2> QED BY <1>8, <1>10, <1>12, <2>1, <2>2 DEF g
<1> QED BY <1>11, <1>12

\* The transfers of currency c with sleeve s at that end.
AtEnd(t, end, s, c) == {k \in DOMAIN t : t[k][end] = s /\ t[k].currency = c}

\* They are finitely many and add up to a whole number.
LEMMA MovedType ==
  ASSUME NEW t \in Seq(TransferRow), NEW end, NEW s, NEW c
  PROVE  /\ IsFiniteSet(AtEnd(t, end, s, c))
         /\ Moved(t, end, s, c) \in Int
<1> DEFINE A == AtEnd(t, end, s, c)
           W == [k \in DOMAIN t |-> t[k].amount]
<1> USE DEF AtEnd
<1>1. Amounts \subseteq Int
  BY BoundAssumption
<1>2. \A k \in A : W[k] \in Int
  <2>1. \A k \in DOMAIN t : t[k] \in TransferRow
    OBVIOUS
  <2> QED BY <1>1, <2>1 DEF TransferRow
<1>3. IsFiniteSet(DOMAIN t) /\ A \subseteq DOMAIN t
  BY FS_Interval
<1>4. Moved(t, end, s, c) = SumFunctionOnSet(W, A)
  BY DEF Moved
<1> HIDE DEF A, W, AtEnd
<1>5. IsFiniteSet(A)
  BY <1>3, FS_Subset
<1> QED BY <1>2, <1>4, <1>5, SumType DEF A

\* A transfer added to the record moves its amount at its own end.
LEMMA MovedWith ==
  ASSUME NEW t \in Seq(TransferRow), NEW e \in TransferRow, NEW end \in {"from", "to"},
         NEW s \in Sleeves, NEW c \in Currencies
  PROVE  /\ Moved(t, end, s, c) \in Int
         /\ Moved(Append(t, e), end, s, c) =
              IF e[end] = s /\ e.currency = c THEN Moved(t, end, s, c) + e.amount
                                              ELSE Moved(t, end, s, c)
<1> DEFINE u == Append(t, e)
           n == Len(t) + 1
           A == AtEnd(t, end, s, c)
           B == {k \in DOMAIN u : u[k][end] = s /\ u[k].currency = c}
           W == [k \in DOMAIN t |-> t[k].amount]
           V == [k \in DOMAIN u |-> u[k].amount]
<1>1. /\ DOMAIN t = 1 .. Len(t) /\ Len(t) \in Nat
      /\ DOMAIN u = DOMAIN t \cup {n} /\ u[n] = e /\ n \notin DOMAIN t
      /\ \A k \in DOMAIN t : u[k] = t[k] /\ t[k] \in TransferRow
  OBVIOUS
<1>2. IsFiniteSet(A) /\ A \subseteq DOMAIN t
  <2>1. A \subseteq DOMAIN t
    BY DEF AtEnd
  <2> QED BY <2>1, MovedType
<1>3. \A x \in TransferRow : x.amount \in Int
  <2>1. Amounts \subseteq Int
    BY BoundAssumption
  <2> QED BY <2>1 DEF TransferRow
<1> HIDE DEF u, n
<1>4. \A k \in A : W[k] \in Int /\ V[k] = W[k]
  BY <1>1, <1>2, <1>3
<1>5. V[n] = e.amount /\ e.amount \in Int /\ n \notin A
  BY <1>1, <1>2, <1>3
<1>6. Moved(t, end, s, c) = SumFunctionOnSet(W, A) /\ Moved(u, end, s, c) = SumFunctionOnSet(V, B)
  BY DEF Moved, AtEnd
<1>7. SumFunctionOnSet(W, A) \in Int
  BY <1>6, MovedType
<1>8. CASE e[end] = s /\ e.currency = c
  <2>1. B = A \cup {n}
    BY <1>1, <1>8 DEF AtEnd
  <2> HIDE DEF W, V, A, B
  <2>2. SumFunctionOnSet(V, A \cup {n}) = SumFunctionOnSet(W, A) + V[n]
    <3>1. IsFiniteSet(A) /\ n \notin A /\ V[n] \in Int
      BY <1>2, <1>5
    <3>2. \A k \in A : V[k] = W[k] /\ W[k] \in Int
      BY <1>4
    <3> QED BY <3>1, <3>2, SumAdd
  <2> QED BY <1>5, <1>6, <1>7, <1>8, <2>1, <2>2 DEF u
<1>9. CASE ~(e[end] = s /\ e.currency = c)
  <2>1. B = A
    BY <1>1, <1>9 DEF AtEnd
  <2> HIDE DEF W, V, A, B
  <2>2. SumFunctionOnSet(V, A) = SumFunctionOnSet(W, A)
    BY <1>2, <1>4, SumSame
  <2> QED BY <1>6, <1>7, <1>9, <2>1, <2>2 DEF u
<1> QED BY <1>8, <1>9

\* What no fill and no transfer touched is explained by the configured cash.
LEMMA Untouched ==
  ASSUME NEW f, FillDict(f), NEW t \in Seq(TransferRow), NEW K, KnownOnly(f, t, K),
         NEW s \in Sleeves, s \notin K \/ (DOMAIN f = {} /\ t = <<>>), NEW c \in Currencies
  PROVE  Explained(f, t, s, c) = SeedCash[s][c]
<1>1. {k \in DOMAIN f : f[k].sleeve = s /\ CurrencyOf[f[k].symbol] = c} = {}
  BY DEF KnownOnly
<1>2. \A end \in {"from", "to"} : {k \in DOMAIN t : t[k][end] = s /\ t[k].currency = c} = {}
  <2>1. CASE t = <<>>
    BY <2>1
  <2>2. CASE s \notin K
    <3>1. \A k \in DOMAIN t : t[k]["from"] \in K /\ t[k]["to"] \in K
      BY DEF KnownOnly
    <3> QED BY <2>2, <3>1
  <2> QED BY <2>1, <2>2
<1>3. PaidIn(f, s, c) = 0
  BY <1>1, SumEmpty DEF PaidIn
<1>4. Moved(t, "to", s, c) = 0 /\ Moved(t, "from", s, c) = 0
  <2>1. \A end \in {"from", "to"} : Moved(t, end, s, c) = 0
    BY <1>2, SumEmpty DEF Moved
  <2> QED BY <2>1
<1>5. SeedCash[s][c] \in Int
  BY SleeveAssumption
<1> QED BY <1>3, <1>4, <1>5 DEF Explained

\* What must hold for cash to be explained, in every reachable state.
CashInv ==
  /\ LedgerTypeOK
  /\ CashTypeOK
  /\ FillDict(fills)
  /\ KnownOnly(fills, transfers, known)
  /\ CashRight(cash, fills, transfers, known)

\* A sleeve that is ensured has the cash its configuration and ledger explain,
\* whether it is new, keeps its cash or has a missing bucket put back.
LEMMA EnsuredRight ==
  ASSUME CashInv, NEW S \in SUBSET Sleeves
  PROVE  CashRight(CashEnsured(S), fills, transfers, known \cup S)
<1>1. transfers \in Seq(TransferRow) /\ cash \in CashType /\ known \subseteq Sleeves
  BY DEF CashInv, CashTypeOK, TransferRow, CashType, LedgerTypeOK
<1> SUFFICES ASSUME NEW s \in (known \cup S) \ {CashSleeve}, NEW c \in Currencies
             PROVE  CashEnsured(S)[s][c] = Explained(fills, transfers, s, c)
  BY DEF CashRight
<1>2. s \in Sleeves
  BY <1>1
<1>3. CASE s \notin known
  <2>1. CashEnsured(S)[s] = SeedCash[s]
    BY <1>2, <1>3 DEF CashEnsured
  <2> QED BY <1>1, <1>2, <1>3, <2>1, Untouched DEF CashInv
<1>4. CASE s \in known
  <2>1. cash[s][c] = Explained(fills, transfers, s, c)
    BY <1>4 DEF CashInv, CashRight
  <2>2. CASE s \in S /\ RepairsSeed(s)
    <3>1. DOMAIN fills = {} /\ transfers = <<>>
      BY <2>2 DEF RepairsSeed
    <3>2. Explained(fills, transfers, s, c) = SeedCash[s][c]
      BY <1>1, <1>2, <3>1, Untouched DEF CashInv
    <3>3. CashEnsured(S)[s][c] = IF cash[s][c] = 0 THEN SeedCash[s][c] ELSE cash[s][c]
      BY <1>2, <1>4, <2>2 DEF CashEnsured
    <3> QED BY <2>1, <3>2, <3>3
  <2>3. CASE ~(s \in S /\ RepairsSeed(s))
    <3>1. CashEnsured(S)[s] = cash[s]
      BY <1>2, <1>4, <2>3 DEF CashEnsured
    <3> QED BY <2>1, <3>1
  <2> QED BY <2>2, <2>3
<1> QED BY <1>3, <1>4

\* A fill moves cash by what its entry adds to the ledger.
LEMMA CashAfterRight ==
  ASSUME NEW m \in CashType, NEW f, FillDict(f), NEW t \in Seq(TransferRow),
         NEW K \in SUBSET Sleeves, KnownOnly(f, t, K), CashRight(m, f, t, K),
         NEW s \in K, NEW row \in Rows, NEW q \in Nat \ {0},
         NEW i \in LedgerIds, i \notin DOMAIN f
  PROVE  /\ CashAfter(m, s, row, q) \in CashType
         /\ FillDict(Put(f, i, Entry(s, row, q)))
         /\ KnownOnly(Put(f, i, Entry(s, row, q)), t, K)
         /\ CashRight(CashAfter(m, s, row, q), Put(f, i, Entry(s, row, q)), t, K)
<1> DEFINE e == Entry(s, row, q)
           d == CurrencyOf[row.symbol]
<1>1. /\ e \in EntryType /\ e.sleeve = s /\ d \in Currencies /\ CurrencyOf[e.symbol] = d
      /\ row.symbol \in Symbols
  BY EntryTypeOK, RowType, SleeveAssumption DEF Entry
<1>2. CashAfter(m, s, row, q) \in CashType
  BY CashAfterType DEF CashType
<1>3. FillDict(Put(f, i, e))
  <2>1. Posted!With(f, i, e) = Put(f, i, e)
    BY DEF Posted!With, Put
  <2> HIDE DEF e
  <2> QED BY <1>1, <2>1, FillDictWith
<1>4. KnownOnly(Put(f, i, e), t, K)
  <2> HIDE DEF e
  <2> QED BY <1>1 DEF KnownOnly, Put
<1>5. CashFlow(e) = IF row.side = "buy" THEN -(q * (row.price + row.unitFee))
                    ELSE NonNegative(q * (row.price - row.unitFee))
  BY DEF CashFlow, Entry
<1>6. q * (row.price + row.unitFee) \in Int /\ q * (row.price - row.unitFee) \in Int
  <2>1. row.price \in Int /\ row.unitFee \in Int
    BY RowType
  <2> QED BY <2>1
<1>7. ASSUME NEW r \in Sleeves, NEW c \in Currencies
      PROVE  CashAfter(m, s, row, q)[r][c]
               = IF r = s /\ c = d THEN m[r][c] + CashFlow(e) ELSE m[r][c]
  <2>1. m[r][c] \in Int
    BY DEF CashType
  <2>2. CASE r = s /\ c = d
    <3>1. CashAfter(m, s, row, q)[r][c]
            = IF row.side = "buy" THEN m[r][c] - q * (row.price + row.unitFee)
              ELSE m[r][c] + NonNegative(q * (row.price - row.unitFee))
      BY <1>1, <2>2 DEF CashAfter, CashType
    <3>2. PICK a \in Int : a = q * (row.price + row.unitFee)
      BY <1>6
    <3> QED BY <1>5, <2>1, <2>2, <3>1, <3>2
  <2>3. CASE ~(r = s /\ c = d)
    BY <1>1, <2>3 DEF CashAfter, CashType
  <2> QED BY <2>2, <2>3
<1>8. ASSUME NEW r \in K \ {CashSleeve}, NEW c \in Currencies
      PROVE  CashAfter(m, s, row, q)[r][c] = Explained(Put(f, i, e), t, r, c)
  <2> HIDE DEF e, d
  <2>1. r \in Sleeves /\ m[r][c] = Explained(f, t, r, c)
    BY DEF CashRight
  <2>2. /\ PaidIn(f, r, c) \in Int
        /\ PaidIn(Put(f, i, e), r, c)
             = IF r = s /\ c = d THEN PaidIn(f, r, c) + CashFlow(e) ELSE PaidIn(f, r, c)
    BY <1>1, <2>1, PaidInWith
  <2>3. CashFlow(e) \in Int
    BY <1>5, <1>6 DEF NonNegative
  <2>4. SeedCash[r][c] \in Int
    BY <2>1, SleeveAssumption
  <2>5. Moved(t, "to", r, c) \in Int /\ Moved(t, "from", r, c) \in Int
    BY MovedType
  <2> QED BY <1>7, <2>1, <2>2, <2>3, <2>4, <2>5 DEF Explained
<1> QED BY <1>2, <1>3, <1>4, <1>8 DEF CashRight

\* A part of an allocation is one fill, or nothing.
LEMMA PartRight ==
  ASSUME NEW m \in CashType, NEW f, FillDict(f), NEW t \in Seq(TransferRow),
         NEW K \in SUBSET Sleeves, KnownOnly(f, t, K), CashRight(m, f, t, K),
         NEW row \in Rows, NEW part \in PartType,
         IsLive(row, part) => part.sleeve \in K /\ PartId(row, part) \notin DOMAIN f
  PROVE  /\ PartCash(m, row, part) \in CashType
         /\ FillDict(PartFills(f, row, part))
         /\ KnownOnly(PartFills(f, row, part), t, K)
         /\ CashRight(PartCash(m, row, part), PartFills(f, row, part), t, K)
<1>1. CASE IsLive(row, part)
  <2>1. part.quantity \in Nat \ {0} /\ PartId(row, part) \in LedgerIds
    BY <1>1, PartIdType DEF PartType, IsLive
  <2>2. /\ PartCash(m, row, part) = CashAfter(m, part.sleeve, row, part.quantity)
        /\ PartFills(f, row, part)
             = Put(f, PartId(row, part), Entry(part.sleeve, row, part.quantity))
    BY <1>1 DEF PartCash, PartFills
  <2> QED BY <1>1, <2>1, <2>2, CashAfterRight
<1>2. CASE ~IsLive(row, part)
  BY <1>2 DEF PartCash, PartFills
<1> QED BY <1>1, <1>2

\* An allocation call pays each part's sleeve for its part.
LEMMA AllocateRight ==
  ASSUME CashInv, LedgerInv, NEW row \in Rows, NEW p1 \in PartType, NEW p2 \in PartType,
         p1.slot # p2.slot, AllocateFill(row, p1, p2)
  PROVE  /\ FillDict(fills')
         /\ KnownOnly(fills', transfers', known')
         /\ CashRight(cash', fills', transfers', known')
<1> DEFINE L == {part.sleeve : part \in LiveParts(row, p1, p2)}
           settled == IF IsLive(row, p1) THEN known \ {p1.sleeve} ELSE {}
           m == CashEnsured(L \ settled)
           m1 == PartCash(m, row, p1)
           f1 == PartFills(fills, row, p1)
           K == known \cup L
<1>1. /\ known' = K /\ transfers' = transfers
      /\ cash' = PartCash(m1, row, p2) /\ fills' = PartFills(f1, row, p2)
  BY DEF AllocateFill
<1>2. /\ transfers \in Seq(TransferRow) /\ cash \in CashType /\ known \subseteq Sleeves
      /\ FillDict(fills) /\ KnownOnly(fills, transfers, known)
  BY DEF CashInv, CashTypeOK, TransferRow, CashType, LedgerTypeOK
<1>3. L \subseteq Sleeves
  BY LiveSleeves
<1>4. /\ IsLive(row, p1) => p1.sleeve \in K
      /\ IsLive(row, p2) => p2.sleeve \in K
  BY DEF LiveParts
<1>5. known \cup (L \ settled) = K
  BY DEF LiveParts
<1>6. \A part \in PartType :
        IsLive(row, part) => PartId(row, part) \notin DOMAIN fills
  <2> SUFFICES ASSUME NEW part \in PartType, IsLive(row, part),
                      PartId(row, part) \in DOMAIN fills
               PROVE  FALSE
    OBVIOUS
  <2>1. PartId(row, part) \in DOMAIN allocations
    BY PartIdType DEF LedgerInv, AllocationsPosted
  <2> QED BY <2>1 DEF IsLive
<1>7. IsLive(row, p2) => PartId(row, p2) \notin DOMAIN f1
  <2>1. DOMAIN f1 \subseteq DOMAIN fills \cup {PartId(row, p1)}
    BY DEF PartFills, Put
  <2>2. PartId(row, p1) # PartId(row, p2)
    BY DEF PartId
  <2> QED BY <1>6, <2>1, <2>2
<1> HIDE DEF L, settled
<1>8. CashRight(m, fills, transfers, K)
  <2>1. L \ settled \in SUBSET Sleeves
    BY <1>3
  <2>2. CashRight(m, fills, transfers, known \cup (L \ settled))
    BY <2>1, EnsuredRight
  <2> QED BY <1>5, <2>2
<1>9. m \in CashType
  BY CashEnsuredType DEF CashInv, CashType
<1>10. K \in SUBSET Sleeves /\ KnownOnly(fills, transfers, K)
  BY <1>2, <1>3 DEF KnownOnly
<1> HIDE DEF m, K
<1>11. /\ m1 \in CashType /\ FillDict(f1) /\ KnownOnly(f1, transfers, K)
       /\ CashRight(m1, f1, transfers, K)
  BY <1>2, <1>4, <1>6, <1>8, <1>9, <1>10, PartRight
<1> HIDE DEF m1, f1
<1>12. /\ FillDict(PartFills(f1, row, p2)) /\ KnownOnly(PartFills(f1, row, p2), transfers, K)
       /\ CashRight(PartCash(m1, row, p2), PartFills(f1, row, p2), transfers, K)
  BY <1>2, <1>4, <1>7, <1>10, <1>11, PartRight
<1> QED BY <1>1, <1>12

\* A fill whose id is new pays its sleeve once.
LEMMA NewFillRight ==
  ASSUME CashInv, NEW row \in Rows, NEW s \in Sleeves \cup {NoSleeve},
         NEW own, NEW ix, IsDict(own, OrderKeys, OwnerType),
         row.id \notin DOMAIN fills, ApplyNewFill(row, s, own, ix), transfers' = transfers
  PROVE  /\ FillDict(fills')
         /\ KnownOnly(fills', transfers', known')
         /\ CashRight(cash', fills', transfers', known')
<1> DEFINE target == TargetSleeve(row, s, own, ix)
           m == CashEnsured({target})
           K == known \cup {target}
<1>1. target \in Sleeves /\ row.quantity \in Nat \ {0} /\ row.id \in LedgerIds
  BY TargetType, RowType DEF LedgerIds
<1>2. /\ known' = K /\ cash' = CashAfter(m, target, row, row.quantity)
      /\ fills' = Put(fills, row.id, Entry(target, row, row.quantity))
  BY DEF ApplyNewFill
<1> HIDE DEF target
<1>3. /\ transfers \in Seq(TransferRow) /\ K \in SUBSET Sleeves /\ target \in K
      /\ FillDict(fills) /\ KnownOnly(fills, transfers, K)
  BY <1>1 DEF CashInv, CashTypeOK, TransferRow, LedgerTypeOK, KnownOnly
<1>4. m \in CashType /\ CashRight(m, fills, transfers, K)
  BY <1>1, CashEnsuredType, EnsuredRight DEF CashInv, CashType
<1> HIDE DEF m, K
<1> QED BY <1>1, <1>2, <1>3, <1>4, CashAfterRight

\* A transfer takes from one sleeve what it gives to the other.
LEMMA TransferRight ==
  ASSUME CashInv, NEW from \in Sleeves, NEW to \in Sleeves, NEW c \in Currencies,
         NEW amount \in Amounts, TransferCash(from, to, c, amount)
  PROVE  /\ KnownOnly(fills', transfers', known')
         /\ CashRight(cash', fills', transfers', known')
<1> DEFINE m == CashEnsured({from, to})
           debited == [m EXCEPT ![from][c] = @ - amount]
           row == [from |-> from, to |-> to, currency |-> c, amount |-> amount]
           K == known \cup {from, to}
<1>1. /\ known' = K /\ fills' = fills /\ transfers' = Append(transfers, row)
      /\ cash' = [debited EXCEPT ![to][c] = @ + amount]
  BY DEF TransferCash, ledgerVars
<1>2. amount \in Int /\ row \in TransferRow
  BY BoundAssumption DEF TransferRow
<1>3. /\ transfers \in Seq(TransferRow) /\ K \in SUBSET Sleeves /\ FillDict(fills)
      /\ KnownOnly(fills, transfers, known)
  BY DEF CashInv, CashTypeOK, TransferRow, LedgerTypeOK
<1>4. m \in CashType /\ CashRight(m, fills, transfers, K)
  BY CashEnsuredType, EnsuredRight DEF CashInv, CashType
<1>5. /\ row.from = from /\ row.to = to /\ row.currency = c /\ row.amount = amount
      /\ row["from"] = from /\ row["to"] = to
  OBVIOUS
<1>6. KnownOnly(fills, Append(transfers, row), K)
  <2> HIDE DEF row
  <2>1. \A k \in DOMAIN Append(transfers, row) :
          \/ k \in DOMAIN transfers /\ Append(transfers, row)[k] = transfers[k]
          \/ Append(transfers, row)[k] = row
    BY <1>2, <1>3
  <2> QED BY <1>3, <1>5, <2>1 DEF KnownOnly
<1> HIDE DEF m, row
<1>7. ASSUME NEW s \in K \ {CashSleeve}, NEW d \in Currencies
      PROVE  cash'[s][d] = Explained(fills, Append(transfers, row), s, d)
  <2> DEFINE in  == IF to = s /\ c = d THEN amount ELSE 0
             out == IF from = s /\ c = d THEN amount ELSE 0
  <2>1. s \in Sleeves /\ m[s][d] \in Int
    BY <1>3, <1>4 DEF CashType
  <2>2. cash'[s][d] = m[s][d] + in - out
    <3>1. debited \in CashType /\ debited[s][d] = m[s][d] - out
      BY <1>2, <1>4, <2>1 DEF CashType
    <3> HIDE DEF debited
    <3>2. cash'[s][d] = debited[s][d] + in
      BY <1>1, <1>2, <2>1, <3>1 DEF CashType
    <3> QED BY <1>2, <2>1, <3>1, <3>2
  <2>3. /\ Moved(transfers, "to", s, d) \in Int /\ Moved(transfers, "from", s, d) \in Int
        /\ Moved(Append(transfers, row), "to", s, d) = Moved(transfers, "to", s, d) + in
        /\ Moved(Append(transfers, row), "from", s, d) = Moved(transfers, "from", s, d) + out
    <3>1. Moved(transfers, "to", s, d) \in Int /\ Moved(transfers, "from", s, d) \in Int
      BY <1>3, MovedType
    <3>2. Moved(Append(transfers, row), "to", s, d) = Moved(transfers, "to", s, d) + in
      BY <1>2, <1>3, <1>5, <2>1, <3>1, MovedWith
    <3>3. Moved(Append(transfers, row), "from", s, d) = Moved(transfers, "from", s, d) + out
      BY <1>2, <1>3, <1>5, <2>1, <3>1, MovedWith
    <3> QED BY <3>1, <3>2, <3>3
  <2>4. PaidIn(fills, s, d) \in Int
    BY <1>3, <2>1, PaidInType
  <2>5. SeedCash[s][d] \in Int /\ in \in Int /\ out \in Int
    BY <1>2, <2>1, SleeveAssumption
  <2>6. m[s][d] = Explained(fills, transfers, s, d)
    BY <1>4 DEF CashRight
  <2> HIDE DEF in, out
  <2> QED BY <2>1, <2>2, <2>3, <2>4, <2>5, <2>6 DEF Explained
<1> QED BY <1>1, <1>6, <1>7 DEF CashRight

\* The sleeves are initialized with their configured cash (the residual sleeve
\* with any), as the runtime and the command line do.
ConfiguredOpenings ==
  \A opening \in Openings : opening.sleeve # CashSleeve =>
    \A c \in Currencies :
      SeedCash[opening.sleeve][c] = IF c = opening.currency THEN opening.amount ELSE 0

\* An operation that neither fills nor transfers explains the cash it ensures.
LEMMA EnsureStep ==
  ASSUME CashInv, NEW S \in SUBSET Sleeves, known' = known \cup S,
         UNCHANGED <<fills, transfers>>,
         \A s \in Sleeves \ {CashSleeve}, c \in Currencies : cash'[s][c] = CashEnsured(S)[s][c]
  PROVE  /\ FillDict(fills')
         /\ KnownOnly(fills', transfers', known')
         /\ CashRight(cash', fills', transfers', known')
<1>1. known \cup S \subseteq Sleeves
  BY DEF CashInv, LedgerTypeOK
<1>2. CashRight(CashEnsured(S), fills, transfers, known \cup S)
  BY EnsuredRight
<1>3. CashRight(cash', fills, transfers, known \cup S)
  BY <1>1, <1>2 DEF CashRight
<1> QED BY <1>3 DEF CashInv, KnownOnly

\* A sleeve that is initialized has its configured cash, and had no fill before.
LEMMA OpeningRight ==
  ASSUME ConfiguredOpenings, CashInv, NEW opening \in Openings,
         InitializeSleeve(opening.sleeve, opening.currency, opening.amount, FALSE)
  PROVE  /\ FillDict(fills')
         /\ KnownOnly(fills', transfers', known')
         /\ CashRight(cash', fills', transfers', known')
<1> DEFINE s == opening.sleeve
           fresh == [d \in Currencies |-> IF d = opening.currency THEN opening.amount ELSE 0]
           reseeds == s \in CurrencySeeded /\ DOMAIN fills = {} /\ transfers = <<>>
           new == [d \in Currencies |-> IF fresh[d] = 0 /\ reseeds THEN SeedCash[s][d]
                                                                   ELSE fresh[d]]
<1>1. /\ s \notin known /\ known' = known \cup {s} /\ cash' = [cash EXCEPT ![s] = new]
      /\ fills' = fills /\ transfers' = transfers
  BY DEF InitializeSleeve, ledgerVars
<1>2. s \in Sleeves /\ cash \in CashType /\ transfers \in Seq(TransferRow)
  BY OpeningType DEF CashInv, CashTypeOK, TransferRow, CashType
<1>3. ASSUME s # CashSleeve, NEW d \in Currencies PROVE new[d] = SeedCash[s][d]
  BY <1>3 DEF ConfiguredOpenings
<1> HIDE DEF new
<1>4. ASSUME NEW r \in (known \cup {s}) \ {CashSleeve}, NEW d \in Currencies
      PROVE  cash'[r][d] = Explained(fills, transfers, r, d)
  <2>1. CASE r = s
    <3>1. cash'[r][d] = SeedCash[s][d]
      BY <1>1, <1>2, <1>3, <1>4, <2>1 DEF CashType
    <3>2. Explained(fills, transfers, s, d) = SeedCash[s][d]
      BY <1>1, <1>2, Untouched DEF CashInv
    <3> QED BY <2>1, <3>1, <3>2
  <2>2. CASE r # s
    <3>1. r \in known /\ cash'[r] = cash[r]
      BY <1>1, <1>2, <1>4, <2>2 DEF CashType, CashInv, LedgerTypeOK
    <3> QED BY <1>4, <3>1 DEF CashInv, CashRight
  <2> QED BY <2>1, <2>2
<1>5. KnownOnly(fills, transfers, known \cup {s})
  BY DEF CashInv, KnownOnly
<1> HIDE DEF s
<1> QED BY <1>1, <1>4, <1>5 DEF CashInv, CashRight

\* Every operation keeps the cash explained.
LEMMA CashStep ==
  ASSUME Overwrites \subseteq {FALSE}, ConfiguredOpenings, CashInv, LedgerInv, [Next]_vars
  PROVE  CashInv'
<1> DEFINE Goal == /\ FillDict(fills')
                   /\ KnownOnly(fills', transfers', known')
                   /\ CashRight(cash', fills', transfers', known')
<1>0. LedgerTypeOK' /\ CashTypeOK'
  BY LedgerTypeStep, CashTypeStep DEF CashInv
<1>1. ASSUME NEW s \in Sleeves, CurrentPortfolio(s) PROVE Goal
  BY <1>1, EnsureStep DEF CurrentPortfolio, ledgerVars
<1>2. ASSUME NEW opening \in Openings, NEW o \in Overwrites,
             InitializeSleeve(opening.sleeve, opening.currency, opening.amount, o)
      PROVE  Goal
  <2>1. o = FALSE
    OBVIOUS
  <2> QED BY <1>2, <2>1, OpeningRight
<1>3. ASSUME NEW from \in Sleeves, NEW to \in Sleeves, NEW c \in Currencies,
             NEW amount \in Amounts, TransferCash(from, to, c, amount)
      PROVE  Goal
  <2>1. FillDict(fills')
    BY <1>3 DEF TransferCash, ledgerVars, CashInv
  <2> QED BY <1>3, <2>1, TransferRight
<1>4. ASSUME NEW c \in Currencies, NEW balance \in Balances, SyncAccountCash(c, balance)
      PROVE  Goal
  <2> DEFINE m == CashEnsured({CashSleeve})
  <2>1. m \in CashType
    BY CashEnsuredType DEF CashInv, CashType
  <2>2. /\ known' = known \cup {CashSleeve} /\ fills' = fills /\ transfers' = transfers
        /\ cash' = [m EXCEPT ![CashSleeve][c] = NonNegative(balance - CashOfOthers(c))]
    BY <1>4 DEF SyncAccountCash, ledgerVars
  <2> HIDE DEF m
  <2>3. \A s \in Sleeves \ {CashSleeve} : cash'[s] = m[s]
    BY <2>1, <2>2 DEF CashType
  <2>4. \A s \in Sleeves \ {CashSleeve}, d \in Currencies : cash'[s][d] = m[s][d]
    BY <2>3
  <2>5. {CashSleeve} \in SUBSET Sleeves
    BY SleeveAssumption
  <2> QED BY <2>2, <2>4, <2>5, EnsureStep DEF m
<1>5. ASSUME NEW o \in Orders, NEW b, RegisterOrder(o, b) \/ AcknowledgeOrderEvent(o, b)
      PROVE  Goal
  <2>1. SleeveOf[o] \in Sleeves
    BY SleeveAssumption
  <2>2. /\ known' = known \cup {SleeveOf[o]} /\ fills' = fills /\ transfers' = transfers
        /\ cash' = CashEnsured({SleeveOf[o]})
    BY <1>5 DEF RegisterOrder, AcknowledgeOrderEvent, ledgerVars
  <2> QED BY <2>1, <2>2, EnsureStep
<1>6. ASSUME NEW row \in Rows, NEW s \in Sleeves \cup {NoSleeve}, ApplyFill(row, s)
      PROVE  Goal
  BY <1>6, NewFillRight DEF ApplyFill, CashInv, LedgerTypeOK
<1>7. ASSUME UNCHANGED <<known, cash, fills, transfers>> PROVE Goal
  BY <1>7 DEF CashInv
<1>8. ASSUME NEW row \in EventRows, ApplyOrderEvent(row) PROVE Goal
  <2> DEFINE own == OwnerBound(row.order, row.broker)
             ix  == IndexBound(row.order, row.broker)
             s   == SleeveOf[row.order]
  <2>1. row \in Rows /\ s \in Sleeves /\ IsDict(own, OrderKeys, OwnerType)
    BY FillAssumption, SleeveAssumption, RowType, BoundType DEF CashInv
  <2>2. \/ UNCHANGED <<known, cash, fills, transfers>>
        \/ row.id \notin DOMAIN fills /\ ApplyNewFill(row, s, own, ix) /\ transfers' = transfers
    BY <1>8 DEF ApplyOrderEvent
  <2> HIDE DEF own, ix, s, Goal
  <2>3. CASE UNCHANGED <<known, cash, fills, transfers>>
    BY <1>7, <2>3
  <2>4. CASE row.id \notin DOMAIN fills /\ ApplyNewFill(row, s, own, ix) /\ transfers' = transfers
    BY <2>1, <2>4, NewFillRight DEF Goal
  <2> QED BY <2>2, <2>3, <2>4
<1>9. ASSUME NEW row \in Rows, NEW p1 \in PartType, NEW p2 \in PartType,
             p1.slot # p2.slot, AllocateFill(row, p1, p2)
      PROVE  Goal
  BY <1>9, AllocateRight
<1>10. \A row \in Rows :
         \A p1 \in Part(1, 1 .. row.quantity), p2 \in Part(2, 0 .. row.quantity) :
           p1 \in PartType /\ p2 \in PartType /\ p1.slot # p2.slot
  BY RowType DEF Part, PartType, Slots
<1> HIDE DEF Goal
<1>11. ASSUME NEW a, NEW b, NEW c, UpdatePositionMark(a, b, c) \/ BindBrokerOrder(a, b)
       PROVE  Goal
  BY <1>7, <1>11 DEF UpdatePositionMark, BindBrokerOrder, cashVars, ledgerVars
<1>12. ASSUME NEW row, RecordBrokerFill(row) \/ IgnoreBrokerFill(row) PROVE Goal
  BY <1>7, <1>12 DEF RecordBrokerFill, IgnoreBrokerFill, cashVars
<1>13. ASSUME UNCHANGED vars PROVE Goal
  BY <1>7, <1>13 DEF vars
<1>14. Goal
  BY <1>1, <1>2, <1>3, <1>4, <1>5, <1>6, <1>8, <1>9, <1>10, <1>11, <1>12, <1>13 DEF Next
<1> QED BY <1>0, <1>14 DEF CashInv, Goal

\* With sleeves initialized once and with their configured cash, every known
\* sleeve but the residual one holds exactly its configured cash plus what its
\* transfers and its fills brought: reads that put a seed back, balance
\* synchronisation and split fills neither create nor lose cash.
THEOREM CashExplained ==
  ASSUME Overwrites \subseteq {FALSE}, ConfiguredOpenings
  PROVE  Spec => []CashMatchesLedger
<1> DEFINE Inv == CashInv /\ LedgerInv
<1>1. Init => Inv
  <2> SUFFICES ASSUME Init PROVE Inv
    OBVIOUS
  <2>1. LedgerTypeOK /\ LedgerInv
    BY EmptyIsDict
    DEF Init, LedgerTypeOK, LedgerInv, AllocationsPosted, IgnoredNeverAllocated,
        IndexOwned, EmptyDict
  <2>2. KnownOnly(fills, transfers, known) /\ CashRight(cash, fills, transfers, known)
    BY DEF Init, KnownOnly, CashRight, EmptyDict
  <2> QED BY <2>1, <2>2, CashInit, TalliedInit DEF CashInv
<1>2. Inv /\ [Next]_vars => Inv'
  BY CashStep, LedgerStep DEF CashInv
<1>3. Inv => CashMatchesLedger
  BY DEF CashInv, CashRight, Explained, CashMatchesLedger
<1> QED BY <1>1, <1>2, <1>3, PTL DEF Spec

-------------------------------------------------------------------------------
(* Importers. Whatever they, the order runtime and the operators interleave,   *)
(* the account file only ever takes steps of VirtualAccount.                   *)

\* Every variable of the importers has its type.
LEMMA SyncTypeStep ==
  ASSUME SyncTypeOK, [SyncNext]_syncVars
  PROVE  SyncTypeOK'
<1> USE DEF SyncTypeOK
<1>1. ASSUME NEW r \in Rows, Execute(r)
      PROVE  SyncTypeOK'
  BY <1>1 DEF Execute, importVars
<1>2. ASSUME NEW i \in Importers, NEW s \in Assigns \cup {NoSleeve}, Fetch(i, s)
      PROVE  SyncTypeOK'
  BY <1>2, SyncAssumption DEF Fetch
<1>3. ASSUME NEW i \in Importers, NEW r \in Rows, CheckExists(i, r)
      PROVE  SyncTypeOK'
  BY <1>3 DEF CheckExists
<1>4. ASSUME NEW i \in Importers, NEW r \in Rows, RecordRaw(i, r) \/ ApplyRow(i, r)
      PROVE  SyncTypeOK'
  BY <1>4 DEF RecordRaw, ApplyRow, RowDone
<1>5. ASSUME NEW i \in Importers, ReadOwnership(i)
      PROVE  SyncTypeOK'
  BY <1>5 DEF ReadOwnership
<1>6. ASSUME NEW i \in Importers, Finish(i)
      PROVE  SyncTypeOK'
  BY <1>6 DEF Finish
<1>7. ASSUME UNCHANGED <<history, importVars>>
      PROVE  SyncTypeOK'
  BY <1>7 DEF importVars
<1>8. ASSUME NEW o \in Orders, Register(o) \/ Accept(o)
      PROVE  SyncTypeOK'
  BY <1>8, <1>7 DEF Register, Accept
<1>9. ASSUME NEW r \in Rows, NEW p1, NEW p2, Allocate(r, p1, p2)
      PROVE  SyncTypeOK'
  BY <1>9, <1>7 DEF Allocate
<1>10. ASSUME NEW f \in FillIds, Ignore(f)
       PROVE  SyncTypeOK'
  BY <1>10, <1>7 DEF Ignore
<1>11. CASE UNCHANGED syncVars
  BY <1>11, <1>7 DEF syncVars
<1> QED
  BY <1>1, <1>2, <1>3, <1>4, <1>5, <1>6, <1>8, <1>9, <1>10, <1>11, SyncAssumption
     DEF SyncNext, ImportStep

\* Every step of every process is one operation of the store, or leaves the
\* store alone.
LEMMA SyncStepIsStoreStep ==
  ASSUME SyncTypeOK, [SyncNext]_syncVars
  PROVE  [Next]_vars
<1>1. ASSUME NEW r \in Rows, Execute(r)
      PROVE  UNCHANGED vars
  BY <1>1 DEF Execute
<1>2. ASSUME NEW i \in Importers, NEW s, Fetch(i, s)
      PROVE  UNCHANGED vars
  BY <1>2 DEF Fetch
<1>3. ASSUME NEW i \in Importers, NEW r \in Rows, CheckExists(i, r) \/ ReadOwnership(i)
      PROVE  UNCHANGED vars
  BY <1>3 DEF CheckExists, ReadOwnership
<1>4. ASSUME NEW i \in Importers, NEW r \in Rows, RecordRaw(i, r)
      PROVE  [Next]_vars
  BY <1>4, SyncAssumption DEF RecordRaw, Next
<1>5. ASSUME NEW i \in Importers, NEW r \in Rows, ApplyRow(i, r)
      PROVE  [Next]_vars
  <2>1. assign[i] \in Sleeves \cup {NoSleeve}
    BY DEF SyncTypeOK
  <2> QED
    BY <1>5, <2>1, SyncAssumption DEF ApplyRow, Next
<1>6. ASSUME NEW i \in Importers, Finish(i)
      PROVE  Next
  BY <1>6, SyncAssumption DEF Finish, Next
<1>7. ASSUME NEW o \in Orders, Register(o) \/ Accept(o)
      PROVE  Next
  BY <1>7, SyncAssumption DEF Register, Accept, Next
<1>8. ASSUME NEW r \in Rows, NEW p1 \in Part(1, 1 .. r.quantity),
             NEW p2 \in Part(2, 0 .. r.quantity), Allocate(r, p1, p2)
      PROVE  Next
  BY <1>8, SyncAssumption DEF Allocate, Next
<1>9. ASSUME NEW f \in FillIds, Ignore(f)
      PROVE  Next
  BY <1>9 DEF Ignore, Next
<1>10. CASE UNCHANGED syncVars
  BY <1>10 DEF syncVars
<1>11. ASSUME NEW i \in Importers, ReadOwnership(i)
       PROVE  UNCHANGED vars
  BY <1>11 DEF ReadOwnership
<1> QED
  BY <1>1, <1>2, <1>3, <1>4, <1>5, <1>6, <1>7, <1>8, <1>9, <1>10, <1>11, SyncAssumption
     DEF SyncNext, ImportStep

\* However imports, order registrations and operators' splits interleave, the
\* account behaves as the store's own specification allows.
LEMMA SyncWithinStore == SyncSpec => Spec
<1>1. SyncInit => Init /\ SyncTypeOK
  BY DEF SyncInit, SyncTypeOK
<1>2. SyncTypeOK /\ [SyncNext]_syncVars => SyncTypeOK' /\ [Next]_vars
  BY SyncTypeStep, SyncStepIsStoreStep
<1> QED
  BY <1>1, <1>2, PTL DEF SyncSpec, Spec

\* So what is proved of the store holds while imports run: allocations have
\* exactly their ledger entries, ignored fills are never allocated, and indexed
\* broker numbers lead to owned orders.
THEOREM SyncKeepsLedgers ==
  SyncSpec => [](AllocationsPosted /\ IgnoredNeverAllocated /\ IndexOwned)
BY SyncWithinStore, LedgersConsistent, PTL

\* And while the check of a row and its booking interleave with other imports,
\* a holding remains what the ledger's entries add up to.
THEOREM SyncHoldingsTally ==
  ASSUME Overwrites \subseteq {FALSE}
  PROVE  SyncSpec => []HoldingsMatchFills
BY SyncWithinStore, HoldingsTally, PTL

-------------------------------------------------------------------------------
(* Fills reach the sleeve that placed the order, and once.                   *)

\* What the theorems below ask of the imports: numbers are bound before an order
\* executes and no import gives unknown rows to a sleeve (run sync_twice shows
\* what happens otherwise); and of the broker: a row carries the number of its
\* order, which no local order id looks like, all rows of one fill carry the
\* same number, and orders of two sleeves have no number in common.
BoundFirst ==
  /\ ~LateBinding
  /\ Assigns \subseteq {NoSleeve}
  /\ Orders \cap BrokerIds = {}
  /\ \A r \in Rows : r.broker \in BrokerIds /\ r.order = r.broker
  /\ \A r, q \in Rows : r.id = q.id => r.broker = q.broker
  /\ \A o, p \in Orders : AliasesOf[NumberOf[o]] \cap AliasesOf[NumberOf[p]] # {}
                            => SleeveOf[o] = SleeveOf[p]

Own(r) == OrdersOf(r) # {}

\* The broker reports that many shares of f.
Executed(f, quantity) == \E h \in history : h.id = f /\ quantity <= h.quantity

\* Owners are the sleeves that placed the orders, and numbers lead to them.
OwnersTrue ==
  /\ \A o \in DOMAIN owner : o \in Orders /\ owner[o].sleeve = SleeveOf[o]
  /\ \A b \in DOMAIN index : index[b] \in Orders /\ b \in AliasesOf[NumberOf[index[b]]]

\* A row that was fetched was executed, by an order whose number is bound.
Fetched(r) == /\ Own(r) => r.broker \in DOMAIN index
              /\ Executed(r.id, r.quantity)

RowsFetched ==
  /\ \A r \in history : Fetched(r)
  /\ \A i \in Importers : \A r \in todo[i] \cup hand[i] : Fetched(r)

\* An importer works on one row, and holds an owned row as such whatever happened
\* since it looked.
StagesTrue ==
  \A i \in Importers :
    /\ assign[i] = NoSleeve
    /\ \A r, q \in hand[i] : r = q
    /\ pc[i] \in {"owned", "unowned"} => \A r \in hand[i] : (pc[i] = "owned" <=> Own(r))

\* Only rows nobody owns are recorded raw, and only owned ones are applied.
RawUnowned ==
  \A f \in DOMAIN brokerFills :
    /\ brokerFills[f].id = f
    /\ ~Own(brokerFills[f])
    /\ Executed(f, brokerFills[f].quantity)

PostedOwned ==
  \A f \in DOMAIN fills \cap FillIds :
    \E q \in Rows : /\ q.id = f
                    /\ \E o \in OrdersOf(q) : fills[f].sleeve = SleeveOf[o]
                    /\ fills[f].quantity = q.quantity
                    /\ Executed(f, q.quantity)

SyncInv == OwnersTrue /\ RowsFetched /\ StagesTrue /\ RawUnowned /\ PostedOwned

\* What holds of the store whatever its callers do.
StoreInv == LedgerTypeOK /\ LedgerInv /\ SplitInv

\* A row whose order is bound is owned, by the sleeve of its order.
LEMMA OwnedRow ==
  ASSUME BoundFirst, StoreInv, OwnersTrue, NEW r \in Rows, Own(r), Fetched(r)
  PROVE  /\ OwnershipKnown(r.order)
         /\ IsOwned(r, owner, index)
         /\ \E o \in OrdersOf(r) : TargetSleeve(r, NoSleeve, owner, index) = SleeveOf[o]
<1> DEFINE o == index[r.broker]
<1>1. r.order = r.broker /\ r.broker \in DOMAIN index /\ r.broker \notin DOMAIN owner
  BY DEF BoundFirst, Fetched, OwnersTrue
<1>2. o \in DOMAIN owner
  BY <1>1 DEF StoreInv, LedgerInv, IndexOwned
<1>3. o \in Orders /\ r.broker \in AliasesOf[NumberOf[o]] /\ owner[o].sleeve = SleeveOf[o]
  BY <1>1, <1>2 DEF OwnersTrue
<1>4. o \in OrdersOf(r)
  BY <1>3 DEF OrdersOf
<1>5. OwnerKey(r, owner, index) = o
  BY <1>1 DEF OwnerKey
<1>6. IsOwned(r, owner, index) /\ TargetSleeve(r, NoSleeve, owner, index) = SleeveOf[o]
  BY <1>2, <1>3, <1>5 DEF IsOwned, TargetSleeve
<1> HIDE DEF o
<1>7. OwnershipKnown(r.order)
  BY <1>1, <1>2 DEF OwnershipKnown, o
<1> QED BY <1>4, <1>6, <1>7

\* A row of no local order is nobody's.
LEMMA UnownedRow ==
  ASSUME BoundFirst, OwnersTrue, NEW r \in Rows, ~Own(r)
  PROVE  ~OwnershipKnown(r.order)
<1>1. r.order = r.broker /\ r.order \notin DOMAIN owner
  BY DEF BoundFirst, OwnersTrue
<1>2. r.broker \notin DOMAIN index
  BY DEF OwnersTrue, Own, OrdersOf
<1> QED BY <1>1, <1>2 DEF OwnershipKnown

\* What a fetched row asks of the state keeps holding as numbers are bound and
\* the broker executes more.
LEMMA FetchedKept ==
  ASSUME NEW r, Fetched(r), DOMAIN index \subseteq DOMAIN index',
         \A f, q : Executed(f, q) => Executed(f, q)'
  PROVE  Fetched(r)'
<1>1. Own(r)' <=> Own(r)
  BY DEF Own, OrdersOf
<1>2. Executed(r.id, r.quantity)'
  BY DEF Fetched
<1>3. (r.broker \in DOMAIN index)' <=> r.broker \in DOMAIN index'
  OBVIOUS
<1> QED BY <1>1, <1>2, <1>3 DEF Fetched

\* What the broker has executed stays executed.
LEMMA ExecutedKept ==
  ASSUME SyncTypeOK, NEW r \in Rows, Execute(r), NEW f, NEW q \in Nat, Executed(f, q)
  PROVE  Executed(f, q)'
<1>1. PICK h \in history : h.id = f /\ q <= h.quantity
  BY DEF Executed
<1>2. h \in Rows /\ h.quantity \in Nat /\ r.quantity \in Nat
  BY RowType DEF SyncTypeOK
<1>3. /\ history' = {old \in history : old.id # r.id} \cup {r}
      /\ \A old \in history : old.id = r.id => old.quantity < r.quantity
  BY DEF Execute
<1>4. CASE h.id # r.id
  BY <1>1, <1>3, <1>4 DEF Executed
<1>5. CASE h.id = r.id
  BY <1>1, <1>2, <1>3, <1>5 DEF Executed
<1> QED BY <1>4, <1>5

\* A step of an importer that leaves the account file as it is.
LEMMA LookStep ==
  ASSUME BoundFirst, SyncTypeOK, StoreInv, SyncInv, UNCHANGED vars,
         NEW i \in Importers,
         \/ \E s : (s = NoSleeve \/ s \in Assigns) /\ Fetch(i, s)
         \/ \E r \in Rows : CheckExists(i, r)
         \/ ReadOwnership(i)
         \/ RowDone(i) /\ UNCHANGED vars
  PROVE  SyncInv'
<1>1. history' = history
  BY DEF Fetch, CheckExists, ReadOwnership, RowDone
<1>2. \A f, q : Executed(f, q)' <=> Executed(f, q)
  BY <1>1 DEF Executed
<1>3. /\ owner' = owner /\ index' = index /\ fills' = fills /\ brokerFills' = brokerFills
  BY DEF vars
<1>4. OwnersTrue'
  BY <1>3 DEF SyncInv, OwnersTrue
<1>5. \A r : Own(r)' <=> Own(r)
  BY DEF Own, OrdersOf
<1>6. RawUnowned' /\ PostedOwned'
  BY <1>2, <1>3, <1>5 DEF SyncInv, RawUnowned, PostedOwned, OrdersOf
<1>7. \A r : Fetched(r)' <=> Fetched(r)
  BY <1>2, <1>3, <1>5 DEF Fetched
<1>8. RowsFetched'
  <2>1. \A j \in Importers :
          todo'[j] \cup hand'[j] \subseteq todo[j] \cup hand[j] \cup history
    BY DEF Fetch, CheckExists, ReadOwnership, RowDone, SyncTypeOK
  <2> QED BY <1>1, <1>7, <2>1 DEF SyncInv, RowsFetched
<1>9. StagesTrue'
  <2>1. ASSUME NEW s, s = NoSleeve \/ s \in Assigns, Fetch(i, s) PROVE StagesTrue'
    BY <1>5, <2>1 DEF Fetch, SyncInv, StagesTrue, BoundFirst, SyncTypeOK
  <2>2. ASSUME NEW r \in Rows, CheckExists(i, r) PROVE StagesTrue'
    BY <1>5, <2>2 DEF CheckExists, SyncInv, StagesTrue, SyncTypeOK
  <2>3. ASSUME ReadOwnership(i) PROVE StagesTrue'
    <3>1. PICK r \in hand[i] :
            pc' = [pc EXCEPT ![i] = IF OwnershipKnown(r.order) THEN "owned" ELSE "unowned"]
      BY <2>3 DEF ReadOwnership
    <3>2. r \in Rows /\ Fetched(r) /\ OwnersTrue
      BY DEF SyncTypeOK, SyncInv, RowsFetched
    <3>3. OwnershipKnown(r.order) <=> Own(r)
      BY <3>2, OwnedRow, UnownedRow
    <3>4. UNCHANGED <<hand, assign>> /\ \A q \in hand[i] : q = r
      BY <2>3 DEF ReadOwnership, SyncInv, StagesTrue
    <3>5. pc'[i] = (IF Own(r) THEN "owned" ELSE "unowned")
          /\ \A j \in Importers \ {i} : pc'[j] = pc[j]
      BY <3>1, <3>3 DEF SyncTypeOK
    <3>6. ASSUME NEW j \in Importers
          PROVE  /\ assign'[j] = NoSleeve
                 /\ \A u, q \in hand'[j] : u = q
                 /\ pc'[j] \in {"owned", "unowned"} =>
                      \A u \in hand'[j] : (pc'[j] = "owned" <=> Own(u))
      <4>1. assign[j] = NoSleeve /\ \A u, q \in hand[j] : u = q
        BY DEF SyncInv, StagesTrue
      <4>2. CASE j = i
        BY <3>4, <3>5, <4>1, <4>2
      <4>3. CASE j # i
        BY <3>4, <3>5, <4>1, <4>3 DEF SyncInv, StagesTrue
      <4> QED BY <4>2, <4>3
    <3> QED BY <1>5, <3>6 DEF StagesTrue
  <2>4. ASSUME RowDone(i) PROVE StagesTrue'
    BY <1>5, <2>4 DEF RowDone, SyncInv, StagesTrue, SyncTypeOK
  <2> QED BY <2>1, <2>2, <2>3, <2>4
<1> QED BY <1>4, <1>6, <1>8, <1>9 DEF SyncInv

\* What a step that fetches nothing new leaves of the importers.
LEMMA DoneStep ==
  ASSUME SyncTypeOK, SyncInv, NEW i \in Importers,
         \/ RowDone(i)
         \/ UNCHANGED <<history, importVars>>
         \/ /\ pc' = [pc EXCEPT ![i] = "idle"]
            /\ UNCHANGED <<history, todo, hand, assign>>,
         DOMAIN index \subseteq DOMAIN index'
  PROVE  /\ RowsFetched'
         /\ StagesTrue'
         /\ \A f, q : Executed(f, q)' <=> Executed(f, q)
<1>1. history' = history
  BY DEF RowDone
<1>2. \A f, q : Executed(f, q)' <=> Executed(f, q)
  BY <1>1 DEF Executed
<1>3. \A r : Own(r)' <=> Own(r)
  BY DEF Own, OrdersOf
<1>4. \A r : Fetched(r) => Fetched(r)'
  BY <1>2, FetchedKept
<1>5. RowsFetched'
  <2>1. \A j \in Importers : todo'[j] \subseteq todo[j] /\ hand'[j] \subseteq hand[j]
    BY DEF RowDone, SyncTypeOK, importVars
  <2> QED BY <1>1, <1>4, <2>1 DEF SyncInv, RowsFetched
<1>6. ASSUME NEW j \in Importers
      PROVE  /\ assign'[j] = NoSleeve
             /\ \A r, q \in hand'[j] : r = q
             /\ pc'[j] \in {"owned", "unowned"} =>
                  \A r \in hand'[j] : (pc'[j] = "owned" <=> Own(r))
  <2>1. /\ assign[j] = NoSleeve
        /\ \A r, q \in hand[j] : r = q
        /\ pc[j] \in {"owned", "unowned"} => \A r \in hand[j] : (pc[j] = "owned" <=> Own(r))
    BY DEF SyncInv, StagesTrue
  <2>2. /\ assign' = assign /\ hand'[j] \subseteq hand[j]
        /\ pc'[j] = pc[j] \/ pc'[j] \in {"rows", "idle"}
    BY DEF RowDone, SyncTypeOK, importVars
  <2> QED BY <2>1, <2>2
<1>7. StagesTrue'
  BY <1>3, <1>6 DEF StagesTrue
<1> QED BY <1>2, <1>5, <1>7

\* What the store's records of owners and fills must keep.
Records == OwnersTrue /\ RawUnowned /\ PostedOwned

\* Records that a store step leaves alone, or only adds splits to, stay true.
LEMMA RecordsKept ==
  ASSUME SyncInv, \A f, q : Executed(f, q)' <=> Executed(f, q),
         OwnersTrue', brokerFills' = brokerFills,
         DOMAIN fills' \cap FillIds = DOMAIN fills \cap FillIds,
         \A f \in DOMAIN fills \cap FillIds : fills'[f] = fills[f]
  PROVE  Records'
<1>1. RawUnowned'
  BY DEF SyncInv, RawUnowned, Own, OrdersOf
<1>2. PostedOwned'
  BY DEF SyncInv, PostedOwned, OrdersOf
<1> QED BY <1>1, <1>2 DEF Records

\* A row nobody owns is recorded raw.
LEMMA RecordKeeps ==
  ASSUME SyncInv, NEW r \in Rows, ~Own(r), Fetched(r), RecordBrokerFill(r),
         \A f, q : Executed(f, q)' <=> Executed(f, q)
  PROVE  Records' /\ index' = index
<1>1. /\ brokerFills' = Put(brokerFills, r.id, r)
      /\ owner' = owner /\ index' = index /\ fills' = fills
  BY DEF RecordBrokerFill, orderVars
<1>2. OwnersTrue' /\ PostedOwned'
  BY <1>1 DEF SyncInv, OwnersTrue, PostedOwned, OrdersOf
<1>3. ASSUME NEW f \in DOMAIN brokerFills'
      PROVE  /\ brokerFills'[f].id = f
             /\ ~Own(brokerFills'[f])
             /\ Executed(f, brokerFills'[f].quantity)
  <2>1. CASE f = r.id
    <3>1. brokerFills'[f] = r
      BY <1>1, <2>1 DEF Put
    <3> QED BY <2>1, <3>1 DEF Fetched
  <2>2. CASE f # r.id
    <3>1. f \in DOMAIN brokerFills /\ brokerFills'[f] = brokerFills[f]
      BY <1>1, <1>3, <2>2 DEF Put
    <3> QED BY <3>1 DEF SyncInv, RawUnowned
  <2> QED BY <2>1, <2>2
<1>4. RawUnowned'
  BY <1>3 DEF RawUnowned, Own, OrdersOf
<1> QED BY <1>1, <1>2, <1>4 DEF Records

\* A row of a bound order is applied to the sleeve of its order.
LEMMA ApplyKeeps ==
  ASSUME BoundFirst, StoreInv, SyncInv, NEW r \in Rows, Own(r), Fetched(r),
         ApplyFill(r, NoSleeve), \A f, q : Executed(f, q)' <=> Executed(f, q)
  PROVE  Records' /\ index' = index
<1> DEFINE target == TargetSleeve(r, NoSleeve, owner, index)
           e == Entry(target, r, r.quantity)
<1>1. PICK o \in OrdersOf(r) : IsOwned(r, owner, index) /\ target = SleeveOf[o]
  BY OwnedRow DEF SyncInv
<1>2. owner' = owner /\ fills' = Put(fills, r.id, e)
  BY <1>1 DEF ApplyFill, ApplyNewFill, OwnerAfterFill
<1>3. index' = index /\ brokerFills' = brokerFills
  BY DEF ApplyFill
<1>4. e.sleeve = SleeveOf[o] /\ e.quantity = r.quantity
  BY <1>1 DEF Entry
<1> HIDE DEF e
<1>5. OwnersTrue' /\ RawUnowned'
  BY <1>2, <1>3 DEF SyncInv, OwnersTrue, RawUnowned, Own, OrdersOf
<1>6. ASSUME NEW f \in DOMAIN fills' \cap FillIds
      PROVE  \E q \in Rows : /\ q.id = f
                             /\ \E p \in OrdersOf(q) : fills'[f].sleeve = SleeveOf[p]
                             /\ fills'[f].quantity = q.quantity
                             /\ Executed(f, q.quantity)
  <2>1. CASE f = r.id
    <3>1. fills'[f] = e
      BY <1>2, <2>1 DEF Put
    <3> QED BY <1>1, <1>4, <2>1, <3>1 DEF Fetched
  <2>2. CASE f # r.id
    <3>1. f \in DOMAIN fills \cap FillIds /\ fills'[f] = fills[f]
      BY <1>2, <1>6, <2>2 DEF Put
    <3> QED BY <3>1 DEF SyncInv, PostedOwned
  <2> QED BY <2>1, <2>2
<1>7. PostedOwned'
  BY <1>6 DEF PostedOwned, OrdersOf
<1> QED BY <1>3, <1>5, <1>7 DEF Records

\* An order that is registered or accepted is owned by its own sleeve under its
\* own number.
LEMMA OrderKeeps ==
  ASSUME StoreInv, SyncInv, NEW o \in Orders,
         \/ RegisterOrder(o, NoBroker)
         \/ o \in DOMAIN owner /\ owner[o].broker = NoBroker
              /\ AcknowledgeOrderEvent(o, NumberOf[o]),
         \A f, q : Executed(f, q)' <=> Executed(f, q)
  PROVE  Records' /\ DOMAIN index \subseteq DOMAIN index'
<1> DEFINE b == NumberOf[o]
<1>0. b \in BrokerIds /\ b # NoBroker /\ AliasSet(NoBroker) = {} /\ AliasSet(b) = AliasesOf[b]
  BY SyncAssumption, BrokerIdAssumption DEF AliasSet
<1>1. brokerFills' = brokerFills /\ fills' = fills
  BY DEF RegisterOrder, AcknowledgeOrderEvent, ledgerVars
<1>2. OwnersTrue' /\ DOMAIN index \subseteq DOMAIN index'
  <2>1. CASE RegisterOrder(o, NoBroker)
    <3>1. owner' = Put(owner, o, [sleeve |-> SleeveOf[o], broker |-> NoBroker])
      BY <2>1 DEF RegisterOrder
    <3>2. DOMAIN index' = DOMAIN index /\ \A a \in DOMAIN index : index'[a] = index[a]
      BY <1>0, <2>1 DEF RegisterOrder, IndexWith
    <3> QED BY <3>1, <3>2 DEF SyncInv, OwnersTrue, Put
  <2>2. CASE o \in DOMAIN owner /\ owner[o].broker = NoBroker /\ AcknowledgeOrderEvent(o, b)
    <3>1. BoundBroker(o, b) = b
      BY <1>0, <2>2 DEF BoundBroker
    <3>2. owner' = [owner EXCEPT ![o].broker = b] /\ index' = IndexWith(b, o)
      BY <1>0, <2>2, <3>1 DEF AcknowledgeOrderEvent, OwnerBound, IndexBound
    <3>3. /\ DOMAIN index' = DOMAIN index \cup AliasesOf[b]
          /\ \A a \in DOMAIN index' : index'[a] = IF a \in AliasesOf[b] THEN o ELSE index[a]
      BY <1>0, <3>2 DEF IndexWith
    <3>4. \A a \in DOMAIN index' :
            index'[a] \in Orders /\ a \in AliasesOf[NumberOf[index'[a]]]
      BY <3>3 DEF SyncInv, OwnersTrue
    <3>5. \A p \in DOMAIN owner' : p \in Orders /\ owner'[p].sleeve = SleeveOf[p]
      <4>1. owner \in [DOMAIN owner -> OwnerType]
        BY DEF StoreInv, LedgerTypeOK, IsDict
      <4> QED BY <2>2, <3>2, <4>1 DEF SyncInv, OwnersTrue, OwnerType
    <3> QED BY <3>3, <3>4, <3>5 DEF OwnersTrue
  <2> QED BY <2>1, <2>2
<1>3. Records'
  BY <1>1, <1>2, RecordsKept
<1> QED BY <1>2, <1>3

\* A raw fill that is split gets entries of its own.
LEMMA AllocateKeeps ==
  ASSUME SyncInv, NEW r \in Rows, NEW p1 \in PartType, NEW p2 \in PartType,
         AllocateFill(r, p1, p2), \A f, q : Executed(f, q)' <=> Executed(f, q)
  PROVE  Records' /\ index' = index
<1>1. owner' = owner /\ index' = index /\ brokerFills' = brokerFills
  BY DEF AllocateFill, orderVars
<1>2. OwnersTrue'
  BY <1>1 DEF SyncInv, OwnersTrue
<1>3. ASSUME NEW f, NEW part \in PartType
      PROVE  /\ DOMAIN PartFills(f, r, part) \cap FillIds = DOMAIN f \cap FillIds
             /\ \A x \in DOMAIN f \cap FillIds : PartFills(f, r, part)[x] = f[x]
  <2>1. PartId(r, part) \notin FillIds
    BY PartIdType
  <2> QED BY <2>1 DEF PartFills, Put
<1>4. fills' = PartFills(PartFills(fills, r, p1), r, p2)
  BY DEF AllocateFill
<1>5. /\ DOMAIN fills' \cap FillIds = DOMAIN fills \cap FillIds
      /\ \A f \in DOMAIN fills \cap FillIds : fills'[f] = fills[f]
  BY <1>3, <1>4
<1> QED BY <1>1, <1>2, <1>5, RecordsKept

\* The broker executes only bound orders, and never less than before.
LEMMA ExecuteStep ==
  ASSUME BoundFirst, SyncTypeOK, StoreInv, SyncInv, NEW r \in Rows, Execute(r)
  PROVE  SyncInv'
<1>1. UNCHANGED vars /\ UNCHANGED importVars /\ r \in history'
      /\ history' \subseteq history \cup {r}
  BY DEF Execute
<1>2. owner' = owner /\ index' = index /\ fills' = fills /\ brokerFills' = brokerFills
  BY <1>1 DEF vars
<1>3. \A f : \A q \in Nat : Executed(f, q) => Executed(f, q)'
  BY ExecutedKept
<1>4. \A x : Own(x)' <=> Own(x)
  BY DEF Own, OrdersOf
<1>5. \A x \in Rows : x.quantity \in Nat
  BY RowType
<1>6. ASSUME NEW x \in Rows, Fetched(x) PROVE Fetched(x)'
  BY <1>2, <1>3, <1>4, <1>5, <1>6 DEF Fetched
<1>7. Fetched(r)'
  <2>1. Executed(r.id, r.quantity)'
    BY <1>1, <1>5 DEF Executed
  <2>2. Own(r) => r.broker \in DOMAIN index
    BY DEF Execute, Own, OrdersOf, BoundFirst
  <2> QED BY <1>2, <1>4, <2>1, <2>2 DEF Fetched
<1>8. RowsFetched'
  <2>1. todo' = todo /\ hand' = hand
    BY <1>1 DEF importVars
  <2>2. history \subseteq Rows /\ \A i \in Importers : todo[i] \cup hand[i] \subseteq Rows
    BY DEF SyncTypeOK
  <2> QED BY <1>1, <1>6, <1>7, <2>1, <2>2 DEF SyncInv, RowsFetched
<1>9. StagesTrue'
  BY <1>1, <1>4 DEF SyncInv, StagesTrue, importVars
<1>10. OwnersTrue'
  BY <1>2 DEF SyncInv, OwnersTrue
<1>11. RawUnowned'
  <2>1. \A f \in DOMAIN brokerFills : brokerFills[f].quantity \in Nat
    BY <1>5 DEF StoreInv, LedgerTypeOK, IsDict
  <2> QED BY <1>2, <1>3, <1>4, <2>1 DEF SyncInv, RawUnowned
<1>12. PostedOwned'
  BY <1>2, <1>3, <1>5 DEF SyncInv, PostedOwned, OrdersOf
<1> QED BY <1>8, <1>9, <1>10, <1>11, <1>12 DEF SyncInv

\* Every step of the importers, the runtime and the operators keeps SyncInv.
LEMMA SyncInvStep ==
  ASSUME BoundFirst, SyncTypeOK, StoreInv, SyncInv, [SyncNext]_syncVars
  PROVE  SyncInv'
<1>0. /\ \A r \in history : Fetched(r)
      /\ \A i \in Importers : /\ assign[i] = NoSleeve
                              /\ \A r \in hand[i] : r \in Rows /\ Fetched(r)
  BY DEF SyncInv, RowsFetched, StagesTrue, SyncTypeOK
<1>1. ASSUME NEW i \in Importers, NEW s, s = NoSleeve \/ s \in Assigns, Fetch(i, s)
      PROVE  SyncInv'
  BY <1>1, LookStep DEF Fetch
<1>2. ASSUME NEW i \in Importers, NEW r \in Rows, CheckExists(i, r)
      PROVE  SyncInv'
  BY <1>2, LookStep DEF CheckExists
<1>3. ASSUME NEW i \in Importers, ReadOwnership(i)
      PROVE  SyncInv'
  BY <1>3, LookStep DEF ReadOwnership
<1>4. ASSUME NEW i \in Importers, NEW r \in Rows, RecordRaw(i, r)
      PROVE  SyncInv'
  <2>1. r \in hand[i] /\ Fetched(r) /\ ~Own(r) /\ RowDone(i)
    BY <1>0, <1>4 DEF RecordRaw, SyncInv, StagesTrue
  <2>2. CASE RecordBrokerFill(r)
    <3>1. index' = index
      BY <2>2 DEF RecordBrokerFill, orderVars
    <3>2. RowsFetched' /\ StagesTrue' /\ \A f, q : Executed(f, q)' <=> Executed(f, q)
      BY <2>1, <3>1, DoneStep
    <3>3. Records'
      BY <2>1, <2>2, <3>2, RecordKeeps
    <3> QED BY <3>2, <3>3 DEF SyncInv, Records
  <2>3. CASE UNCHANGED vars
    BY <2>1, <2>3, LookStep
  <2> QED BY <1>4, <2>2, <2>3 DEF RecordRaw
<1>5. ASSUME NEW i \in Importers, NEW r \in Rows, ApplyRow(i, r)
      PROVE  SyncInv'
  <2>1. r \in hand[i] /\ Fetched(r) /\ Own(r) /\ RowDone(i) /\ assign[i] = NoSleeve
    BY <1>0, <1>5 DEF ApplyRow, SyncInv, StagesTrue
  <2>2. CASE ApplyFill(r, assign[i])
    <3>1. index' = index
      BY <2>2 DEF ApplyFill
    <3>2. RowsFetched' /\ StagesTrue' /\ \A f, q : Executed(f, q)' <=> Executed(f, q)
      BY <2>1, <3>1, DoneStep
    <3>3. Records'
      BY <2>1, <2>2, <3>2, ApplyKeeps
    <3> QED BY <3>2, <3>3 DEF SyncInv, Records
  <2>3. CASE UNCHANGED vars
    BY <2>1, <2>3, LookStep
  <2> QED BY <1>5, <2>2, <2>3 DEF ApplyRow
<1>6. ASSUME UNCHANGED <<owner, index, fills, brokerFills>>,
             NEW i \in Importers,
             \/ UNCHANGED <<history, importVars>>
             \/ /\ pc' = [pc EXCEPT ![i] = "idle"]
                /\ UNCHANGED <<history, todo, hand, assign>>
      PROVE  SyncInv'
  <2>1. RowsFetched' /\ StagesTrue' /\ \A f, q : Executed(f, q)' <=> Executed(f, q)
    BY <1>6, DoneStep
  <2>2. OwnersTrue'
    BY <1>6 DEF SyncInv, OwnersTrue
  <2>3. Records'
    BY <1>6, <2>1, <2>2, RecordsKept
  <2> QED BY <2>1, <2>3 DEF SyncInv, Records
<1>7. ASSUME NEW i \in Importers, Finish(i)
      PROVE  SyncInv'
  BY <1>6, <1>7 DEF Finish, CurrentPortfolio, orderVars, ledgerVars
<1>8. ASSUME NEW o \in Orders, Register(o) \/ Accept(o)
      PROVE  SyncInv'
  <2>1. /\ \/ RegisterOrder(o, NoBroker)
           \/ /\ o \in DOMAIN owner /\ owner[o].broker = NoBroker
              /\ AcknowledgeOrderEvent(o, NumberOf[o])
        /\ UNCHANGED <<history, importVars>>
    BY <1>8 DEF Register, Accept
  <2>2. \A f, q : Executed(f, q)' <=> Executed(f, q)
    BY <2>1 DEF Executed
  <2>3. Records' /\ DOMAIN index \subseteq DOMAIN index'
    BY <2>1, <2>2, OrderKeeps
  <2>4. RowsFetched' /\ StagesTrue'
    BY <2>1, <2>3, DoneStep, SyncAssumption
  <2> QED BY <2>3, <2>4 DEF SyncInv, Records
<1>9. ASSUME NEW r \in Rows, NEW p1 \in PartType, NEW p2 \in PartType, Allocate(r, p1, p2)
      PROVE  SyncInv'
  <2>1. AllocateFill(r, p1, p2) /\ UNCHANGED <<history, importVars>>
    BY <1>9 DEF Allocate
  <2>2. \A f, q : Executed(f, q)' <=> Executed(f, q)
    BY <2>1 DEF Executed
  <2>3. Records' /\ index' = index
    BY <2>1, <2>2, AllocateKeeps
  <2>4. RowsFetched' /\ StagesTrue'
    BY <2>1, <2>3, DoneStep, SyncAssumption
  <2> QED BY <2>3, <2>4 DEF SyncInv, Records
<1>10. ASSUME NEW f \in FillIds, Ignore(f)
       PROVE  SyncInv'
  BY <1>6, <1>10, SyncAssumption DEF Ignore, IgnoreBrokerFill, orderVars
<1>11. ASSUME UNCHANGED syncVars
       PROVE  SyncInv'
  BY <1>6, <1>11, SyncAssumption DEF syncVars, vars
<1>12. ASSUME NEW r \in Rows, NEW p1 \in Part(1, 1 .. r.quantity),
              NEW p2 \in Part(2, 0 .. r.quantity)
       PROVE  p1 \in PartType /\ p2 \in PartType
  <2>1. 1 .. r.quantity \in SUBSET Nat /\ 0 .. r.quantity \in SUBSET Nat
    BY RowType
  <2> QED BY <2>1, PartsAreParts DEF Slots
<1> QED
  BY ExecuteStep, <1>1, <1>2, <1>3, <1>4, <1>5, <1>7, <1>8, <1>9, <1>10, <1>11, <1>12,
     SyncAssumption
  DEF SyncNext, ImportStep

\* At the start nothing is owned, fetched or recorded.
LEMMA SyncInvInit ==
  ASSUME SyncInit
  PROVE  StoreInv /\ SyncInv
<1>1. LedgerTypeOK /\ LedgerInv
  BY EmptyIsDict
  DEF SyncInit, Init, LedgerTypeOK, LedgerInv, AllocationsPosted, IgnoredNeverAllocated,
      IndexOwned, EmptyDict
<1>2. SplitInv
  BY CashInit DEF SyncInit
<1>3. OwnersTrue /\ RawUnowned /\ PostedOwned
  BY DEF SyncInit, Init, EmptyDict, OwnersTrue, RawUnowned, PostedOwned
<1>4. RowsFetched /\ StagesTrue
  BY DEF SyncInit, RowsFetched, StagesTrue
<1> QED BY <1>1, <1>2, <1>3, <1>4 DEF StoreInv, SyncInv

\* What holds of the store holds while the importers run.
LEMMA StoreInvStep ==
  ASSUME SyncTypeOK, StoreInv, [SyncNext]_syncVars
  PROVE  StoreInv'
<1>1. [Next]_vars
  BY SyncStepIsStoreStep
<1> QED BY <1>1, LedgerTypeStep, LedgerStep, SplitStep DEF StoreInv

\* All rows of a fill are of the same orders.
LEMMA SameOrders ==
  ASSUME BoundFirst, NEW r \in Rows, NEW q \in Rows, r.id = q.id
  PROVE  OrdersOf(r) = OrdersOf(q)
BY DEF BoundFirst, OrdersOf

\* A fill that is posted, or executed for an order, is not recorded raw.
LEMMA NotBoth ==
  ASSUME BoundFirst, StoreInv, RawUnowned, NEW q \in Rows, Own(q)
  PROVE  q.id \notin DOMAIN brokerFills
<1>1. SUFFICES ASSUME q.id \in DOMAIN brokerFills PROVE FALSE
  OBVIOUS
<1> DEFINE r == brokerFills[q.id]
<1>2. r \in Rows
  BY <1>1 DEF StoreInv, LedgerTypeOK, IsDict
<1>3. r.id = q.id /\ ~Own(r)
  BY <1>1 DEF RawUnowned
<1> HIDE DEF r
<1> QED BY <1>2, <1>3, SameOrders DEF Own

\* So a posted fill is not split, and a split one not posted.
LEMMA OnceInState ==
  ASSUME BoundFirst, SyncTypeOK, StoreInv, SyncInv
  PROVE  CreditedOnce
<1>1. SUFFICES ASSUME NEW f \in FillIds, Credited(f) > 0
               PROVE  \E r \in history : r.id = f /\ Credited(f) <= r.quantity
  BY DEF CreditedOnce
<1>2. AllocatedOf(f) \in Int
  <2>1. AllocatedIn(allocations, f) \in Int
    <3>1. IsFiniteSet({i \in DOMAIN allocations : i[1] = f})
      BY FS_Subset DEF StoreInv, SplitInv, AllocationDict
    <3>2. \A i \in {j \in DOMAIN allocations : j[1] = f} : allocations[i] \in Int
      BY DEF StoreInv, SplitInv, AllocationDict, IsDict
    <3> QED BY <3>1, <3>2, SumType DEF AllocatedIn
  <2> QED BY <2>1 DEF AllocatedIn, AllocatedOf
<1>3. f \notin DOMAIN brokerFills => AllocatedOf(f) = 0
  <2>1. ASSUME f \notin DOMAIN brokerFills
        PROVE  {a \in DOMAIN allocations : a[1] = f} = {}
    BY <2>1 DEF StoreInv, LedgerInv, AllocationsPosted
  <2> QED BY <2>1, SumEmpty DEF AllocatedOf
<1>4. CASE f \in DOMAIN fills
  <2>1. PICK q \in Rows : /\ q.id = f /\ Own(q)
                          /\ fills[f].quantity = q.quantity
                          /\ Executed(f, q.quantity)
    BY <1>4 DEF SyncInv, PostedOwned, Own
  <2>2. AllocatedOf(f) = 0
    BY <1>3, <2>1, NotBoth DEF SyncInv
  <2>3. q.quantity \in Nat
    BY RowType
  <2>4. Credited(f) = q.quantity
    BY <1>4, <2>1, <2>2, <2>3 DEF Credited
  <2> QED BY <2>1, <2>4 DEF Executed
<1>5. CASE f \notin DOMAIN fills
  <2>1. Credited(f) = AllocatedOf(f)
    BY <1>2, <1>5 DEF Credited
  <2>2. f \in DOMAIN brokerFills
    BY <1>1, <1>3, <2>1
  <2>3. AllocatedOf(f) <= brokerFills[f].quantity
    BY <2>2 DEF StoreInv, SplitInv, AllocationsWithinFill
  <2>4. PICK h \in history : h.id = f /\ brokerFills[f].quantity <= h.quantity
    BY <2>2 DEF SyncInv, RawUnowned, Executed
  <2>5. brokerFills[f].quantity \in Nat
    BY <2>2, RowType DEF StoreInv, LedgerTypeOK, IsDict
  <2>6. h.quantity \in Nat
    BY RowType DEF SyncTypeOK
  <2> QED BY <1>2, <2>1, <2>3, <2>4, <2>5, <2>6
<1> QED BY <1>4, <1>5

\* An order's fills are posted to its sleeve and are not left to operators.
LEMMA OwnerInState ==
  ASSUME BoundFirst, SyncTypeOK, StoreInv, SyncInv
  PROVE  OwnFillsReachOwner
<1>1. SUFFICES ASSUME NEW r \in history, NEW o \in OrdersOf(r)
               PROVE  /\ r.id \in DOMAIN fills => fills[r.id].sleeve = SleeveOf[o]
                      /\ r.id \notin DOMAIN brokerFills
  BY DEF OwnFillsReachOwner
<1>2. r \in Rows /\ r.id \in FillIds /\ Own(r)
  BY RowType DEF SyncTypeOK, Own
<1>3. ASSUME r.id \in DOMAIN fills PROVE fills[r.id].sleeve = SleeveOf[o]
  <2>1. PICK q \in Rows : /\ q.id = r.id
                          /\ \E p \in OrdersOf(q) : fills[r.id].sleeve = SleeveOf[p]
    BY <1>2, <1>3 DEF SyncInv, PostedOwned
  <2>2. PICK p \in OrdersOf(q) : fills[r.id].sleeve = SleeveOf[p]
    BY <2>1
  <2>3. p \in OrdersOf(r)
    BY <1>2, <2>1, <2>2, SameOrders
  <2> QED BY <2>2, <2>3 DEF OrdersOf, BoundFirst
<1> QED BY <1>2, <1>3, NotBoth DEF SyncInv

\* What the theorems of this section share.
LEMMA SyncCorrect ==
  ASSUME BoundFirst
  PROVE  SyncSpec => [](SyncTypeOK /\ StoreInv /\ SyncInv)
<1> DEFINE Inv == SyncTypeOK /\ StoreInv /\ SyncInv
<1>1. SyncInit => Inv
  BY SyncInvInit DEF SyncInit, SyncTypeOK
<1>2. Inv /\ [SyncNext]_syncVars => Inv'
  BY SyncTypeStep, StoreInvStep, SyncInvStep
<1> QED
  BY <1>1, <1>2, PTL DEF SyncSpec

\* However many processes import a fill while operators split it, sleeves are
\* credited no more shares than the broker executed, if numbers are bound first
\* and no import gives unknown rows to a sleeve.
THEOREM FillsCreditedOnce ==
  ASSUME BoundFirst
  PROVE  SyncSpec => []CreditedOnce
<1>1. SyncTypeOK /\ StoreInv /\ SyncInv => CreditedOnce
  BY OnceInState
<1> QED
  BY <1>1, SyncCorrect, PTL

\* Under the same conditions a fill of a sleeve's order is credited to that
\* sleeve whichever process takes it, and is never left in the raw ledger.
THEOREM FillsReachOwner ==
  ASSUME BoundFirst
  PROVE  SyncSpec => []OwnFillsReachOwner
<1>1. SyncTypeOK /\ StoreInv /\ SyncInv => OwnFillsReachOwner
  BY OwnerInState
<1> QED
  BY <1>1, SyncCorrect, PTL
===============================================================================
