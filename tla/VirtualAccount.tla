---------------------------- MODULE VirtualAccount ----------------------------
(***************************************************************************)
(* The file-backed virtual sleeve account (virtual_account.py,             *)
(* VirtualSleeveAccountStore).  One broker account is shared by several    *)
(* sleeves; the store keeps, per sleeve, the cash and the holdings the     *)
(* sleeve owns, and the ledgers that explain them: applied fills, raw      *)
(* broker fills, allocations of raw fills, ignored raw fills, cash         *)
(* transfers, order ownership and broker order aliases.                    *)
(*                                                                         *)
(* Every operation loads the JSON document, works on the copy and writes   *)
(* the whole document back with os.replace; a ValueError leaves the file   *)
(* alone.  Here one action is one such load/work/write, and a refused call *)
(* is a call that is not enabled.  Python dictionaries are functions whose *)
(* DOMAIN is the set of keys present.                                      *)
(*                                                                         *)
(* Abstracted: prices, fees and cash are integers (fees are per share, so  *)
(* the pro-rata fee of an allocation is exact); average prices, realised   *)
(* P&L, timestamps and the audit copy of each mutation are left out.       *)
(***************************************************************************)
EXTENDS Integers, Sequences, FiniteSetsExt

CONSTANTS
  Sleeves,         \* sleeve ids, the UNKNOWN_SLEEVE_ID sleeve included
  Unassigned,      \* UNKNOWN_SLEEVE_ID: where fills nobody owns are put
  NoSleeve,        \* a fill that names no sleeve (sleeve_id is None)
  CashSleeve,      \* the residual sleeve of sync_account_cash
  Symbols,
  Currencies,
  CurrencyOf,      \* [Symbols -> Currencies], currency_for_symbol
  Orders,          \* local order intent ids
  SleeveOf,        \* [Orders -> Sleeves], the sleeve whose intent it was
  BrokerIds,       \* every text a broker order id or one of its aliases can be
  AliasesOf,       \* [BrokerIds -> SUBSET BrokerIds], _broker_order_aliases
  NoBroker,        \* the empty broker order id
  FillIds,         \* ids of fills: broker execution ids and order-event ids
  Rows,            \* the fills that may be presented to the store
  EventRows,       \* the fills that arrive as order events of local orders
  SeedCash,        \* [Sleeves -> [Currencies -> Nat]], configured cash
  CurrencySeeded,  \* sleeves configured per currency (default_cash_by_currency)
  Overwrites,      \* values initialize_sleeve's overwrite flag may take
  Openings,        \* bound: the cash a sleeve may be initialized with
  Amounts,         \* bound: amounts of a cash transfer
  Balances,        \* bound: broker cash balances that may be synchronised
  Marks,           \* bound: prices a position may be marked at
  MaxTransfers     \* bound: number of recorded cash transfers

Sides == {"buy", "sell"}
Slots == {1, 2}   \* bound: an allocation call has at most two parts
OrderKeys == Orders \cup BrokerIds
AllocationIds == FillIds \X Slots \X Sleeves
LedgerIds == FillIds \cup AllocationIds

FillRow == [id: FillIds, order: OrderKeys, broker: BrokerIds \cup {NoBroker},
            symbol: Symbols, side: Sides, quantity: Nat \ {0},
            price: Nat \ {0}, unitFee: Nat]

ASSUME SleeveAssumption ==
  /\ Unassigned \in Sleeves
  /\ NoSleeve \notin Sleeves
  /\ CashSleeve \in Sleeves
  /\ CurrencyOf \in [Symbols -> Currencies]
  /\ SleeveOf \in [Orders -> Sleeves]
  /\ SeedCash \in [Sleeves -> [Currencies -> Nat]]
  /\ CurrencySeeded \subseteq Sleeves
  /\ Overwrites \subseteq BOOLEAN

ASSUME BrokerIdAssumption ==
  /\ NoBroker \notin BrokerIds
  /\ AliasesOf \in [BrokerIds -> SUBSET BrokerIds]
  /\ \A b \in BrokerIds : b \in AliasesOf[b]

ASSUME FillAssumption ==
  /\ Rows \subseteq FillRow
  /\ EventRows \subseteq Rows
  /\ \A row \in EventRows : row.order \in Orders
  /\ FillIds \cap AllocationIds = {}

ASSUME BoundAssumption ==
  /\ Openings \subseteq [sleeve : Sleeves, currency : Currencies, amount : Nat \ {0}]
  /\ Amounts \subseteq Nat \ {0}
  /\ Balances \subseteq Nat
  /\ Marks \subseteq Nat \ {0}
  /\ MaxTransfers \in Nat

VARIABLES
  known,        \* sleeves present in state["sleeves"]
  cash,         \* cash_by_currency of each sleeve (0 when the bucket is absent)
  held,         \* quantity of each holding (0 when the holding is absent)
  positions,    \* position_states, keyed by <<sleeve, symbol>>
  owner,        \* order_ownership
  index,        \* broker_order_index: alias -> order id
  fills,        \* the applied fills, keyed by fill id
  brokerFills,  \* broker_fills: raw fills recorded without being applied
  allocations,  \* fill_allocations: allocation id -> quantity
  ignored,      \* ids in ignored_broker_fills
  transfers     \* cash_transfers, in order

cashVars == <<cash, transfers>>
ledgerVars == <<fills, brokerFills, allocations, ignored>>
orderVars == <<owner, index>>
vars == <<known, cash, held, positions, owner, index, fills, brokerFills,
          allocations, ignored, transfers>>

-------------------------------------------------------------------------------
(* Dictionaries. *)

Put(f, k, v) == [x \in DOMAIN f \cup {k} |-> IF x = k THEN v ELSE f[x]]
Drop(f, k) == [x \in DOMAIN f \ {k} |-> f[x]]
EmptyDict == [x \in {} |-> x]
IsDict(f, Keys, Values) == /\ DOMAIN f \subseteq Keys
                           /\ f \in [DOMAIN f -> Values]

NonNegative(x) == IF x > 0 THEN x ELSE 0
Larger(x, y) == IF x > y THEN x ELSE y

-------------------------------------------------------------------------------
(* _ensure_sleeve and the cash a sleeve starts with. *)

\* Mutant: the seed is put back even after the sleeve traded its cash away.
RepairsSeedAlways(s) ==
  /\ s \in CurrencySeeded
  /\ \A y \in Symbols : held[s][y] = 0

\* A sleeve configured per currency that never traded: a missing bucket is
\* put back at its configured amount (_ensure_configured_cash_buckets).
RepairsSeed(s) ==
  /\ s \in CurrencySeeded
  /\ \A y \in Symbols : held[s][y] = 0
  /\ DOMAIN fills = {}
  /\ transfers = <<>>

CashEnsured(S) ==
  [s \in Sleeves |->
     IF s \notin S THEN cash[s]
     ELSE IF s \notin known THEN SeedCash[s]
     ELSE IF RepairsSeed(s)
          THEN [c \in Currencies |-> IF cash[s][c] = 0 THEN SeedCash[s][c]
                                                       ELSE cash[s][c]]
     ELSE cash[s]]

-------------------------------------------------------------------------------
(* Who a fill belongs to. *)

AliasSet(b) == IF b = NoBroker THEN {} ELSE AliasesOf[b]

IndexWith(b, o) ==
  [a \in DOMAIN index \cup AliasSet(b) |-> IF a \in AliasSet(b) THEN o ELSE index[a]]

\* _resolve_ownership: the fill's own order id first, then the alias index.
OwnerKey(row, own, ix) ==
  IF row.order \notin DOMAIN own /\ row.broker \in DOMAIN ix
  THEN ix[row.broker] ELSE row.order

IsOwned(row, own, ix) == OwnerKey(row, own, ix) \in DOMAIN own

TargetSleeve(row, s, own, ix) ==
  IF s # NoSleeve THEN s
  ELSE IF IsOwned(row, own, ix) THEN own[OwnerKey(row, own, ix)].sleeve
  ELSE Unassigned

OwnerAfterFill(row, s, own, ix) ==
  IF IsOwned(row, own, ix) THEN own
  ELSE Put(own, row.order,
           [sleeve |-> TargetSleeve(row, s, own, ix), broker |-> row.broker])

-------------------------------------------------------------------------------
(* What q shares of a fill do to a sleeve: _apply_fill_to_portfolio and      *)
(* _apply_fill_to_position_state.                                            *)

\* Mutant: a sale is not checked against the holding.
CanApplyOversold(h, s, row, q) == TRUE

CanApply(h, s, row, q) == row.side = "sell" => q <= h[s][row.symbol]

HeldAfter(h, s, row, q) ==
  [h EXCEPT ![s][row.symbol] = IF row.side = "buy" THEN @ + q ELSE @ - q]

CashAfter(c, s, row, q) ==
  [c EXCEPT ![s][CurrencyOf[row.symbol]] =
     IF row.side = "buy" THEN @ - q * (row.price + row.unitFee)
                         ELSE @ + NonNegative(q * (row.price - row.unitFee))]

\* Mutants: the watermark follows the price; a closed position stays behind.
PositionsAfterLatest(p, h, s, row, q) ==
  LET key   == <<s, row.symbol>>
      total == HeldAfter(h, s, row, q)[s][row.symbol]
  IN  IF total = 0 THEN Drop(p, key)
      ELSE Put(p, key, [quantity |-> total, high |-> row.price, last |-> row.price])
PositionsAfterKept(p, h, s, row, q) ==
  LET total == HeldAfter(h, s, row, q)[s][row.symbol]
  IN  IF total = 0 THEN p
      ELSE Put(p, <<s, row.symbol>>,
               [quantity |-> total, high |-> row.price, last |-> row.price])

PositionsAfter(p, h, s, row, q) ==
  LET key   == <<s, row.symbol>>
      total == HeldAfter(h, s, row, q)[s][row.symbol]
      open  == key \in DOMAIN p /\ h[s][row.symbol] > 0
      high  == IF open THEN Larger(p[key].high, row.price) ELSE row.price
  IN  IF total = 0 THEN Drop(p, key)
      ELSE Put(p, key, [quantity |-> total, high |-> high, last |-> row.price])

Entry(s, row, q) == [sleeve |-> s, symbol |-> row.symbol, side |-> row.side,
                     quantity |-> q, price |-> row.price, unitFee |-> row.unitFee]

-------------------------------------------------------------------------------
Init ==
  /\ known = {}
  /\ cash = [s \in Sleeves |-> [c \in Currencies |-> 0]]
  /\ held = [s \in Sleeves |-> [y \in Symbols |-> 0]]
  /\ positions = EmptyDict
  /\ owner = EmptyDict
  /\ index = EmptyDict
  /\ fills = EmptyDict
  /\ brokerFills = EmptyDict
  /\ allocations = EmptyDict
  /\ ignored = {}
  /\ transfers = <<>>

\* current_portfolio: a read that also writes the ensured sleeve back.
CurrentPortfolio(s) ==
  /\ known' = known \cup {s}
  /\ cash' = CashEnsured({s})
  /\ UNCHANGED <<held, positions, orderVars, ledgerVars, transfers>>

UpdatePositionMark(s, y, price) ==
  LET key == <<s, y>> IN
  /\ key \in DOMAIN positions
  /\ positions' = [positions EXCEPT ![key] =
                     [quantity |-> @.quantity, high |-> Larger(@.high, price),
                      last |-> price]]
  /\ UNCHANGED <<known, cashVars, held, orderVars, ledgerVars>>

\* initialize_sleeve: an overwrite drops the holdings and nothing else.  The
\* current_portfolio it returns through finds the sleeve known and may put a
\* seed back; a call that does not initialize is CurrentPortfolio.
InitializeSleeve(s, c, amount, overwrite) ==
  LET fresh == [d \in Currencies |-> IF d = c THEN amount ELSE 0]
      empty == [y \in Symbols |-> 0]
      reseeds == s \in CurrencySeeded /\ DOMAIN fills = {} /\ transfers = <<>>
  IN
  /\ overwrite \/ s \notin known
  /\ known' = known \cup {s}
  /\ held' = [held EXCEPT ![s] = empty]
  /\ cash' = [cash EXCEPT ![s] =
                [d \in Currencies |-> IF fresh[d] = 0 /\ reseeds THEN SeedCash[s][d]
                                                               ELSE fresh[d]]]
  /\ UNCHANGED <<positions, orderVars, ledgerVars, transfers>>

TransferCash(from, to, c, amount) ==
  LET ensured == CashEnsured({from, to})
      debited == [ensured EXCEPT ![from][c] = @ - amount]
  IN
  /\ Len(transfers) < MaxTransfers
  /\ amount <= ensured[from][c]
  /\ known' = known \cup {from, to}
  /\ cash' = [debited EXCEPT ![to][c] = @ + amount]
  /\ transfers' = Append(transfers, [from |-> from, to |-> to,
                                     currency |-> c, amount |-> amount])
  /\ UNCHANGED <<held, positions, orderVars, ledgerVars>>

\* sync_account_cash: the residual sleeve gets what the others leave of the
\* broker balance, never less than nothing.
CashOfOthers(c) ==
  SumFunctionOnSet([s \in Sleeves |-> cash[s][c]], known \ {CashSleeve})

SyncAccountCash(c, balance) ==
  /\ known' = known \cup {CashSleeve}
  /\ cash' = [CashEnsured({CashSleeve}) EXCEPT
                ![CashSleeve][c] = NonNegative(balance - CashOfOthers(c))]
  /\ UNCHANGED <<held, positions, orderVars, ledgerVars, transfers>>

\* register_order_ticket and register_order_intent.
RegisterOrder(o, b) ==
  /\ known' = known \cup {SleeveOf[o]}
  /\ cash' = CashEnsured({SleeveOf[o]})
  /\ owner' = Put(owner, o, [sleeve |-> SleeveOf[o], broker |-> b])
  /\ index' = IndexWith(b, o)
  /\ UNCHANGED <<held, positions, ledgerVars, transfers>>

\* bind_broker_order_id keeps the longer id when the new one is its alias.
BoundBroker(o, b) ==
  IF b \in AliasSet(owner[o].broker) THEN owner[o].broker ELSE b
OwnerBound(o, b) == IF o \in DOMAIN owner /\ b # NoBroker
                    THEN [owner EXCEPT ![o].broker = BoundBroker(o, b)] ELSE owner
\* Mutant: the aliases are indexed even when nobody owns the order.
IndexBoundBlind(o, b) == IF b = NoBroker THEN index ELSE IndexWith(b, o)
IndexBound(o, b) == IF o \in DOMAIN owner /\ b # NoBroker
                    THEN IndexWith(BoundBroker(o, b), o) ELSE index

BindBrokerOrder(o, b) ==
  /\ o \in DOMAIN owner
  /\ owner' = OwnerBound(o, b)
  /\ index' = IndexBound(o, b)
  /\ UNCHANGED <<known, cashVars, held, positions, ledgerVars>>

\* The body of apply_fill_with_report once the id is known to be new.
ApplyNewFill(row, s, own, ix) ==
  LET target == TargetSleeve(row, s, own, ix) IN
  /\ CanApply(held, target, row, row.quantity)
  /\ known' = known \cup {target}
  /\ cash' = CashAfter(CashEnsured({target}), target, row, row.quantity)
  /\ held' = HeldAfter(held, target, row, row.quantity)
  /\ positions' = PositionsAfter(positions, held, target, row, row.quantity)
  /\ owner' = OwnerAfterFill(row, s, own, ix)
  /\ fills' = Put(fills, row.id, Entry(target, row, row.quantity))

\* Mutant: an id that is already in the ledger is applied again.
ApplyFillAgain(row, s) ==
  /\ ApplyNewFill(row, s, owner, index)
  /\ UNCHANGED <<index, brokerFills, allocations, ignored, transfers>>

ApplyFill(row, s) ==
  /\ row.id \notin DOMAIN fills
  /\ ApplyNewFill(row, s, owner, index)
  /\ UNCHANGED <<index, brokerFills, allocations, ignored, transfers>>

\* Mutant: an event seen before is applied again.
ApplyOrderEventAgain(row) ==
  LET own == OwnerBound(row.order, row.broker)
      ix  == IndexBound(row.order, row.broker)
  IN
  /\ index' = ix
  /\ ApplyNewFill(row, SleeveOf[row.order], own, ix)
  /\ UNCHANGED <<brokerFills, allocations, ignored, transfers>>

\* apply_order_event_with_report for a fill event: bind the broker id and write,
\* then apply under the event's own fill id.  A fill seen before, and a sale
\* the sleeve cannot cover (a ValueError), leave the binding alone behind.
ApplyOrderEvent(row) ==
  LET own == OwnerBound(row.order, row.broker)
      ix  == IndexBound(row.order, row.broker)
      s   == SleeveOf[row.order]
  IN
  /\ index' = ix
  /\ \/ /\ row.id \in DOMAIN fills \/ ~CanApply(held, s, row, row.quantity)
        /\ owner' = own
        /\ UNCHANGED <<known, cash, held, positions, fills>>
     \/ /\ row.id \notin DOMAIN fills
        /\ ApplyNewFill(row, s, own, ix)
  /\ UNCHANGED <<brokerFills, allocations, ignored, transfers>>

\* The same for an event that carries no fill: bind, then current_portfolio.
AcknowledgeOrderEvent(o, b) ==
  /\ owner' = OwnerBound(o, b)
  /\ index' = IndexBound(o, b)
  /\ known' = known \cup {SleeveOf[o]}
  /\ cash' = CashEnsured({SleeveOf[o]})
  /\ UNCHANGED <<held, positions, ledgerVars, transfers>>

\* Mutant: a raw fill recorded before is overwritten by its revision.
RecordBrokerFillRevised(row) ==
  /\ row.id \notin DOMAIN fills
  /\ brokerFills' = Put(brokerFills, row.id, row)
  /\ UNCHANGED <<known, cashVars, held, positions, orderVars, fills,
                 allocations, ignored>>

RecordBrokerFill(row) ==
  /\ row.id \notin DOMAIN fills
  /\ row.id \notin DOMAIN brokerFills
  /\ brokerFills' = Put(brokerFills, row.id, row)
  /\ UNCHANGED <<known, cashVars, held, positions, orderVars, fills,
                 allocations, ignored>>

\* Mutant: a raw fill that was split already may still be ignored.
IgnoreBrokerFillAnyway(f) ==
  /\ f \in DOMAIN brokerFills
  /\ f \notin DOMAIN fills
  /\ ignored' = ignored \cup {f}
  /\ UNCHANGED <<known, cashVars, held, positions, orderVars, fills,
                 brokerFills, allocations>>

IgnoreBrokerFill(f) ==
  /\ f \in DOMAIN brokerFills
  /\ f \notin DOMAIN fills
  /\ ~ \E a \in DOMAIN allocations : a[1] = f
  /\ ignored' = ignored \cup {f}
  /\ UNCHANGED <<known, cashVars, held, positions, orderVars, fills,
                 brokerFills, allocations>>

-------------------------------------------------------------------------------
(* apply_fill_allocations: an operator splits a recorded raw fill over       *)
(* sleeves.  A part is [slot, sleeve, quantity]; quantity 0 is a part the    *)
(* call does not have.  The command line names a part fill:slot:sleeve, and  *)
(* a part whose name is taken is skipped without an error.                   *)

PartId(row, part) == <<row.id, part.slot, part.sleeve>>
\* Mutant: a part whose name is taken is posted again.
IsLiveAgain(row, part) == part.quantity > 0
IsLive(row, part) == part.quantity > 0 /\ PartId(row, part) \notin DOMAIN allocations

AllocatedOf(f) == SumFunctionOnSet(allocations, {a \in DOMAIN allocations : a[1] = f})

LiveParts(row, p1, p2) == {part \in {p1, p2} : IsLive(row, part)}

\* The state after one part, given the holdings, cash and positions before it.
PartFits(h, row, part) == IsLive(row, part) => CanApply(h, part.sleeve, row, part.quantity)
PartHeld(h, row, part) ==
  IF IsLive(row, part) THEN HeldAfter(h, part.sleeve, row, part.quantity) ELSE h
PartCash(c, row, part) ==
  IF IsLive(row, part) THEN CashAfter(c, part.sleeve, row, part.quantity) ELSE c
PartPositions(p, h, row, part) ==
  IF IsLive(row, part) THEN PositionsAfter(p, h, part.sleeve, row, part.quantity) ELSE p
\* Mutant: the entry of a part is posted for the whole fill.
PartFillsWhole(f, row, part) ==
  IF IsLive(row, part)
  THEN Put(f, PartId(row, part), Entry(part.sleeve, row, row.quantity)) ELSE f
PartFills(f, row, part) ==
  IF IsLive(row, part)
  THEN Put(f, PartId(row, part), Entry(part.sleeve, row, part.quantity)) ELSE f
PartAllocations(a, row, part) ==
  IF IsLive(row, part) THEN Put(a, PartId(row, part), part.quantity) ELSE a

QuantityOf(parts) == SumFunctionOnSet([part \in parts |-> part.quantity], parts)
\* Mutant: what earlier calls allocated is not counted.
FitsFillAlone(row, p1, p2) == QuantityOf(LiveParts(row, p1, p2)) <= row.quantity
FitsFill(row, p1, p2) ==
  AllocatedOf(row.id) + QuantityOf(LiveParts(row, p1, p2)) <= row.quantity

AllocateFill(row, p1, p2) ==
  LET live  == LiveParts(row, p1, p2)
      held1 == PartHeld(held, row, p1)
      \* a seed is put back for the first part only: it makes fills non-empty
      settled == IF IsLive(row, p1) THEN known \ {p1.sleeve} ELSE {}
      ensured == CashEnsured({part.sleeve : part \in live} \ settled)
  IN
  /\ row.id \in DOMAIN brokerFills /\ brokerFills[row.id] = row
  /\ row.id \notin DOMAIN fills
  /\ row.id \notin ignored
  /\ FitsFill(row, p1, p2)
  /\ PartFits(held, row, p1)
  /\ PartFits(held1, row, p2)
  /\ known' = known \cup {part.sleeve : part \in live}
  /\ cash' = PartCash(PartCash(ensured, row, p1), row, p2)
  /\ held' = PartHeld(held1, row, p2)
  /\ positions' = PartPositions(PartPositions(positions, held, row, p1), held1, row, p2)
  /\ fills' = PartFills(PartFills(fills, row, p1), row, p2)
  /\ allocations' = PartAllocations(PartAllocations(allocations, row, p1), row, p2)
  /\ UNCHANGED <<orderVars, brokerFills, ignored, transfers>>

Part(slot, Quantities) == [slot : {slot}, sleeve : Sleeves, quantity : Quantities]

-------------------------------------------------------------------------------
Next ==
  \/ \E s \in Sleeves : CurrentPortfolio(s)
  \/ \E s \in Sleeves, y \in Symbols, price \in Marks : UpdatePositionMark(s, y, price)
  \/ \E opening \in Openings, o \in Overwrites :
       InitializeSleeve(opening.sleeve, opening.currency, opening.amount, o)
  \/ \E from, to \in Sleeves, c \in Currencies, amount \in Amounts :
       TransferCash(from, to, c, amount)
  \/ \E c \in Currencies, balance \in Balances : SyncAccountCash(c, balance)
  \/ \E o \in Orders, b \in BrokerIds \cup {NoBroker} :
       RegisterOrder(o, b) \/ AcknowledgeOrderEvent(o, b)
  \/ \E o \in Orders, b \in BrokerIds : BindBrokerOrder(o, b)
  \/ \E row \in Rows \ EventRows, s \in Sleeves \cup {NoSleeve} : ApplyFill(row, s)
  \/ \E row \in EventRows : ApplyOrderEvent(row)
  \/ \E row \in Rows \ EventRows : RecordBrokerFill(row)
  \/ \E f \in FillIds : IgnoreBrokerFill(f)
  \/ \E row \in Rows \ EventRows :
       \E p1 \in Part(1, 1 .. row.quantity), p2 \in Part(2, 0 .. row.quantity) :
         AllocateFill(row, p1, p2)

Spec == Init /\ [][Next]_vars

-------------------------------------------------------------------------------
(* Types. *)

PositionType == [quantity : Nat \ {0}, high : Nat \ {0}, last : Nat \ {0}]
OwnerType == [sleeve : Sleeves, broker : BrokerIds \cup {NoBroker}]
EntryType == [sleeve : Sleeves, symbol : Symbols, side : Sides,
              quantity : Nat \ {0}, price : Nat \ {0}, unitFee : Nat]

LedgerTypeOK ==
  /\ known \subseteq Sleeves
  /\ held \in [Sleeves -> [Symbols -> Nat]]
  /\ IsDict(positions, Sleeves \X Symbols, PositionType)
  /\ IsDict(owner, OrderKeys, OwnerType)
  /\ IsDict(index, BrokerIds, OrderKeys)
  /\ IsDict(fills, LedgerIds, EntryType)
  /\ IsDict(brokerFills, FillIds, Rows)
  /\ IsDict(allocations, AllocationIds, Nat \ {0})
  /\ ignored \subseteq FillIds

\* The type of every variable.
TypeOK ==
  /\ LedgerTypeOK
  /\ cash \in [Sleeves -> [Currencies -> Int]]
  /\ transfers \in Seq([from : Sleeves, to : Sleeves, currency : Currencies,
                        amount : Amounts])

-------------------------------------------------------------------------------
(* Properties. *)

Signed(e) == IF e.side = "buy" THEN e.quantity ELSE -e.quantity
EntriesIn(f, s, y) == {i \in DOMAIN f : f[i].sleeve = s /\ f[i].symbol = y}
Tally(f, s, y) == SumFunctionOnSet([i \in DOMAIN f |-> Signed(f[i])], EntriesIn(f, s, y))

\* What a sleeve holds is what its applied fills add up to: no operation moves
\* shares without a ledger entry, and none is entered twice or to two sleeves.
HoldingsMatchFills ==
  \A s \in Sleeves, y \in Symbols : held[s][y] = Tally(fills, s, y)

CashFlow(e) == IF e.side = "buy" THEN -(e.quantity * (e.price + e.unitFee))
                                 ELSE NonNegative(e.quantity * (e.price - e.unitFee))

PaidIn(f, s, c) ==
  SumFunctionOnSet([i \in DOMAIN f |-> CashFlow(f[i])],
                   {i \in DOMAIN f : f[i].sleeve = s /\ CurrencyOf[f[i].symbol] = c})

\* What the transfers with s on one end ("to" or "from") moved.
Moved(t, end, s, c) ==
  SumFunctionOnSet([k \in DOMAIN t |-> t[k].amount],
                   {k \in DOMAIN t : t[k][end] = s /\ t[k].currency = c})

\* Every known sleeve but the residual one holds its configured cash plus its
\* transfers and fills: balance synchronisation of the residual sleeve, reads
\* that re-seed a missing bucket and allocations create or lose no cash.
CashMatchesLedger ==
  \A s \in known \ {CashSleeve}, c \in Currencies :
    cash[s][c] = SeedCash[s][c] + Moved(transfers, "to", s, c)
                   - Moved(transfers, "from", s, c) + PaidIn(fills, s, c)

\* The position state used for trailing stops exists exactly while shares are
\* held, by a sleeve of the account and for that quantity, and its watermark is
\* never below its last price.
PositionMirrorsHolding ==
  \A s \in Sleeves, y \in Symbols :
    /\ held[s][y] > 0 => s \in known
    /\ <<s, y>> \in DOMAIN positions <=> held[s][y] > 0
    /\ <<s, y>> \in DOMAIN positions =>
         /\ positions[<<s, y>>].quantity = held[s][y]
         /\ positions[<<s, y>>].high >= positions[<<s, y>>].last

\* A raw fill is never split into more shares than it has, however many calls
\* (some of whose parts are skipped as already there) the splitting takes.
AllocationsWithinFill ==
  \A f \in DOMAIN brokerFills : AllocatedOf(f) <= brokerFills[f].quantity

\* Each allocation has its ledger entry, for the sleeve its id names and the
\* same quantity, and is a part of a recorded raw fill; and no entry is a part
\* that was not recorded as an allocation.
AllocationsPosted ==
  /\ \A a \in DOMAIN allocations :
       /\ a[1] \in DOMAIN brokerFills
       /\ a \in DOMAIN fills
       /\ fills[a].sleeve = a[3]
       /\ fills[a].quantity = allocations[a]
  /\ DOMAIN fills \ FillIds \subseteq DOMAIN allocations

\* A raw fill the operator ignored was not and will not be allocated.
IgnoredNeverAllocated == \A a \in DOMAIN allocations : a[1] \notin ignored

\* A broker order number always leads to an order whose owner is known.
IndexOwned == \A b \in DOMAIN index : index[b] \in DOMAIN owner

\* The four records of fills (raw, ignored, allocated, indexed) never contradict
\* each other, in whichever order events, imports and operators write them.
FillRecordsAgree ==
  /\ TypeOK
  /\ IndexOwned
  /\ AllocationsWithinFill
  /\ IgnoredNeverAllocated

Extends(f, g) == DOMAIN f \subseteq DOMAIN g /\ \A k \in DOMAIN f : g[k] = f[k]

\* The ledgers are append-only: an entry, once there, is never changed or lost.
LedgersAppendOnly ==
  [][/\ Extends(fills, fills')
     /\ Extends(brokerFills, brokerFills')
     /\ Extends(allocations, allocations')
     /\ ignored \subseteq ignored']_vars

\* While a position stays open its high watermark does not fall: neither a mark
\* nor a fill at a lower price loosens a trailing stop.
WatermarkNeverFalls ==
  [][\A k \in DOMAIN positions \cap DOMAIN positions' :
       positions'[k].high >= positions[k].high]_vars

\* The abstract ledger this store implements.
Posted == INSTANCE PortfolioLedger WITH
            Accounts <- Sleeves, Assets <- Symbols, Ids <- LedgerIds,
            Entries <- EntryType,
            book <- held, posted <- fills

\* Shares move only by posting an entry under a fresh id, and never below zero.
PostsLedger == Posted!Spec

===============================================================================
