------------------------------ MODULE AccountSync ------------------------------
(***************************************************************************)
(* Importing the broker's execution history into the virtual sleeve        *)
(* account: KISVirtualAccountSync.sync (account_sync.py), run by operators, *)
(* and ExecutionHistoryReconcileWorker.reconcile_once (order_worker.py),    *)
(* run by the live loop, walk the same rows with the same store calls.      *)
(* Each is a process of its own over the shared account file; between its   *)
(* calls the order runtime registers and binds orders, and operators        *)
(* allocate or ignore raw fills.                                           *)
(*                                                                         *)
(* The order log is left out (OrderRuntime has it), so are truncation of    *)
(* the history, rows that cannot be parsed, and cash synchronisation.       *)
(***************************************************************************)
EXTENDS VirtualAccount

CONSTANTS
  Importers,     \* processes that import the history
  Loop,          \* the importer the live loop runs over and over
  Assigns,       \* assign_unknown_to_sleeve_id of the operators' imports
  ReportSleeve,  \* the sleeve the importer was started for
  NumberOf,      \* [Orders -> BrokerIds], what the gateway returns for an order
  LateBinding    \* may an order execute before its number is bound?

ASSUME SyncAssumption ==
  /\ Loop \in Importers
  /\ Assigns \subseteq Sleeves \cup {NoSleeve}
  /\ ReportSleeve \in Sleeves
  /\ NumberOf \in [Orders -> BrokerIds]
  /\ EventRows = {}

VARIABLES
  history,   \* rows the broker reports, one per fill id
  pc,        \* where each importer is
  todo,      \* rows of the fetched history it has not looked at
  hand,      \* the row it is working on, if any
  assign     \* the sleeve_id it gives every row, or NoSleeve

importVars == <<pc, todo, hand, assign>>
syncVars == <<vars, history, importVars>>

SyncInit ==
  /\ Init
  /\ history = {}
  /\ pc = [i \in Importers |-> "idle"]
  /\ todo = [i \in Importers |-> {}]
  /\ hand = [i \in Importers |-> {}]
  /\ assign = [i \in Importers |-> NoSleeve]

-------------------------------------------------------------------------------
(* The broker, external: it executes orders of this engine and orders placed  *)
(* by hand.  A row is the cumulative summary of its order, so a row may be    *)
(* replaced by one of a larger quantity under the same fill id.               *)

OrdersOf(r) == {o \in Orders : r.broker \in AliasesOf[NumberOf[o]]}

Execute(r) ==
  /\ \A o \in OrdersOf(r) : /\ o \in DOMAIN owner
                            /\ LateBinding \/ r.broker \in DOMAIN index
  /\ \A old \in history : old.id = r.id => old.quantity < r.quantity
  /\ history' = {old \in history : old.id # r.id} \cup {r}
  /\ UNCHANGED <<vars, importVars>>

-------------------------------------------------------------------------------
(* An import: fetch, then row by row fill_exists, ownership_for_order and      *)
(* record_broker_fill or apply_fill, each a load of the file as it then is.    *)

Fetch(i, s) ==
  /\ pc[i] = "idle"
  /\ pc' = [pc EXCEPT ![i] = "rows"]
  /\ todo' = [todo EXCEPT ![i] = history]
  /\ assign' = [assign EXCEPT ![i] = s]
  /\ UNCHANGED <<vars, history, hand>>

CheckExists(i, r) ==
  /\ pc[i] = "rows"
  /\ r \in todo[i]
  /\ todo' = [todo EXCEPT ![i] = @ \ {r}]
  /\ IF r.id \in DOMAIN fills
     THEN UNCHANGED <<pc, hand>>
     ELSE /\ pc' = [pc EXCEPT ![i] = "new"]
          /\ hand' = [hand EXCEPT ![i] = {r}]
  /\ UNCHANGED <<vars, history, assign>>

\* Mutant: the broker's aliases of an order are not looked up.
OwnershipKnownById(o) == o \in DOMAIN owner

\* ownership_for_order: the alias index first, then the id itself.
OwnershipKnown(o) == (IF o \in DOMAIN index THEN index[o] ELSE o) \in DOMAIN owner

ReadOwnership(i) ==
  /\ pc[i] = "new"
  /\ \E r \in hand[i] :
       pc' = [pc EXCEPT ![i] = IF OwnershipKnown(r.order) THEN "owned" ELSE "unowned"]
  /\ UNCHANGED <<vars, history, todo, hand, assign>>

RowDone(i) ==
  /\ pc' = [pc EXCEPT ![i] = "rows"]
  /\ hand' = [hand EXCEPT ![i] = {}]
  /\ UNCHANGED <<history, todo, assign>>

\* record_broker_fill: a row recorded before returns False; a row applied in
\* between raises, and the importer lists it as rejected.
RecordRaw(i, r) ==
  /\ pc[i] = "unowned" /\ assign[i] = NoSleeve
  /\ r \in hand[i]
  /\ \/ RecordBrokerFill(r)
     \/ /\ r.id \in DOMAIN fills \cup DOMAIN brokerFills
        /\ UNCHANGED vars
  /\ RowDone(i)

\* Mutant: the row is applied on the strength of the earlier fill_exists.
ApplyRowChecked(i, r) ==
  /\ pc[i] = "owned" \/ (pc[i] = "unowned" /\ assign[i] # NoSleeve)
  /\ r \in hand[i]
  /\ ApplyFillAgain(r, assign[i])
  /\ RowDone(i)

\* apply_fill: a fill applied in between is a duplicate; an oversell raises.
ApplyRow(i, r) ==
  /\ pc[i] = "owned" \/ (pc[i] = "unowned" /\ assign[i] # NoSleeve)
  /\ r \in hand[i]
  /\ \/ ApplyFill(r, assign[i])
     \/ /\ \/ r.id \in DOMAIN fills
           \/ ~CanApply(held, TargetSleeve(r, assign[i], owner, index), r, r.quantity)
        /\ UNCHANGED vars
  /\ RowDone(i)

\* The import ends by reporting the portfolio of the sleeve it was run for.
Finish(i) ==
  /\ pc[i] = "rows" /\ todo[i] = {}
  /\ CurrentPortfolio(ReportSleeve)
  /\ pc' = [pc EXCEPT ![i] = "idle"]
  /\ UNCHANGED <<history, todo, hand, assign>>

ImportStep(i) ==
  \/ \E r \in Rows : CheckExists(i, r) \/ RecordRaw(i, r) \/ ApplyRow(i, r)
  \/ ReadOwnership(i)
  \/ Finish(i)

-------------------------------------------------------------------------------
(* The order runtime: the ownership is registered before the order is sent,   *)
(* the number is bound when the gateway's acceptance is applied.              *)

Register(o) ==
  /\ o \notin DOMAIN owner
  /\ RegisterOrder(o, NoBroker)
  /\ UNCHANGED <<history, importVars>>

Accept(o) ==
  /\ o \in DOMAIN owner /\ owner[o].broker = NoBroker
  /\ AcknowledgeOrderEvent(o, NumberOf[o])
  /\ UNCHANGED <<history, importVars>>

-------------------------------------------------------------------------------
(* Operators: virtual-account-allocate-fill and virtual-account-ignore-fill.  *)

Allocate(r, p1, p2) ==
  /\ AllocateFill(r, p1, p2)
  /\ UNCHANGED <<history, importVars>>

Ignore(f) ==
  /\ IgnoreBrokerFill(f)
  /\ UNCHANGED <<history, importVars>>

-------------------------------------------------------------------------------
SyncNext ==
  \/ \E r \in Rows : Execute(r)
  \/ Fetch(Loop, NoSleeve)
  \/ \E i \in Importers \ {Loop}, s \in Assigns : Fetch(i, s)
  \/ \E i \in Importers : ImportStep(i)
  \/ \E o \in Orders : Register(o) \/ Accept(o)
  \/ \E r \in Rows : \E p1 \in Part(1, 1 .. r.quantity), p2 \in Part(2, 0 .. r.quantity) :
       Allocate(r, p1, p2)
  \/ \E f \in FillIds : Ignore(f)

SyncSpec == SyncInit /\ [][SyncNext]_syncVars

\* The live loop runs its import again and again; operators need not.
FairSync == /\ SyncSpec
            /\ WF_syncVars(Fetch(Loop, NoSleeve))
            /\ WF_syncVars(ImportStep(Loop))

-------------------------------------------------------------------------------
(* Properties. *)

SyncTypeOK ==
  /\ history \subseteq Rows
  /\ pc \in [Importers -> {"idle", "rows", "new", "owned", "unowned"}]
  /\ todo \in [Importers -> SUBSET Rows]
  /\ hand \in [Importers -> SUBSET Rows]
  /\ assign \in [Importers -> Sleeves \cup {NoSleeve}]

\* The shares of a broker fill that were credited to sleeves.
Credited(f) == AllocatedOf(f) + (IF f \in DOMAIN fills THEN fills[f].quantity ELSE 0)

\* However many processes import a fill while operators split it, sleeves are
\* credited no more shares than the broker executed.
CreditedOnce ==
  \A f \in FillIds : Credited(f) > 0 =>
    \E r \in history : r.id = f /\ Credited(f) <= r.quantity

\* A fill of an order that a sleeve placed is credited to that sleeve, and is
\* not left in the raw ledger as work for an operator.
OwnFillsReachOwner ==
  \A r \in history : \A o \in OrdersOf(r) :
    /\ r.id \in DOMAIN fills => fills[r.id].sleeve = SleeveOf[o]
    /\ r.id \notin DOMAIN brokerFills

\* A fill of an order whose number is bound is credited sooner or later, even
\* if its row is revised, or an operator's import holds it, in the meantime.
OwnFillsImported ==
  \A r \in Rows : (r \in history /\ r.broker \in DOMAIN index) ~> r.id \in DOMAIN fills
===============================================================================
