----------------------------- MODULE OrderSubmit ------------------------------
(***************************************************************************)
(* From targets to orders, and the gate in between.  A pipeline run writes  *)
(* an order batch (StandardExecutionModel.create_orders) to an artifact     *)
(* file; order-runtime-submit reads it, as often as it is called, lets      *)
(* EngineGuard judge it, drops or cuts down what the guard refuses, has it  *)
(* judged again and sends what is left.                                     *)
(*                                                                         *)
(* One sleeve that buys and sells several symbols at fixed prices.  Orders  *)
(* fill in one go; a submit is one step (its crashes, lost replies and      *)
(* partial fills are in OrderRuntime).  What a supervise pass does is one   *)
(* step per file it writes, so that a crash can leave the order log and the *)
(* account apart.                                                           *)
(***************************************************************************)
EXTENDS Integers, Sequences, SequencesExt

CONSTANTS
  Listing,             \* the symbols, in the order targets are listed
  Initial,             \* shares held of each at the start
  Cash,                \* cash at the start
  Price,               \* price of each symbol
  Targets,             \* bound: the target quantities a run may ask of each
  SliceSize,           \* max_slice_quantity of the execution model
  MaxBatches,          \* bound: pipeline runs that produce a batch
  Gateways,            \* the gateways a runtime may be started with
  Crashing,            \* gateways whose supervise pass may crash
  Expiring,            \* gateways whose orders lapse at the broker and expire in the log
  MaxCrashes,          \* bound: crashes
  MaxEnded             \* bound: orders cancelled, lapsed or missed

Symbols == Range(Listing)

ASSUME SubmitAssumption ==
  /\ Listing \in Seq(Symbols)
  /\ Initial \in [Symbols -> Nat] /\ Price \in [Symbols -> Nat \ {0}]
  /\ Targets \in [Symbols -> SUBSET Nat] /\ Cash \in Nat /\ SliceSize \in Nat \ {0}
  /\ MaxBatches \in Nat /\ MaxCrashes \in Nat /\ MaxEnded \in Nat
  /\ Gateways \subseteq {"paper", "live"} /\ Crashing \subseteq Gateways
  /\ Expiring \subseteq Gateways

VARIABLES
  gateway,     \* the --broker of the runtime's commands
  artifact,    \* the order batch file: its batch's number and orders
  tickets,     \* the log's tickets by order intent id, <<batch, index>>, with
               \* what the broker and the account know of each
  placed,      \* how often a line of a batch was sent
  supervisor,  \* the supervise pass: where it is, the tickets it has to go
  crashes

vars == <<gateway, artifact, tickets, placed, supervisor, crashes>>

Idle == [pc |-> "idle", todo |-> {}]
Paper == gateway = "paper"

Init ==
  /\ gateway \in Gateways
  /\ artifact = [batch |-> 0, orders |-> << >>]
  /\ tickets = << >>
  /\ placed = << >>
  /\ supervisor = Idle
  /\ crashes = 0

-------------------------------------------------------------------------------
(* What the log, the account and the broker say.  Quantities are signed.      *)

Signed(order) == IF order.side = "buy" THEN order.quantity ELSE -order.quantity
Ids == DOMAIN tickets
Shares(S) == SumFunction([k \in S |-> Signed(tickets[k])])
Value(S) == SumFunction([k \in S |-> Signed(tickets[k]) * Price[tickets[k].symbol]])

Of(s) == {k \in Ids : tickets[k].symbol = s}
Side(side) == {k \in Ids : tickets[k].side = side}
Open == {k \in Ids : tickets[k].log = "open"}
Applied == {k \in Ids : tickets[k].applied}
Unapplied == {k \in Ids : tickets[k].log = "filled" /\ ~tickets[k].applied}
Executed == {k \in Ids : tickets[k].broker = "executed"}
Working == {k \in Ids : tickets[k].broker = "working"}

Held(s) == Initial[s] + Shares(Of(s) \cap Applied)
CashHeld == Cash - Value(Applied)

-------------------------------------------------------------------------------
(* The pipeline: the execution model turns a target into sliced orders for    *)
(* what is neither held nor on its way, unless that points the other way than *)
(* the target does; an urgent exit does not look at open orders.              *)

Pending(s) == Shares(Of(s) \cap Open)

Wanted(s, target, urgent) ==
  LET delta == target - Held(s)
      unordered == delta - Pending(s)
  IN IF urgent /\ delta < 0 THEN delta
     ELSE IF delta * unordered > 0 THEN unordered ELSE 0

Size(quantity) == IF quantity < 0 THEN -quantity ELSE quantity

Slices(s, target, quantity) ==
  [i \in 1..((Size(quantity) + SliceSize - 1) \div SliceSize) |->
     [symbol |-> s, target |-> target, side |-> IF quantity > 0 THEN "buy" ELSE "sell",
      quantity |-> Min({SliceSize, Size(quantity) - (i - 1) * SliceSize}), line |-> i]]

\* The lines of a batch are numbered through, whatever their symbols.
Numbered(orders) == [i \in DOMAIN orders |-> [orders[i] EXCEPT !.line = i]]

Produce ==
  /\ supervisor = Idle
  /\ artifact.batch < MaxBatches
  /\ \E target \in [Symbols -> UNION Range(Targets)], urgent \in BOOLEAN :
       /\ \A s \in Symbols : target[s] \in Targets[s]
       /\ artifact' = [batch |-> artifact.batch + 1,
                       orders |-> Numbered(FlattenSeq([i \in DOMAIN Listing |->
                         LET s == Listing[i]
                         IN Slices(s, target[s], Wanted(s, target[s], urgent))]))]
  /\ UNCHANGED <<gateway, tickets, placed, supervisor, crashes>>

-------------------------------------------------------------------------------
(* EngineGuard.evaluate over the orders of a batch.                           *)

Lines(orders, s) == {i \in DOMAIN orders : orders[i].symbol = s}
Traded(orders) == {orders[i].symbol : i \in DOMAIN orders}
TargetOf(orders, s) == orders[CHOOSE i \in Lines(orders, s) : TRUE].target
Requested(orders, s) == SumFunction([i \in Lines(orders, s) |-> Signed(orders[i])])

\* Mutant: fills that are logged and not yet applied are forgotten.
ProjectedWithoutUnapplied(s) == Held(s) + Pending(s)
Projected(s) == Held(s) + Pending(s) + Shares(Of(s) \cap Unapplied)
Unreserved(orders, s) == TargetOf(orders, s) - Projected(s)

\* Mutant: the id is taken from the line an order had in the artifact.
DuplicateByLine(orders) == \E i \in DOMAIN orders : <<artifact.batch, orders[i].line>> \in Ids
Duplicate(orders) == \E i \in DOMAIN orders : <<artifact.batch, i>> \in Ids

Covered(orders, s) == Unreserved(orders, s) = 0
Conflicting(orders, s) ==
  ~Covered(orders, s) /\ Requested(orders, s) * Unreserved(orders, s) <= 0
Exceeding(orders, s) ==
  /\ Requested(orders, s) * Unreserved(orders, s) > 0
  /\ Size(Requested(orders, s)) > Size(Unreserved(orders, s))

\* Mutant: a sale is not held against the shares there are.
OversoldNever(orders, s) == FALSE
Oversold(orders, s) ==
  -Requested(orders, s) > Held(s) + Shares(Of(s) \cap Open \cap Side("sell"))

Buys(orders) == {i \in DOMAIN orders : orders[i].side = "buy"}
Notional(orders) ==
  SumFunction([i \in Buys(orders) |-> orders[i].quantity * Price[orders[i].symbol]])
\* Mutant: open buy orders reserve no cash.
OverspentAgain(orders) == Notional(orders) > CashHeld
Overspent(orders) == Notional(orders) > CashHeld - Value(Open \cap Side("buy"))

Rejected(orders) ==
  \/ Duplicate(orders)
  \/ Overspent(orders) /\ Notional(orders) > 0
  \/ \E s \in Traded(orders) : \/ Covered(orders, s) \/ Conflicting(orders, s)
                               \/ Exceeding(orders, s) \/ Oversold(orders, s)

-------------------------------------------------------------------------------
(* _repair_guard_rejected_order_intents: symbols that are covered or oversold *)
(* are dropped; orders beyond a target are cut down to it, first come first   *)
(* served.                                                                    *)

Dropped(orders) == {s \in Traded(orders) : Covered(orders, s) \/ Oversold(orders, s)}

Within(orders, i) ==
  LET s == orders[i].symbol
      before == {j \in Lines(orders, s) : j < i}
      left == Size(Unreserved(orders, s))
                - SumFunction([j \in before |-> orders[j].quantity])
  IN IF ~Exceeding(orders, s) THEN orders[i].quantity
     ELSE Max({0, Min({orders[i].quantity, left})})

CutDown(orders, i) == [orders[i] EXCEPT !.quantity = Within(orders, i)]

\* Mutant: an order cut down to nothing stays in the batch.
RepairedEmpty(orders) ==
  FlattenSeq([i \in DOMAIN orders |->
    IF orders[i].symbol \in Dropped(orders) THEN << >> ELSE <<CutDown(orders, i)>>])

Repaired(orders) ==
  FlattenSeq([i \in DOMAIN orders |->
    IF orders[i].symbol \in Dropped(orders) \/ Within(orders, i) = 0 THEN << >>
    ELSE <<CutDown(orders, i)>>])

Admitted(orders) ==
  IF ~Rejected(orders) THEN orders
  ELSE IF ~Rejected(Repaired(orders)) THEN Repaired(orders)
  ELSE << >>

Count(l) == IF l \in DOMAIN placed THEN placed[l] ELSE 0

Sent(order, accepted) ==
  [symbol |-> order.symbol, target |-> order.target, side |-> order.side,
   quantity |-> order.quantity, line |-> order.line,
   log |-> IF accepted THEN "open" ELSE "closed",
   broker |-> IF accepted THEN "working" ELSE "none", applied |-> FALSE, missed |-> FALSE]

\* submit_batches and run_batches: an order the broker refuses is REJECTED.
Submit ==
  /\ supervisor = Idle
  /\ LET orders == Admitted(artifact.orders)
         id(i) == <<artifact.batch, i>>
         new == {id(i) : i \in DOMAIN orders}
         lines == {<<artifact.batch, orders[i].line>> : i \in DOMAIN orders}
     IN \E accepted \in SUBSET DOMAIN orders :
          /\ orders # << >>
          /\ Paper => accepted = DOMAIN orders
          /\ tickets' = [k \in Ids \cup new |->
               IF k \notin new THEN tickets[k]
               ELSE Sent(orders[k[2]], k[2] \in accepted)]
          /\ placed' = [l \in DOMAIN placed \cup lines |->
               Count(l) + (IF l \in lines THEN 1 ELSE 0)]
  /\ UNCHANGED <<gateway, artifact, supervisor, crashes>>

-------------------------------------------------------------------------------
(* The supervise pass.  A gateway that reports fills has them logged, all of  *)
(* them, and then applied; the execution history has each applied and then    *)
(* logged.                                                                    *)

SetAll(S, field, value) ==
  [k \in Ids |-> IF k \in S THEN [tickets[k] EXCEPT ![field] = value] ELSE tickets[k]]

Poll ==
  /\ supervisor = Idle /\ Paper /\ Open # {}
  /\ tickets' = [k \in Ids |-> IF k \in Open
                               THEN [tickets[k] EXCEPT !.broker = "executed", !.log = "filled"]
                               ELSE tickets[k]]
  /\ supervisor' = [pc |-> "apply", todo |-> Open]
  /\ UNCHANGED <<gateway, artifact, placed, crashes>>

\* The account refuses a sale of more than is held.
CanApply(k) == Held(tickets[k].symbol) + Signed(tickets[k]) >= 0

Done(k) == IF supervisor.todo = {k} THEN Idle ELSE [supervisor EXCEPT !.todo = @ \ {k}]

\* In the order of the tickets; a fill the account refuses ends the pass.
ApplyPolled(k) ==
  /\ supervisor.pc = "apply" /\ k \in supervisor.todo
  /\ \A l \in supervisor.todo : k[1] < l[1] \/ (k[1] = l[1] /\ k[2] <= l[2])
  /\ IF CanApply(k)
     THEN tickets' = SetAll({k}, "applied", TRUE) /\ supervisor' = Done(k)
     ELSE UNCHANGED tickets /\ supervisor' = Idle
  /\ UNCHANGED <<gateway, artifact, placed, crashes>>

\* The rows that are new to the account or to the log.
Reconcile ==
  /\ supervisor = Idle /\ ~Paper
  /\ LET rows == {k \in Executed : ~tickets[k].applied \/ tickets[k].log # "filled"}
     IN /\ rows # {}
        /\ supervisor' = [pc |-> "rows", todo |-> rows]
  /\ UNCHANGED <<gateway, artifact, tickets, placed, crashes>>

\* A row the account refuses is passed over.
ImportRow(k) ==
  /\ supervisor.pc = "rows" /\ k \in supervisor.todo /\ ~tickets[k].applied
  /\ IF CanApply(k)
     THEN tickets' = SetAll({k}, "applied", TRUE) /\ UNCHANGED supervisor
     ELSE UNCHANGED tickets /\ supervisor' = Done(k)
  /\ UNCHANGED <<gateway, artifact, placed, crashes>>

LogRow(k) ==
  /\ supervisor.pc = "rows" /\ k \in supervisor.todo /\ tickets[k].applied
  /\ tickets' = SetAll({k}, "log", "filled")
  /\ supervisor' = Done(k)
  /\ UNCHANGED <<gateway, artifact, placed, crashes>>

Crash ==
  /\ supervisor # Idle /\ gateway \in Crashing
  /\ crashes < MaxCrashes
  /\ crashes' = crashes + 1
  /\ supervisor' = Idle
  /\ UNCHANGED <<gateway, artifact, tickets, placed>>

OffMarket == {k \in Ids : tickets[k].broker = "closed" \/ tickets[k].missed}
MayEnd == Cardinality(OffMarket) < MaxEnded

\* A stale order is cancelled while it works.
Cancel(k) ==
  /\ supervisor = Idle /\ ~Paper /\ MayEnd
  /\ k \in Open \cap Working
  /\ tickets' = [tickets EXCEPT ![k].broker = "closed", ![k].log = "closed"]
  /\ UNCHANGED <<gateway, artifact, placed, supervisor, crashes>>

\* A ticket is expired because its day is over, or because the broker has no
\* quantity left to cancel.  Neither says how the order ended: one whose execution
\* is still to be imported is missed until it is.
Expire(k) ==
  /\ supervisor = Idle /\ ~Paper /\ gateway \in Expiring
  /\ k \in Open \ Working
  /\ k \in Executed => MayEnd
  /\ tickets' = [tickets EXCEPT ![k].log = "closed",
                               ![k].missed = @ \/ (k \in Executed /\ ~tickets[k].applied)]
  /\ UNCHANGED <<gateway, artifact, placed, supervisor, crashes>>

\* The broker, external: an order executes, or lapses at the end of its day.
Execute(k) ==
  /\ ~Paper /\ k \in Working
  /\ tickets' = SetAll({k}, "broker", "executed")
  /\ UNCHANGED <<gateway, artifact, placed, supervisor, crashes>>

Lapse(k) ==
  /\ ~Paper /\ gateway \in Expiring /\ k \in Working /\ MayEnd
  /\ tickets' = SetAll({k}, "broker", "closed")
  /\ UNCHANGED <<gateway, artifact, placed, supervisor, crashes>>

Next ==
  \/ Produce \/ Submit \/ Poll \/ Reconcile \/ Crash
  \/ \E k \in Ids : \/ ApplyPolled(k) \/ ImportRow(k) \/ LogRow(k)
                    \/ Cancel(k) \/ Expire(k) \/ Execute(k) \/ Lapse(k)

Spec == Init /\ [][Next]_vars

-------------------------------------------------------------------------------
(* Properties.                                                                *)

\* Every variable has its type; in particular no order is ever for no shares.
TypeOK ==
  /\ gateway \in Gateways
  /\ artifact.batch \in 0..MaxBatches
  /\ Ids \subseteq (1..MaxBatches) \X (Nat \ {0})
  /\ \A k \in Ids :
       tickets[k] \in [symbol: Symbols, target: Nat, side: {"buy", "sell"},
                      quantity: Nat \ {0}, line: Nat \ {0},
                      log: {"open", "filled", "closed"},
                      broker: {"none", "working", "executed", "closed"},
                      applied: BOOLEAN, missed: BOOLEAN]
  /\ supervisor \in [pc: {"idle", "apply", "rows"}, todo: SUBSET Ids]
  /\ crashes \in 0..MaxCrashes

\* The shares the sleeve has or will have if all its working orders execute.
Exposure(s) == Initial[s] + Shares(Of(s) \cap (Executed \cup Working))

MovesTowards(s) ==
  LET target == TargetOf(artifact.orders, s)
  IN \/ Exposure(s) <= Exposure(s)' /\ Exposure(s)' <= target
     \/ target <= Exposure(s)' /\ Exposure(s)' <= Exposure(s)
     \/ Exposure(s)' = Exposure(s)

\* A submit never moves a sleeve away from, nor beyond, the targets its batch
\* carries, however stale the batch is and whatever is still to be applied.
TowardsTarget ==
  [][placed' # placed => \A s \in Traded(artifact.orders) : MovesTowards(s)]_vars

\* What log, account and broker tell differently of a symbol: a fill that is applied
\* and still open in the log, an execution neither open nor logged nor applied, an
\* order that is open in the log and has lapsed.
Ahead(s) == {k \in Of(s) \cap Applied : tickets[k].log = "open"}
Overlooked(s) == {k \in Of(s) \cap Executed : ~tickets[k].applied /\ tickets[k].log = "closed"}
Lapsed(s) == {k \in Of(s) \cap Open : tickets[k].broker = "closed"}

\* A fill is ahead of the log only after a live pass that was cut off.
InSync(s) ==
  /\ Overlooked(s) = {} /\ Lapsed(s) = {}
  /\ Paper \/ crashes = 0 \/ Ahead(s) = {}

\* The same for every symbol of which nothing is overlooked or lapsed, and without
\* a pass cut off between the account and the log or after the log has caught up; a
\* pass cut off between the log and the account does no harm.
TowardsTargetInSync ==
  [][placed' # placed => \A s \in Traded(artifact.orders) : InSync(s) => MovesTowards(s)]_vars

\* No order of a batch is sent twice, although a retry may drop orders and so
\* number the rest anew.
LinePlacedOnce == \A l \in DOMAIN placed : placed[l] <= 1

\* The executions of one side that were missed when their tickets expired.
Missed(side) == {k \in Side(side) : tickets[k].missed}

\* With the live gateway the sleeve offers no more shares than the broker holds for
\* it, but for the sales it has missed: what it oversold would be another sleeve's.
NeverOversold ==
  ~Paper => \A s \in Symbols :
    Initial[s] + Shares(Of(s) \cap ((Executed \ Missed("sell")) \cup (Working \cap Side("sell")))) >= 0

\* With the live gateway the sleeve's cash pays for all it has bought and has on
\* order, but for the purchases it has missed; a crash or a lapsed order leaves
\* reservations standing, never cash that is spent.
CashCovered ==
  ~Paper => Cash - Value((Executed \ Missed("buy")) \cup (Working \cap Side("buy"))) >= 0

\* Whatever is dropped from a batch or cut down, no order is for no shares, and all
\* working orders together are covered by the sleeve's own shares and cash, short of
\* them by no more than the executions that were missed.
OrdersCovered == TypeOK /\ NeverOversold /\ CashCovered

===============================================================================
