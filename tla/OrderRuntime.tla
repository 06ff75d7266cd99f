----------------------------- MODULE OrderRuntime -----------------------------
(***************************************************************************)
(* The life of buy orders of one sleeve and one symbol: EngineGuard and     *)
(* MultiSleeveOrderOrchestrator on the way out (order-runtime-submit), the  *)
(* broker, and OrderRuntimeSupervisor on the way back (order-runtime-       *)
(* supervise: poll, expire and cancel, reconcile).  The two commands are    *)
(* separate processes over an append-only order log and an account file.    *)
(*                                                                         *)
(* The log is kept as what its replay gives: tickets and fill events.  Of   *)
(* the account only ownership and credited quantities are kept (the rest is *)
(* VirtualAccount).  A step is one call that touches a file or the broker;  *)
(* a process may crash between two steps.  Prices, cash, sells, the command *)
(* queue of the gateway and batches of several orders are left out.         *)
(***************************************************************************)
EXTENDS Integers, FiniteSetsExt, Functions

CONSTANTS
  Orders,              \* order intent ids a strategy may present
  Target,              \* the target quantity every intent carries
  Wants,               \* bound: quantities asked for
  Gateways,            \* the gateways a runtime may be started with
  PartialFills,        \* may the broker execute an order share by share?
  LostReplies,         \* may a call reach the broker and raise all the same?
  Reconciles,          \* may a pass reconcile (TRUE), skip it (FALSE)?
  Sequential,          \* the live loop: one command at a time
  MaxDay,              \* bound: market days
  MaxSubmitCrashes, MaxSuperviseCrashes, MaxFetchFailures  \* bounds

ASSUME RuntimeAssumption ==
  /\ IsFiniteSet(Orders)
  /\ Target \in Nat /\ MaxDay \in Nat
  /\ Wants \subseteq Nat \ {0}
  /\ Gateways \subseteq {"paper", "live"}
  /\ {PartialFills, LostReplies, Sequential} \subseteq BOOLEAN
  /\ Reconciles \subseteq BOOLEAN
  /\ {MaxSubmitCrashes, MaxSuperviseCrashes, MaxFetchFailures} \subseteq Nat
  /\ "paper" \in Gateways => Sequential

VARIABLES
  gateway,     \* the --broker of the runtime's commands
  day,         \* the market-local date
  broker,      \* what the broker knows of each order
  placed,      \* how often each order was sent
  ticket,      \* the log's tickets, replayed
  fillEvents,  \* the log's fill events
  registered,  \* orders the account knows the owner of
  bound,       \* orders whose broker number is in the account's alias index
  raw,         \* orders whose row is recorded as an unallocated fill
  credited,    \* what the account holds of each order, by source of the fill
  submitter, supervisor,  \* the two processes
  failures     \* crashes and failed fetches so far

logVars == <<ticket, fillEvents>>
accountVars == <<registered, bound, raw, credited>>
brokerVars == <<gateway, day, broker, placed>>
vars == <<brokerVars, logVars, accountVars, submitter, supervisor, failures>>

Terminal == {"filled", "cancelled", "expired", "rejected"}
Statuses == {"created", "submitted", "accepted", "partially_filled"} \cup Terminal
Sources == {"poll", "row"}

Open == {o \in DOMAIN ticket : ticket[o].status \notin Terminal}
Remaining(o) == ticket[o].quantity - ticket[o].filled

NoSubmit == [pc |-> "idle", order |-> {}, quantity |-> 0, accepted |-> FALSE]
NoPass == [pc |-> "idle", reconcile |-> FALSE, todo |-> {}, closing |-> << >>,
           rows |-> << >>, seen |-> {}]

\* The paper gateway fills when it is polled; the live one is the broker.
Paper == gateway = "paper"

Init ==
  /\ gateway \in Gateways
  /\ day = 0
  /\ broker = [o \in Orders |-> [state |-> "none", executed |-> 0, day |-> 0]]
  /\ placed = [o \in Orders |-> 0]
  /\ ticket = << >> /\ fillEvents = {}
  /\ registered = {} /\ bound = {} /\ raw = {}
  /\ credited = [p \in Orders \X Sources |-> 0]
  /\ submitter = NoSubmit
  /\ supervisor = NoPass
  /\ failures = [submit |-> 0, supervise |-> 0, fetch |-> 0]

-------------------------------------------------------------------------------
(* OrderTicket.apply_event: a status event overwrites the status, terminal or *)
(* not; a fill adds its quantity, capped at the ticket's.                     *)

WithStatus(t, status) == [t EXCEPT !.status = status]

\* Mutant: fills add up without regard to the quantity of the ticket.
WithFillUncapped(t, quantity, final) ==
  [t EXCEPT !.filled = @ + quantity,
            !.status = IF final \/ t.filled + quantity >= t.quantity THEN "filled"
                                                                     ELSE "partially_filled"]

WithFill(t, quantity, final) ==
  LET filled == Min({t.quantity, t.filled + quantity})
  IN [t EXCEPT !.filled = filled,
               !.status = IF final \/ filled >= t.quantity THEN "filled"
                                                           ELSE "partially_filled"]

Fill(o, quantity, source) == [order |-> o, quantity |-> quantity, source |-> source]

-------------------------------------------------------------------------------
(* EngineGuard: what the log and the account say is held or on its way.       *)

Held == SumFunction([o \in Orders |-> credited[<<o, "poll">>] + credited[<<o, "row">>]])
Pending == SumFunction([o \in Open |-> Remaining(o)])
Unapplied == {e \in fillEvents : credited[<<e.order, e.source>>] = 0}
Awaited == SumFunction([e \in Unapplied |-> e.quantity])

\* Mutant: open tickets reserve nothing.
ProjectedWithoutOpen == Held + Awaited
\* Mutant: fills that are logged and not yet applied are forgotten.
ProjectedWithoutUnapplied == Held + Pending
Projected == Held + Pending + Awaited

\* Mutant: an order id may be submitted a second time.
EvaluateAgain(o, want) ==
  /\ submitter.pc = "idle"
  /\ Sequential => supervisor.pc = "idle"
  /\ Target > Projected
  /\ submitter' = [pc |-> "admitted", order |-> {o}, accepted |-> FALSE,
                   quantity |-> Min({want, Target - Projected})]
  /\ UNCHANGED <<brokerVars, logVars, accountVars, supervisor, failures>>

\* submit_batches: the guard refuses an id that has a ticket and a target that
\* is covered; a quantity beyond the target is cut down to it.
Evaluate(o, want) ==
  /\ submitter.pc = "idle"
  /\ Sequential => supervisor.pc = "idle"
  /\ o \notin DOMAIN ticket
  /\ Target > Projected
  /\ submitter' = [pc |-> "admitted", order |-> {o}, accepted |-> FALSE,
                   quantity |-> Min({want, Target - Projected})]
  /\ UNCHANGED <<brokerVars, logVars, accountVars, supervisor, failures>>

-------------------------------------------------------------------------------
(* run_batches: ticket, ownership, broker, log, account, in this order.       *)

RecordTicket ==
  /\ submitter.pc = "admitted"
  /\ \E o \in submitter.order :
       ticket' = [p \in DOMAIN ticket \cup {o} |->
                    IF p = o THEN [status |-> "created", quantity |-> submitter.quantity,
                                   filled |-> 0, number |-> FALSE, opened |-> day]
                             ELSE ticket[p]]
  /\ submitter' = [submitter EXCEPT !.pc = "recorded"]
  /\ UNCHANGED <<brokerVars, fillEvents, accountVars, supervisor, failures>>

RegisterTicket ==
  /\ submitter.pc = "recorded"
  /\ registered' = registered \cup submitter.order
  /\ submitter' = [submitter EXCEPT !.pc = "registered"]
  /\ UNCHANGED <<brokerVars, logVars, bound, raw, credited, supervisor, failures>>

\* gateway.submit: any exception is a REJECTED event, the lost reply included.
Submit ==
  /\ submitter.pc = "registered"
  /\ \E o \in submitter.order, reached, answered \in BOOLEAN :
       /\ reached /\ ~answered => LostReplies
       /\ ~reached => ~answered
       /\ submitter' = [submitter EXCEPT !.pc = "answered", !.accepted = answered]
       /\ IF reached
          THEN /\ broker' = [broker EXCEPT ![o] = [state |-> "working", executed |-> 0,
                                                   day |-> day]]
               /\ placed' = [placed EXCEPT ![o] = @ + 1]
          ELSE UNCHANGED <<broker, placed>>
  /\ UNCHANGED <<gateway, day, logVars, accountVars, supervisor, failures>>

RecordReply ==
  /\ submitter.pc = "answered"
  /\ \E o \in submitter.order :
       ticket' = [ticket EXCEPT
         ![o].status = IF ~submitter.accepted THEN "rejected"
                       ELSE IF Paper THEN "submitted" ELSE "accepted",
         ![o].number = @ \/ submitter.accepted]
  /\ submitter' = [submitter EXCEPT !.pc = "logged"]
  /\ UNCHANGED <<brokerVars, fillEvents, accountVars, supervisor, failures>>

\* apply_order_event: a number is bound to the order that owns it.
ApplyReply ==
  /\ submitter.pc = "logged"
  /\ bound' = bound \cup (IF submitter.accepted THEN submitter.order \cap registered ELSE {})
  /\ \E poll \in BOOLEAN :
       submitter' = IF poll /\ Paper /\ submitter.accepted
                    THEN [submitter EXCEPT !.pc = "poll"] ELSE NoSubmit
  /\ UNCHANGED <<brokerVars, logVars, registered, raw, credited, supervisor, failures>>

-------------------------------------------------------------------------------
(* Fills the gateway itself reports: the paper gateway fills what is open, in *)
(* full.  The events are logged first and applied one by one afterwards.      *)

LogPolled(S) ==
  /\ broker' = [o \in Orders |->
       IF o \in S THEN [broker[o] EXCEPT !.state = "closed", !.executed = ticket[o].quantity]
                  ELSE broker[o]]
  /\ ticket' = [o \in DOMAIN ticket |->
       IF o \in S THEN WithFill(ticket[o], Remaining(o), TRUE) ELSE ticket[o]]
  /\ fillEvents' = fillEvents \cup {Fill(o, Remaining(o), "poll") : o \in S}
  /\ UNCHANGED <<gateway, day, placed, accountVars, failures>>

ApplyPolled(o) ==
  /\ \E e \in fillEvents : /\ e.order = o /\ e.source = "poll"
                           /\ credited' = [credited EXCEPT ![<<o, "poll">>] = e.quantity]
  /\ bound' = bound \cup {o}
  /\ UNCHANGED <<brokerVars, logVars, registered, raw, failures>>

SubmitPoll ==
  /\ submitter.pc = "poll"
  /\ LogPolled(submitter.order)
  /\ submitter' = [submitter EXCEPT !.pc = "polled"]
  /\ UNCHANGED supervisor

SubmitApply ==
  /\ submitter.pc = "polled"
  /\ \E o \in submitter.order : ApplyPolled(o)
  /\ submitter' = NoSubmit
  /\ UNCHANGED supervisor

SubmitStep ==
  RecordTicket \/ RegisterTicket \/ Submit \/ RecordReply \/ ApplyReply
  \/ SubmitPoll \/ SubmitApply

-------------------------------------------------------------------------------
(* A supervise pass: OrderRuntimeSupervisor.run_once.                         *)

StartPass(reconcile) ==
  /\ supervisor.pc = "idle"
  /\ Sequential => submitter.pc = "idle"
  /\ supervisor' = [NoPass EXCEPT !.pc = IF Paper THEN "poll" ELSE "polled",
                                  !.reconcile = reconcile]
  /\ UNCHANGED <<brokerVars, logVars, accountVars, submitter, failures>>

\* _poll_open_tickets: the live gateway reports nothing for accepted orders.
PollOpen ==
  /\ supervisor.pc = "poll"
  /\ LET S == {o \in Open : ticket[o].status \in {"submitted", "accepted"}}
     IN /\ LogPolled(S)
        /\ supervisor' = [supervisor EXCEPT !.pc = "polled", !.todo = S]
  /\ UNCHANGED submitter

ApplyPoll(o) ==
  /\ supervisor.pc = "polled" /\ o \in supervisor.todo
  /\ ApplyPolled(o)
  /\ supervisor' = [supervisor EXCEPT !.todo = @ \ {o}]
  /\ UNCHANGED submitter

\* Events that close tickets are logged together, then applied one by one.
LogClosed(S, status) ==
  /\ ticket' = [o \in DOMAIN ticket |->
       IF o \in S THEN WithStatus(ticket[o], status) ELSE ticket[o]]
  /\ UNCHANGED <<brokerVars, fillEvents, accountVars, submitter, failures>>

\* Mutant: a day order is left a day longer.
ExpireDayLate ==
  /\ supervisor.pc = "polled" /\ supervisor.todo = {}
  /\ LET S == {o \in Open : day > ticket[o].opened + 1}
     IN /\ LogClosed(S, "expired")
        /\ supervisor' = [supervisor EXCEPT !.pc = "expired", !.todo = S]

ExpireDay ==
  /\ supervisor.pc = "polled" /\ supervisor.todo = {}
  /\ LET S == {o \in Open : day > ticket[o].opened}
     IN /\ LogClosed(S, "expired")
        /\ supervisor' = [supervisor EXCEPT !.pc = "expired", !.todo = S]

\* apply_order_event of a closing event binds the number, if it has one.
BindClosed(o) ==
  /\ supervisor.pc \in {"expired", "closed"} /\ o \in supervisor.todo
  /\ bound' = IF ticket[o].number THEN bound \cup {o} ELSE bound
  /\ supervisor' = [supervisor EXCEPT !.todo = @ \ {o}]
  /\ UNCHANGED <<brokerVars, logVars, registered, raw, credited, submitter, failures>>

\* The stale tickets; one without a broker number raises and is left alone.
FindStale(S) ==
  /\ supervisor.pc = "expired" /\ supervisor.todo = {}
  /\ S \subseteq Open
  /\ supervisor' = [supervisor EXCEPT !.pc = "cancel", !.todo = {o \in S : ticket[o].number}]
  /\ UNCHANGED <<brokerVars, logVars, accountVars, submitter, failures>>

\* The event a cancel call leads to: cancelled, or expired where the broker has
\* "no cancellable quantity"; a call that raises anything else yields no event.
CancelOutcomes(o) ==
  (IF broker[o].state = "working" THEN {"cancelled"} ELSE {"expired"})
  \cup (IF LostReplies THEN {"none"} ELSE {})

CancelStale(o) ==
  /\ supervisor.pc = "cancel" /\ o \in supervisor.todo
  /\ \E outcome \in CancelOutcomes(o), reached \in BOOLEAN :
       /\ outcome # "none" => reached
       /\ supervisor' = [supervisor EXCEPT
            !.todo = @ \ {o},
            !.closing = [p \in DOMAIN @ \cup (IF outcome = "none" THEN {} ELSE {o}) |->
                           IF p = o THEN outcome ELSE @[p]]]
       /\ broker' = IF reached THEN [broker EXCEPT ![o].state = "closed"] ELSE broker
  /\ UNCHANGED <<gateway, day, placed, logVars, accountVars, submitter, failures>>

ClosingBy(status) == {o \in DOMAIN supervisor.closing : supervisor.closing[o] = status}

\* The cancellations first, then the expiries.
RecordClosed ==
  /\ supervisor.pc \in {"cancel", "closed"} /\ supervisor.todo = {}
  /\ DOMAIN supervisor.closing # {}
  /\ LET status == IF ClosingBy("cancelled") # {} THEN "cancelled" ELSE "expired"
         S == ClosingBy(status)
     IN /\ LogClosed(S, status)
        /\ supervisor' = [supervisor EXCEPT !.pc = "closed", !.todo = S,
                            !.closing = Restrict(@, DOMAIN @ \ S)]

-------------------------------------------------------------------------------
(* reconcile_once: today's rows, one per order with all it has executed.      *)

Fetched == {o \in Orders : broker[o].executed > 0 /\ broker[o].day = day}

ReadyToReconcile ==
  /\ supervisor.pc \in {"cancel", "closed"} /\ supervisor.todo = {}
  /\ DOMAIN supervisor.closing = {}

\* The paper broker keeps no execution history.
FetchHistory ==
  /\ ReadyToReconcile
  /\ supervisor.reconcile /\ ~Paper
  /\ supervisor' = [supervisor EXCEPT !.pc = "rows",
                      !.rows = [o \in Fetched |-> broker[o].executed],
                      !.seen = {<<e.order, e.quantity>> : e \in fillEvents}]
  /\ UNCHANGED <<brokerVars, logVars, accountVars, submitter, failures>>

\* A failed fetch is an error in the report; the pass goes on with no rows.
FailFetch ==
  /\ ReadyToReconcile
  /\ supervisor.reconcile /\ ~Paper
  /\ failures.fetch < MaxFetchFailures
  /\ failures' = [failures EXCEPT !.fetch = @ + 1]
  /\ supervisor' = NoPass
  /\ UNCHANGED <<brokerVars, logVars, accountVars, submitter>>

EndPass ==
  /\ \/ ReadyToReconcile /\ (~supervisor.reconcile \/ Paper)
     \/ supervisor.pc = "rows" /\ DOMAIN supervisor.rows = {}
  /\ supervisor' = NoPass
  /\ UNCHANGED <<brokerVars, logVars, accountVars, submitter, failures>>

DropRow(o) == [supervisor EXCEPT !.pc = "rows", !.rows = Restrict(@, DOMAIN @ \ {o})]

\* What a row is to the importer: applied before, logged before, unowned, new.
RowKind(o) ==
  IF credited[<<o, "row">>] > 0 THEN "applied"
  ELSE IF <<o, supervisor.rows[o]>> \in supervisor.seen THEN "logged"
  ELSE IF o \notin bound THEN "unowned"
  ELSE "new"

\* Mutant: rows of orders whose ticket is closed are passed over.
ImportRowOpen(o) ==
  /\ supervisor.pc = "rows" /\ o \in DOMAIN supervisor.rows
  /\ raw' = IF RowKind(o) = "unowned" THEN raw \cup {o} ELSE raw
  /\ credited' = IF RowKind(o) = "new" /\ o \in Open
                 THEN [credited EXCEPT ![<<o, "row">>] = supervisor.rows[o]] ELSE credited
  /\ supervisor' = IF RowKind(o) \in {"applied", "new"} /\ o \in Open
                   THEN [supervisor EXCEPT !.pc = "log", !.todo = {o}] ELSE DropRow(o)
  /\ UNCHANGED <<brokerVars, logVars, registered, bound, submitter, failures>>

\* Mutant: a row that was applied before needs nothing more.
ImportRowUnlogged(o) ==
  /\ supervisor.pc = "rows" /\ o \in DOMAIN supervisor.rows
  /\ raw' = IF RowKind(o) = "unowned" THEN raw \cup {o} ELSE raw
  /\ credited' = IF RowKind(o) = "new"
                 THEN [credited EXCEPT ![<<o, "row">>] = supervisor.rows[o]] ELSE credited
  /\ supervisor' = IF RowKind(o) = "new"
                   THEN [supervisor EXCEPT !.pc = "log", !.todo = {o}] ELSE DropRow(o)
  /\ UNCHANGED <<brokerVars, logVars, registered, bound, submitter, failures>>

\* Mutant: a summary row that has grown counts as a new fill.
ImportRowRevised(o) ==
  /\ supervisor.pc = "rows" /\ o \in DOMAIN supervisor.rows
  /\ raw' = IF RowKind(o) = "unowned" THEN raw \cup {o} ELSE raw
  /\ credited' = IF RowKind(o) = "new" \/ (RowKind(o) = "applied"
                                            /\ supervisor.rows[o] # credited[<<o, "row">>])
                 THEN [credited EXCEPT ![<<o, "row">>] = @ + supervisor.rows[o]] ELSE credited
  /\ supervisor' = IF RowKind(o) \in {"applied", "new"}
                   THEN [supervisor EXCEPT !.pc = "log", !.todo = {o}] ELSE DropRow(o)
  /\ UNCHANGED <<brokerVars, logVars, registered, bound, submitter, failures>>

ImportRow(o) ==
  /\ supervisor.pc = "rows" /\ o \in DOMAIN supervisor.rows
  /\ raw' = IF RowKind(o) = "unowned" THEN raw \cup {o} ELSE raw
  /\ credited' = IF RowKind(o) = "new"
                 THEN [credited EXCEPT ![<<o, "row">>] = supervisor.rows[o]] ELSE credited
  /\ supervisor' = IF RowKind(o) \in {"applied", "new"}
                   THEN [supervisor EXCEPT !.pc = "log", !.todo = {o}] ELSE DropRow(o)
  /\ UNCHANGED <<brokerVars, logVars, registered, bound, submitter, failures>>

\* Mutant: the event is written whether or not the fill is in the log.
LogRowAgain(o) ==
  /\ supervisor.pc = "log" /\ o \in supervisor.todo
  /\ LET q == supervisor.rows[o]
     IN /\ ticket' = [ticket EXCEPT ![o] = WithFill(@, q, q >= Remaining(o))]
        /\ fillEvents' = fillEvents \cup {Fill(o, q, "row")}
  /\ supervisor' = [DropRow(o) EXCEPT !.todo = {}]
  /\ UNCHANGED <<brokerVars, accountVars, submitter, failures>>

\* _record_imported_fill_event: an event of the row's whole quantity, unless
\* one of that quantity is there already.
LogRow(o) ==
  /\ supervisor.pc = "log" /\ o \in supervisor.todo
  /\ LET q == supervisor.rows[o]
     IN IF \E e \in fillEvents : e.order = o /\ e.quantity = q
        THEN UNCHANGED logVars
        ELSE /\ ticket' = [ticket EXCEPT ![o] = WithFill(@, q, q >= Remaining(o))]
             /\ fillEvents' = fillEvents \cup {Fill(o, q, "row")}
  /\ supervisor' = [DropRow(o) EXCEPT !.todo = {}]
  /\ UNCHANGED <<brokerVars, accountVars, submitter, failures>>

SuperviseStep ==
  \/ PollOpen \/ ExpireDay \/ RecordClosed \/ FetchHistory \/ FailFetch \/ EndPass
  \/ \E o \in Orders : \/ ApplyPoll(o) \/ BindClosed(o) \/ CancelStale(o)
                       \/ ImportRow(o) \/ LogRow(o)
  \/ \E S \in SUBSET Orders : FindStale(S)

-------------------------------------------------------------------------------
(* The broker, external, and the end of the processes.                        *)

Execute(o) ==
  /\ ~Paper
  /\ broker[o].state = "working"
  /\ \E n \in (broker[o].executed + 1)..ticket[o].quantity :
       /\ PartialFills \/ n = ticket[o].quantity
       /\ broker' = [broker EXCEPT ![o] = [state |-> IF n = ticket[o].quantity THEN "closed"
                                                                              ELSE "working",
                                           executed |-> n, day |-> @.day]]
  /\ UNCHANGED <<gateway, day, placed, logVars, accountVars, submitter, supervisor, failures>>

\* Day orders end with the day; no submit runs across midnight.
CloseDay ==
  /\ day < MaxDay
  /\ submitter.pc = "idle"
  /\ day' = day + 1
  /\ broker' = [o \in Orders |-> IF broker[o].state = "working"
                                 THEN [broker[o] EXCEPT !.state = "closed"] ELSE broker[o]]
  /\ UNCHANGED <<gateway, placed, logVars, accountVars, submitter, supervisor, failures>>

CrashSubmit ==
  /\ submitter.pc # "idle"
  /\ failures.submit < MaxSubmitCrashes
  /\ failures' = [failures EXCEPT !.submit = @ + 1]
  /\ submitter' = NoSubmit
  /\ UNCHANGED <<brokerVars, logVars, accountVars, supervisor>>

CrashSupervise ==
  /\ supervisor.pc # "idle"
  /\ failures.supervise < MaxSuperviseCrashes
  /\ failures' = [failures EXCEPT !.supervise = @ + 1]
  /\ supervisor' = NoPass
  /\ UNCHANGED <<brokerVars, logVars, accountVars, submitter>>

Next ==
  \/ \E o \in Orders, want \in Wants : Evaluate(o, want)
  \/ SubmitStep
  \/ \E r \in Reconciles : StartPass(r)
  \/ SuperviseStep
  \/ \E o \in Orders : Execute(o)
  \/ CloseDay \/ CrashSubmit \/ CrashSupervise

Spec == Init /\ [][Next]_vars

\* A command that runs goes on; the loop supervises in every cycle and
\* reconciles in every fifth; days pass.
Fairness ==
  /\ WF_vars(SubmitStep) /\ WF_vars(SuperviseStep)
  /\ SF_vars(StartPass(TRUE))
  /\ WF_vars(CloseDay)

FairSpec == Spec /\ Fairness

-------------------------------------------------------------------------------
(* Properties.                                                                *)

\* Every variable has its type, and a ticket is filled to at most its quantity
\* however many fill events name it.
TypeOK ==
  /\ gateway \in Gateways /\ day \in 0..MaxDay
  /\ broker \in [Orders -> [state: {"none", "working", "closed"}, executed: Nat, day: 0..MaxDay]]
  /\ placed \in [Orders -> Nat]
  /\ DOMAIN ticket \subseteq Orders
  /\ \A o \in DOMAIN ticket :
       /\ ticket[o] \in [status: Statuses, quantity: 1..Target, filled: Nat,
                         number: BOOLEAN, opened: 0..MaxDay]
       /\ ticket[o].filled <= ticket[o].quantity
  /\ fillEvents \subseteq [order: Orders, quantity: Nat, source: Sources]
  /\ registered \subseteq Orders /\ bound \subseteq Orders /\ raw \subseteq Orders
  /\ credited \in [Orders \X Sources -> Nat]

\* What the broker has executed for an order or may still execute.
Exposure(o) == broker[o].executed + IF broker[o].state = "working"
                                    THEN ticket[o].quantity - broker[o].executed ELSE 0

\* Shares bought and shares on order never exceed the target: the guard's view
\* of holdings, open tickets and unapplied fills covers what the broker has.
NeverOverTarget == SumFunction([o \in Orders |-> Exposure(o)]) <= Target

\* An order id reaches the broker at most once, and not before its ticket is in
\* the log, whatever crashes and whatever is presented again.
PlacedOnce == \A o \in Orders : placed[o] <= IF o \in DOMAIN ticket THEN 1 ELSE 0

\* The summary row of an order was logged, had grown, and was logged once more.
LoggedAgain(o) ==
  \E e, f \in fillEvents : e.order = o /\ f.order = o /\ e.quantity # f.quantity

\* No fill event says more than the broker executed, and a ticket counts more
\* than that only where a row that had grown was logged as a further fill.
FilledWithinExecuted ==
  /\ \A e \in fillEvents : e.quantity <= broker[e.order].executed
  /\ \A o \in DOMAIN ticket : ticket[o].filled <= broker[o].executed \/ LoggedAgain(o)

\* However often a row is read and logged after partial fills, no ticket counts
\* more than its quantity, nor, as long as its row has not grown in between, more
\* than the broker executed (_record_imported_fill_event).
TicketsWithinExecuted == TypeOK /\ FilledWithinExecuted

\* What the execution history has credited to the sleeve for an order is never
\* more than the broker executed, however often its row is read, grows, or is
\* read by a pass that crashes.
CreditedWithinExecuted ==
  ~Paper => \A o \in Orders : credited[<<o, "row">>] <= broker[o].executed

\* An order whose number is bound and which the broker executed is credited to
\* the sleeve the same day, whatever its ticket says by then.
OwnFillsCredited ==
  \A o \in Orders :
    (o \in bound /\ broker[o].executed > 0 /\ broker[o].day = day)
      ~> (credited[<<o, "row">>] > 0 \/ broker[o].day # day)

\* A credited fill gets into the log the same day, a crash between the account
\* file and the log notwithstanding.
CreditedFillsLogged ==
  \A o \in Orders :
    (credited[<<o, "row">>] > 0 /\ broker[o].day = day)
      ~> ((\E e \in fillEvents : e.order = o) \/ broker[o].day # day)

\* No ticket of an earlier day stays open, one whose number was lost in a crash
\* included.
TicketsClose ==
  \A o \in Orders :
    (o \in DOMAIN ticket /\ ticket[o].opened < MaxDay) ~> (o \notin Open)

===============================================================================
