-------------------------- MODULE OrderRuntimeProofs --------------------------
(***************************************************************************)
(* Proofs about OrderRuntime, for every set of orders, every target and     *)
(* every number of days, crashes and failed fetches, for both gateways.     *)
(***************************************************************************)
EXTENDS OrderRuntime, InductionLemmas

-------------------------------------------------------------------------------
(* An order is placed at most once. *)

\* Where the submitter is, and the single order it works on.
SubmitterOK ==
  /\ DOMAIN submitter = {"pc", "order", "quantity", "accepted"}
  /\ submitter.pc \in {"idle", "admitted", "recorded", "registered", "answered",
                       "logged", "poll", "polled"}
  /\ submitter.pc # "idle" => \E o \in Orders : submitter.order = {o}

\* The order in hand has no ticket before RecordTicket and was not sent before
\* Submit: this is what makes PlacedOnce inductive.
NotYetPlaced ==
  /\ submitter.pc = "admitted" =>
       \A o \in submitter.order : o \notin DOMAIN ticket
  /\ submitter.pc \in {"recorded", "registered"} =>
       \A o \in submitter.order : o \in DOMAIN ticket /\ placed[o] = 0

PlacedInv ==
  /\ placed \in [Orders -> Nat]
  /\ SubmitterOK
  /\ NotYetPlaced
  /\ PlacedOnce

\* No step of a supervise pass sends an order, adds a ticket or takes one away.
LEMMA SuperviseKeepsOrders ==
  ASSUME SuperviseStep
  PROVE  /\ UNCHANGED <<placed, submitter>>
         /\ DOMAIN ticket' = DOMAIN ticket
<1>1. CASE PollOpen
  BY <1>1 DEF PollOpen, LogPolled
<1>2. CASE ExpireDay
  BY <1>2 DEF ExpireDay, LogClosed, brokerVars
<1>3. CASE RecordClosed
  BY <1>3 DEF RecordClosed, LogClosed, brokerVars
<1>4. CASE FetchHistory \/ FailFetch \/ EndPass \/ (\E S \in SUBSET Orders : FindStale(S))
  BY <1>4 DEF FetchHistory, FailFetch, EndPass, FindStale, brokerVars, logVars
<1>5. ASSUME NEW o \in Orders, ApplyPoll(o)
      PROVE  UNCHANGED <<placed, submitter, ticket>>
  BY <1>5 DEF ApplyPoll, ApplyPolled, brokerVars, logVars
<1>6. ASSUME NEW o \in Orders, BindClosed(o)
      PROVE  UNCHANGED <<placed, submitter, ticket>>
  BY <1>6 DEF BindClosed, brokerVars, logVars
<1>7. ASSUME NEW o \in Orders, CancelStale(o)
      PROVE  UNCHANGED <<placed, submitter, ticket>>
  BY <1>7 DEF CancelStale, logVars
<1>8. ASSUME NEW o \in Orders, ImportRow(o)
      PROVE  UNCHANGED <<placed, submitter, ticket>>
  BY <1>8 DEF ImportRow, brokerVars, logVars
<1>9. ASSUME NEW o \in Orders, LogRow(o)
      PROVE  UNCHANGED <<placed, submitter>> /\ DOMAIN ticket' = DOMAIN ticket
  BY <1>9 DEF LogRow, brokerVars, logVars
<1> QED
  BY <1>1, <1>2, <1>3, <1>4, <1>5, <1>6, <1>7, <1>8, <1>9 DEF SuperviseStep

\* A step that leaves the submitter, the counts and the set of tickets alone
\* preserves the invariant.
LEMMA PlacedInvUnchanged ==
  ASSUME PlacedInv, UNCHANGED <<placed, submitter>>, DOMAIN ticket' = DOMAIN ticket
  PROVE  PlacedInv'
BY DEF PlacedInv, SubmitterOK, NotYetPlaced, PlacedOnce

\* Every step preserves the invariant.
LEMMA PlacedInvStep ==
  ASSUME PlacedInv, [Next]_vars
  PROVE  PlacedInv'
<1> USE DEF PlacedInv, SubmitterOK, NotYetPlaced, PlacedOnce
<1>1. ASSUME NEW o \in Orders, NEW want \in Wants, Evaluate(o, want)
      PROVE  PlacedInv'
  BY <1>1 DEF Evaluate, brokerVars, logVars
<1>2. CASE RecordTicket
  <2>1. PICK o \in Orders : submitter.order = {o}
    BY <1>2 DEF RecordTicket
  <2>2. DOMAIN ticket' = DOMAIN ticket \cup {o}
    BY <1>2, <2>1 DEF RecordTicket
  <2>3. placed[o] = 0
    BY <1>2, <2>1 DEF RecordTicket
  <2>4. placed' = placed /\ submitter' = [submitter EXCEPT !.pc = "recorded"]
    BY <1>2 DEF RecordTicket, brokerVars
  <2>5. submitter'.pc = "recorded" /\ submitter'.order = {o}
    BY <1>2, <2>1, <2>4 DEF RecordTicket
  <2> QED
    BY <2>1, <2>2, <2>3, <2>4, <2>5
<1>3. CASE RegisterTicket
  BY <1>3 DEF RegisterTicket, brokerVars, logVars
<1>4. CASE Submit
  <2>1. PICK o \in submitter.order, reached \in BOOLEAN, answered \in BOOLEAN :
          /\ submitter' = [submitter EXCEPT !.pc = "answered", !.accepted = answered]
          /\ \/ placed' = [placed EXCEPT ![o] = @ + 1]
             \/ placed' = placed
    BY <1>4 DEF Submit
  <2>2. o \in Orders /\ submitter.pc = "registered" /\ placed[o] = 0 /\ o \in DOMAIN ticket
    BY <1>4, <2>1 DEF Submit
  <2>3. ticket' = ticket /\ submitter'.pc = "answered"
    BY <1>4 DEF Submit, logVars
  <2>4. submitter'.order = submitter.order
    BY <2>1
  <2> QED
    BY <2>1, <2>2, <2>3, <2>4
<1>5. CASE RecordReply
  <2>1. DOMAIN ticket' = DOMAIN ticket
    BY <1>5 DEF RecordReply
  <2> QED
    BY <1>5, <2>1 DEF RecordReply, brokerVars
<1>6. CASE ApplyReply
  BY <1>6 DEF ApplyReply, brokerVars, logVars, NoSubmit
<1>7. CASE SubmitPoll
  <2>1. placed' = placed /\ submitter' = [submitter EXCEPT !.pc = "polled"]
    BY <1>7 DEF SubmitPoll, LogPolled
  <2>2. DOMAIN ticket' = DOMAIN ticket
    BY <1>7 DEF SubmitPoll, LogPolled
  <2>3. submitter'.pc = "polled" /\ submitter'.order = submitter.order
    BY <1>7, <2>1 DEF SubmitPoll
  <2> QED
    BY <1>7, <2>1, <2>2, <2>3 DEF SubmitPoll
<1>8. CASE SubmitApply
  BY <1>8 DEF SubmitApply, ApplyPolled, brokerVars, logVars, NoSubmit
<1>9. CASE SuperviseStep
  BY <1>9, SuperviseKeepsOrders, PlacedInvUnchanged
<1>10. ASSUME NEW r \in Reconciles, StartPass(r)
       PROVE  PlacedInv'
  BY <1>10, PlacedInvUnchanged DEF StartPass, brokerVars, logVars
<1>11. ASSUME NEW o \in Orders, Execute(o)
       PROVE  PlacedInv'
  BY <1>11, PlacedInvUnchanged DEF Execute, logVars
<1>12. CASE CloseDay \/ CrashSupervise
  BY <1>12, PlacedInvUnchanged DEF CloseDay, CrashSupervise, brokerVars, logVars
<1>13. CASE CrashSubmit
  BY <1>13 DEF CrashSubmit, brokerVars, logVars, NoSubmit
<1>14. CASE UNCHANGED vars
  BY <1>14, PlacedInvUnchanged DEF vars, brokerVars, logVars
<1> QED
  BY <1>1, <1>2, <1>3, <1>4, <1>5, <1>6, <1>7, <1>8, <1>9, <1>10, <1>11, <1>12,
     <1>13, <1>14 DEF Next, SubmitStep

\* An order id reaches the broker at most once and only after its ticket is in
\* the log, through any number of crashes and retries of the submitter.
THEOREM OrdersArePlacedOnce == Spec => []PlacedOnce
<1>1. Init => PlacedInv
  BY DEF Init, PlacedInv, SubmitterOK, NotYetPlaced, PlacedOnce, NoSubmit
<1>2. PlacedInv /\ [Next]_vars => PlacedInv'
  BY PlacedInvStep
<1>3. PlacedInv => PlacedOnce
  BY DEF PlacedInv
<1> QED
  BY <1>1, <1>2, <1>3, PTL DEF Spec

-------------------------------------------------------------------------------
(* With the live gateway the sleeve is never credited more of an order than   *)
(* the broker executed.                                                      *)

BrokerOK ==
  /\ day \in Nat
  /\ broker \in [Orders -> [state: {"none", "working", "closed"}, executed: Nat, day: Nat]]

\* The live gateway reports no fills of its own.
NeverPolled ==
  /\ DOMAIN supervisor = {"pc", "reconcile", "todo", "closing", "rows", "seen"}
  /\ submitter.pc \notin {"poll", "polled"}
  /\ supervisor.pc # "poll"
  /\ supervisor.pc = "polled" => supervisor.todo = {}

\* An order that was not sent is not executed, so sending it loses nothing.
ExecutedArePlaced ==
  \A o \in Orders : placed[o] = 0 => broker[o].executed = 0 /\ broker[o].state # "working"

\* The rows a pass has fetched may be old, yet never ahead of the broker.
RowsWithinExecuted ==
  \A o \in DOMAIN supervisor.rows :
    o \in Orders /\ supervisor.rows[o] \in Nat /\ supervisor.rows[o] <= broker[o].executed

CreditWithin ==
  /\ credited \in [Orders \X Sources -> Nat]
  /\ \A o \in Orders : credited[<<o, "row">>] <= broker[o].executed

LiveInv ==
  /\ PlacedInv
  /\ BrokerOK
  /\ NeverPolled
  /\ ExecutedArePlaced
  /\ RowsWithinExecuted
  /\ CreditWithin

\* What the broker executed only grows.
ExecutedGrows ==
  /\ BrokerOK'
  /\ \A o \in Orders : broker[o].executed <= broker'[o].executed

\* Orders of an unchanged broker have executed what they had.
LEMMA BrokerUnchanged ==
  ASSUME LiveInv, UNCHANGED <<day, broker, placed>>
  PROVE  ExecutedGrows /\ ExecutedArePlaced'
BY DEF LiveInv, BrokerOK, ExecutedGrows, ExecutedArePlaced

\* Whatever happens to the processes, executed quantities do not go down: an
\* order is sent once, before it is executed.
LEMMA BrokerStep ==
  ASSUME ~Paper, LiveInv, Next
  PROVE  ExecutedGrows /\ ExecutedArePlaced'
<1>1. CASE Submit
  <2>1. PICK o \in submitter.order :
          \/ /\ broker' = [broker EXCEPT ![o] = [state |-> "working", executed |-> 0,
                                                 day |-> day]]
             /\ placed' = [placed EXCEPT ![o] = @ + 1]
          \/ UNCHANGED <<broker, placed>>
    BY <1>1 DEF Submit
  <2>2. o \in Orders /\ placed[o] = 0 /\ day' = day
    BY <1>1, <2>1 DEF Submit, LiveInv, PlacedInv, SubmitterOK, NotYetPlaced
  <2>3. placed \in [Orders -> Nat]
    BY DEF LiveInv, PlacedInv
  <2> QED
    BY <2>1, <2>2, <2>3 DEF LiveInv, BrokerOK, ExecutedGrows, ExecutedArePlaced
<1>2. ASSUME NEW o \in Orders, Execute(o)
      PROVE  ExecutedGrows /\ ExecutedArePlaced'
  <2>1. PICK n \in (broker[o].executed + 1)..ticket[o].quantity :
          broker' = [broker EXCEPT ![o] = [state |-> IF n = ticket[o].quantity THEN "closed"
                                                                              ELSE "working",
                                           executed |-> n, day |-> @.day]]
    BY <1>2 DEF Execute
  <2>2. broker[o].executed \in Nat /\ broker[o].day \in Nat
    BY DEF LiveInv, BrokerOK
  <2>3. n \in Nat /\ broker[o].executed <= n
    BY <2>2
  <2>4. broker[o].state = "working" /\ UNCHANGED <<day, placed>>
    BY <1>2 DEF Execute
  <2> QED
    BY <2>1, <2>2, <2>3, <2>4 DEF LiveInv, BrokerOK, ExecutedGrows, ExecutedArePlaced
<1>3. CASE CloseDay
  BY <1>3 DEF CloseDay, LiveInv, BrokerOK, ExecutedGrows, ExecutedArePlaced
<1>4. ASSUME NEW o \in Orders, CancelStale(o)
      PROVE  ExecutedGrows /\ ExecutedArePlaced'
  <2>1. UNCHANGED <<day, placed>>
    BY <1>4 DEF CancelStale
  <2>2. broker' = [broker EXCEPT ![o].state = "closed"] \/ broker' = broker
    BY <1>4 DEF CancelStale
  <2> QED
    BY <2>1, <2>2 DEF LiveInv, BrokerOK, ExecutedGrows, ExecutedArePlaced
<1>5. CASE SubmitPoll \/ PollOpen \/ SubmitApply
  BY <1>5 DEF SubmitPoll, PollOpen, SubmitApply, LiveInv, NeverPolled
<1>6. CASE RecordTicket \/ RegisterTicket \/ RecordReply \/ ApplyReply
  BY <1>6, BrokerUnchanged
     DEF RecordTicket, RegisterTicket, RecordReply, ApplyReply, brokerVars
<1>7. CASE ExpireDay \/ RecordClosed
  BY <1>7, BrokerUnchanged DEF ExpireDay, RecordClosed, LogClosed, brokerVars
<1>8. CASE FetchHistory \/ FailFetch \/ EndPass \/ (\E S \in SUBSET Orders : FindStale(S))
  BY <1>8, BrokerUnchanged DEF FetchHistory, FailFetch, EndPass, FindStale, brokerVars
<1>9. ASSUME NEW o \in Orders,
             ApplyPoll(o) \/ BindClosed(o) \/ ImportRow(o) \/ LogRow(o)
      PROVE  ExecutedGrows /\ ExecutedArePlaced'
  BY <1>9, BrokerUnchanged
     DEF ApplyPoll, ApplyPolled, BindClosed, ImportRow, LogRow, brokerVars
<1>10. ASSUME NEW o \in Orders, NEW want \in Wants, Evaluate(o, want)
       PROVE  ExecutedGrows /\ ExecutedArePlaced'
  BY <1>10, BrokerUnchanged DEF Evaluate, brokerVars
<1>11. ASSUME NEW r \in Reconciles, StartPass(r)
       PROVE  ExecutedGrows /\ ExecutedArePlaced'
  BY <1>11, BrokerUnchanged DEF StartPass, brokerVars
<1>12. CASE CrashSubmit \/ CrashSupervise
  BY <1>12, BrokerUnchanged DEF CrashSubmit, CrashSupervise, brokerVars
<1> QED
  BY <1>1, <1>2, <1>3, <1>4, <1>5, <1>6, <1>7, <1>8, <1>9, <1>10, <1>11, <1>12
     DEF Next, SubmitStep, SuperviseStep

\* No step of the live runtime polls, and none leaves work behind to poll for.
LEMMA NeverPolledStep ==
  ASSUME ~Paper, LiveInv, Next
  PROVE  NeverPolled'
<1> USE DEF LiveInv, NeverPolled
<1>1. CASE SubmitStep
  <2>1. supervisor' = supervisor
    BY <1>1 DEF SubmitStep, RecordTicket, RegisterTicket, Submit, RecordReply, ApplyReply,
                SubmitPoll, SubmitApply
  <2>2. DOMAIN submitter = {"pc", "order", "quantity", "accepted"}
    BY DEF PlacedInv, SubmitterOK
  <2>3. CASE RecordTicket \/ RegisterTicket \/ RecordReply
    BY <2>1, <2>2, <2>3 DEF RecordTicket, RegisterTicket, RecordReply
  <2>4. CASE Submit
    BY <2>1, <2>2, <2>4 DEF Submit
  <2>5. CASE ApplyReply
    BY <2>1, <2>5 DEF ApplyReply, NoSubmit
  <2>6. CASE SubmitPoll \/ SubmitApply
    BY <2>6 DEF SubmitPoll, SubmitApply
  <2> QED
    BY <1>1, <2>3, <2>4, <2>5, <2>6 DEF SubmitStep
<1>2. CASE SuperviseStep
  <2>1. submitter' = submitter
    BY <1>2, SuperviseKeepsOrders
  <2>2. CASE PollOpen \/ ExpireDay \/ RecordClosed
    BY <2>1, <2>2 DEF PollOpen, ExpireDay, RecordClosed
  <2>3. CASE FetchHistory \/ (\E S \in SUBSET Orders : FindStale(S))
    BY <2>1, <2>3 DEF FetchHistory, FindStale
  <2>4. CASE FailFetch \/ EndPass
    BY <2>1, <2>4 DEF FailFetch, EndPass, NoPass
  <2>5. ASSUME NEW o \in Orders, ApplyPoll(o) \/ BindClosed(o) \/ CancelStale(o)
        PROVE  NeverPolled'
    BY <2>1, <2>5 DEF ApplyPoll, BindClosed, CancelStale
  <2>6. ASSUME NEW o \in Orders, ImportRow(o) \/ LogRow(o)
        PROVE  NeverPolled'
    BY <2>1, <2>6 DEF ImportRow, LogRow, DropRow
  <2> QED
    BY <1>2, <2>2, <2>3, <2>4, <2>5, <2>6 DEF SuperviseStep
<1>3. ASSUME NEW r \in Reconciles, StartPass(r)
      PROVE  NeverPolled'
  BY <1>3 DEF StartPass, NoPass
<1>4. ASSUME NEW o \in Orders, NEW want \in Wants, Evaluate(o, want)
      PROVE  NeverPolled'
  BY <1>4 DEF Evaluate
<1>5. ASSUME NEW o \in Orders, Execute(o)
      PROVE  NeverPolled'
  BY <1>5 DEF Execute
<1>6. CASE CloseDay \/ CrashSubmit \/ CrashSupervise
  BY <1>6 DEF CloseDay, CrashSubmit, CrashSupervise, NoSubmit, NoPass
<1> QED
  BY <1>1, <1>2, <1>3, <1>4, <1>5, <1>6 DEF Next

\* Fetched rows and credits that do not change stay within what was executed.
LEMMA RowsAndCreditKept ==
  ASSUME LiveInv, ExecutedGrows, credited' = credited,
         \/ supervisor'.rows = supervisor.rows
         \/ DOMAIN supervisor'.rows = {}
  PROVE  RowsWithinExecuted' /\ CreditWithin'
<1>1. \A o \in Orders : /\ broker[o].executed \in Nat /\ broker'[o].executed \in Nat
                         /\ broker[o].executed <= broker'[o].executed
  BY DEF LiveInv, BrokerOK, ExecutedGrows
<1>2. RowsWithinExecuted'
  BY <1>1 DEF LiveInv, RowsWithinExecuted
<1>3. \A o \in Orders : credited[<<o, "row">>] \in Nat
  BY DEF LiveInv, CreditWithin, Sources
<1>4. CreditWithin'
  BY <1>1, <1>3 DEF LiveInv, CreditWithin
<1> QED
  BY <1>2, <1>4

\* Dropping a row keeps the others.
LEMMA RowsAfterDrop ==
  ASSUME LiveInv, ExecutedGrows, NEW o, supervisor'.rows = DropRow(o).rows
  PROVE  RowsWithinExecuted'
<1>1. supervisor'.rows = [p \in DOMAIN supervisor.rows \ {o} |-> supervisor.rows[p]]
  BY DEF DropRow, Restrict
<1> QED
  BY <1>1 DEF LiveInv, BrokerOK, ExecutedGrows, RowsWithinExecuted

\* Rows and credits stay within what was executed: a row is credited in full or
\* not at all, and only once.
LEMMA CreditStep ==
  ASSUME ~Paper, LiveInv, Next, ExecutedGrows
  PROVE  RowsWithinExecuted' /\ CreditWithin'
<1>1. CASE SubmitStep
  <2>1. ~SubmitApply
    BY DEF SubmitApply, LiveInv, NeverPolled
  <2>2. credited' = credited /\ supervisor' = supervisor
    BY <1>1, <2>1 DEF SubmitStep, RecordTicket, RegisterTicket, Submit, RecordReply,
                      ApplyReply, SubmitPoll, LogPolled, accountVars
  <2> QED
    BY <2>2, RowsAndCreditKept
<1>2. CASE FetchHistory
  <2>1. supervisor'.rows = [o \in Fetched |-> broker[o].executed]
    BY <1>2 DEF FetchHistory
  <2>2. credited' = credited /\ broker' = broker
    BY <1>2 DEF FetchHistory, accountVars, brokerVars
  <2>3. RowsWithinExecuted'
    BY <2>1, <2>2 DEF RowsWithinExecuted, LiveInv, BrokerOK, Fetched
  <2>4. CreditWithin'
    BY <2>2 DEF LiveInv, CreditWithin
  <2> QED
    BY <2>3, <2>4
<1>3. CASE FailFetch \/ EndPass \/ CrashSupervise
      \/ (\E r \in Reconciles : StartPass(r))
  <2>1. credited' = credited
    BY <1>3 DEF FailFetch, EndPass, CrashSupervise, StartPass, accountVars
  <2>2. ASSUME FailFetch \/ EndPass \/ CrashSupervise
        PROVE  DOMAIN supervisor'.rows = {}
    BY <2>2 DEF FailFetch, EndPass, CrashSupervise, NoPass
  <2>3. ASSUME NEW r \in Reconciles, StartPass(r)
        PROVE  DOMAIN supervisor'.rows = {}
    BY <2>3 DEF StartPass, NoPass
  <2>4. DOMAIN supervisor'.rows = {}
    BY <1>3, <2>2, <2>3
  <2> QED
    BY <2>1, <2>4, RowsAndCreditKept
<1>4. CASE ExpireDay \/ RecordClosed \/ (\E S \in SUBSET Orders : FindStale(S))
  <2>1. credited' = credited /\ supervisor'.rows = supervisor.rows
    BY <1>4 DEF ExpireDay, RecordClosed, LogClosed, FindStale, accountVars, LiveInv, NeverPolled
  <2> QED
    BY <2>1, RowsAndCreditKept
<1>5. ASSUME NEW o \in Orders, BindClosed(o) \/ CancelStale(o)
      PROVE  RowsWithinExecuted' /\ CreditWithin'
  <2>1. credited' = credited /\ supervisor'.rows = supervisor.rows
    BY <1>5 DEF BindClosed, CancelStale, accountVars, LiveInv, NeverPolled
  <2> QED
    BY <2>1, RowsAndCreditKept
<1>6. CASE PollOpen \/ (\E o \in Orders : ApplyPoll(o))
  BY <1>6 DEF PollOpen, ApplyPoll, LiveInv, NeverPolled
<1>7. ASSUME NEW o \in Orders, LogRow(o)
      PROVE  RowsWithinExecuted' /\ CreditWithin'
  <2>1. credited' = credited /\ supervisor'.rows = DropRow(o).rows /\ broker' = broker
    BY <1>7 DEF LogRow, accountVars, brokerVars
  <2>2. CreditWithin'
    BY <2>1 DEF LiveInv, CreditWithin
  <2> QED
    BY <2>1, <2>2, RowsAfterDrop
<1>8. ASSUME NEW o \in Orders, ImportRow(o)
      PROVE  RowsWithinExecuted' /\ CreditWithin'
  <2>1. broker' = broker
    BY <1>8 DEF ImportRow, brokerVars
  <2>2. supervisor'.rows = supervisor.rows \/ supervisor'.rows = DropRow(o).rows
    BY <1>8 DEF ImportRow
  <2>3. RowsWithinExecuted'
    BY <2>1, <2>2, RowsAfterDrop DEF LiveInv, RowsWithinExecuted
  <2>4. supervisor.rows[o] \in Nat /\ supervisor.rows[o] <= broker[o].executed
    BY <1>8 DEF ImportRow, LiveInv, RowsWithinExecuted
  <2>5. \/ credited' = credited
        \/ credited' = [credited EXCEPT ![<<o, "row">>] = supervisor.rows[o]]
    BY <1>8 DEF ImportRow
  <2>6. CreditWithin'
    BY <2>1, <2>4, <2>5 DEF LiveInv, CreditWithin, Sources
  <2> QED
    BY <2>3, <2>6
<1>9. ASSUME NEW o \in Orders, NEW want \in Wants, Evaluate(o, want)
      PROVE  RowsWithinExecuted' /\ CreditWithin'
  <2>1. credited' = credited /\ supervisor' = supervisor
    BY <1>9 DEF Evaluate, accountVars
  <2> QED
    BY <2>1, RowsAndCreditKept
<1>10. ASSUME NEW o \in Orders, Execute(o)
       PROVE  RowsWithinExecuted' /\ CreditWithin'
  <2>1. credited' = credited /\ supervisor' = supervisor
    BY <1>10 DEF Execute, accountVars
  <2> QED
    BY <2>1, RowsAndCreditKept
<1>11. CASE CloseDay \/ CrashSubmit
  <2>1. credited' = credited /\ supervisor' = supervisor
    BY <1>11 DEF CloseDay, CrashSubmit, accountVars
  <2> QED
    BY <2>1, RowsAndCreditKept
<1> QED
  BY <1>1, <1>2, <1>3, <1>4, <1>5, <1>6, <1>7, <1>8, <1>9, <1>10, <1>11
     DEF Next, SuperviseStep

\* No step changes the gateway.
LEMMA GatewayFixed ==
  ASSUME [Next]_vars
  PROVE  Paper' = Paper
<1>1. CASE \E o \in Orders, want \in Wants : Evaluate(o, want)
  BY <1>1 DEF Evaluate, Paper, brokerVars
<1>2. CASE SubmitStep
  BY <1>2 DEF SubmitStep, RecordTicket, RegisterTicket, Submit, RecordReply, ApplyReply,
              SubmitPoll, SubmitApply, LogPolled, ApplyPolled, Paper, brokerVars
<1>3. CASE SuperviseStep
  BY <1>3 DEF SuperviseStep, PollOpen, ExpireDay, RecordClosed, FetchHistory, FailFetch,
              EndPass, FindStale, ApplyPoll, BindClosed, CancelStale, ImportRow, LogRow,
              LogPolled, ApplyPolled, LogClosed, Paper, brokerVars
<1>4. CASE (\E r \in Reconciles : StartPass(r)) \/ (\E o \in Orders : Execute(o))
           \/ CloseDay \/ CrashSubmit \/ CrashSupervise
  BY <1>4 DEF StartPass, Execute, CloseDay, CrashSubmit, CrashSupervise, Paper, brokerVars
<1>5. CASE UNCHANGED vars
  BY <1>5 DEF vars, Paper, brokerVars
<1> QED
  BY <1>1, <1>2, <1>3, <1>4, <1>5 DEF Next

\* With the live gateway the account never holds more of an order than the
\* broker executed, however often the history is read, whatever it has grown to
\* and wherever a pass crashes.
THEOREM LiveCreditWithinExecuted == Spec => []CreditedWithinExecuted
<1>1. Init /\ ~Paper => LiveInv
  BY RuntimeAssumption
     DEF Init, LiveInv, PlacedInv, SubmitterOK, NotYetPlaced, PlacedOnce, BrokerOK, NeverPolled,
         ExecutedArePlaced, RowsWithinExecuted, CreditWithin, NoSubmit, NoPass, Sources
<1>2. ~Paper /\ LiveInv /\ [Next]_vars => LiveInv'
  <2> SUFFICES ASSUME ~Paper, LiveInv, [Next]_vars
               PROVE  LiveInv'
    OBVIOUS
  <2>1. PlacedInv'
    BY PlacedInvStep DEF LiveInv
  <2>2. CASE Next
    BY <2>1, <2>2, BrokerStep, NeverPolledStep, CreditStep DEF LiveInv, ExecutedGrows
  <2>3. CASE UNCHANGED vars
    BY <2>1, <2>3 DEF vars, brokerVars, accountVars, LiveInv, BrokerOK, NeverPolled,
                      ExecutedArePlaced, RowsWithinExecuted, CreditWithin
  <2> QED
    BY <2>2, <2>3
<1>3. (~Paper => LiveInv) => CreditedWithinExecuted
  BY DEF LiveInv, CreditWithin, CreditedWithinExecuted
<1>4. Init => (~Paper => LiveInv)
  BY <1>1
<1>5. (~Paper => LiveInv) /\ [Next]_vars => (~Paper => LiveInv)'
  BY <1>2, GatewayFixed
<1> QED
  BY <1>3, <1>4, <1>5, PTL DEF Spec

-------------------------------------------------------------------------------
(* Whichever gateway fills it, a ticket counts what the broker executed, with  *)
(* the one exception that LoggedAgain names.                                   *)

\* A row that a supervise pass logs is one it has fetched.
SupervisorOK ==
  /\ DOMAIN supervisor = {"pc", "reconcile", "todo", "closing", "rows", "seen"}
  /\ supervisor.pc = "log" => supervisor.todo \subseteq DOMAIN supervisor.rows

\* Tickets are recorded with a quantity within the target, before their order is
\* sent.
TicketInHand ==
  /\ submitter.pc = "admitted" => submitter.quantity \in 1..Target
  /\ submitter.pc \notin {"idle", "admitted"} => submitter.order \subseteq DOMAIN ticket

\* The broker executes no more than a ticket asks for.
ExecutedWithinTicket ==
  \A o \in DOMAIN ticket : broker[o].executed <= ticket[o].quantity

\* A row is of an order that was executed, which has a ticket.
RowsOfTickets ==
  \A o \in DOMAIN supervisor.rows :
    /\ o \in DOMAIN ticket
    /\ supervisor.rows[o] \in 1..broker[o].executed

\* Every fill event is of a ticket, and a ticket that counts a fill has an event.
EventsOfTickets ==
  /\ IsFiniteSet(fillEvents)
  /\ \A e \in fillEvents : e.order \in DOMAIN ticket
  /\ \A o \in DOMAIN ticket : ticket[o].filled > 0 => \E e \in fillEvents : e.order = o

\* Only an order that was sent is acknowledged.
AcceptedArePlaced ==
  /\ (submitter.pc \in {"answered", "logged"} /\ submitter.accepted) \/ submitter.pc \in {"poll", "polled"}
       => \A o \in submitter.order : placed[o] # 0
  /\ \A o \in DOMAIN ticket : ticket[o].status \in {"submitted", "accepted"} => placed[o] # 0

LogInv ==
  /\ PlacedInv /\ TypeOK /\ SupervisorOK /\ TicketInHand /\ ExecutedArePlaced
  /\ AcceptedArePlaced /\ ExecutedWithinTicket /\ RowsOfTickets /\ EventsOfTickets /\ FilledWithinExecuted

\* The smaller of two numbers.
LEMMA MinIs ==
  ASSUME NEW a \in Int, NEW b \in Int
  PROVE  Min({a, b}) = IF a <= b THEN a ELSE b
<1>1. \E x \in {a, b} : \A y \in {a, b} : x <= y
  <2>1. CASE a <= b
    BY <2>1
  <2>2. CASE b <= a
    BY <2>2
  <2> QED BY <2>1, <2>2
<1>2. Min({a, b}) \in {a, b} /\ \A y \in {a, b} : Min({a, b}) <= y
  BY <1>1 DEF Min
<1> QED BY <1>2

\* Nothing is in the log, at the broker or in hand at the start.
LEMMA LogInvInit == ASSUME Init PROVE LogInv
<1>1. PlacedInv /\ SupervisorOK /\ TicketInHand /\ ExecutedArePlaced /\ AcceptedArePlaced
  BY DEF Init, AcceptedArePlaced, PlacedInv, SubmitterOK, NotYetPlaced, PlacedOnce, SupervisorOK, TicketInHand,
         ExecutedArePlaced, NoSubmit, NoPass
<1>2. TypeOK
  BY RuntimeAssumption DEF Init, TypeOK
<1>3. ExecutedWithinTicket /\ RowsOfTickets /\ EventsOfTickets /\ FilledWithinExecuted
  <2>1. IsFiniteSet({})
    BY FS_EmptySet
  <2> QED BY <2>1 DEF Init, ExecutedWithinTicket, RowsOfTickets, EventsOfTickets,
                      FilledWithinExecuted, NoPass
<1> QED BY <1>1, <1>2, <1>3 DEF LogInv

\* What the guard lets through is at least one share and at most the target.
LEMMA ProjectedType == ASSUME LogInv PROVE Projected \in Nat
<1>1. Held \in Nat
  <2> DEFINE W == [o \in Orders |-> credited[<<o, "poll">>] + credited[<<o, "row">>]]
  <2>1. \A o \in Orders : W[o] \in Nat
    BY DEF LogInv, TypeOK, Sources
  <2>2. DOMAIN W = Orders /\ IsFiniteSet(Orders)
    BY RuntimeAssumption
  <2> HIDE DEF W
  <2>3. SumFunction(W) \in Nat
    BY <2>1, <2>2, SumNat
  <2> QED BY <2>3 DEF Held, W
<1>2. Pending \in Nat
  <2> DEFINE W == [o \in Open |-> Remaining(o)]
  <2>1. \A o \in Open : W[o] \in Nat
    BY DEF LogInv, TypeOK, Open, Remaining
  <2>2. DOMAIN W = Open /\ IsFiniteSet(Open)
    <3>1. Open \subseteq Orders
      BY DEF LogInv, TypeOK, Open
    <3> QED BY <3>1, RuntimeAssumption, FS_Subset
  <2> HIDE DEF W
  <2>3. SumFunction(W) \in Nat
    BY <2>1, <2>2, SumNat
  <2> QED BY <2>3 DEF Pending, W
<1>3. Awaited \in Nat
  <2> DEFINE W == [e \in Unapplied |-> e.quantity]
  <2>1. \A e \in Unapplied : W[e] \in Nat
    BY DEF LogInv, TypeOK, Unapplied
  <2>2. DOMAIN W = Unapplied /\ IsFiniteSet(Unapplied)
    <3>1. Unapplied \subseteq fillEvents
      BY DEF Unapplied
    <3> QED BY <3>1, FS_Subset DEF LogInv, EventsOfTickets
  <2> HIDE DEF W
  <2>3. SumFunction(W) \in Nat
    BY <2>1, <2>2, SumNat
  <2> QED BY <2>3 DEF Awaited, W
<1> QED BY <1>1, <1>2, <1>3 DEF Projected

\* An order that was executed or is working was sent, and so has a ticket.
LEMMA WorkingHasTicket ==
  ASSUME LogInv, NEW o \in Orders, broker[o].executed > 0 \/ broker[o].state = "working"
  PROVE  o \in DOMAIN ticket
<1>1. placed[o] # 0
  BY DEF LogInv, ExecutedArePlaced, TypeOK
<1>2. placed[o] \in Nat /\ placed[o] <= IF o \in DOMAIN ticket THEN 1 ELSE 0
  BY DEF LogInv, PlacedInv, PlacedOnce
<1> QED BY <1>1, <1>2

TicketType == [status: Statuses, quantity: 1..Target, filled: Nat, number: BOOLEAN,
               opened: 0..MaxDay]

\* A fill leaves a ticket a ticket, filled to at most its quantity and not less.
LEMMA FilledTicket ==
  ASSUME NEW t \in TicketType, t.filled <= t.quantity, NEW q \in Nat, NEW final \in BOOLEAN
  PROVE  /\ WithFill(t, q, final) \in TicketType
         /\ WithFill(t, q, final).quantity = t.quantity
         /\ WithFill(t, q, final).filled = IF t.quantity <= t.filled + q THEN t.quantity ELSE t.filled + q
<1> DEFINE filled == Min({t.quantity, t.filled + q})
<1>1. t.quantity \in Nat /\ t.filled \in Nat
  BY RuntimeAssumption DEF TicketType
<1>2. filled = IF t.quantity <= t.filled + q THEN t.quantity ELSE t.filled + q
  <2>1. t.quantity \in Int /\ t.filled + q \in Int
    BY <1>1
  <2> QED BY <2>1, MinIs
<1>3. filled \in Nat
  BY <1>1, <1>2
<1> HIDE DEF filled
<1>4. WithFill(t, q, final) =
        [t EXCEPT !.filled = filled,
                  !.status = IF final \/ filled >= t.quantity THEN "filled" ELSE "partially_filled"]
  BY DEF WithFill, filled
<1> QED BY <1>1, <1>2, <1>3, <1>4 DEF TicketType, Statuses, Terminal

\* A status leaves it one, too.
LEMMA ClosedTicket ==
  ASSUME NEW t \in TicketType, NEW status \in Statuses
  PROVE  /\ WithStatus(t, status) \in TicketType
         /\ WithStatus(t, status).quantity = t.quantity
         /\ WithStatus(t, status).filled = t.filled
BY DEF WithStatus, TicketType

\* What a closing event does to the tickets.
LEMMA LogClosedIs ==
  ASSUME LogInv, NEW S, NEW status \in Statuses, LogClosed(S, status)
  PROVE  /\ DOMAIN ticket' = DOMAIN ticket
         /\ \A o \in DOMAIN ticket : /\ ticket'[o] \in TicketType
                                     /\ ticket'[o].quantity = ticket[o].quantity
                                     /\ ticket'[o].filled = ticket[o].filled
         /\ UNCHANGED <<brokerVars, fillEvents, accountVars, submitter, failures>>
<1>1. \A o \in DOMAIN ticket : ticket[o] \in TicketType
  BY DEF LogInv, TypeOK, TicketType
<1> QED BY <1>1, ClosedTicket DEF LogClosed

\* What polled fills do to the log and the broker.
LEMMA LogPolledIs ==
  ASSUME LogInv, NEW S, S \subseteq DOMAIN ticket, LogPolled(S)
  PROVE  /\ DOMAIN ticket' = DOMAIN ticket
         /\ \A o \in DOMAIN ticket :
              /\ ticket'[o] \in TicketType
              /\ ticket'[o].quantity = ticket[o].quantity
              /\ ticket'[o].filled = IF o \in S THEN ticket[o].quantity ELSE ticket[o].filled
              /\ broker'[o].executed = IF o \in S THEN ticket[o].quantity ELSE broker[o].executed
              /\ Remaining(o) \in Nat /\ Remaining(o) <= ticket[o].quantity
         /\ \A o \in Orders \ S : broker'[o] = broker[o]
         /\ broker' \in [Orders -> [state: {"none", "working", "closed"}, executed: Nat,
                                    day: 0..MaxDay]]
<1>1. \A o \in DOMAIN ticket : /\ o \in Orders /\ ticket[o] \in TicketType
                               /\ ticket[o].filled <= ticket[o].quantity
                               /\ ticket[o].quantity \in Nat /\ ticket[o].filled \in Nat
  BY RuntimeAssumption DEF LogInv, TypeOK, TicketType
<1>2. /\ broker' = [o \in Orders |->
             IF o \in S THEN [broker[o] EXCEPT !.state = "closed", !.executed = ticket[o].quantity]
                        ELSE broker[o]]
      /\ ticket' = [o \in DOMAIN ticket |->
             IF o \in S THEN WithFill(ticket[o], Remaining(o), TRUE) ELSE ticket[o]]
  BY DEF LogPolled
<1>3. broker \in [Orders -> [state: {"none", "working", "closed"}, executed: Nat, day: 0..MaxDay]]
  BY DEF LogInv, TypeOK
<1>4. \A o \in DOMAIN ticket : /\ Remaining(o) \in Nat /\ Remaining(o) <= ticket[o].quantity
                               /\ ticket[o].filled + Remaining(o) = ticket[o].quantity
  BY <1>1 DEF Remaining
<1>5. ASSUME NEW o \in DOMAIN ticket
      PROVE  /\ ticket'[o] \in TicketType
             /\ ticket'[o].quantity = ticket[o].quantity
             /\ ticket'[o].filled = IF o \in S THEN ticket[o].quantity ELSE ticket[o].filled
  <2>1. CASE o \in S
    BY <1>1, <1>2, <1>4, <2>1, FilledTicket
  <2>2. CASE o \notin S
    BY <1>1, <1>2, <2>2
  <2> QED BY <2>1, <2>2
<1>6. \A o \in DOMAIN ticket :
        broker'[o].executed = IF o \in S THEN ticket[o].quantity ELSE broker[o].executed
  BY <1>1, <1>2, <1>3
<1>7. ASSUME NEW o \in Orders
      PROVE  broker'[o] \in [state: {"none", "working", "closed"}, executed: Nat, day: 0..MaxDay]
  <2>1. CASE o \in S
    BY <1>1, <1>2, <1>3, <2>1
  <2>2. CASE o \notin S
    BY <1>2, <1>3, <2>2
  <2> QED BY <2>1, <2>2
<1> QED BY <1>2, <1>4, <1>5, <1>6, <1>7

\* Accounts that change within their types.
LEMMA TypeOfAccounts ==
  ASSUME LogInv, UNCHANGED <<brokerVars, logVars>>, registered' \subseteq Orders,
         bound' \subseteq Orders, raw' \subseteq Orders, credited' \in [Orders \X Sources -> Nat]
  PROVE  TypeOK'
BY DEF LogInv, TypeOK, brokerVars, logVars

\* Polled fills keep the types, ...
LEMMA PolledTypes ==
  ASSUME LogInv, NEW S, S \subseteq DOMAIN ticket, LogPolled(S)
  PROVE  TypeOK'
<1>1. /\ gateway' = gateway /\ day' = day /\ placed' = placed /\ UNCHANGED accountVars
      /\ fillEvents' = fillEvents \cup {Fill(o, Remaining(o), "poll") : o \in S}
  BY DEF LogPolled
<1>2. \A o \in S : /\ o \in Orders /\ Remaining(o) \in Nat
                   /\ Fill(o, Remaining(o), "poll") \in [order: Orders, quantity: Nat, source: Sources]
  BY LogPolledIs DEF LogInv, TypeOK, Fill, Sources
<1>3. fillEvents' \subseteq [order: Orders, quantity: Nat, source: Sources]
  BY <1>1, <1>2 DEF LogInv, TypeOK
<1>4. \A o \in DOMAIN ticket : ticket'[o].filled <= ticket'[o].quantity
  <2>1. \A o \in DOMAIN ticket : ticket[o].filled <= ticket[o].quantity /\ ticket[o].quantity \in Nat
    BY RuntimeAssumption DEF LogInv, TypeOK
  <2> QED BY <2>1, LogPolledIs
<1> QED BY <1>1, <1>3, <1>4, LogPolledIs DEF LogInv, TypeOK, TicketType, accountVars

\* ... and so does applying them.
LEMMA AppliedTypes ==
  ASSUME LogInv, NEW o \in Orders, ApplyPolled(o)
  PROVE  TypeOK'
<1>1. PICK e \in fillEvents : credited' = [credited EXCEPT ![<<o, "poll">>] = e.quantity]
  BY DEF ApplyPolled
<1>2. e.quantity \in Nat
  BY DEF LogInv, TypeOK
<1>3. credited' \in [Orders \X Sources -> Nat]
  BY <1>1, <1>2 DEF LogInv, TypeOK
<1> QED BY <1>3, TypeOfAccounts DEF ApplyPolled, LogInv, TypeOK

\* Every step of a submit keeps the types.
LEMMA SubmitTypes == ASSUME LogInv, SubmitStep PROVE TypeOK'
<1>0. submitter.pc # "idle" => \E o \in Orders : submitter.order = {o}
  BY DEF LogInv, PlacedInv, SubmitterOK
<1>1. CASE RecordTicket
  <2>1. PICK o \in Orders : submitter.order = {o} /\ submitter.quantity \in 1..Target
    BY <1>0, <1>1 DEF RecordTicket, LogInv, TicketInHand
  <2> DEFINE new == [status |-> "created", quantity |-> submitter.quantity, filled |-> 0,
                     number |-> FALSE, opened |-> day]
  <2>2. /\ ticket' = [p \in DOMAIN ticket \cup {o} |-> IF p = o THEN new ELSE ticket[p]]
        /\ UNCHANGED <<brokerVars, fillEvents, accountVars>>
    BY <1>1, <2>1 DEF RecordTicket
  <2>3. new \in TicketType /\ new.filled <= new.quantity
    BY <2>1, RuntimeAssumption DEF TicketType, Statuses, LogInv, TypeOK
  <2> HIDE DEF new
  <2> QED BY <2>2, <2>3 DEF LogInv, TypeOK, TicketType, brokerVars, accountVars
<1>2. CASE RegisterTicket
  BY <1>0, <1>2, TypeOfAccounts DEF RegisterTicket, LogInv, TypeOK, logVars
<1>3. CASE Submit
  <2>1. PICK o \in submitter.order :
          \/ /\ broker' = [broker EXCEPT ![o] = [state |-> "working", executed |-> 0, day |-> day]]
             /\ placed' = [placed EXCEPT ![o] = @ + 1]
          \/ UNCHANGED <<broker, placed>>
    BY <1>3 DEF Submit
  <2>2. o \in Orders /\ UNCHANGED <<gateway, day, logVars, accountVars>>
    BY <1>0, <1>3, <2>1 DEF Submit
  <2> QED BY <2>1, <2>2 DEF LogInv, TypeOK, logVars, accountVars
<1>4. CASE RecordReply
  <2>1. PICK o \in submitter.order : ticket' = [ticket EXCEPT
         ![o].status = IF ~submitter.accepted THEN "rejected"
                       ELSE IF Paper THEN "submitted" ELSE "accepted",
         ![o].number = @ \/ submitter.accepted]
    BY <1>4 DEF RecordReply
  <2>2. o \in DOMAIN ticket /\ UNCHANGED <<brokerVars, fillEvents, accountVars>>
    BY <1>4 DEF RecordReply, LogInv, TicketInHand
  <2>3. ticket[o] \in TicketType
    BY <2>2 DEF LogInv, TypeOK, TicketType
  <2> DEFINE st == IF ~submitter.accepted THEN "rejected"
                   ELSE IF Paper THEN "submitted" ELSE "accepted"
             b == ticket[o].number \/ submitter.accepted
  <2>4. ticket' = [ticket EXCEPT ![o] = [ticket[o] EXCEPT !.status = st, !.number = b]]
    BY <2>1, <2>2
  <2>5. st \in Statuses /\ b \in BOOLEAN
    BY DEF Statuses, Terminal
  <2> HIDE DEF st, b
  <2>6. [ticket[o] EXCEPT !.status = st, !.number = b] \in TicketType
    BY <2>3, <2>5 DEF TicketType
  <2>7. [ticket[o] EXCEPT !.status = st, !.number = b].filled = ticket[o].filled
        /\ [ticket[o] EXCEPT !.status = st, !.number = b].quantity = ticket[o].quantity
    BY <2>3 DEF TicketType
  <2> QED BY <2>2, <2>4, <2>6, <2>7 DEF LogInv, TypeOK, TicketType, brokerVars, accountVars
<1>5. CASE ApplyReply
  BY <1>5, TypeOfAccounts DEF ApplyReply, LogInv, TypeOK
<1>6. CASE SubmitPoll
  <2>1. submitter.order \subseteq DOMAIN ticket /\ LogPolled(submitter.order)
    BY <1>6 DEF SubmitPoll, LogInv, TicketInHand
  <2> QED BY <2>1, PolledTypes
<1>7. CASE SubmitApply
  BY <1>0, <1>7, AppliedTypes DEF SubmitApply
<1> QED BY <1>1, <1>2, <1>3, <1>4, <1>5, <1>6, <1>7 DEF SubmitStep

\* What the row in hand is: of an order in the log and within what was executed.
LEMMA RowInHand ==
  ASSUME LogInv, NEW o \in Orders, o \in DOMAIN supervisor.rows
  PROVE  /\ o \in DOMAIN ticket /\ supervisor.rows[o] \in Nat \ {0}
         /\ supervisor.rows[o] <= broker[o].executed /\ broker[o].executed \in Nat
BY DEF LogInv, RowsOfTickets, TypeOK

\* What logging a row does to the log.
LEMMA LogRowIs ==
  ASSUME LogInv, NEW o \in Orders, LogRow(o)
  PROVE  LET q == supervisor.rows[o] IN
         /\ o \in DOMAIN supervisor.rows
         /\ UNCHANGED <<brokerVars, accountVars, submitter, failures>>
         /\ \/ ticket' = ticket /\ fillEvents' = fillEvents
            \/ /\ \A e \in fillEvents : e.order = o => e.quantity # q
               /\ fillEvents' = fillEvents \cup {Fill(o, q, "row")}
               /\ \E new \in TicketType :
                    /\ ticket' = [ticket EXCEPT ![o] = new]
                    /\ new.quantity = ticket[o].quantity
                    /\ new.filled \in Nat /\ new.filled <= new.quantity
                    /\ new.filled <= ticket[o].filled + q
<1> DEFINE q == supervisor.rows[o]
           t == ticket[o]
           new == WithFill(t, q, q >= Remaining(o))
<1>1. o \in DOMAIN supervisor.rows
  BY DEF LogRow, LogInv, SupervisorOK
<1>2. o \in DOMAIN ticket /\ q \in Nat
  BY <1>1, RowInHand
<1>3. t \in TicketType /\ t.filled <= t.quantity /\ t.quantity \in Nat /\ t.filled \in Nat
  BY <1>2, RuntimeAssumption DEF LogInv, TypeOK, TicketType
<1>4. UNCHANGED <<brokerVars, accountVars, submitter, failures>>
  BY DEF LogRow
<1>5. \/ ticket' = ticket /\ fillEvents' = fillEvents
      \/ /\ \A e \in fillEvents : e.order = o => e.quantity # q
         /\ fillEvents' = fillEvents \cup {Fill(o, q, "row")}
         /\ ticket' = [ticket EXCEPT ![o] = new]
  BY DEF LogRow, logVars
<1>6. /\ new \in TicketType /\ new.quantity = t.quantity
      /\ new.filled = IF t.quantity <= t.filled + q THEN t.quantity ELSE t.filled + q
  <2>1. (q >= Remaining(o)) \in BOOLEAN
    OBVIOUS
  <2> QED BY <1>2, <1>3, <2>1, FilledTicket
<1> HIDE DEF new
<1>7. new.filled \in Nat /\ new.filled <= new.quantity /\ new.filled <= t.filled + q
  BY <1>2, <1>3, <1>6
<1> QED BY <1>1, <1>4, <1>5, <1>6, <1>7

\* Every step of a supervise pass keeps the types.
LEMMA SuperviseTypes == ASSUME LogInv, SuperviseStep PROVE TypeOK'
<1>1. CASE PollOpen
  BY <1>1, PolledTypes DEF PollOpen, Open
<1>2. ASSUME NEW S, NEW status \in Statuses, LogClosed(S, status) PROVE TypeOK'
  <2>1. \A o \in DOMAIN ticket : ticket[o].filled <= ticket[o].quantity
    BY DEF LogInv, TypeOK
  <2> QED BY <1>2, <2>1, LogClosedIs DEF LogInv, TypeOK, TicketType, brokerVars, accountVars
<1>3. CASE ExpireDay \/ RecordClosed
  <2>1. {"expired", "cancelled"} \subseteq Statuses
    BY DEF Statuses, Terminal
  <2> QED BY <1>2, <1>3, <2>1 DEF ExpireDay, RecordClosed
<1>4. CASE FetchHistory \/ FailFetch \/ EndPass \/ (\E S \in SUBSET Orders : FindStale(S))
  BY <1>4, TypeOfAccounts DEF FetchHistory, FailFetch, EndPass, FindStale, accountVars, LogInv, TypeOK
<1>5. ASSUME NEW o \in Orders, ApplyPoll(o) PROVE TypeOK'
  BY <1>5, AppliedTypes DEF ApplyPoll
<1>6. ASSUME NEW o \in Orders, BindClosed(o) PROVE TypeOK'
  BY <1>6, TypeOfAccounts DEF BindClosed, LogInv, TypeOK
<1>7. ASSUME NEW o \in Orders, CancelStale(o) PROVE TypeOK'
  <2>1. UNCHANGED <<gateway, day, placed, logVars, accountVars>>
        /\ (broker' = [broker EXCEPT ![o].state = "closed"] \/ broker' = broker)
    BY <1>7 DEF CancelStale
  <2> QED BY <2>1 DEF LogInv, TypeOK, logVars, accountVars
<1>8. ASSUME NEW o \in Orders, ImportRow(o) PROVE TypeOK'
  <2>1. supervisor.rows[o] \in Nat
    BY <1>8, RowInHand DEF ImportRow
  <2>2. raw' \subseteq Orders /\ UNCHANGED <<brokerVars, logVars, registered, bound>>
    BY <1>8 DEF ImportRow, LogInv, TypeOK
  <2>3. credited' \in [Orders \X Sources -> Nat]
    BY <1>8, <2>1 DEF ImportRow, LogInv, TypeOK
  <2> QED BY <2>2, <2>3, TypeOfAccounts DEF LogInv, TypeOK
<1>9. ASSUME NEW o \in Orders, LogRow(o) PROVE TypeOK'
  <2> DEFINE q == supervisor.rows[o]
  <2>1. q \in Nat /\ o \in DOMAIN ticket /\ UNCHANGED <<brokerVars, accountVars>>
    BY <1>9, RowInHand, LogRowIs
  <2>2. CASE ticket' = ticket /\ fillEvents' = fillEvents
    BY <2>1, <2>2 DEF LogInv, TypeOK, brokerVars, accountVars
  <2>3. ASSUME fillEvents' = fillEvents \cup {Fill(o, q, "row")}, NEW new \in TicketType,
               ticket' = [ticket EXCEPT ![o] = new], new.filled <= new.quantity
        PROVE  TypeOK'
    <3>1. fillEvents' \subseteq [order: Orders, quantity: Nat, source: Sources]
      BY <2>1, <2>3 DEF Fill, Sources, LogInv, TypeOK
    <3> HIDE DEF q
    <3> QED BY <2>1, <2>3, <3>1 DEF LogInv, TypeOK, TicketType, brokerVars, accountVars
  <2> QED BY <1>9, <2>2, <2>3, LogRowIs
<1> QED BY <1>1, <1>3, <1>4, <1>5, <1>6, <1>7, <1>8, <1>9 DEF SuperviseStep

\* What an execution changes at the broker.
LEMMA ExecuteIs ==
  ASSUME LogInv, NEW o \in Orders, Execute(o)
  PROVE  /\ o \in DOMAIN ticket /\ broker[o].state = "working"
         /\ \E n \in Nat, state \in {"working", "closed"} :
              /\ broker[o].executed < n /\ n <= ticket[o].quantity
              /\ broker' = [broker EXCEPT ![o] = [state |-> state, executed |-> n,
                                                  day |-> broker[o].day]]
         /\ UNCHANGED <<gateway, day, placed, logVars, accountVars, submitter, supervisor, failures>>
<1>1. o \in DOMAIN ticket /\ broker[o].state = "working"
  BY WorkingHasTicket DEF Execute
<1>2. broker[o].executed \in Nat /\ ticket[o].quantity \in Nat
  BY <1>1, RuntimeAssumption DEF LogInv, TypeOK
<1>3. PICK n \in (broker[o].executed + 1)..ticket[o].quantity :
        broker' = [broker EXCEPT ![o] = [state |-> IF n = ticket[o].quantity THEN "closed"
                                                                            ELSE "working",
                                         executed |-> n, day |-> @.day]]
  BY DEF Execute
<1>4. n \in Nat /\ broker[o].executed < n /\ n <= ticket[o].quantity
  BY <1>2, <1>3
<1>5. broker' = [broker EXCEPT ![o] = [state |-> IF n = ticket[o].quantity THEN "closed"
                                                                          ELSE "working",
                                       executed |-> n, day |-> broker[o].day]]
  BY <1>3 DEF LogInv, TypeOK
<1> QED BY <1>1, <1>4, <1>5 DEF Execute

\* Every step keeps the types.
LEMMA TypesStep == ASSUME LogInv, [Next]_vars PROVE TypeOK'
<1>1. ASSUME NEW o \in Orders, NEW want \in Wants, Evaluate(o, want) PROVE TypeOK'
  BY <1>1, TypeOfAccounts DEF Evaluate, accountVars, LogInv, TypeOK
<1>2. ASSUME NEW r \in Reconciles, StartPass(r) PROVE TypeOK'
  BY <1>2, TypeOfAccounts DEF StartPass, accountVars, LogInv, TypeOK
<1>3. ASSUME NEW o \in Orders, Execute(o) PROVE TypeOK'
  <2>1. broker[o].day \in 0..MaxDay
    BY DEF LogInv, TypeOK
  <2> QED BY <1>3, <2>1, ExecuteIs DEF LogInv, TypeOK, logVars, accountVars
<1>4. CASE CloseDay
  <2>1. day' \in 0..MaxDay
    BY <1>4, RuntimeAssumption DEF CloseDay, LogInv, TypeOK
  <2>2. broker' \in [Orders -> [state: {"none", "working", "closed"}, executed: Nat, day: 0..MaxDay]]
    BY <1>4 DEF CloseDay, LogInv, TypeOK
  <2> QED BY <1>4, <2>1, <2>2 DEF CloseDay, LogInv, TypeOK, logVars, accountVars
<1>5. CASE CrashSubmit \/ CrashSupervise \/ UNCHANGED vars
  BY <1>5, TypeOfAccounts DEF CrashSubmit, CrashSupervise, vars, accountVars, LogInv, TypeOK
<1> QED BY <1>1, <1>2, <1>3, <1>4, <1>5, SubmitTypes, SuperviseTypes DEF Next

\* Executed quantities do not go down, nor above what the ticket asks for, and
\* only orders that were sent are executed.
ExecutedKept ==
  /\ ExecutedArePlaced'
  /\ \A o \in Orders : broker[o].executed <= broker'[o].executed
  /\ \A o \in DOMAIN ticket : broker'[o].executed <= ticket[o].quantity

\* An unchanged broker keeps them.
LEMMA ExecutedSame ==
  ASSUME LogInv, UNCHANGED <<broker, placed>>
  PROVE  ExecutedKept
<1>1. \A o \in Orders : broker[o].executed \in Nat
  BY DEF LogInv, TypeOK
<1> QED BY <1>1 DEF LogInv, ExecutedArePlaced, ExecutedWithinTicket, ExecutedKept

\* Polled fills execute what the tickets ask for.
LEMMA ExecutedPolled ==
  ASSUME LogInv, NEW S, S \subseteq DOMAIN ticket, \A o \in S : placed[o] # 0, LogPolled(S)
  PROVE  ExecutedKept
<1>1. /\ \A o \in Orders : broker[o].executed \in Nat
      /\ \A o \in DOMAIN ticket : /\ o \in Orders /\ broker[o].executed <= ticket[o].quantity
                                  /\ ticket[o].quantity \in Nat
  BY RuntimeAssumption DEF LogInv, TypeOK, ExecutedWithinTicket
<1>2. placed' = placed
  BY DEF LogPolled
<1>3. \A o \in Orders : placed'[o] = 0 => o \notin S /\ broker'[o] = broker[o]
  BY <1>2, LogPolledIs
<1>4. ExecutedArePlaced'
  BY <1>2, <1>3 DEF LogInv, ExecutedArePlaced
<1>5. \A o \in Orders : broker[o].executed <= broker'[o].executed
  <2>1. ASSUME NEW o \in S PROVE broker[o].executed <= broker'[o].executed
    BY <1>1, LogPolledIs
  <2>2. ASSUME NEW o \in Orders \ S PROVE broker[o].executed <= broker'[o].executed
    BY <1>1, LogPolledIs
  <2> QED BY <2>1, <2>2
<1>6. \A o \in DOMAIN ticket : broker'[o].executed <= ticket[o].quantity
  BY <1>1, LogPolledIs
<1> QED BY <1>4, <1>5, <1>6 DEF ExecutedKept

\* A polled fill ends the acknowledged status.
LEMMA PolledStatus ==
  ASSUME LogInv, NEW S, S \subseteq DOMAIN ticket, LogPolled(S),
         NEW o \in DOMAIN ticket, ticket'[o].status \in {"submitted", "accepted"}
  PROVE  ticket[o].status \in {"submitted", "accepted"}
<1>1. ticket'[o] = IF o \in S THEN WithFill(ticket[o], Remaining(o), TRUE) ELSE ticket[o]
  BY DEF LogPolled
<1>2. ticket[o] \in TicketType
  BY DEF LogInv, TypeOK, TicketType
<1> QED BY <1>1, <1>2 DEF WithFill, TicketType

\* So only orders that were sent are acknowledged afterwards.
LEMMA AcceptedPolled ==
  ASSUME LogInv, NEW S, S \subseteq DOMAIN ticket, LogPolled(S)
  PROVE  \A o \in DOMAIN ticket' : ticket'[o].status \in {"submitted", "accepted"} => placed[o] # 0
BY PolledStatus, LogPolledIs DEF LogInv, AcceptedArePlaced

\* A step of the submitter keeps an order acknowledged only if it was sent.
LEMMA AcceptedSubmit == ASSUME LogInv, SubmitStep PROVE AcceptedArePlaced'
<1>0. /\ submitter.pc # "idle" => \E o \in Orders : submitter.order = {o}
      /\ placed \in [Orders -> Nat] /\ DOMAIN ticket \subseteq Orders
      /\ DOMAIN submitter = {"pc", "order", "quantity", "accepted"}
  BY DEF LogInv, PlacedInv, SubmitterOK, TypeOK
<1>1. CASE RecordTicket
  <2>1. /\ placed' = placed /\ submitter'.pc = "recorded"
        /\ \E o : ticket' = [p \in DOMAIN ticket \cup {o} |->
                               IF p = o THEN [status |-> "created", quantity |-> submitter.quantity,
                                              filled |-> 0, number |-> FALSE, opened |-> day]
                                        ELSE ticket[p]]
    BY <1>0, <1>1 DEF RecordTicket, brokerVars
  <2> QED BY <2>1 DEF LogInv, AcceptedArePlaced
<1>2. CASE RegisterTicket
  BY <1>0, <1>2 DEF RegisterTicket, brokerVars, logVars, LogInv, AcceptedArePlaced
<1>3. CASE Submit
  <2>1. PICK o \in submitter.order, reached \in BOOLEAN, answered \in BOOLEAN :
          /\ ~reached => ~answered
          /\ submitter' = [submitter EXCEPT !.pc = "answered", !.accepted = answered]
          /\ IF reached THEN placed' = [placed EXCEPT ![o] = @ + 1] ELSE placed' = placed
    BY <1>3 DEF Submit
  <2>2. submitter.order = {o} /\ o \in Orders /\ ticket' = ticket
    BY <1>0, <1>3, <2>1 DEF Submit, logVars
  <2>3. \A p \in Orders : placed[p] # 0 => placed'[p] # 0
    BY <1>0, <2>1, <2>2
  <2>4. answered => placed'[o] # 0
    BY <1>0, <2>1, <2>2
  <2>5. submitter'.order = {o} /\ submitter'.pc = "answered" /\ submitter'.accepted = answered
    BY <1>0, <2>1, <2>2
  <2> QED BY <1>0, <2>2, <2>3, <2>4, <2>5 DEF LogInv, AcceptedArePlaced
<1>4. CASE RecordReply
  <2>1. PICK o \in submitter.order : ticket' = [ticket EXCEPT
         ![o].status = IF ~submitter.accepted THEN "rejected"
                       ELSE IF Paper THEN "submitted" ELSE "accepted",
         ![o].number = @ \/ submitter.accepted]
    BY <1>4 DEF RecordReply
  <2>2. /\ placed' = placed /\ submitter'.order = submitter.order /\ submitter'.pc = "logged"
        /\ submitter'.accepted = submitter.accepted /\ submitter.pc = "answered"
    BY <1>0, <1>4 DEF RecordReply, brokerVars
  <2>3. submitter.accepted => placed[o] # 0
    BY <2>1, <2>2 DEF LogInv, AcceptedArePlaced
  <2>4. \A p \in DOMAIN ticket : ticket[p] \in TicketType
    BY DEF LogInv, TypeOK, TicketType
  <2>5. \A p \in DOMAIN ticket' : ticket'[p].status \in {"submitted", "accepted"} => placed[p] # 0
    <3>1. DOMAIN ticket' = DOMAIN ticket
          /\ \A p \in DOMAIN ticket \ {o} : ticket'[p] = ticket[p]
      BY <2>1
    <3>2. o \in DOMAIN ticket /\ ~submitter.accepted => ticket'[o].status = "rejected"
      BY <2>1, <2>4 DEF TicketType
    <3> QED BY <2>3, <3>1, <3>2 DEF LogInv, AcceptedArePlaced
  <2> QED BY <2>2, <2>5 DEF LogInv, AcceptedArePlaced
<1>5. CASE ApplyReply
  <2>1. /\ placed' = placed /\ ticket' = ticket /\ submitter.pc = "logged"
        /\ \/ submitter.accepted /\ submitter' = [submitter EXCEPT !.pc = "poll"]
           \/ submitter' = NoSubmit
    BY <1>5 DEF ApplyReply, brokerVars, logVars
  <2> QED BY <1>0, <2>1 DEF LogInv, AcceptedArePlaced, NoSubmit
<1>6. CASE SubmitPoll
  <2>1. /\ submitter.pc = "poll" /\ LogPolled(submitter.order) /\ placed' = placed
        /\ submitter'.pc = "polled" /\ submitter'.order = submitter.order
    BY <1>0, <1>6 DEF SubmitPoll, LogPolled
  <2>2. submitter.order \subseteq DOMAIN ticket
    BY <2>1 DEF LogInv, TicketInHand
  <2> QED BY <2>1, <2>2, AcceptedPolled DEF LogInv, AcceptedArePlaced
<1>7. CASE SubmitApply
  BY <1>0, <1>7 DEF SubmitApply, ApplyPolled, brokerVars, logVars, LogInv, AcceptedArePlaced, NoSubmit
<1> QED BY <1>1, <1>2, <1>3, <1>4, <1>5, <1>6, <1>7 DEF SubmitStep

\* A step of a supervise pass does, too.
LEMMA AcceptedSupervise == ASSUME LogInv, SuperviseStep PROVE AcceptedArePlaced'
<1>0. placed' = placed /\ submitter' = submitter /\ DOMAIN ticket' = DOMAIN ticket
  BY SuperviseKeepsOrders
<1> SUFFICES ASSUME NEW o \in DOMAIN ticket, ticket'[o].status \in {"submitted", "accepted"}
             PROVE  ticket[o].status \in {"submitted", "accepted"}
  BY <1>0 DEF LogInv, AcceptedArePlaced
<1>1. CASE PollOpen
  BY <1>1, PolledStatus DEF PollOpen, Open
<1>2. CASE ExpireDay \/ RecordClosed
  <2>1. ASSUME NEW S, NEW status \in {"expired", "cancelled"}, LogClosed(S, status)
        PROVE  ticket[o].status \in {"submitted", "accepted"}
    <3>1. ticket[o] \in TicketType
      BY DEF LogInv, TypeOK, TicketType
    <3> QED BY <2>1, <3>1 DEF LogClosed, WithStatus, TicketType
  <2> QED BY <1>2, <2>1 DEF ExpireDay, RecordClosed
<1>3. ASSUME NEW p \in Orders, LogRow(p) PROVE ticket[o].status \in {"submitted", "accepted"}
  <2>1. \/ ticket' = ticket
        \/ \E q, final : ticket' = [ticket EXCEPT ![p] = WithFill(ticket[p], q, final)]
    BY <1>3 DEF LogRow, logVars
  <2>2. ticket[o] \in TicketType
    BY DEF LogInv, TypeOK, TicketType
  <2> QED BY <2>1, <2>2 DEF WithFill, TicketType
<1>4. CASE ticket' = ticket
  BY <1>4
<1> QED
  BY <1>1, <1>2, <1>3, <1>4
     DEF SuperviseStep, FetchHistory, FailFetch, EndPass, FindStale, ApplyPoll, ApplyPolled,
         BindClosed, CancelStale, ImportRow, logVars

\* The other steps, too.
LEMMA AcceptedStep == ASSUME LogInv, [Next]_vars PROVE AcceptedArePlaced'
<1>1. ASSUME NEW o \in Orders, NEW want \in Wants, Evaluate(o, want) PROVE AcceptedArePlaced'
  BY <1>1 DEF Evaluate, brokerVars, logVars, LogInv, AcceptedArePlaced
<1>2. ASSUME NEW r \in Reconciles, StartPass(r) PROVE AcceptedArePlaced'
  BY <1>2 DEF StartPass, brokerVars, logVars, LogInv, AcceptedArePlaced
<1>3. ASSUME NEW o \in Orders, Execute(o) PROVE AcceptedArePlaced'
  BY <1>3 DEF Execute, logVars, LogInv, AcceptedArePlaced
<1>4. CASE CloseDay \/ CrashSupervise \/ UNCHANGED vars
  BY <1>4 DEF CloseDay, CrashSupervise, vars, brokerVars, logVars, LogInv, AcceptedArePlaced
<1>5. CASE CrashSubmit
  BY <1>5 DEF CrashSubmit, NoSubmit, brokerVars, logVars, LogInv, AcceptedArePlaced
<1> QED BY <1>1, <1>2, <1>3, <1>4, <1>5, AcceptedSubmit, AcceptedSupervise DEF Next

\* Whatever happens, executed quantities do not go down.
LEMMA ExecutedStep == ASSUME LogInv, [Next]_vars PROVE ExecutedKept
<1>0. /\ \A o \in Orders : broker[o].executed \in Nat
      /\ \A o \in DOMAIN ticket : /\ o \in Orders /\ broker[o].executed <= ticket[o].quantity
      /\ placed \in [Orders -> Nat]
      /\ broker \in [Orders -> [state: {"none", "working", "closed"}, executed: Nat, day: 0..MaxDay]]
      /\ ExecutedArePlaced
      /\ submitter.pc # "idle" => \E o \in Orders : submitter.order = {o}
  BY DEF LogInv, TypeOK, ExecutedWithinTicket, PlacedInv, SubmitterOK
<1>1. CASE Submit
  <2>1. PICK o \in submitter.order :
          \/ /\ broker' = [broker EXCEPT ![o] = [state |-> "working", executed |-> 0, day |-> day]]
             /\ placed' = [placed EXCEPT ![o] = @ + 1]
          \/ UNCHANGED <<broker, placed>>
    BY <1>1 DEF Submit
  <2>2. o \in Orders /\ placed[o] = 0
    BY <1>0, <1>1, <2>1 DEF Submit, LogInv, PlacedInv, NotYetPlaced
  <2>3. broker[o].executed = 0
    BY <1>0, <2>2 DEF ExecutedArePlaced
  <2>4. CASE UNCHANGED <<broker, placed>>
    BY <2>4, ExecutedSame
  <2>5. CASE /\ broker' = [broker EXCEPT ![o] = [state |-> "working", executed |-> 0, day |-> day]]
             /\ placed' = [placed EXCEPT ![o] = @ + 1]
    <3>1. placed'[o] # 0 /\ \A p \in Orders \ {o} : placed'[p] = placed[p] /\ broker'[p] = broker[p]
      BY <1>0, <2>2, <2>5
    <3>2. broker'[o].executed = broker[o].executed
      BY <1>0, <2>2, <2>3, <2>5
    <3> QED BY <1>0, <3>1, <3>2 DEF ExecutedKept, ExecutedArePlaced
  <2> QED BY <2>1, <2>4, <2>5
<1>2. ASSUME NEW o \in Orders, Execute(o) PROVE ExecutedKept
  <2>1. PICK n \in Nat, state \in {"working", "closed"} :
          /\ broker[o].executed < n /\ n <= ticket[o].quantity
          /\ broker' = [broker EXCEPT ![o] = [state |-> state, executed |-> n, day |-> broker[o].day]]
    BY <1>2, ExecuteIs
  <2>2. placed' = placed /\ placed[o] # 0
    BY <1>0, <1>2, ExecuteIs DEF ExecutedArePlaced
  <2>3. broker'[o].executed = n /\ \A p \in Orders \ {o} : broker'[p] = broker[p]
    BY <1>0, <2>1
  <2> QED BY <1>0, <2>1, <2>2, <2>3 DEF ExecutedKept, ExecutedArePlaced
<1>3. CASE CloseDay
  <2>1. placed' = placed
        /\ \A o \in Orders : /\ broker'[o].executed = broker[o].executed
                             /\ broker'[o].state = "working" => broker[o].state = "working"
    BY <1>0, <1>3 DEF CloseDay
  <2> QED BY <1>0, <2>1 DEF ExecutedKept, ExecutedArePlaced
<1>4. ASSUME NEW o \in Orders, CancelStale(o) PROVE ExecutedKept
  <2>1. placed' = placed /\ (broker' = [broker EXCEPT ![o].state = "closed"] \/ broker' = broker)
    BY <1>4 DEF CancelStale
  <2>2. \A p \in Orders : /\ broker'[p].executed = broker[p].executed
                          /\ broker'[p].state = "working" => broker[p].state = "working"
    BY <1>0, <2>1
  <2> QED BY <1>0, <2>1, <2>2 DEF ExecutedKept, ExecutedArePlaced
<1>5. CASE SubmitPoll
  <2>1. submitter.order \subseteq DOMAIN ticket /\ LogPolled(submitter.order)
        /\ \A o \in submitter.order : placed[o] # 0
    BY <1>5 DEF SubmitPoll, LogInv, TicketInHand, AcceptedArePlaced
  <2> QED BY <2>1, ExecutedPolled
<1>6. CASE PollOpen
  BY <1>6, ExecutedPolled DEF PollOpen, Open, LogInv, AcceptedArePlaced
<1>7. CASE RecordTicket \/ RegisterTicket \/ RecordReply \/ ApplyReply \/ SubmitApply
  BY <1>7, ExecutedSame
     DEF RecordTicket, RegisterTicket, RecordReply, ApplyReply, SubmitApply, ApplyPolled, brokerVars
<1>8. CASE ExpireDay \/ RecordClosed
  BY <1>8, ExecutedSame DEF ExpireDay, RecordClosed, LogClosed, brokerVars
<1>9. CASE FetchHistory \/ FailFetch \/ EndPass \/ (\E S \in SUBSET Orders : FindStale(S))
  BY <1>9, ExecutedSame DEF FetchHistory, FailFetch, EndPass, FindStale, brokerVars
<1>10. ASSUME NEW o \in Orders, ApplyPoll(o) \/ BindClosed(o) \/ ImportRow(o) \/ LogRow(o)
       PROVE  ExecutedKept
  BY <1>10, ExecutedSame DEF ApplyPoll, ApplyPolled, BindClosed, ImportRow, LogRow, brokerVars
<1>11. ASSUME NEW o \in Orders, NEW want \in Wants, Evaluate(o, want) PROVE ExecutedKept
  BY <1>11, ExecutedSame DEF Evaluate, brokerVars
<1>12. ASSUME NEW r \in Reconciles, StartPass(r) PROVE ExecutedKept
  BY <1>12, ExecutedSame DEF StartPass, brokerVars
<1>13. CASE CrashSubmit \/ CrashSupervise \/ UNCHANGED vars
  BY <1>13, ExecutedSame DEF CrashSubmit, CrashSupervise, vars, brokerVars
<1> QED
  BY <1>1, <1>2, <1>3, <1>4, <1>5, <1>6, <1>7, <1>8, <1>9, <1>10, <1>11, <1>12, <1>13
     DEF Next, SubmitStep, SuperviseStep

\* What the log says of fills.
FillsTrue == ExecutedWithinTicket /\ EventsOfTickets /\ FilledWithinExecuted

\* Numbers that the steps below compare.
LEMMA FillNumbers ==
  ASSUME LogInv, TypeOK', ExecutedKept
  PROVE  /\ \A o \in Orders : /\ broker[o].executed \in Nat /\ broker'[o].executed \in Nat
                              /\ broker[o].executed <= broker'[o].executed
         /\ \A o \in DOMAIN ticket : /\ o \in Orders /\ broker'[o].executed <= ticket[o].quantity
                                     /\ ticket[o].filled \in Nat /\ ticket[o].quantity \in Nat
                                     /\ ticket[o].filled <= ticket[o].quantity
         /\ \A e \in fillEvents : e.order \in Orders /\ e.quantity \in Nat
BY RuntimeAssumption DEF LogInv, TypeOK, ExecutedKept

\* A log without a new fill stays true, however the status of its tickets changes.
LEMMA FillsSame ==
  ASSUME LogInv, TypeOK', ExecutedKept, fillEvents' = fillEvents, DOMAIN ticket' = DOMAIN ticket,
         \A o \in DOMAIN ticket : /\ ticket'[o].quantity = ticket[o].quantity
                                  /\ ticket'[o].filled = ticket[o].filled
  PROVE  FillsTrue'
<1>1. ExecutedWithinTicket'
  BY FillNumbers DEF ExecutedWithinTicket
<1>2. EventsOfTickets'
  BY DEF LogInv, EventsOfTickets
<1>3. FilledWithinExecuted'
  <2>1. \A e \in fillEvents : e.quantity <= broker'[e.order].executed
    <3>1. \A e \in fillEvents : e.quantity <= broker[e.order].executed
      BY DEF LogInv, FilledWithinExecuted
    <3> QED BY <3>1, FillNumbers
  <2>2. \A o \in DOMAIN ticket : ticket[o].filled <= broker'[o].executed \/ LoggedAgain(o)
    <3>1. \A o \in DOMAIN ticket : ticket[o].filled <= broker[o].executed \/ LoggedAgain(o)
      BY DEF LogInv, FilledWithinExecuted
    <3> QED BY <3>1, FillNumbers
  <2> QED BY <2>1, <2>2 DEF FilledWithinExecuted, LoggedAgain
<1> QED BY <1>1, <1>2, <1>3 DEF FillsTrue

\* A ticket that is recorded has no fill yet, and its order was not executed.
LEMMA FillsRecorded == ASSUME LogInv, TypeOK', ExecutedKept, RecordTicket PROVE FillsTrue'
<1>1. PICK o \in Orders : submitter.order = {o}
  BY DEF RecordTicket, LogInv, PlacedInv, SubmitterOK
<1>2. /\ o \notin DOMAIN ticket /\ DOMAIN ticket' = DOMAIN ticket \cup {o}
      /\ ticket'[o].filled = 0 /\ \A p \in DOMAIN ticket : ticket'[p] = ticket[p]
      /\ UNCHANGED <<broker, placed, fillEvents>>
  BY <1>1 DEF RecordTicket, LogInv, PlacedInv, NotYetPlaced, brokerVars
<1>3. broker[o].executed = 0
  <2>1. placed[o] = 0
    BY <1>2 DEF LogInv, PlacedInv, PlacedOnce
  <2> QED BY <2>1 DEF LogInv, ExecutedArePlaced
<1>4. ticket'[o].quantity \in Nat
  BY <1>2, RuntimeAssumption DEF TypeOK
<1>5. ExecutedWithinTicket'
  BY <1>2, <1>3, <1>4 DEF LogInv, ExecutedWithinTicket
<1>6. EventsOfTickets'
  BY <1>2 DEF LogInv, EventsOfTickets
<1>7. FilledWithinExecuted'
  BY <1>2, <1>3 DEF LogInv, FilledWithinExecuted, LoggedAgain
<1> QED BY <1>5, <1>6, <1>7 DEF FillsTrue

\* Polled fills are of the whole ticket, which is what the broker then executed.
LEMMA FillsPolled ==
  ASSUME LogInv, TypeOK', ExecutedKept, NEW S, S \subseteq DOMAIN ticket, LogPolled(S)
  PROVE  FillsTrue'
<1> DEFINE new == {Fill(o, Remaining(o), "poll") : o \in S}
<1>1. fillEvents' = fillEvents \cup new /\ DOMAIN ticket' = DOMAIN ticket
  BY LogPolledIs DEF LogPolled
<1>2. ExecutedWithinTicket'
  BY <1>1, LogPolledIs, FillNumbers DEF ExecutedWithinTicket
<1>3. IsFiniteSet(fillEvents')
  <2>1. IsFiniteSet(S)
    <3>1. S \subseteq Orders
      BY FillNumbers
    <3> QED BY <3>1, RuntimeAssumption, FS_Subset
  <2>2. IsFiniteSet(new)
    <3> DEFINE f == [o \in S |-> Fill(o, Remaining(o), "poll")]
    <3>1. DOMAIN f = S /\ {f[o] : o \in S} = new
      OBVIOUS
    <3> HIDE DEF f, new
    <3>2. IsFiniteSet({f[o] : o \in S})
      BY <2>1, <3>1, ImageFinite
    <3> QED BY <3>1, <3>2
  <2> QED BY <1>1, <2>2, FS_Union DEF LogInv, EventsOfTickets
<1>4. ASSUME NEW o \in S PROVE \E e \in new : e.order = o
  <2>1. Fill(o, Remaining(o), "poll") \in new /\ Fill(o, Remaining(o), "poll").order = o
    BY DEF Fill
  <2> QED BY <2>1
<1>5. \A e \in new : \E o \in S : e.order = o /\ e.quantity = Remaining(o)
  BY DEF Fill
<1> HIDE DEF new
<1>6. EventsOfTickets'
  <2>1. \A e \in fillEvents' : e.order \in DOMAIN ticket
    BY <1>1, <1>5 DEF LogInv, EventsOfTickets
  <2>2. \A o \in DOMAIN ticket : ticket'[o].filled > 0 => \E e \in fillEvents' : e.order = o
    BY <1>1, <1>4, LogPolledIs DEF LogInv, EventsOfTickets
  <2> QED BY <1>1, <1>3, <2>1, <2>2 DEF EventsOfTickets
<1>7. \A e \in fillEvents' : e.quantity <= broker'[e.order].executed
  <2>1. ASSUME NEW e \in fillEvents PROVE e.quantity <= broker'[e.order].executed
    <3>1. e.quantity <= broker[e.order].executed
      BY DEF LogInv, FilledWithinExecuted
    <3> QED BY <3>1, FillNumbers
  <2>2. ASSUME NEW e \in new PROVE e.quantity <= broker'[e.order].executed
    <3>1. PICK o \in S : e.order = o /\ e.quantity = Remaining(o)
      BY <1>5
    <3> QED BY <3>1, LogPolledIs
  <2> QED BY <1>1, <2>1, <2>2
<1>8. \A o \in DOMAIN ticket : ticket'[o].filled <= broker'[o].executed \/ LoggedAgain(o)'
  <2>1. ASSUME NEW o \in S PROVE ticket'[o].filled <= broker'[o].executed
    <3>1. ticket'[o].filled = ticket[o].quantity /\ broker'[o].executed = ticket[o].quantity
      BY LogPolledIs
    <3> QED BY <3>1, FillNumbers
  <2>2. ASSUME NEW o \in DOMAIN ticket \ S
        PROVE  ticket'[o].filled <= broker'[o].executed \/ LoggedAgain(o)'
    <3>1. ticket'[o].filled = ticket[o].filled /\ broker'[o].executed = broker[o].executed
      BY LogPolledIs
    <3> QED BY <1>1, <3>1 DEF LogInv, FilledWithinExecuted, LoggedAgain
  <2> QED BY <2>1, <2>2
<1> QED BY <1>1, <1>2, <1>6, <1>7, <1>8 DEF FillsTrue, FilledWithinExecuted

\* A logged row is within what the broker executed; if it is not the first of its
\* order it is unequal to the one before.
LEMMA FillsLogged ==
  ASSUME LogInv, TypeOK', ExecutedKept, NEW o \in Orders, LogRow(o)
  PROVE  FillsTrue'
<1> DEFINE q == supervisor.rows[o]
<1>1. /\ o \in DOMAIN ticket /\ q \in Nat \ {0} /\ q <= broker[o].executed
      /\ broker' = broker /\ broker[o].executed \in Nat
  BY LogRowIs, RowInHand DEF brokerVars
<1>2. CASE ticket' = ticket /\ fillEvents' = fillEvents
  BY <1>2, FillsSame
<1>3. ASSUME \A e \in fillEvents : e.order = o => e.quantity # q,
             fillEvents' = fillEvents \cup {Fill(o, q, "row")},
             NEW new \in TicketType, ticket' = [ticket EXCEPT ![o] = new],
             new.quantity = ticket[o].quantity, new.filled \in Nat, new.filled <= new.quantity,
             new.filled <= ticket[o].filled + q
      PROVE  FillsTrue'
  <2> DEFINE ev == Fill(o, q, "row")
  <2>1. /\ ev.order = o /\ ev.quantity = q /\ fillEvents' = fillEvents \cup {ev}
        /\ DOMAIN ticket' = DOMAIN ticket /\ ticket'[o] = new
        /\ \A p \in DOMAIN ticket \ {o} : ticket'[p] = ticket[p]
    BY <1>1, <1>3 DEF Fill
  <2> HIDE DEF ev, q
  <2>2. ExecutedWithinTicket'
    BY <1>1, <1>3, <2>1 DEF LogInv, ExecutedWithinTicket
  <2>3. EventsOfTickets'
    <3>1. IsFiniteSet(fillEvents')
      BY <2>1, FS_AddElement DEF LogInv, EventsOfTickets
    <3> QED BY <1>1, <2>1, <3>1 DEF LogInv, EventsOfTickets
  <2>4. \A e \in fillEvents' : e.quantity <= broker'[e.order].executed
    BY <1>1, <2>1 DEF LogInv, FilledWithinExecuted
  <2>5. new.filled <= broker'[o].executed \/ LoggedAgain(o)'
    <3>1. CASE \E e \in fillEvents : e.order = o
      BY <1>3, <2>1, <3>1 DEF LoggedAgain
    <3>2. CASE ~\E e \in fillEvents : e.order = o
      <4>1. ticket[o].filled = 0
        BY <1>1, <3>2, FillNumbers DEF LogInv, EventsOfTickets
      <4> QED BY <1>1, <1>3, <4>1
    <3> QED BY <3>1, <3>2
  <2>6. \A p \in DOMAIN ticket \ {o} : ticket[p].filled <= broker'[p].executed \/ LoggedAgain(p)'
    BY <1>1, <2>1 DEF LogInv, FilledWithinExecuted, LoggedAgain
  <2>7. \A p \in DOMAIN ticket' : ticket'[p].filled <= broker'[p].executed \/ LoggedAgain(p)'
    BY <2>1, <2>5, <2>6
  <2> QED BY <2>2, <2>3, <2>4, <2>7 DEF FillsTrue, FilledWithinExecuted
<1> QED BY <1>2, <1>3, LogRowIs

\* Tickets stay in the log.
LEMMA TicketsStay == ASSUME LogInv, [Next]_vars PROVE DOMAIN ticket \subseteq DOMAIN ticket'
<1>1. CASE SubmitStep
  <2>1. CASE RecordTicket
    BY <2>1 DEF RecordTicket
  <2>2. CASE RecordReply
    BY <2>2 DEF RecordReply
  <2>3. CASE SubmitPoll
    BY <2>3 DEF SubmitPoll, LogPolled
  <2>4. CASE RegisterTicket \/ Submit \/ ApplyReply \/ SubmitApply
    BY <2>4 DEF RegisterTicket, Submit, ApplyReply, SubmitApply, ApplyPolled, logVars
  <2> QED BY <1>1, <2>1, <2>2, <2>3, <2>4 DEF SubmitStep
<1>2. CASE SuperviseStep
  BY <1>2, SuperviseKeepsOrders
<1>3. ASSUME NEW o \in Orders, NEW want \in Wants, Evaluate(o, want) PROVE ticket' = ticket
  BY <1>3 DEF Evaluate, logVars
<1>4. ASSUME NEW r \in Reconciles, StartPass(r) PROVE ticket' = ticket
  BY <1>4 DEF StartPass, logVars
<1>5. ASSUME NEW o \in Orders, Execute(o) PROVE ticket' = ticket
  BY <1>5 DEF Execute, logVars
<1>6. CASE CloseDay \/ CrashSubmit \/ CrashSupervise \/ UNCHANGED vars
  BY <1>6 DEF CloseDay, CrashSubmit, CrashSupervise, vars, logVars
<1> QED BY <1>1, <1>2, <1>3, <1>4, <1>5, <1>6 DEF Next

\* Rows that are only dropped stay within what was executed.
LEMMA RowsStay ==
  ASSUME LogInv, TypeOK', ExecutedKept, DOMAIN ticket \subseteq DOMAIN ticket',
         DOMAIN supervisor'.rows \subseteq DOMAIN supervisor.rows,
         \A o \in DOMAIN supervisor'.rows : supervisor'.rows[o] = supervisor.rows[o]
  PROVE  RowsOfTickets'
<1> SUFFICES ASSUME NEW o \in DOMAIN supervisor'.rows
             PROVE  o \in DOMAIN ticket' /\ supervisor'.rows[o] \in 1..broker'[o].executed
  BY DEF RowsOfTickets
<1>1. o \in DOMAIN ticket /\ supervisor.rows[o] \in 1..broker[o].executed
  BY DEF LogInv, RowsOfTickets
<1>2. broker[o].executed \in Nat /\ broker'[o].executed \in Nat
      /\ broker[o].executed <= broker'[o].executed
  BY <1>1, FillNumbers
<1> QED BY <1>1, <1>2

\* A pass has in hand what it has fetched.
LEMMA PassStep ==
  ASSUME LogInv, [Next]_vars, TypeOK', ExecutedKept
  PROVE  SupervisorOK' /\ RowsOfTickets'
<1>0. /\ DOMAIN supervisor = {"pc", "reconcile", "todo", "closing", "rows", "seen"}
      /\ DOMAIN ticket \subseteq DOMAIN ticket'
      /\ SupervisorOK
  BY TicketsStay DEF LogInv, SupervisorOK
<1>1. CASE supervisor' = supervisor
  BY <1>0, <1>1, RowsStay DEF SupervisorOK
<1>2. CASE supervisor' = NoPass
  <2>1. SupervisorOK' /\ DOMAIN supervisor'.rows = {}
    BY <1>2 DEF SupervisorOK, NoPass
  <2> QED BY <1>0, <2>1, RowsStay
<1>3. ASSUME NEW r \in Reconciles, StartPass(r) PROVE SupervisorOK' /\ RowsOfTickets'
  <2>1. SupervisorOK' /\ DOMAIN supervisor'.rows = {}
    BY <1>3 DEF StartPass, SupervisorOK, NoPass
  <2> QED BY <1>0, <2>1, RowsStay
<1>4. ASSUME /\ DOMAIN supervisor' = {"pc", "reconcile", "todo", "closing", "rows", "seen"}
             /\ supervisor'.rows = supervisor.rows /\ supervisor'.pc # "log"
      PROVE  SupervisorOK' /\ RowsOfTickets'
  BY <1>0, <1>4, RowsStay DEF SupervisorOK
<1>5. ASSUME NEW o \in Orders, supervisor' = DropRow(o)
      PROVE  SupervisorOK' /\ RowsOfTickets'
  <2>1. DOMAIN supervisor'.rows \subseteq DOMAIN supervisor.rows
        /\ \A p \in DOMAIN supervisor'.rows : supervisor'.rows[p] = supervisor.rows[p]
    BY <1>0, <1>5 DEF DropRow, Restrict
  <2>2. SupervisorOK'
    BY <1>0, <1>5 DEF DropRow, SupervisorOK
  <2> QED BY <1>0, <2>1, <2>2, RowsStay
<1>6. CASE FetchHistory
  <2>1. /\ SupervisorOK' /\ supervisor'.rows = [o \in Fetched |-> broker[o].executed]
        /\ broker' = broker
    BY <1>0, <1>6 DEF FetchHistory, SupervisorOK, brokerVars
  <2>2. ASSUME NEW o \in Fetched
        PROVE  o \in DOMAIN ticket' /\ broker[o].executed \in 1..broker'[o].executed
    <3>1. o \in Orders /\ broker[o].executed > 0 /\ broker[o].executed \in Nat
      BY DEF Fetched, LogInv, TypeOK
    <3> QED BY <1>0, <2>1, <3>1, WorkingHasTicket
  <2> QED BY <2>1, <2>2 DEF RowsOfTickets
<1>7. CASE PollOpen \/ ExpireDay \/ RecordClosed
  BY <1>0, <1>4, <1>7 DEF PollOpen, ExpireDay, RecordClosed
<1>8. ASSUME NEW S, FindStale(S) PROVE SupervisorOK' /\ RowsOfTickets'
  BY <1>0, <1>4, <1>8 DEF FindStale
<1>9. ASSUME NEW o \in Orders, ApplyPoll(o) \/ BindClosed(o) \/ CancelStale(o)
      PROVE  SupervisorOK' /\ RowsOfTickets'
  BY <1>0, <1>4, <1>9 DEF ApplyPoll, BindClosed, CancelStale
<1>10. ASSUME NEW o \in Orders, ImportRow(o) PROVE SupervisorOK' /\ RowsOfTickets'
  <2>1. CASE supervisor' = [supervisor EXCEPT !.pc = "log", !.todo = {o}]
    <3>1. SupervisorOK' /\ supervisor'.rows = supervisor.rows
      <4>1. /\ DOMAIN supervisor' = DOMAIN supervisor /\ supervisor'.todo = {o}
            /\ supervisor'.rows = supervisor.rows
        BY <1>0, <2>1
      <4>2. o \in DOMAIN supervisor.rows
        BY <1>10 DEF ImportRow
      <4> QED BY <1>0, <4>1, <4>2 DEF SupervisorOK
    <3> QED BY <1>0, <3>1, RowsStay
  <2> QED BY <1>5, <1>10, <2>1 DEF ImportRow
<1>11. ASSUME NEW o \in Orders, LogRow(o) PROVE SupervisorOK' /\ RowsOfTickets'
  <2>1. supervisor' = [DropRow(o) EXCEPT !.todo = {}]
    BY <1>11 DEF LogRow
  <2>2. DOMAIN supervisor'.rows \subseteq DOMAIN supervisor.rows
        /\ \A p \in DOMAIN supervisor'.rows : supervisor'.rows[p] = supervisor.rows[p]
    BY <1>0, <2>1 DEF DropRow, Restrict
  <2>3. SupervisorOK'
    BY <1>0, <2>1 DEF DropRow, SupervisorOK
  <2> QED BY <1>0, <2>2, <2>3, RowsStay
<1>12. SubmitStep => supervisor' = supervisor
  BY DEF SubmitStep, RecordTicket, RegisterTicket, Submit, RecordReply, ApplyReply, SubmitPoll,
         SubmitApply
<1>13. (\E o \in Orders, want \in Wants : Evaluate(o, want)) => supervisor' = supervisor
  BY DEF Evaluate
<1>14. (\E o \in Orders : Execute(o)) \/ CloseDay \/ CrashSubmit \/ UNCHANGED vars
         => supervisor' = supervisor
  BY DEF Execute, CloseDay, CrashSubmit, vars
<1>15. FailFetch \/ EndPass \/ CrashSupervise => supervisor' = NoPass
  BY DEF FailFetch, EndPass, CrashSupervise
<1> QED
  BY <1>1, <1>2, <1>3, <1>6, <1>7, <1>8, <1>9, <1>10, <1>11, <1>12, <1>13, <1>14, <1>15
     DEF Next, SuperviseStep

\* The guard lets at least one share through and at most the target.
LEMMA HandStep == ASSUME LogInv, [Next]_vars PROVE TicketInHand'
<1>0. /\ DOMAIN submitter = {"pc", "order", "quantity", "accepted"}
      /\ DOMAIN ticket \subseteq DOMAIN ticket'
      /\ TicketInHand
  BY TicketsStay DEF LogInv, PlacedInv, SubmitterOK
<1>1. CASE submitter' = submitter
  BY <1>0, <1>1 DEF TicketInHand
<1>2. CASE submitter' = NoSubmit
  BY <1>2 DEF TicketInHand, NoSubmit
<1>3. ASSUME NEW o \in Orders, NEW want \in Wants, Evaluate(o, want) PROVE TicketInHand'
  <2>1. PICK p \in Nat : p = Projected
    BY ProjectedType
  <2>2. want \in Nat \ {0} /\ Target \in Nat /\ Target > p
    BY <1>3, <2>1, RuntimeAssumption DEF Evaluate
  <2>3. Min({want, Target - p}) \in 1..Target
    <3>1. want \in Int /\ Target - p \in Int
      BY <2>1, <2>2
    <3>2. Min({want, Target - p}) = IF want <= Target - p THEN want ELSE Target - p
      BY <3>1, MinIs
    <3> QED BY <2>1, <2>2, <3>2
  <2>4. submitter'.pc = "admitted" /\ submitter'.quantity = Min({want, Target - p})
    BY <1>3, <2>1 DEF Evaluate
  <2> QED BY <2>3, <2>4 DEF TicketInHand
<1>4. CASE RecordTicket
  <2>1. submitter'.pc = "recorded" /\ submitter'.order = submitter.order
        /\ submitter.order \subseteq DOMAIN ticket'
    <3>1. \E o : submitter.order = {o}
      BY <1>4 DEF RecordTicket, LogInv, PlacedInv, SubmitterOK
    <3> QED BY <1>0, <1>4, <3>1 DEF RecordTicket
  <2> QED BY <2>1 DEF TicketInHand
<1>5. CASE RegisterTicket \/ Submit \/ RecordReply \/ ApplyReply \/ SubmitPoll \/ SubmitApply
  <2>1. \/ submitter' = NoSubmit
        \/ /\ submitter.pc \notin {"idle", "admitted"} /\ submitter'.pc # "admitted"
           /\ submitter'.order = submitter.order
    BY <1>0, <1>5 DEF RegisterTicket, Submit, RecordReply, ApplyReply, SubmitPoll, SubmitApply
  <2> QED BY <1>0, <1>2, <2>1 DEF TicketInHand
<1>6. SuperviseStep => submitter' = submitter
  BY SuperviseKeepsOrders
<1>7. (\E r \in Reconciles : StartPass(r)) \/ (\E o \in Orders : Execute(o)) \/ CloseDay
      \/ CrashSupervise \/ UNCHANGED vars => submitter' = submitter
  BY DEF StartPass, Execute, CloseDay, CrashSupervise, vars
<1>8. CrashSubmit => submitter' = NoSubmit
  BY DEF CrashSubmit
<1> QED BY <1>1, <1>2, <1>3, <1>4, <1>5, <1>6, <1>7, <1>8 DEF Next, SubmitStep

\* What the log says of fills stays true in every step.
LEMMA LogStep == ASSUME LogInv, [Next]_vars, TypeOK', ExecutedKept PROVE FillsTrue'
<1>1. CASE RecordTicket
  BY <1>1, FillsRecorded
<1>2. CASE SubmitPoll
  <2>1. submitter.order \subseteq DOMAIN ticket /\ LogPolled(submitter.order)
    BY <1>2 DEF SubmitPoll, LogInv, TicketInHand
  <2> QED BY <2>1, FillsPolled
<1>3. CASE PollOpen
  BY <1>3, FillsPolled DEF PollOpen, Open
<1>4. ASSUME NEW o \in Orders, LogRow(o) PROVE FillsTrue'
  BY <1>4, FillsLogged
<1>5. CASE RecordReply
  <2>1. PICK o \in submitter.order : ticket' = [ticket EXCEPT
         ![o].status = IF ~submitter.accepted THEN "rejected"
                       ELSE IF Paper THEN "submitted" ELSE "accepted",
         ![o].number = @ \/ submitter.accepted]
    BY <1>5 DEF RecordReply
  <2>2. \A p \in DOMAIN ticket : ticket[p] \in TicketType
    BY DEF LogInv, TypeOK, TicketType
  <2>3. DOMAIN ticket' = DOMAIN ticket
        /\ \A p \in DOMAIN ticket : /\ ticket'[p].quantity = ticket[p].quantity
                                    /\ ticket'[p].filled = ticket[p].filled
    BY <2>1, <2>2 DEF TicketType
  <2> QED BY <1>5, <2>3, FillsSame DEF RecordReply
<1>6. ASSUME NEW S, NEW status \in {"expired", "cancelled"}, LogClosed(S, status) PROVE FillsTrue'
  <2>1. status \in Statuses
    BY DEF Statuses, Terminal
  <2> QED BY <1>6, <2>1, LogClosedIs, FillsSame
<1>7. CASE ExpireDay \/ RecordClosed
  BY <1>6, <1>7 DEF ExpireDay, RecordClosed
<1>8. CASE UNCHANGED logVars
  BY <1>8, FillsSame DEF logVars
<1>9. RegisterTicket \/ Submit \/ ApplyReply \/ SubmitApply => UNCHANGED logVars
  BY DEF RegisterTicket, Submit, ApplyReply, SubmitApply, ApplyPolled
<1>10. FetchHistory \/ FailFetch \/ EndPass \/ (\E S \in SUBSET Orders : FindStale(S))
         => UNCHANGED logVars
  BY DEF FetchHistory, FailFetch, EndPass, FindStale
<1>11. ASSUME NEW o \in Orders,
              ApplyPoll(o) \/ BindClosed(o) \/ CancelStale(o) \/ ImportRow(o) \/ Execute(o)
       PROVE  UNCHANGED logVars
  BY <1>11 DEF ApplyPoll, ApplyPolled, BindClosed, CancelStale, ImportRow, Execute
<1>12. (\E o \in Orders, want \in Wants : Evaluate(o, want))
       \/ (\E r \in Reconciles : StartPass(r)) \/ CloseDay \/ CrashSubmit \/ CrashSupervise
       \/ UNCHANGED vars => UNCHANGED logVars
  BY DEF Evaluate, StartPass, CloseDay, CrashSubmit, CrashSupervise, vars
<1> QED
  BY <1>1, <1>2, <1>3, <1>4, <1>5, <1>7, <1>8, <1>9, <1>10, <1>11, <1>12
     DEF Next, SubmitStep, SuperviseStep

\* Every step preserves the invariant.
LEMMA LogInvStep == ASSUME LogInv, [Next]_vars PROVE LogInv'
<1>1. PlacedInv'
  BY PlacedInvStep DEF LogInv
<1>2. TypeOK' /\ ExecutedKept
  BY TypesStep, ExecutedStep
<1>3. SupervisorOK' /\ RowsOfTickets'
  BY <1>2, PassStep
<1>4. TicketInHand' /\ AcceptedArePlaced'
  BY HandStep, AcceptedStep
<1>5. FillsTrue'
  BY <1>2, LogStep
<1> QED BY <1>1, <1>2, <1>3, <1>4, <1>5 DEF LogInv, FillsTrue, ExecutedKept

\* With either gateway, through crashes, failed fetches and rows that grow, no
\* ticket counts more than its quantity and no fill event says more than the
\* broker executed; a ticket that counts more than that had its row logged again.
THEOREM TicketsCountExecuted == Spec => []TicketsWithinExecuted
<1>1. Init => LogInv
  BY LogInvInit
<1>2. LogInv /\ [Next]_vars => LogInv'
  BY LogInvStep
<1>3. LogInv => TicketsWithinExecuted
  BY DEF LogInv, TicketsWithinExecuted
<1> QED BY <1>1, <1>2, <1>3, PTL DEF Spec

-------------------------------------------------------------------------------
(* The target: what the engine guard projects covers what the broker has or may *)
(* still execute, as long as nothing disturbs the commands.                     *)

\* What the guard relies on: one command at a time, every pass reconciles and ends,
\* orders fill at once or not at all, every reply arrives, and all on one day.
Undisturbed ==
  /\ Sequential /\ Reconciles = {TRUE} /\ ~PartialFills /\ ~LostReplies
  /\ MaxDay = 0 /\ MaxSuperviseCrashes = 0 /\ MaxFetchFailures = 0

\* The commands do not overlap.
OneAtATime ==
  /\ submitter.pc = "idle" \/ supervisor.pc = "idle"
  /\ failures \in [submit: Nat, supervise: Nat, fetch: Nat]

\* The orders whose broker number is in the log.
Numbered == {o \in DOMAIN ticket : ticket[o].number}

\* Where a pass is and what it carries from call to call.
PassOK ==
  /\ supervisor.pc \in {"idle", "poll", "polled", "expired", "cancel", "closed", "rows", "log"}
  /\ supervisor.pc = "idle" => supervisor = NoPass
  /\ supervisor.pc # "idle" => supervisor.reconcile
  /\ supervisor.pc \notin {"cancel", "closed"} => DOMAIN supervisor.closing = {}
  /\ supervisor.pc \notin {"rows", "log"} => DOMAIN supervisor.rows = {}
  /\ supervisor.pc \in {"rows", "log"} => ~Paper
  /\ supervisor.pc = "poll" => Paper
  /\ supervisor.pc = "expired" => supervisor.todo = {}
  /\ supervisor.pc \in {"cancel", "closed"} => supervisor.todo \subseteq Numbered
  /\ \A o \in DOMAIN supervisor.closing : o \in Numbered /\ broker[o].state # "working"

\* An order is executed as a whole; one that still works has an open ticket.
WholeFills ==
  \A o \in DOMAIN ticket :
    /\ broker[o].executed \in {0, ticket[o].quantity}
    /\ broker[o].state = "working" => broker[o].executed = 0 /\ o \in Open

\* An open ticket counts no fill, and the ticket of a submit that is not refused is open.
OpenUnfilled ==
  /\ \A o \in Open : ticket[o].filled = 0
  /\ submitter.pc \in {"recorded", "registered", "answered", "poll"} \/
     (submitter.pc = "logged" /\ submitter.accepted) => submitter.order \subseteq Open

\* A refused order was not sent; the paper gateway's orders work until they are
\* polled or cancelled.
RepliesTrue ==
  /\ submitter.pc = "answered" /\ ~submitter.accepted => \A o \in submitter.order : placed[o] = 0
  /\ submitter.pc \in {"poll", "polled"} => Paper
  /\ Paper =>
       /\ (submitter.pc \in {"answered", "logged"} /\ submitter.accepted) \/ submitter.pc = "poll"
            => \A o \in submitter.order : broker[o].state = "working"
       /\ \A o \in DOMAIN ticket : ticket[o].status \in {"submitted", "accepted"}
            => broker[o].state = "working" \/ o \in DOMAIN supervisor.closing

\* A fill in the log is credited already or, with the paper gateway, all there is
\* to credit; what is credited is what was executed.
FillsOwned ==
  /\ \A e \in fillEvents :
       /\ e.quantity > 0
       /\ e.source = "row" => ~Paper /\ credited[<<e.order, "row">>] > 0
       /\ e.source = "poll" => Paper /\ e.quantity = broker[e.order].executed
  /\ \A o \in Orders, s \in Sources :
       credited[<<o, s>>] > 0 => credited[<<o, s>>] = broker[o].executed

\* A row in hand is what was executed, and is credited if it was seen in the log or
\* is to be logged.
RowsCurrent ==
  /\ \A o \in DOMAIN supervisor.rows :
       /\ supervisor.rows[o] = broker[o].executed
       /\ <<o, supervisor.rows[o]>> \in supervisor.seen => credited[<<o, "row">>] > 0
  /\ supervisor.pc = "log" => \A o \in supervisor.todo : credited[<<o, "row">>] > 0

\* The order's ticket was closed in this pass and its row is still to be imported,
\* for which its number is bound in time.
Settling(o) ==
  \/ supervisor.pc = "closed" /\ (o \in supervisor.todo \/ o \in bound)
  \/ supervisor.pc \in {"rows", "log"} /\ o \in DOMAIN supervisor.rows /\ o \in bound

\* How the guard accounts for an executed order.
Covered(o) ==
  IF Paper THEN \E e \in fillEvents : e.order = o /\ e.source = "poll"
  ELSE o \in Open \/ credited[<<o, "row">>] > 0 \/ Settling(o)

ExecutedCovered == \A o \in DOMAIN ticket : broker[o].executed > 0 => Covered(o)

\* What a submit in progress will add, and what the broker has.
InHand == IF submitter.pc \in {"admitted", "recorded", "registered"} THEN submitter.quantity ELSE 0
Total == SumFunction([o \in Orders |-> Exposure(o)])

Reserved ==
  /\ Total + InHand <= Target
  /\ submitter.pc \in {"recorded", "registered"}
       => \A o \in submitter.order : ticket[o].quantity = submitter.quantity

GuardInv ==
  /\ LogInv
  /\ OneAtATime /\ PassOK
  /\ WholeFills /\ OpenUnfilled /\ RepliesTrue
  /\ FillsOwned /\ RowsCurrent /\ ExecutedCovered
  /\ Reserved

\* Types of what the steps look at.
LEMMA GuardTypes ==
  ASSUME GuardInv
  PROVE  /\ \A o \in DOMAIN ticket :
              /\ o \in Orders /\ ticket[o] \in TicketType /\ ticket[o].filled \in Nat
              /\ ticket[o].quantity \in Nat \ {0} /\ ticket[o].filled <= ticket[o].quantity
         /\ \A o \in Orders : broker[o].executed \in Nat
         /\ broker \in [Orders -> [state: {"none", "working", "closed"}, executed: Nat, day: 0..MaxDay]]
         /\ credited \in [Orders \X Sources -> Nat]
         /\ placed \in [Orders -> Nat]
         /\ \A e \in fillEvents : e.order \in DOMAIN ticket /\ e.quantity \in Nat /\ e.source \in Sources
         /\ DOMAIN submitter = {"pc", "order", "quantity", "accepted"}
         /\ DOMAIN supervisor = {"pc", "reconcile", "todo", "closing", "rows", "seen"}
         /\ submitter.pc # "idle" => \E o \in Orders : submitter.order = {o}
         /\ submitter.pc \notin {"idle", "admitted"} => submitter.order \subseteq DOMAIN ticket
<1>1. TypeOK /\ EventsOfTickets /\ PlacedInv /\ SupervisorOK /\ TicketInHand
  BY DEF GuardInv, LogInv
<1> QED
  BY <1>1, RuntimeAssumption
     DEF TypeOK, TicketType, EventsOfTickets, PlacedInv, SubmitterOK, SupervisorOK, TicketInHand

\* An order that neither works nor was executed exposes nothing.
LEMMA ExposureIs ==
  ASSUME GuardInv, NEW o \in Orders
  PROVE  /\ Exposure(o) \in Nat
         /\ Exposure(o) = IF broker[o].state = "working" THEN ticket[o].quantity ELSE broker[o].executed
         /\ o \notin DOMAIN ticket => Exposure(o) = 0 /\ broker[o].state # "working"
<1>1. broker[o].executed \in Nat
  BY GuardTypes
<1>2. CASE broker[o].state = "working"
  <2>1. o \in DOMAIN ticket
    BY <1>2, WorkingHasTicket DEF GuardInv
  <2>2. ticket[o].quantity \in Nat /\ broker[o].executed = 0
    BY <1>2, <2>1, GuardTypes DEF GuardInv, WholeFills
  <2> QED BY <1>2, <2>1, <2>2 DEF Exposure
<1>3. CASE broker[o].state # "working"
  <2>1. Exposure(o) = broker[o].executed
    BY <1>1, <1>3 DEF Exposure
  <2>2. o \notin DOMAIN ticket => broker[o].executed = 0
    BY <1>1, WorkingHasTicket DEF GuardInv
  <2> QED BY <1>1, <1>3, <2>1, <2>2
<1> QED BY <1>2, <1>3

\* The total is a natural number.
LEMMA TotalType == ASSUME GuardInv PROVE Total \in Nat
<1> DEFINE W == [o \in Orders |-> Exposure(o)]
<1>1. DOMAIN W = Orders /\ \A o \in Orders : W[o] \in Nat
  BY ExposureIs
<1> HIDE DEF W
<1>2. SumFunction(W) \in Nat
  BY <1>1, RuntimeAssumption, SumNat
<1> QED BY <1>2 DEF W, Total

\* At rest, what the guard projects covers what the broker has or may execute.
LEMMA ProjectedCovers ==
  ASSUME GuardInv, supervisor.pc = "idle"
  PROVE  Total <= Projected
<1> DEFINE X == [o \in Orders |-> Exposure(o)]
           C == [o \in Orders |-> credited[<<o, "poll">>] + credited[<<o, "row">>]]
           P == [o \in Orders |-> IF o \in Open THEN Remaining(o) ELSE 0]
           Waiting == {o \in Orders : \E e \in Unapplied : e.order = o /\ e.source = "poll"}
           A == [o \in Orders |-> IF o \in Waiting THEN broker[o].executed ELSE 0]
           PA == [o \in Orders |-> P[o] + A[o]]
           CPA == [o \in Orders |-> C[o] + PA[o]]
           R == [o \in Open |-> Remaining(o)]
           Q == [e \in Unapplied |-> e.quantity]
<1>1. \A o \in Orders : /\ credited[<<o, "poll">>] \in Nat /\ credited[<<o, "row">>] \in Nat
                        /\ broker[o].executed \in Nat
  BY GuardTypes DEF Sources
<1>2. /\ Open \subseteq Orders /\ IsFiniteSet(Open) /\ IsFiniteSet(Orders)
      /\ \A o \in Open : Remaining(o) \in Nat /\ Remaining(o) = ticket[o].quantity
  <2>1. Open \subseteq Orders
    BY GuardTypes DEF Open
  <2>2. \A o \in Open : Remaining(o) = ticket[o].quantity
    BY GuardTypes DEF Open, Remaining, GuardInv, OpenUnfilled
  <2> QED BY <2>1, <2>2, GuardTypes, RuntimeAssumption, FS_Subset DEF Open
<1>3. IsFiniteSet(Unapplied) /\ \A e \in Unapplied : e.quantity \in Nat
  <2>1. Unapplied \subseteq fillEvents /\ IsFiniteSet(fillEvents)
    BY DEF Unapplied, GuardInv, LogInv, EventsOfTickets
  <2> QED BY <2>1, GuardTypes, FS_Subset
<1>0. /\ \A o \in Orders :
           /\ X[o] = Exposure(o) /\ C[o] = credited[<<o, "poll">>] + credited[<<o, "row">>]
           /\ P[o] = (IF o \in Open THEN Remaining(o) ELSE 0)
           /\ A[o] = (IF o \in Waiting THEN broker[o].executed ELSE 0)
           /\ PA[o] = P[o] + A[o] /\ CPA[o] = C[o] + PA[o]
      /\ \A o \in Open : R[o] = Remaining(o)
      /\ \A e \in Unapplied : Q[e] = e.quantity
  <2> HIDE DEF Waiting
  <2> QED OBVIOUS
<1>11. /\ Total = SumFunctionOnSet(X, Orders) /\ Held = SumFunctionOnSet(C, Orders)
       /\ Pending = SumFunctionOnSet(R, Open) /\ Awaited = SumFunctionOnSet(Q, Unapplied)
  BY DEF Total, Held, Pending, Awaited, SumFunction
<1> HIDE DEF X, C, P, A, PA, CPA, R, Q, Waiting
<1>4. ASSUME NEW o \in Orders
      PROVE  /\ C[o] \in Nat /\ P[o] \in Nat /\ A[o] \in Nat /\ PA[o] \in Nat /\ CPA[o] \in Nat
             /\ PA[o] = P[o] + A[o] /\ CPA[o] = C[o] + PA[o]
  <2>1. C[o] \in Nat
    <3>1. C[o] = credited[<<o, "poll">>] + credited[<<o, "row">>]
      BY <1>0
    <3>2. credited[<<o, "poll">>] \in Nat /\ credited[<<o, "row">>] \in Nat
      BY <1>1
    <3> QED BY <3>1, <3>2
  <2>2. P[o] \in Nat
    <3>1. CASE o \in Open
      <4>1. P[o] = Remaining(o)
        BY <1>0, <3>1
      <4> QED BY <1>2, <3>1, <4>1
    <3>2. CASE o \notin Open
      <4>1. P[o] = 0
        BY <1>0, <3>2
      <4> QED BY <4>1
    <3> QED BY <3>1, <3>2
  <2>3. A[o] \in Nat
    <3>1. CASE o \in Waiting
      <4>1. A[o] = broker[o].executed
        BY <1>0, <3>1
      <4> QED BY <1>1, <4>1
    <3>2. CASE o \notin Waiting
      <4>1. A[o] = 0
        BY <1>0, <3>2
      <4> QED BY <4>1
    <3> QED BY <3>1, <3>2
  <2>4. PA[o] = P[o] + A[o] /\ CPA[o] = C[o] + PA[o]
    BY <1>0
  <2> QED BY <2>1, <2>2, <2>3, <2>4
<1>5. ASSUME NEW o \in Orders PROVE X[o] \in Nat /\ X[o] <= CPA[o]
  <2>0. /\ X[o] = Exposure(o) /\ CPA[o] = C[o] + (P[o] + A[o])
        /\ C[o] \in Nat /\ P[o] \in Nat /\ A[o] \in Nat
    BY <1>0, <1>4
  <2>1. CASE broker[o].state = "working"
    <3>1. o \in Open /\ o \in DOMAIN ticket
      BY <2>1, WorkingHasTicket DEF GuardInv, WholeFills
    <3>2. P[o] = ticket[o].quantity /\ Exposure(o) = ticket[o].quantity
      BY <1>0, <1>2, <2>1, <3>1, ExposureIs
    <3> QED BY <2>0, <3>2, ExposureIs
  <2>2. CASE broker[o].state # "working" /\ broker[o].executed = 0
    <3>1. Exposure(o) = 0
      BY <2>2, ExposureIs
    <3> QED BY <2>0, <3>1
  <2>3. CASE broker[o].state # "working" /\ broker[o].executed # 0
    <3>1. Exposure(o) = broker[o].executed
      BY <2>3, ExposureIs
    <3>7. broker[o].executed \in Nat
      BY <1>1
    <3>8. broker[o].executed > 0
      BY <2>3, <3>7
    <3>2. o \in DOMAIN ticket
      BY <3>8, WorkingHasTicket DEF GuardInv
    <3>3. broker[o].executed = ticket[o].quantity
      BY <2>3, <3>2 DEF GuardInv, WholeFills
    <3>4. Covered(o) /\ ~Settling(o)
      BY <3>2, <3>8 DEF GuardInv, ExecutedCovered, Settling
    <3>5. \A s \in Sources : credited[<<o, s>>] \in Nat
                             /\ (credited[<<o, s>>] > 0 => credited[<<o, s>>] = broker[o].executed)
      BY GuardTypes DEF GuardInv, FillsOwned
    <3>6. \/ P[o] = broker[o].executed
          \/ C[o] >= broker[o].executed
          \/ A[o] = broker[o].executed
      <4>1. CASE o \in Open
        BY <1>0, <1>2, <3>3, <4>1
      <4>2. CASE credited[<<o, "row">>] > 0
        BY <1>0, <1>1, <3>5, <4>2 DEF Sources
      <4>3. CASE \E e \in fillEvents : e.order = o /\ e.source = "poll"
        <5>1. PICK e \in fillEvents : e.order = o /\ e.source = "poll"
          BY <4>3
        <5>2. CASE credited[<<o, "poll">>] = 0
          BY <1>0, <5>1, <5>2 DEF Unapplied, Waiting
        <5>3. CASE credited[<<o, "poll">>] # 0
          BY <1>0, <1>1, <3>5, <5>3 DEF Sources
        <5> QED BY <5>2, <5>3
      <4> QED BY <3>4, <4>1, <4>2, <4>3 DEF Covered
    <3> QED BY <2>0, <3>1, <3>6, <3>7
  <2> QED BY <2>1, <2>2, <2>3
<1> DEFINE Sum(f, S) == SumFunctionOnSet(f, S)
<1>6. Sum(X, Orders) <= Sum(CPA, Orders)
  <2>1. \A o \in Orders : X[o] \in Int /\ CPA[o] \in Int /\ X[o] <= CPA[o]
    BY <1>4, <1>5
  <2> QED BY <1>2, <2>1, SumAtMost
<1>7. Sum(CPA, Orders) = Sum(C, Orders) + Sum(PA, Orders)
  <2>1. \A o \in Orders : C[o] \in Int /\ PA[o] \in Int /\ CPA[o] = C[o] + PA[o]
    BY <1>4
  <2> QED BY <1>2, <2>1, SumPlus
<1>8. Sum(PA, Orders) = Sum(P, Orders) + Sum(A, Orders)
  <2>1. \A o \in Orders : P[o] \in Int /\ A[o] \in Int /\ PA[o] = P[o] + A[o]
    BY <1>4
  <2> QED BY <1>2, <2>1, SumPlus
<1>9. Sum(P, Orders) <= Sum(R, Open)
  <2> DEFINE f == [o \in Orders |-> o]
  <2>1. \A o \in Orders : f[o] = o
    OBVIOUS
  <2> HIDE DEF f
  <2>2. \A o \in Orders : P[o] \in Nat
    BY <1>4
  <2>3. \A o \in Open : R[o] \in Nat
    BY <1>0, <1>2
  <2>4. ASSUME NEW o \in Orders, P[o] # 0 PROVE f[o] \in Open /\ P[o] <= R[f[o]]
    <3>1. o \in Open /\ P[o] = R[o]
      BY <1>0, <2>4
    <3>2. R[o] \in Nat
      BY <2>3, <3>1
    <3> QED BY <2>1, <3>1, <3>2
  <2>5. \A o, p \in Orders : P[o] # 0 /\ P[p] # 0 /\ f[o] = f[p] => o = p
    BY <2>1
  <2> QED BY <1>2, <2>2, <2>3, <2>4, <2>5, SumInto
<1>10. Sum(A, Orders) <= Sum(Q, Unapplied)
  <2> DEFINE f == [o \in Orders |-> CHOOSE e \in Unapplied : e.order = o /\ e.source = "poll"]
  <2>1. ASSUME NEW o \in Orders, A[o] # 0
        PROVE  f[o] \in Unapplied /\ f[o].order = o /\ A[o] <= Q[f[o]]
    <3>1. o \in Waiting
      BY <1>0, <2>1
    <3>2. f[o] \in Unapplied /\ f[o].order = o /\ f[o].source = "poll"
      BY <3>1 DEF Waiting
    <3>3. f[o].quantity = broker[o].executed
      BY <3>2 DEF Unapplied, GuardInv, FillsOwned
    <3>4. A[o] = broker[o].executed /\ Q[f[o]] = f[o].quantity
      BY <1>0, <3>1, <3>2
    <3> HIDE DEF f
    <3>5. broker[o].executed \in Nat
      BY <1>1
    <3> QED BY <3>2, <3>3, <3>4, <3>5
  <2>2. \A e \in Unapplied : Q[e] \in Nat
    BY <1>0, <1>3
  <2>3. \A o \in Orders : A[o] \in Nat
    BY <1>4
  <2> HIDE DEF f
  <2>4. \A o \in Orders : A[o] # 0 => f[o] \in Unapplied /\ A[o] <= Q[f[o]]
    BY <2>1
  <2>5. \A o, p \in Orders : A[o] # 0 /\ A[p] # 0 /\ f[o] = f[p] => o = p
    BY <2>1
  <2> QED BY <1>2, <1>3, <2>2, <2>3, <2>4, <2>5, SumInto
<1>12. /\ Sum(C, Orders) \in Int /\ Sum(PA, Orders) \in Int /\ Sum(P, Orders) \in Int
       /\ Sum(A, Orders) \in Int /\ Sum(X, Orders) \in Int
  <2>1. \A o \in Orders : C[o] \in Int /\ P[o] \in Int /\ A[o] \in Int /\ PA[o] \in Int /\ X[o] \in Int
    BY <1>4, <1>5
  <2> QED BY <1>2, <2>1, SumType
<1>13. Sum(R, Open) \in Int /\ Sum(Q, Unapplied) \in Int
  <2>1. (\A o \in Open : R[o] \in Int) /\ (\A e \in Unapplied : Q[e] \in Int)
    BY <1>0, <1>2, <1>3
  <2> QED BY <1>2, <1>3, <2>1, SumType
<1>14. /\ Total = Sum(X, Orders) /\ Held = Sum(C, Orders)
       /\ Pending = Sum(R, Open) /\ Awaited = Sum(Q, Unapplied)
  BY <1>11
<1> HIDE DEF Sum
<1> QED BY <1>6, <1>7, <1>8, <1>9, <1>10, <1>12, <1>13, <1>14 DEF Projected

\* The total does not grow if no exposure does.
LEMMA TotalKept ==
  ASSUME GuardInv, \A o \in Orders : Exposure(o)' \in Nat /\ Exposure(o)' <= Exposure(o)
  PROVE  Total' \in Nat /\ Total' <= Total
<1> DEFINE W == [o \in Orders |-> Exposure(o)]
           V == [o \in Orders |-> Exposure(o)']
<1>1. Total = SumFunctionOnSet(W, Orders) /\ Total' = SumFunctionOnSet(V, Orders)
  BY DEF Total, SumFunction
<1>2. \A o \in Orders : V[o] \in Int /\ W[o] \in Int /\ V[o] <= W[o] /\ V[o] \in Nat
  BY ExposureIs
<1>3. IsFiniteSet(Orders)
  BY RuntimeAssumption
<1> HIDE DEF V, W
<1>4. SumFunctionOnSet(V, Orders) <= SumFunctionOnSet(W, Orders)
  BY <1>2, <1>3, SumAtMost
<1>5. SumFunctionOnSet(V, Orders) \in Nat
  BY <1>2, <1>3, SumNatOn
<1> QED BY <1>1, <1>4, <1>5

\* What is left of a target takes no total over it.
LEMMA WhatIsLeft ==
  ASSUME NEW t \in Int, NEW p \in Int, NEW m \in Int, NEW u \in Int, NEW v \in Int,
         v <= u, u <= p, m <= t - p
  PROVE  v + m <= t
OBVIOUS

\* Nothing more is reserved if no exposure grows and the submit in progress has
\* what it had in hand, or nothing.
LEMMA ReservedKept ==
  ASSUME GuardInv,
         \A o \in Orders : Exposure(o)' \in Nat /\ Exposure(o)' <= Exposure(o),
         \/ submitter' = submitter
         \/ submitter'.pc \notin {"admitted", "recorded", "registered"},
         \A o \in DOMAIN ticket : ticket'[o].quantity = ticket[o].quantity
  PROVE  Reserved'
<1>1. Total' \in Nat /\ Total' <= Total /\ Total \in Nat
  BY TotalKept, TotalType
<1>2. InHand \in Nat /\ Total + InHand <= Target /\ Target \in Nat
  <2>1. submitter.pc = "admitted" => submitter.quantity \in Nat
    BY RuntimeAssumption DEF GuardInv, LogInv, TicketInHand
  <2>2. submitter.pc \in {"recorded", "registered"} => submitter.quantity \in Nat
    BY GuardTypes DEF GuardInv, Reserved
  <2> QED BY <2>1, <2>2, RuntimeAssumption DEF InHand, GuardInv, Reserved
<1>3. InHand' \in {0, InHand}
  BY DEF InHand
<1>4. Total' + InHand' <= Target
  <2>1. InHand' \in Int /\ InHand' <= Target - Total /\ Target \in Int
    <3>1. Total \in Nat /\ InHand \in Nat /\ Target \in Nat /\ InHand <= Target - Total
      BY <1>1, <1>2
    <3>2. CASE InHand' = 0
      BY <3>1, <3>2
    <3>3. CASE InHand' = InHand
      BY <3>1, <3>3
    <3> QED BY <1>3, <3>2, <3>3
  <2>2. Total \in Int /\ Total' \in Int /\ Total' <= Total /\ Total <= Total
    BY <1>1
  <2> QED BY <2>1, <2>2, WhatIsLeft
<1>5. submitter'.pc \in {"recorded", "registered"}
        => \A o \in submitter'.order : ticket'[o].quantity = submitter'.quantity
  BY GuardTypes DEF GuardInv, Reserved
<1> QED BY <1>4, <1>5 DEF Reserved

\* The parts of the invariant that speak of the broker, the log and the account,
\* and those that speak of the pass.
WorldInv == WholeFills /\ FillsOwned /\ (\A o \in Open : ticket[o].filled = 0)
PassInv == OneAtATime /\ PassOK /\ RowsCurrent
Guarded == PassInv /\ WorldInv /\ OpenUnfilled /\ RepliesTrue /\ ExecutedCovered /\ Reserved

\* In a world that stays the same they stay true.
LEMMA WorldSame ==
  ASSUME GuardInv, UNCHANGED <<brokerVars, logVars, credited>>
  PROVE  /\ WorldInv' /\ Open' = Open
         /\ \A o \in Orders : Exposure(o)' = Exposure(o) /\ Exposure(o)' \in Nat
<1>1. UNCHANGED <<gateway, broker, placed, ticket, fillEvents, credited>>
  BY DEF brokerVars, logVars
<1>2. \A o \in Orders : Exposure(o)' = Exposure(o)
  BY <1>1 DEF Exposure
<1>3. WorldInv' /\ Open' = Open
  BY <1>1 DEF GuardInv, WorldInv, WholeFills, FillsOwned, OpenUnfilled, Open, Paper
<1> QED BY <1>2, <1>3, ExposureIs

\* While a submit runs no pass does.
LEMMA SubmitAlone ==
  ASSUME GuardInv, supervisor.pc = "idle", supervisor' = supervisor, gateway' = gateway,
         failures' \in [submit: Nat, supervise: Nat, fetch: Nat]
  PROVE  PassInv' /\ supervisor = NoPass
<1>1. supervisor = NoPass
  BY DEF GuardInv, PassOK
<1> QED BY <1>1 DEF PassInv, OneAtATime, PassOK, RowsCurrent, NoPass

\* While no pass runs, an executed order is accounted for as long as the fills
\* and the credits stay and its ticket does not close.
LEMMA CoveredAlone ==
  ASSUME GuardInv, supervisor.pc = "idle", gateway' = gateway,
         fillEvents \subseteq fillEvents',
         \A o \in Orders : credited'[<<o, "row">>] = credited[<<o, "row">>],
         NEW o \in DOMAIN ticket, broker[o].executed > 0, o \in Open => o \in Open'
  PROVE  Covered(o)'
<1>1. Covered(o) /\ ~Settling(o) /\ o \in Orders
  BY GuardTypes DEF GuardInv, ExecutedCovered, Settling
<1> QED BY <1>1 DEF Covered, Paper

\* The guard admits what is left of the target.
LEMMA GuardEvaluate ==
  ASSUME GuardInv, Undisturbed, NEW o \in Orders, NEW want \in Wants, Evaluate(o, want)
  PROVE  Guarded'
<1>1. /\ supervisor.pc = "idle" /\ supervisor' = supervisor /\ failures' = failures
      /\ UNCHANGED <<brokerVars, logVars, credited>> /\ gateway' = gateway
      /\ submitter'.pc = "admitted"
  BY DEF Evaluate, Undisturbed, accountVars, brokerVars
<1>2. PassInv' /\ supervisor = NoPass
  BY <1>1, SubmitAlone DEF GuardInv, OneAtATime
<1>3. WorldInv' /\ Open' = Open
  BY <1>1, WorldSame
<1>4. OpenUnfilled'
  BY <1>1, <1>3 DEF WorldInv, OpenUnfilled
<1>5. RepliesTrue'
  BY <1>1 DEF GuardInv, RepliesTrue, Paper, brokerVars, logVars
<1>6. ExecutedCovered'
  BY <1>1, <1>3, CoveredAlone DEF ExecutedCovered, brokerVars, logVars
<1>7. Reserved'
  <2>1. PICK p \in Nat : p = Projected
    BY ProjectedType DEF GuardInv
  <2>2. Total \in Nat /\ Total <= p
    BY <1>1, <2>1, TotalType, ProjectedCovers
  <2>3. want \in Int /\ Target \in Nat
    BY RuntimeAssumption
  <2>4. Min({want, Target - p}) \in Int /\ Min({want, Target - p}) <= Target - p
    <3>1. want \in Int /\ Target - p \in Int
      BY <2>1, <2>3
    <3>2. Min({want, Target - p}) = IF want <= Target - p THEN want ELSE Target - p
      BY <3>1, MinIs
    <3> QED BY <3>1, <3>2
  <2>5. InHand' = Min({want, Target - p})
    BY <2>1 DEF Evaluate, InHand
  <2>6. Total' <= Total /\ Total' \in Nat
    <3>1. \A q \in Orders : Exposure(q)' \in Nat /\ Exposure(q)' <= Exposure(q)
      BY <1>1, WorldSame, ExposureIs
    <3> QED BY <3>1, TotalKept
  <2>7. Total' + InHand' <= Target
    <3>1. InHand' \in Int /\ InHand' <= Target - p /\ Target \in Int /\ p \in Int
      BY <2>1, <2>3, <2>4, <2>5
    <3>2. Total \in Int /\ Total' \in Int /\ Total <= p /\ Total' <= Total
      BY <2>2, <2>6
    <3> QED BY <3>1, <3>2, WhatIsLeft
  <2> QED BY <1>1, <2>7 DEF Reserved
<1> QED BY <1>2, <1>3, <1>4, <1>5, <1>6, <1>7 DEF Guarded

\* A new ticket changes nothing for the others, and its order is not at the broker.
LEMMA GuardRecordTicket ==
  ASSUME GuardInv, RecordTicket, LogInv'
  PROVE  Guarded'
<1>1. PICK o \in Orders : submitter.order = {o} /\ submitter.pc = "admitted"
  BY GuardTypes DEF RecordTicket
<1> DEFINE new == [status |-> "created", quantity |-> submitter.quantity, filled |-> 0,
                   number |-> FALSE, opened |-> day]
<1>2. /\ ticket' = [p \in DOMAIN ticket \cup {o} |-> IF p = o THEN new ELSE ticket[p]]
      /\ supervisor.pc = "idle" /\ supervisor' = supervisor /\ failures' = failures
      /\ UNCHANGED <<gateway, day, broker, placed, fillEvents, registered, bound, raw, credited>>
      /\ submitter'.pc = "recorded" /\ submitter'.order = {o}
      /\ submitter'.quantity = submitter.quantity
  BY <1>1, GuardTypes DEF RecordTicket, GuardInv, OneAtATime, brokerVars, accountVars
<1>3. /\ o \notin DOMAIN ticket /\ DOMAIN ticket' = DOMAIN ticket \cup {o} /\ ticket'[o] = new
      /\ \A p \in DOMAIN ticket : ticket'[p] = ticket[p]
  BY <1>1, <1>2 DEF GuardInv, LogInv, PlacedInv, NotYetPlaced
<1>4. /\ new.status = "created" /\ new.filled = 0 /\ new.quantity = submitter.quantity
      /\ new.number = FALSE
  OBVIOUS
<1> HIDE DEF new
<1>5. broker[o].executed = 0 /\ broker[o].state # "working" /\ Exposure(o) = 0
  <2>1. broker[o].executed \in Nat
    BY GuardTypes
  <2>2. broker[o].state # "working" /\ Exposure(o) = 0
    BY <1>3, ExposureIs
  <2> QED BY <1>3, <2>1, <2>2, ExposureIs
<1>6. PassInv' /\ supervisor = NoPass
  BY <1>2, SubmitAlone DEF GuardInv, OneAtATime
<1>7. Open' = Open \cup {o}
  BY <1>3, <1>4 DEF Open, Terminal
<1>8. WorldInv'
  <2>1. WholeFills'
    BY <1>2, <1>3, <1>5, <1>7 DEF WholeFills, GuardInv
  <2>2. FillsOwned'
    BY <1>2 DEF FillsOwned, GuardInv, Paper
  <2>3. \A p \in Open' : ticket'[p].filled = 0
    <3>1. \A p \in Open : p \in DOMAIN ticket /\ ticket[p].filled = 0
      BY DEF GuardInv, OpenUnfilled, Open
    <3> QED BY <1>3, <1>4, <1>7, <3>1
  <2> QED BY <2>1, <2>2, <2>3 DEF WorldInv
<1>9. OpenUnfilled'
  BY <1>2, <1>7, <1>8 DEF OpenUnfilled, WorldInv
<1>10. RepliesTrue'
  BY <1>2, <1>3, <1>4 DEF RepliesTrue, GuardInv, Paper
<1>11. ExecutedCovered'
  BY <1>2, <1>3, <1>5, <1>7, CoveredAlone DEF ExecutedCovered
<1>12. Reserved'
  <2>1. ASSUME NEW p \in Orders PROVE Exposure(p)' = Exposure(p)
    <3>1. CASE p \in DOMAIN ticket
      BY <1>2, <1>3, <3>1 DEF Exposure
    <3>2. CASE p \notin DOMAIN ticket
      <4>1. broker[p].state # "working"
        BY <3>2, ExposureIs
      <4> QED BY <1>2, <4>1 DEF Exposure
    <3> QED BY <3>1, <3>2
  <2>2. Total' = Total
    BY <2>1 DEF Total
  <2>3. InHand' = InHand
    BY <1>1, <1>2 DEF InHand
  <2>4. Total' + InHand' <= Target
    BY <2>2, <2>3 DEF GuardInv, Reserved
  <2>5. \A p \in submitter'.order : ticket'[p].quantity = submitter'.quantity
    BY <1>2, <1>3, <1>4
  <2> QED BY <2>4, <2>5 DEF Reserved
<1> QED BY <1>6, <1>8, <1>9, <1>10, <1>11, <1>12 DEF Guarded

\* The owner is registered, the number bound, and the reply's poll begun.
LEMMA GuardRegister ==
  ASSUME GuardInv, RegisterTicket \/ ApplyReply \/ CrashSubmit
  PROVE  Guarded'
<1>1. /\ supervisor.pc = "idle" /\ supervisor' = supervisor
      /\ UNCHANGED <<brokerVars, logVars, credited>>
      /\ failures' \in [submit: Nat, supervise: Nat, fetch: Nat]
  BY DEF RegisterTicket, ApplyReply, CrashSubmit, GuardInv, OneAtATime, accountVars
<1>2. UNCHANGED <<gateway, broker, placed, ticket, fillEvents, credited>>
  BY <1>1 DEF brokerVars, logVars
<1>3. \/ /\ submitter.pc = "recorded" /\ submitter'.pc = "registered"
         /\ submitter'.order = submitter.order /\ submitter'.quantity = submitter.quantity
      \/ /\ submitter.pc = "logged" /\ submitter.accepted /\ submitter'.pc = "poll" /\ Paper
         /\ submitter'.order = submitter.order
      \/ submitter'.pc = "idle"
  BY GuardTypes DEF RegisterTicket, ApplyReply, CrashSubmit, NoSubmit
<1>4. PassInv' /\ supervisor = NoPass
  BY <1>1, <1>2, SubmitAlone
<1>5. WorldInv' /\ Open' = Open /\ \A o \in Orders : Exposure(o)' = Exposure(o) /\ Exposure(o)' \in Nat
  BY <1>1, WorldSame
<1>6. OpenUnfilled'
  BY <1>3, <1>5 DEF WorldInv, OpenUnfilled, GuardInv
<1>7. RepliesTrue'
  BY <1>1, <1>2, <1>3 DEF RepliesTrue, GuardInv, Paper
<1>8. ExecutedCovered'
  BY <1>1, <1>2, <1>5, CoveredAlone DEF ExecutedCovered
<1>9. Reserved'
  <2>1. CASE submitter'.pc \notin {"admitted", "recorded", "registered"}
    <3>1. \A o \in Orders : Exposure(o)' \in Nat /\ Exposure(o)' <= Exposure(o)
      BY <1>5
    <3> QED BY <1>2, <2>1, <3>1, ReservedKept
  <2>2. CASE /\ submitter.pc = "recorded" /\ submitter'.pc = "registered"
             /\ submitter'.order = submitter.order /\ submitter'.quantity = submitter.quantity
    <3>1. Total' = Total
      BY <1>5 DEF Total
    <3>2. InHand' = InHand
      BY <2>2 DEF InHand
    <3>3. Total' + InHand' <= Target
      BY <3>1, <3>2 DEF GuardInv, Reserved
    <3> QED BY <1>2, <2>2, <3>3 DEF GuardInv, Reserved
  <2> QED BY <1>3, <2>1, <2>2
<1> QED BY <1>4, <1>5, <1>6, <1>7, <1>8, <1>9 DEF Guarded

\* Sending turns what was in hand into what the broker may execute.
LEMMA GuardSubmit ==
  ASSUME GuardInv, Undisturbed, Submit
  PROVE  Guarded'
<1>1. PICK o \in Orders : submitter.order = {o} /\ submitter.pc = "registered"
  BY GuardTypes DEF Submit
<1>2. PICK answered \in BOOLEAN :
        /\ submitter' = [submitter EXCEPT !.pc = "answered", !.accepted = answered]
        /\ IF answered
           THEN /\ broker' = [broker EXCEPT ![o] = [state |-> "working", executed |-> 0, day |-> day]]
                /\ placed' = [placed EXCEPT ![o] = @ + 1]
           ELSE UNCHANGED <<broker, placed>>
  BY <1>1 DEF Submit, Undisturbed
<1>3. /\ supervisor.pc = "idle" /\ supervisor' = supervisor /\ failures' = failures
      /\ UNCHANGED <<gateway, ticket, fillEvents, bound, credited>>
      /\ submitter'.pc = "answered" /\ submitter'.order = {o} /\ submitter'.accepted = answered
  BY <1>1, <1>2, GuardTypes DEF Submit, GuardInv, OneAtATime, logVars, accountVars
<1>4. o \in Open /\ o \in DOMAIN ticket /\ placed[o] = 0
  BY <1>1 DEF GuardInv, OpenUnfilled, Open, LogInv, PlacedInv, NotYetPlaced
<1>5. broker[o].executed = 0 /\ broker[o].state # "working"
  BY <1>4 DEF GuardInv, LogInv, ExecutedArePlaced
<1>6. /\ \A p \in Orders : broker'[p].executed = broker[p].executed
      /\ \A p \in Orders \ {o} : broker'[p] = broker[p] /\ placed'[p] = placed[p]
      /\ answered => broker'[o].state = "working" /\ broker'[o].executed = 0
      /\ ~answered => broker'[o] = broker[o] /\ placed'[o] = placed[o]
  BY <1>2, <1>5, GuardTypes
<1>7. PassInv' /\ supervisor = NoPass
  BY <1>3, SubmitAlone DEF GuardInv, OneAtATime
<1>8. Open' = Open
  BY <1>3 DEF Open
<1>9. WorldInv'
  <2>1. WholeFills'
    BY <1>3, <1>4, <1>5, <1>6, <1>8, GuardTypes DEF WholeFills, GuardInv
  <2>2. FillsOwned'
    BY <1>3, <1>6, GuardTypes DEF FillsOwned, GuardInv, Paper
  <2> QED BY <1>3, <1>8, <2>1, <2>2 DEF WorldInv, GuardInv, OpenUnfilled
<1>10. OpenUnfilled'
  BY <1>3, <1>4, <1>8, <1>9 DEF OpenUnfilled, WorldInv
<1>11. RepliesTrue'
  <2>1. submitter'.pc = "answered" /\ ~submitter'.accepted => \A p \in submitter'.order : placed'[p] = 0
    BY <1>3, <1>4, <1>6
  <2>2. (submitter'.pc \in {"answered", "logged"} /\ submitter'.accepted) \/ submitter'.pc = "poll"
            => \A p \in submitter'.order : broker'[p].state = "working"
    BY <1>3, <1>6
  <2>3. Paper' => \A p \in DOMAIN ticket' : ticket'[p].status \in {"submitted", "accepted"}
            => broker'[p].state = "working" \/ p \in DOMAIN supervisor'.closing
    <3>1. ASSUME Paper, NEW p \in DOMAIN ticket, ticket[p].status \in {"submitted", "accepted"}
          PROVE  broker'[p].state = "working"
      <4>1. broker[p].state = "working" /\ p \in Orders
        BY <1>7, <3>1, GuardTypes DEF GuardInv, RepliesTrue, NoPass
      <4> QED BY <1>5, <1>6, <4>1
    <3> QED BY <1>3, <3>1 DEF Paper
  <2> QED BY <1>3, <2>1, <2>2, <2>3 DEF RepliesTrue
<1>12. ExecutedCovered'
  BY <1>3, <1>6, <1>8, GuardTypes, CoveredAlone DEF ExecutedCovered
<1>13. Reserved'
  <2>1. CASE ~answered
    <3>1. \A p \in Orders : Exposure(p)' = Exposure(p) /\ Exposure(p) \in Nat
      BY <1>3, <1>6, <2>1, ExposureIs DEF Exposure
    <3>2. \A p \in Orders : Exposure(p)' \in Nat /\ Exposure(p)' <= Exposure(p)
      BY <3>1
    <3> QED BY <1>3, <3>2, ReservedKept
  <2>2. CASE answered
    <3> DEFINE W == [p \in Orders |-> Exposure(p)]
               V == [p \in Orders |-> Exposure(p)']
    <3>1. Total = SumFunctionOnSet(W, Orders) /\ Total' = SumFunctionOnSet(V, Orders)
      BY DEF Total, SumFunction
    <3>2. W[o] = 0 /\ V[o] = ticket[o].quantity /\ ticket[o].quantity \in Nat
      <4>1. Exposure(o) = 0
        BY <1>5, ExposureIs
      <4>2. ticket[o].quantity \in Nat
        BY <1>4, GuardTypes
      <4>3. Exposure(o)' = ticket[o].quantity
        BY <1>3, <1>6, <2>2, <4>2 DEF Exposure
      <4> QED BY <4>1, <4>2, <4>3
    <3>3. \A p \in Orders \ {o} : V[p] = W[p]
      BY <1>3, <1>6 DEF Exposure
    <3>4. \A p \in Orders : W[p] \in Int
      BY ExposureIs
    <3> HIDE DEF V, W
    <3>5. \A p \in Orders : W[p] \in Int /\ V[p] \in Int
      BY <3>2, <3>3, <3>4
    <3>6. Total' = Total + (V[o] - W[o])
      BY <3>1, <3>3, <3>5, RuntimeAssumption, SumMoved
    <3>7. Total' = Total + submitter.quantity /\ submitter.quantity \in Nat
      <4>1. ticket[o].quantity = submitter.quantity
        BY <1>1 DEF GuardInv, Reserved
      <4>2. Total \in Nat
        BY TotalType
      <4> QED BY <3>2, <3>6, <4>1, <4>2
    <3>8. Total + submitter.quantity <= Target
      BY <1>1 DEF GuardInv, Reserved, InHand
    <3>9. Total' <= Target /\ Total' \in Nat
      BY <3>7, <3>8, TotalType
    <3>10. InHand' = 0
      BY <1>3 DEF InHand
    <3>11. Total' + InHand' <= Target
      BY <3>9, <3>10
    <3> QED BY <1>3, <3>11 DEF Reserved
  <2> QED BY <2>1, <2>2
<1> QED BY <1>7, <1>9, <1>10, <1>11, <1>12, <1>13 DEF Guarded

\* A refused order was not sent, so its ticket may close.
LEMMA GuardReply ==
  ASSUME GuardInv, RecordReply
  PROVE  Guarded'
<1>1. PICK o \in Orders : submitter.order = {o} /\ submitter.pc = "answered"
  BY GuardTypes DEF RecordReply
<1> DEFINE st == IF ~submitter.accepted THEN "rejected" ELSE IF Paper THEN "submitted" ELSE "accepted"
<1>2. ticket' = [ticket EXCEPT ![o].status = st, ![o].number = @ \/ submitter.accepted]
  BY <1>1 DEF RecordReply
<1>3. /\ supervisor.pc = "idle" /\ supervisor' = supervisor /\ failures' = failures
      /\ UNCHANGED <<gateway, broker, placed, fillEvents, bound, credited>>
      /\ submitter'.pc = "logged" /\ submitter'.order = {o}
      /\ submitter'.accepted = submitter.accepted
  BY <1>1, GuardTypes DEF RecordReply, GuardInv, OneAtATime, brokerVars, accountVars
<1>4. o \in Open /\ o \in DOMAIN ticket
  BY <1>1 DEF GuardInv, OpenUnfilled, Open
<1>5. /\ DOMAIN ticket' = DOMAIN ticket
      /\ \A p \in DOMAIN ticket : /\ ticket'[p].filled = ticket[p].filled
                                  /\ ticket'[p].quantity = ticket[p].quantity
                                  /\ p # o => ticket'[p] = ticket[p]
      /\ ticket'[o].status = st
  <2>1. ticket[o] \in TicketType
    BY <1>4, GuardTypes
  <2> HIDE DEF st
  <2> QED BY <1>2, <1>4, <2>1 DEF TicketType
<1>6. ~submitter.accepted => broker[o].executed = 0 /\ broker[o].state # "working"
  <2>1. ~submitter.accepted => placed[o] = 0
    BY <1>1 DEF GuardInv, RepliesTrue
  <2> QED BY <2>1 DEF GuardInv, LogInv, ExecutedArePlaced
<1>7. /\ \A p \in DOMAIN ticket : p # o => (p \in Open' <=> p \in Open)
      /\ o \in Open' <=> submitter.accepted
      /\ Open' \subseteq Open
  <2>1. \A p \in DOMAIN ticket : p # o => (p \in Open' <=> p \in Open)
    BY <1>5 DEF Open
  <2>2. o \in Open' <=> submitter.accepted
    BY <1>4, <1>5 DEF Open, Terminal
  <2>3. Open' \subseteq Open
    BY <1>4, <1>5, <2>1 DEF Open
  <2> QED BY <2>1, <2>2, <2>3
<1> HIDE DEF st
<1>8. PassInv' /\ supervisor = NoPass
  BY <1>3, SubmitAlone DEF GuardInv, OneAtATime
<1>9. WorldInv'
  <2>1. WholeFills'
    BY <1>3, <1>4, <1>5, <1>6, <1>7 DEF WholeFills, GuardInv
  <2>2. FillsOwned'
    BY <1>3 DEF FillsOwned, GuardInv, Paper
  <2>3. \A p \in Open' : ticket'[p].filled = 0
    BY <1>5, <1>7 DEF GuardInv, OpenUnfilled, Open
  <2> QED BY <2>1, <2>2, <2>3 DEF WorldInv
<1>10. OpenUnfilled'
  BY <1>3, <1>7, <1>9 DEF OpenUnfilled, WorldInv
<1>11. RepliesTrue'
  <2>1. Paper /\ submitter.accepted => broker[o].state = "working"
    BY <1>1 DEF GuardInv, RepliesTrue
  <2>2. ~submitter.accepted => st \notin {"submitted", "accepted"}
    BY DEF st
  <2>3. Paper' => \A p \in DOMAIN ticket' : ticket'[p].status \in {"submitted", "accepted"}
            => broker'[p].state = "working" \/ p \in DOMAIN supervisor'.closing
    <3>1. ASSUME Paper, NEW p \in DOMAIN ticket, ticket'[p].status \in {"submitted", "accepted"}
          PROVE  broker[p].state = "working" \/ p \in DOMAIN supervisor.closing
      <4>1. CASE p = o
        BY <1>5, <2>1, <2>2, <3>1, <4>1
      <4>2. CASE p # o
        BY <1>5, <3>1, <4>2 DEF GuardInv, RepliesTrue
      <4> QED BY <4>1, <4>2
    <3> QED BY <1>3, <1>5, <3>1 DEF Paper
  <2> QED BY <1>3, <2>1, <2>3 DEF RepliesTrue, Paper
<1>12. ExecutedCovered'
  <2>1. ASSUME NEW p \in DOMAIN ticket, broker[p].executed > 0, p \in Open PROVE p \in Open'
    <3>1. broker[p].executed # 0
      BY <2>1, GuardTypes
    <3> QED BY <1>6, <1>7, <2>1, <3>1
  <2> QED BY <1>3, <1>5, <2>1, CoveredAlone DEF ExecutedCovered
<1>13. Reserved'
  <2>1. ASSUME NEW p \in Orders PROVE Exposure(p)' = Exposure(p)
    <3>1. broker[p].state = "working" => p \in DOMAIN ticket
      BY ExposureIs
    <3> QED BY <1>3, <1>5, <3>1 DEF Exposure
  <2>2. \A p \in Orders : Exposure(p)' \in Nat /\ Exposure(p)' <= Exposure(p)
    <3>1. \A p \in Orders : Exposure(p) \in Nat
      BY ExposureIs
    <3> QED BY <2>1, <3>1
  <2> QED BY <1>3, <1>5, <2>2, ReservedKept
<1> QED BY <1>8, <1>9, <1>10, <1>11, <1>12, <1>13 DEF Guarded

\* The paper gateway executes and logs in full what still works.
LEMMA PolledWorld ==
  ASSUME GuardInv, Paper, NEW S, S \subseteq Open, \A o \in S : broker[o].state = "working",
         LogPolled(S)
  PROVE  /\ WorldInv' /\ Open' = Open \ S /\ DOMAIN ticket' = DOMAIN ticket
         /\ \A o \in Orders : Exposure(o)' = Exposure(o)
         /\ \A o \in DOMAIN ticket : ticket'[o].quantity = ticket[o].quantity
         /\ \A o \in DOMAIN ticket \ S : ticket'[o] = ticket[o] /\ broker'[o] = broker[o]
         /\ \A o \in S : ticket'[o].status = "filled"
         /\ \A o \in S : \E e \in fillEvents' : e.order = o /\ e.source = "poll"
         /\ fillEvents \subseteq fillEvents'
         /\ UNCHANGED <<gateway, placed, bound, credited, failures>>
<1>1. S \subseteq DOMAIN ticket
  BY DEF Open
<1>2. /\ DOMAIN ticket' = DOMAIN ticket
      /\ \A o \in DOMAIN ticket :
           /\ ticket'[o].quantity = ticket[o].quantity
           /\ ticket'[o].filled = IF o \in S THEN ticket[o].quantity ELSE ticket[o].filled
           /\ broker'[o].executed = IF o \in S THEN ticket[o].quantity ELSE broker[o].executed
      /\ \A o \in Orders \ S : broker'[o] = broker[o]
  BY <1>1, LogPolledIs DEF GuardInv
<1>3. /\ UNCHANGED <<gateway, placed, bound, credited, failures>>
      /\ fillEvents' = fillEvents \cup {Fill(o, Remaining(o), "poll") : o \in S}
      /\ ticket' = [o \in DOMAIN ticket |->
            IF o \in S THEN WithFill(ticket[o], Remaining(o), TRUE) ELSE ticket[o]]
      /\ broker' = [o \in Orders |->
            IF o \in S THEN [broker[o] EXCEPT !.state = "closed", !.executed = ticket[o].quantity]
                       ELSE broker[o]]
  BY DEF LogPolled, accountVars
<1>4. \A o \in S : /\ o \in Orders /\ broker[o].executed = 0 /\ broker'[o].state = "closed"
                   /\ ticket'[o].status = "filled" /\ Remaining(o) = ticket[o].quantity
                   /\ ticket[o].quantity \in Nat \ {0}
  <2> SUFFICES ASSUME NEW o \in S
               PROVE  /\ o \in Orders /\ broker[o].executed = 0 /\ broker'[o].state = "closed"
                      /\ ticket'[o].status = "filled" /\ Remaining(o) = ticket[o].quantity
                      /\ ticket[o].quantity \in Nat \ {0}
    OBVIOUS
  <2>1. o \in Orders /\ o \in DOMAIN ticket /\ ticket[o] \in TicketType
        /\ ticket[o].quantity \in Nat \ {0} /\ broker[o].executed = 0 /\ ticket[o].filled = 0
    BY <1>1, GuardTypes DEF GuardInv, WholeFills, OpenUnfilled
  <2>2. broker'[o].state = "closed"
    BY <1>3, <2>1, GuardTypes
  <2>3. ticket'[o].status = "filled"
    <3>1. ticket'[o] = WithFill(ticket[o], Remaining(o), TRUE)
      BY <1>3, <2>1
    <3> QED BY <2>1, <3>1 DEF WithFill, TicketType
  <2> QED BY <2>1, <2>2, <2>3 DEF Remaining
<1>5. Open' = Open \ S
  BY <1>1, <1>2, <1>3, <1>4 DEF Open, Terminal
<1>6. \A o \in DOMAIN ticket \ S : ticket'[o] = ticket[o] /\ broker'[o] = broker[o]
  BY <1>2, <1>3, GuardTypes
<1>7. WholeFills'
  <2> SUFFICES ASSUME NEW o \in DOMAIN ticket
               PROVE  /\ broker'[o].executed \in {0, ticket'[o].quantity}
                      /\ broker'[o].state = "working" => broker'[o].executed = 0 /\ o \in Open'
    BY <1>2 DEF WholeFills
  <2>1. CASE o \in S
    BY <1>2, <1>4, <2>1
  <2>2. CASE o \notin S
    BY <1>5, <1>6, <2>2 DEF GuardInv, WholeFills
  <2> QED BY <2>1, <2>2
<1>8. ASSUME NEW o \in Orders
      PROVE  /\ \A e \in fillEvents : e.order = o => o \notin S
             /\ \A s \in Sources : credited[<<o, s>>] > 0 => o \notin S
             /\ o \notin S => broker'[o].executed = broker[o].executed
  <2>1. ASSUME o \in S, NEW e \in fillEvents, e.order = o PROVE FALSE
    <3>1. e.quantity > 0 /\ e.quantity = broker[o].executed /\ broker[o].executed = 0
      BY <1>4, <2>1, GuardTypes DEF GuardInv, FillsOwned, Sources
    <3> QED BY <3>1
  <2>2. ASSUME o \in S, NEW s \in Sources, credited[<<o, s>>] > 0 PROVE FALSE
    <3>1. credited[<<o, s>>] = 0
      BY <1>4, <2>2 DEF GuardInv, FillsOwned
    <3> QED BY <2>2, <3>1
  <2> QED BY <1>2, <2>1, <2>2
<1>9. FillsOwned'
  <2>1. ASSUME NEW e \in fillEvents
        PROVE  /\ e.quantity > 0 /\ (e.source = "row" => ~Paper /\ credited[<<e.order, "row">>] > 0)
               /\ (e.source = "poll" => Paper /\ e.quantity = broker'[e.order].executed)
    BY <1>8, GuardTypes DEF GuardInv, FillsOwned
  <2>2. ASSUME NEW o \in S
        PROVE  LET e == Fill(o, Remaining(o), "poll") IN
               e.quantity > 0 /\ e.source = "poll" /\ e.quantity = broker'[e.order].executed
    BY <1>1, <1>2, <1>4 DEF Fill
  <2>3. \A o \in Orders, s \in Sources :
          credited[<<o, s>>] > 0 => credited[<<o, s>>] = broker'[o].executed
    BY <1>8 DEF GuardInv, FillsOwned
  <2>4. ASSUME NEW e \in fillEvents'
        PROVE  /\ e.quantity > 0 /\ (e.source = "row" => ~Paper /\ credited[<<e.order, "row">>] > 0)
               /\ (e.source = "poll" => Paper /\ e.quantity = broker'[e.order].executed)
    <3>1. CASE e \in fillEvents
      BY <2>1, <3>1
    <3>2. ASSUME NEW o \in S, e = Fill(o, Remaining(o), "poll")
          PROVE  e.quantity > 0 /\ e.source = "poll" /\ e.quantity = broker'[e.order].executed
      BY <2>2, <3>2
    <3> QED BY <1>3, <3>1, <3>2
  <2> QED BY <1>3, <2>3, <2>4 DEF FillsOwned, Paper
<1>10. \A o \in Open' : ticket'[o].filled = 0
  BY <1>5, <1>6 DEF Open, GuardInv, OpenUnfilled
<1>11. ASSUME NEW o \in Orders PROVE Exposure(o)' = Exposure(o)
  <2>1. CASE o \in S
    <3>1. broker'[o].executed = ticket[o].quantity /\ broker'[o].state = "closed"
      BY <1>1, <1>2, <1>4, <2>1
    <3> QED BY <1>4, <2>1, <3>1, ExposureIs DEF Exposure
  <2>2. CASE o \notin S
    <3>1. broker'[o] = broker[o] /\ (broker[o].state = "working" => ticket'[o].quantity = ticket[o].quantity)
      BY <1>2, <2>2, ExposureIs
    <3> QED BY <3>1 DEF Exposure
  <2> QED BY <2>1, <2>2
<1>12. ASSUME NEW o \in S PROVE \E e \in fillEvents' : e.order = o /\ e.source = "poll"
  <2>1. Fill(o, Remaining(o), "poll") \in fillEvents'
    BY <1>3
  <2> QED BY <2>1 DEF Fill
<1> QED BY <1>2, <1>3, <1>4, <1>5, <1>6, <1>7, <1>9, <1>10, <1>11, <1>12 DEF WorldInv

\* The gateway executes and logs what the submit has sent.
LEMMA GuardSubmitPoll == ASSUME GuardInv, SubmitPoll PROVE Guarded'
<1>1. PICK o \in Orders : submitter.order = {o} /\ submitter.pc = "poll"
  BY GuardTypes DEF SubmitPoll
<1>2. /\ supervisor.pc = "idle" /\ supervisor' = supervisor /\ submitter'.pc = "polled"
      /\ LogPolled({o})
  BY <1>1, GuardTypes DEF SubmitPoll, GuardInv, OneAtATime
<1>3. Paper /\ {o} \subseteq Open /\ broker[o].state = "working"
  BY <1>1 DEF GuardInv, RepliesTrue, OpenUnfilled
<1>4. /\ WorldInv' /\ Open' = Open \ {o} /\ DOMAIN ticket' = DOMAIN ticket
      /\ \A p \in Orders : Exposure(p)' = Exposure(p)
      /\ \A p \in DOMAIN ticket : ticket'[p].quantity = ticket[p].quantity
      /\ \A p \in DOMAIN ticket \ {o} : ticket'[p] = ticket[p] /\ broker'[p] = broker[p]
      /\ ticket'[o].status = "filled"
      /\ \E e \in fillEvents' : e.order = o /\ e.source = "poll"
      /\ fillEvents \subseteq fillEvents'
      /\ UNCHANGED <<gateway, placed, bound, credited, failures>>
  <2>1. \A p \in {o} : broker[p].state = "working"
    BY <1>3
  <2> QED BY <1>2, <1>3, <2>1, PolledWorld
<1>5. PassInv' /\ supervisor = NoPass
  <2>1. failures' \in [submit: Nat, supervise: Nat, fetch: Nat]
    BY <1>4 DEF GuardInv, OneAtATime
  <2> QED BY <1>2, <1>4, <2>1, SubmitAlone
<1>6. OpenUnfilled'
  BY <1>2, <1>4 DEF OpenUnfilled, WorldInv
<1>7. RepliesTrue'
  <2>1. Paper' => \A p \in DOMAIN ticket' : ticket'[p].status \in {"submitted", "accepted"}
            => broker'[p].state = "working" \/ p \in DOMAIN supervisor'.closing
    BY <1>2, <1>3, <1>4 DEF GuardInv, RepliesTrue
  <2> QED BY <1>2, <1>3, <1>4, <2>1 DEF RepliesTrue, Paper
<1>8. ExecutedCovered'
  <2> SUFFICES ASSUME NEW p \in DOMAIN ticket, broker'[p].executed > 0 PROVE Covered(p)'
    BY <1>4 DEF ExecutedCovered
  <2>1. CASE p = o
    BY <1>3, <1>4, <2>1 DEF Covered, Paper
  <2>2. CASE p # o
    <3>1. \E e \in fillEvents : e.order = p /\ e.source = "poll"
      BY <1>3, <1>4, <2>2 DEF GuardInv, ExecutedCovered, Covered
    <3> QED BY <1>3, <1>4, <3>1 DEF Covered, Paper
  <2> QED BY <2>1, <2>2
<1>9. Reserved'
  <2>1. \A p \in Orders : Exposure(p)' \in Nat /\ Exposure(p)' <= Exposure(p)
    <3>1. \A p \in Orders : Exposure(p) \in Nat
      BY ExposureIs
    <3> QED BY <1>4, <3>1
  <2> QED BY <1>2, <1>4, <2>1, ReservedKept
<1> QED BY <1>4, <1>5, <1>6, <1>7, <1>8, <1>9 DEF Guarded

\* The account takes over a polled fill as it was executed.
LEMMA AppliedWorld ==
  ASSUME GuardInv, NEW o \in Orders, ApplyPolled(o)
  PROVE  /\ WorldInv' /\ Open' = Open /\ Paper
         /\ \A p \in Orders : Exposure(p)' = Exposure(p) /\ Exposure(p)' \in Nat
         /\ UNCHANGED <<gateway, day, broker, placed, ticket, fillEvents, failures>>
<1>1. PICK e \in fillEvents :
        /\ e.order = o /\ e.source = "poll"
        /\ credited' = [credited EXCEPT ![<<o, "poll">>] = e.quantity]
  BY DEF ApplyPolled
<1>2. Paper /\ e.quantity = broker[o].executed
  BY <1>1 DEF GuardInv, FillsOwned
<1>3. UNCHANGED <<gateway, day, broker, placed, ticket, fillEvents, failures>>
  BY DEF ApplyPolled, brokerVars, logVars
<1>4. Open' = Open /\ \A p \in Orders : Exposure(p)' = Exposure(p) /\ Exposure(p)' \in Nat
  BY <1>3, ExposureIs DEF Open, Exposure
<1>5. FillsOwned'
  <2>1. ASSUME NEW p \in Orders, NEW s \in Sources, credited'[<<p, s>>] > 0
        PROVE  credited'[<<p, s>>] = broker[p].executed
    <3>1. CASE <<p, s>> = <<o, "poll">>
      BY <1>1, <1>2, <3>1, GuardTypes
    <3>2. CASE <<p, s>> # <<o, "poll">>
      BY <1>1, <2>1, <3>2, GuardTypes DEF GuardInv, FillsOwned
    <3> QED BY <3>1, <3>2
  <2>2. \A f \in fillEvents : f.source # "row"
    BY <1>2 DEF GuardInv, FillsOwned
  <2> QED BY <1>3, <2>1, <2>2 DEF GuardInv, FillsOwned, Paper
<1>6. WorldInv'
  BY <1>3, <1>4, <1>5 DEF WorldInv, WholeFills, OpenUnfilled, GuardInv
<1> QED BY <1>2, <1>3, <1>4, <1>6

\* With the paper gateway what is logged as polled is accounted for.
LEMMA CoveredPaper ==
  ASSUME GuardInv, Paper, UNCHANGED <<gateway, broker, ticket>>, fillEvents \subseteq fillEvents'
  PROVE  ExecutedCovered'
BY DEF GuardInv, ExecutedCovered, Covered, Paper

\* The fill of a submitted order is applied.
LEMMA GuardSubmitApply == ASSUME GuardInv, SubmitApply PROVE Guarded'
<1>1. PICK o \in Orders : ApplyPolled(o)
  BY GuardTypes DEF SubmitApply
<1>2. /\ supervisor.pc = "idle" /\ supervisor' = supervisor /\ submitter'.pc = "idle"
  BY DEF SubmitApply, GuardInv, OneAtATime, NoSubmit
<1>3. /\ WorldInv' /\ Open' = Open /\ Paper
      /\ \A p \in Orders : Exposure(p)' = Exposure(p) /\ Exposure(p)' \in Nat
      /\ UNCHANGED <<gateway, day, broker, placed, ticket, fillEvents, failures>>
  BY <1>1, AppliedWorld
<1>4. PassInv' /\ supervisor = NoPass
  <2>1. failures' \in [submit: Nat, supervise: Nat, fetch: Nat]
    BY <1>3 DEF GuardInv, OneAtATime
  <2> QED BY <1>2, <1>3, <2>1, SubmitAlone
<1>5. OpenUnfilled' /\ RepliesTrue'
  BY <1>2, <1>3 DEF OpenUnfilled, RepliesTrue, WorldInv, GuardInv, Paper
<1>6. ExecutedCovered'
  BY <1>3, CoveredPaper
<1>7. Reserved'
  <2>1. \A p \in Orders : Exposure(p)' \in Nat /\ Exposure(p)' <= Exposure(p)
    BY <1>3
  <2> QED BY <1>2, <1>3, <2>1, ReservedKept
<1> QED BY <1>3, <1>4, <1>5, <1>6, <1>7 DEF Guarded

\* While a pass runs no submit does, and of the guard's invariant only the world's
\* parts, the pass's and those that join the two can change.
LEMMA PassAlone ==
  ASSUME GuardInv, submitter.pc = "idle", submitter' = submitter, UNCHANGED <<gateway, failures>>,
         WorldInv', PassOK', RowsCurrent', ExecutedCovered',
         \A o \in Orders : Exposure(o)' \in Nat /\ Exposure(o)' <= Exposure(o),
         \A o \in DOMAIN ticket : ticket'[o].quantity = ticket[o].quantity,
         Paper => \A o \in DOMAIN ticket' : ticket'[o].status \in {"submitted", "accepted"}
                    => broker'[o].state = "working" \/ o \in DOMAIN supervisor'.closing
  PROVE  Guarded'
<1>1. PassInv'
  BY DEF PassInv, OneAtATime, GuardInv
<1>2. OpenUnfilled'
  BY DEF OpenUnfilled, WorldInv
<1>3. RepliesTrue'
  BY DEF RepliesTrue, Paper
<1>4. Reserved'
  BY ReservedKept
<1> QED BY <1>1, <1>2, <1>3, <1>4 DEF Guarded

\* A pass that only moves on, in a world that stays the same.
LEMMA PassMoves ==
  ASSUME GuardInv, submitter.pc = "idle", submitter' = submitter, failures' = failures,
         UNCHANGED <<brokerVars, logVars, credited>>, PassOK', RowsCurrent',
         \A o \in DOMAIN ticket : broker[o].executed > 0 /\ ~Paper /\ Settling(o) => Settling(o)',
         Paper => DOMAIN supervisor.closing \subseteq DOMAIN supervisor'.closing
  PROVE  Guarded'
<1>1. UNCHANGED <<gateway, broker, placed, ticket, fillEvents, credited>>
  BY DEF brokerVars, logVars
<1>2. WorldInv' /\ Open' = Open /\ \A o \in Orders : Exposure(o)' = Exposure(o) /\ Exposure(o)' \in Nat
  BY WorldSame
<1>3. \A o \in Orders : Exposure(o)' \in Nat /\ Exposure(o)' <= Exposure(o)
  BY <1>2
<1>4. ExecutedCovered'
  <2> SUFFICES ASSUME NEW o \in DOMAIN ticket, broker[o].executed > 0 PROVE Covered(o)'
    BY <1>1 DEF ExecutedCovered
  <2>1. Covered(o)
    BY DEF GuardInv, ExecutedCovered
  <2>2. CASE Paper
    BY <1>1, <2>1, <2>2 DEF Covered, Paper
  <2>3. CASE ~Paper
    BY <1>1, <1>2, <2>1, <2>3 DEF Covered, Paper
  <2> QED BY <2>2, <2>3
<1>5. Paper => \A o \in DOMAIN ticket' : ticket'[o].status \in {"submitted", "accepted"}
                 => broker'[o].state = "working" \/ o \in DOMAIN supervisor'.closing
  BY <1>1 DEF GuardInv, RepliesTrue
<1>6. \A o \in DOMAIN ticket : ticket'[o].quantity = ticket[o].quantity
  BY <1>1
<1> QED BY <1>1, <1>2, <1>3, <1>4, <1>5, <1>6, PassAlone

\* A pass starts, reconciling.
LEMMA GuardStart ==
  ASSUME GuardInv, Undisturbed, NEW r \in Reconciles, StartPass(r)
  PROVE  Guarded'
<1>1. /\ submitter.pc = "idle" /\ supervisor.pc = "idle" /\ r = TRUE
      /\ supervisor' = [NoPass EXCEPT !.pc = IF Paper THEN "poll" ELSE "polled", !.reconcile = r]
      /\ submitter' = submitter /\ failures' = failures
      /\ UNCHANGED <<brokerVars, logVars, credited>> /\ gateway' = gateway
  BY DEF StartPass, Undisturbed, accountVars, brokerVars
<1>2. /\ supervisor'.pc = (IF Paper THEN "poll" ELSE "polled") /\ supervisor'.reconcile
      /\ DOMAIN supervisor'.closing = {} /\ DOMAIN supervisor'.rows = {}
  BY <1>1 DEF NoPass
<1>3. PassOK' /\ RowsCurrent'
  BY <1>1, <1>2 DEF PassOK, RowsCurrent, Paper
<1>4. DOMAIN supervisor.closing = {} /\ \A o \in Orders : ~Settling(o)
  BY <1>1 DEF GuardInv, PassOK, Settling
<1> QED BY <1>1, <1>3, <1>4, GuardTypes, PassMoves

\* The paper gateway fills what is open.
LEMMA GuardPollOpen == ASSUME GuardInv, PollOpen PROVE Guarded'
<1> DEFINE S == {o \in Open : ticket[o].status \in {"submitted", "accepted"}}
<1>1. /\ supervisor.pc = "poll" /\ LogPolled(S) /\ submitter' = submitter
      /\ supervisor' = [supervisor EXCEPT !.pc = "polled", !.todo = S]
  BY DEF PollOpen
<1>2. Paper /\ submitter.pc = "idle" /\ DOMAIN supervisor.closing = {}
      /\ DOMAIN supervisor.rows = {} /\ supervisor.reconcile
  BY <1>1 DEF GuardInv, PassOK, OneAtATime
<1>3. S \subseteq Open /\ \A o \in S : broker[o].state = "working"
  BY <1>2 DEF GuardInv, RepliesTrue, Open
<1>4. \A o \in DOMAIN ticket : ticket[o].status \in {"submitted", "accepted"} => o \in S
  BY DEF Open, Terminal
<1> HIDE DEF S
<1>5. /\ WorldInv' /\ Open' = Open \ S /\ DOMAIN ticket' = DOMAIN ticket
      /\ \A o \in Orders : Exposure(o)' = Exposure(o)
      /\ \A o \in DOMAIN ticket : ticket'[o].quantity = ticket[o].quantity
      /\ \A o \in DOMAIN ticket \ S : ticket'[o] = ticket[o] /\ broker'[o] = broker[o]
      /\ \A o \in S : ticket'[o].status = "filled"
      /\ \A o \in S : \E e \in fillEvents' : e.order = o /\ e.source = "poll"
      /\ fillEvents \subseteq fillEvents'
      /\ UNCHANGED <<gateway, placed, bound, credited, failures>>
  BY <1>1, <1>2, <1>3, PolledWorld
<1>6. /\ supervisor'.pc = "polled" /\ supervisor'.reconcile
      /\ DOMAIN supervisor'.closing = {} /\ DOMAIN supervisor'.rows = {}
  BY <1>1, <1>2, GuardTypes
<1>7. PassOK' /\ RowsCurrent'
  BY <1>6 DEF PassOK, RowsCurrent
<1>8. ExecutedCovered'
  <2> SUFFICES ASSUME NEW o \in DOMAIN ticket, broker'[o].executed > 0 PROVE Covered(o)'
    BY <1>5 DEF ExecutedCovered
  <2>1. CASE o \in S
    BY <1>2, <1>5, <2>1 DEF Covered, Paper
  <2>2. CASE o \notin S
    <3>1. \E e \in fillEvents : e.order = o /\ e.source = "poll"
      BY <1>2, <1>5, <2>2 DEF GuardInv, ExecutedCovered, Covered
    <3> QED BY <1>2, <1>5, <3>1 DEF Covered, Paper
  <2> QED BY <2>1, <2>2
<1>9. \A o \in Orders : Exposure(o)' \in Nat /\ Exposure(o)' <= Exposure(o)
  <2>1. \A o \in Orders : Exposure(o) \in Nat
    BY ExposureIs
  <2> QED BY <1>5, <2>1
<1>10. Paper => \A o \in DOMAIN ticket' : ticket'[o].status \in {"submitted", "accepted"}
                 => broker'[o].state = "working" \/ o \in DOMAIN supervisor'.closing
  <2>1. ASSUME NEW o \in DOMAIN ticket, ticket'[o].status \in {"submitted", "accepted"} PROVE FALSE
    <3>1. o \notin S
      BY <1>5, <2>1
    <3> QED BY <1>4, <1>5, <2>1, <3>1
  <2> QED BY <1>5, <2>1
<1> QED BY <1>1, <1>2, <1>5, <1>7, <1>8, <1>9, <1>10, PassAlone

\* Its fills are applied one by one.
LEMMA GuardApplyPoll == ASSUME GuardInv, NEW o \in Orders, ApplyPoll(o) PROVE Guarded'
<1>1. /\ supervisor.pc = "polled" /\ ApplyPolled(o) /\ submitter' = submitter
      /\ supervisor' = [supervisor EXCEPT !.todo = @ \ {o}]
  BY DEF ApplyPoll
<1>2. submitter.pc = "idle"
  BY <1>1 DEF GuardInv, OneAtATime
<1>3. /\ WorldInv' /\ Open' = Open /\ Paper
      /\ \A p \in Orders : Exposure(p)' = Exposure(p) /\ Exposure(p)' \in Nat
      /\ UNCHANGED <<gateway, day, broker, placed, ticket, fillEvents, failures>>
  BY <1>1, AppliedWorld
<1>4. /\ supervisor'.pc = "polled" /\ supervisor'.reconcile = supervisor.reconcile
      /\ supervisor'.closing = supervisor.closing /\ supervisor'.rows = supervisor.rows
  BY <1>1, GuardTypes
<1>5. PassOK' /\ RowsCurrent'
  <2>1. supervisor.reconcile /\ DOMAIN supervisor.closing = {} /\ DOMAIN supervisor.rows = {}
    BY <1>1 DEF GuardInv, PassOK
  <2> QED BY <1>4, <2>1 DEF PassOK, RowsCurrent
<1>6. ExecutedCovered'
  BY <1>3, CoveredPaper
<1>7. Paper => \A p \in DOMAIN ticket' : ticket'[p].status \in {"submitted", "accepted"}
                 => broker'[p].state = "working" \/ p \in DOMAIN supervisor'.closing
  BY <1>3, <1>4 DEF GuardInv, RepliesTrue
<1>8. /\ \A p \in Orders : Exposure(p)' \in Nat /\ Exposure(p)' <= Exposure(p)
      /\ \A p \in DOMAIN ticket : ticket'[p].quantity = ticket[p].quantity
  BY <1>3
<1> QED BY <1>1, <1>2, <1>3, <1>5, <1>6, <1>7, <1>8, PassAlone

\* Closing tickets whose orders do not work changes no exposure.
LEMMA ClosedWorld ==
  ASSUME GuardInv, NEW S, NEW status \in {"cancelled", "expired"}, LogClosed(S, status),
         \A o \in S : o \in DOMAIN ticket /\ broker[o].state # "working"
  PROVE  /\ WorldInv' /\ Open' = Open \ S /\ DOMAIN ticket' = DOMAIN ticket
         /\ \A o \in Orders : Exposure(o)' = Exposure(o) /\ Exposure(o)' \in Nat
         /\ \A o \in DOMAIN ticket : /\ ticket'[o].quantity = ticket[o].quantity
                                     /\ ticket'[o].number = ticket[o].number
                                     /\ o \notin S => ticket'[o] = ticket[o]
                                     /\ o \in S => ticket'[o].status = status
         /\ UNCHANGED <<brokerVars, fillEvents, accountVars, submitter, failures>>
         /\ UNCHANGED <<gateway, day, broker, placed, bound, credited>>
<1>1. /\ UNCHANGED <<brokerVars, fillEvents, accountVars, submitter, failures>>
      /\ ticket' = [o \in DOMAIN ticket |->
                      IF o \in S THEN WithStatus(ticket[o], status) ELSE ticket[o]]
  BY DEF LogClosed
<1>2. UNCHANGED <<gateway, day, broker, placed, bound, credited, fillEvents>>
  BY <1>1 DEF brokerVars, accountVars
<1>3. DOMAIN ticket' = DOMAIN ticket
  BY <1>1
<1>4. ASSUME NEW o \in DOMAIN ticket
      PROVE  /\ ticket'[o].quantity = ticket[o].quantity
             /\ ticket'[o].number = ticket[o].number
             /\ ticket'[o].filled = ticket[o].filled
             /\ o \notin S => ticket'[o] = ticket[o]
             /\ o \in S => ticket'[o].status = status
  <2>1. ticket[o] \in TicketType
    BY GuardTypes
  <2>2. ticket'[o] = IF o \in S THEN WithStatus(ticket[o], status) ELSE ticket[o]
    BY <1>1
  <2> QED BY <2>1, <2>2 DEF WithStatus, TicketType
<1>5. Open' = Open \ S
  BY <1>3, <1>4 DEF Open, Terminal
<1>6. ASSUME NEW o \in Orders PROVE Exposure(o)' = Exposure(o) /\ Exposure(o)' \in Nat
  <2>1. broker[o].state = "working" => ticket'[o].quantity = ticket[o].quantity
    BY <1>4, ExposureIs
  <2>2. Exposure(o)' = Exposure(o)
    BY <1>2, <2>1 DEF Exposure
  <2> QED BY <2>2, ExposureIs
<1>7. WholeFills'
  BY <1>2, <1>3, <1>4, <1>5 DEF GuardInv, WholeFills
<1>8. FillsOwned'
  BY <1>2 DEF GuardInv, FillsOwned, Paper
<1>9. \A o \in Open' : ticket'[o].filled = 0
  BY <1>4, <1>5 DEF GuardInv, OpenUnfilled, Open
<1> QED BY <1>1, <1>2, <1>3, <1>4, <1>5, <1>6, <1>7, <1>8, <1>9 DEF WorldInv

\* On one day no ticket expires.
LEMMA GuardExpire == ASSUME GuardInv, Undisturbed, ExpireDay PROVE Guarded'
<1> DEFINE S == {o \in Open : day > ticket[o].opened}
<1>1. /\ supervisor.pc = "polled" /\ LogClosed(S, "expired")
      /\ supervisor' = [supervisor EXCEPT !.pc = "expired", !.todo = S]
  BY DEF ExpireDay
<1>2. S = {}
  <2>1. \A o \in Open : ticket[o].opened \in 0..0
    BY GuardTypes DEF Undisturbed, Open, TicketType
  <2>2. day \in 0..0
    BY DEF GuardInv, LogInv, TypeOK, Undisturbed
  <2> QED BY <2>1, <2>2
<1> HIDE DEF S
<1>3. /\ submitter.pc = "idle" /\ supervisor.reconcile
      /\ DOMAIN supervisor.closing = {} /\ DOMAIN supervisor.rows = {}
  BY <1>1 DEF GuardInv, PassOK, OneAtATime
<1>4. /\ WorldInv' /\ Open' = Open /\ DOMAIN ticket' = DOMAIN ticket
      /\ \A o \in Orders : Exposure(o)' = Exposure(o) /\ Exposure(o)' \in Nat
      /\ \A o \in DOMAIN ticket : ticket'[o] = ticket[o]
      /\ UNCHANGED <<fillEvents, submitter, failures>>
      /\ UNCHANGED <<gateway, day, broker, placed, bound, credited>>
  BY <1>1, <1>2, ClosedWorld
<1>5. /\ supervisor'.pc = "expired" /\ supervisor'.reconcile /\ supervisor'.todo = {}
      /\ DOMAIN supervisor'.closing = {} /\ DOMAIN supervisor'.rows = {}
  BY <1>1, <1>2, <1>3, GuardTypes
<1>6. PassOK' /\ RowsCurrent'
  BY <1>5 DEF PassOK, RowsCurrent
<1>7. ExecutedCovered'
  BY <1>1, <1>4 DEF GuardInv, ExecutedCovered, Covered, Settling, Paper
<1>8. Paper => \A o \in DOMAIN ticket' : ticket'[o].status \in {"submitted", "accepted"}
                 => broker'[o].state = "working" \/ o \in DOMAIN supervisor'.closing
  BY <1>3, <1>4 DEF GuardInv, RepliesTrue
<1>9. /\ \A o \in Orders : Exposure(o)' \in Nat /\ Exposure(o)' <= Exposure(o)
      /\ \A o \in DOMAIN ticket : ticket'[o].quantity = ticket[o].quantity
  BY <1>4
<1> QED BY <1>3, <1>4, <1>6, <1>7, <1>8, <1>9, PassAlone

\* The numbers of the closed tickets are bound.
LEMMA GuardBind == ASSUME GuardInv, NEW o \in Orders, BindClosed(o) PROVE Guarded'
<1>1. /\ supervisor.pc \in {"expired", "closed"} /\ o \in supervisor.todo
      /\ bound' = IF ticket[o].number THEN bound \cup {o} ELSE bound
      /\ supervisor' = [supervisor EXCEPT !.todo = @ \ {o}]
      /\ UNCHANGED <<brokerVars, logVars, credited, submitter, failures>>
  BY DEF BindClosed
<1>2. supervisor.pc = "closed" /\ submitter.pc = "idle" /\ o \in Numbered
  BY <1>1 DEF GuardInv, PassOK, OneAtATime
<1>3. bound' = bound \cup {o} /\ UNCHANGED <<gateway, broker, ticket, fillEvents, credited>>
  BY <1>1, <1>2 DEF Numbered, brokerVars, logVars
<1>4. /\ supervisor'.pc = "closed" /\ supervisor'.todo = supervisor.todo \ {o}
      /\ supervisor'.reconcile = supervisor.reconcile
      /\ supervisor'.closing = supervisor.closing /\ supervisor'.rows = supervisor.rows
  BY <1>1, <1>2, GuardTypes
<1>5. PassOK' /\ RowsCurrent'
  BY <1>2, <1>3, <1>4 DEF GuardInv, PassOK, RowsCurrent, Numbered, Paper
<1>6. \A p \in DOMAIN ticket : Settling(p) => Settling(p)'
  BY <1>2, <1>3, <1>4 DEF Settling
<1> QED BY <1>1, <1>2, <1>4, <1>5, <1>6, PassMoves

\* The tickets to cancel have a number.
LEMMA GuardStale == ASSUME GuardInv, NEW S, FindStale(S) PROVE Guarded'
<1>1. /\ supervisor.pc = "expired" /\ S \subseteq Open
      /\ supervisor' = [supervisor EXCEPT !.pc = "cancel", !.todo = {o \in S : ticket[o].number}]
      /\ UNCHANGED <<brokerVars, logVars, credited, submitter, failures>>
  BY DEF FindStale, accountVars
<1>2. /\ submitter.pc = "idle" /\ supervisor.reconcile
      /\ DOMAIN supervisor.closing = {} /\ DOMAIN supervisor.rows = {}
  BY <1>1 DEF GuardInv, PassOK, OneAtATime
<1>3. ticket' = ticket
  BY <1>1 DEF logVars
<1>4. /\ supervisor'.pc = "cancel" /\ supervisor'.todo = {o \in S : ticket[o].number}
      /\ supervisor'.reconcile /\ DOMAIN supervisor'.closing = {} /\ DOMAIN supervisor'.rows = {}
  BY <1>1, <1>2, GuardTypes
<1>5. PassOK' /\ RowsCurrent'
  BY <1>1, <1>3, <1>4 DEF PassOK, RowsCurrent, Numbered, Open
<1>6. \A o \in DOMAIN ticket : ~Settling(o)
  BY <1>1 DEF Settling
<1> QED BY <1>1, <1>2, <1>5, <1>6, PassMoves

\* A cancel call that is answered leaves the order not working.
LEMMA GuardCancel == ASSUME GuardInv, Undisturbed, NEW o \in Orders, CancelStale(o) PROVE Guarded'
<1>1. PICK outcome \in CancelOutcomes(o), reached \in BOOLEAN :
        /\ outcome # "none" => reached
        /\ supervisor' = [supervisor EXCEPT
             !.todo = @ \ {o},
             !.closing = [p \in DOMAIN @ \cup (IF outcome = "none" THEN {} ELSE {o}) |->
                            IF p = o THEN outcome ELSE @[p]]]
        /\ broker' = IF reached THEN [broker EXCEPT ![o].state = "closed"] ELSE broker
  BY DEF CancelStale
<1>2. outcome # "none" /\ reached
  BY <1>1 DEF CancelOutcomes, Undisturbed
<1>3. /\ supervisor.pc = "cancel" /\ o \in supervisor.todo /\ o \in Numbered /\ o \in DOMAIN ticket
      /\ submitter.pc = "idle" /\ DOMAIN supervisor.rows = {} /\ supervisor.reconcile
  BY DEF CancelStale, GuardInv, PassOK, OneAtATime, Numbered
<1>4. UNCHANGED <<gateway, day, placed, logVars, accountVars, submitter, failures>>
      /\ UNCHANGED <<ticket, fillEvents, credited, bound>>
  BY DEF CancelStale, logVars, accountVars
<1>5. /\ broker' = [broker EXCEPT ![o].state = "closed"]
      /\ broker'[o].state = "closed"
      /\ \A p \in Orders : broker'[p].executed = broker[p].executed
      /\ \A p \in Orders \ {o} : broker'[p] = broker[p]
  BY <1>1, <1>2, GuardTypes
<1>6. /\ supervisor'.pc = "cancel" /\ supervisor'.reconcile
      /\ supervisor'.todo = supervisor.todo \ {o}
      /\ DOMAIN supervisor'.closing = DOMAIN supervisor.closing \cup {o}
      /\ supervisor'.rows = supervisor.rows
  BY <1>1, <1>2, <1>3, GuardTypes
<1>7. Open' = Open
  BY <1>4 DEF Open
<1>8. WorldInv'
  <2>1. WholeFills'
    BY <1>4, <1>5, <1>7, GuardTypes DEF GuardInv, WholeFills
  <2>2. FillsOwned'
    BY <1>4, <1>5, GuardTypes DEF GuardInv, FillsOwned, Paper
  <2> QED BY <1>4, <1>7, <2>1, <2>2 DEF WorldInv, GuardInv, OpenUnfilled
<1>9. PassOK' /\ RowsCurrent'
  <2>1. \A p \in DOMAIN supervisor'.closing : p \in Numbered /\ broker'[p].state # "working"
    <3>1. \A p \in DOMAIN supervisor.closing : p \in Numbered /\ p \in Orders /\ broker[p].state # "working"
      BY GuardTypes DEF GuardInv, PassOK, Numbered
    <3> QED BY <1>3, <1>5, <1>6, <3>1
  <2> QED BY <1>3, <1>4, <1>6, <2>1 DEF GuardInv, PassOK, RowsCurrent, Numbered, Paper
<1>10. ExecutedCovered'
  BY <1>3, <1>4, <1>5, <1>7, GuardTypes DEF GuardInv, ExecutedCovered, Covered, Settling, Paper
<1>11. ASSUME NEW p \in Orders PROVE Exposure(p)' \in Nat /\ Exposure(p)' <= Exposure(p)
  <2>1. CASE p = o
    <3>1. Exposure(o)' = broker[o].executed
      <4>1. broker[o].executed \in Nat
        BY GuardTypes
      <4> QED BY <1>5, <4>1 DEF Exposure
    <3>2. broker[o].executed \in Nat /\ ticket[o].quantity \in Nat
          /\ (broker[o].state = "working" => broker[o].executed = 0)
      BY <1>3, GuardTypes DEF GuardInv, WholeFills
    <3>3. broker[o].executed <= Exposure(o)
      BY <3>2, ExposureIs
    <3> QED BY <2>1, <3>1, <3>2, <3>3
  <2>2. CASE p # o
    <3>1. Exposure(p)' = Exposure(p) /\ Exposure(p) \in Nat
      BY <1>4, <1>5, <2>2, ExposureIs DEF Exposure
    <3> QED BY <3>1
  <2> QED BY <2>1, <2>2
<1>12. Paper => \A p \in DOMAIN ticket' : ticket'[p].status \in {"submitted", "accepted"}
                 => broker'[p].state = "working" \/ p \in DOMAIN supervisor'.closing
  BY <1>4, <1>5, <1>6, GuardTypes DEF GuardInv, RepliesTrue
<1>13. \A p \in DOMAIN ticket : ticket'[p].quantity = ticket[p].quantity
  BY <1>4
<1> QED BY <1>3, <1>4, <1>8, <1>9, <1>10, <1>11, <1>12, <1>13, PassAlone

\* A ticket closes; if its order was executed, its row is imported in this pass.
LEMMA GuardRecordClosed == ASSUME GuardInv, RecordClosed PROVE Guarded'
<1> DEFINE status == IF ClosingBy("cancelled") # {} THEN "cancelled" ELSE "expired"
           S == ClosingBy(status)
<1>1. /\ supervisor.pc \in {"cancel", "closed"} /\ supervisor.todo = {}
      /\ LogClosed(S, status)
      /\ supervisor' = [supervisor EXCEPT !.pc = "closed", !.todo = S,
                          !.closing = Restrict(@, DOMAIN @ \ S)]
  BY DEF RecordClosed
<1>2. status \in {"cancelled", "expired"} /\ S \subseteq DOMAIN supervisor.closing
  BY DEF ClosingBy
<1> HIDE DEF status, S
<1>3. /\ submitter.pc = "idle" /\ supervisor.reconcile /\ DOMAIN supervisor.rows = {}
      /\ \A o \in DOMAIN supervisor.closing : o \in Numbered /\ broker[o].state # "working"
  BY <1>1 DEF GuardInv, PassOK, OneAtATime
<1>4. \A o \in S : o \in Numbered /\ o \in DOMAIN ticket /\ broker[o].state # "working"
  BY <1>2, <1>3 DEF Numbered
<1>5. /\ WorldInv' /\ Open' = Open \ S /\ DOMAIN ticket' = DOMAIN ticket
      /\ \A o \in Orders : Exposure(o)' = Exposure(o) /\ Exposure(o)' \in Nat
      /\ \A o \in DOMAIN ticket : /\ ticket'[o].quantity = ticket[o].quantity
                                  /\ ticket'[o].number = ticket[o].number
                                  /\ o \notin S => ticket'[o] = ticket[o]
                                  /\ o \in S => ticket'[o].status = status
      /\ UNCHANGED <<fillEvents, submitter, failures>>
      /\ UNCHANGED <<gateway, day, broker, placed, bound, credited>>
  BY <1>1, <1>2, <1>4, ClosedWorld
<1>6. /\ supervisor'.pc = "closed" /\ supervisor'.todo = S /\ supervisor'.reconcile
      /\ DOMAIN supervisor'.closing = DOMAIN supervisor.closing \ S
      /\ DOMAIN supervisor'.rows = {}
  BY <1>1, <1>3, GuardTypes DEF Restrict
<1>7. Numbered' = Numbered
  BY <1>5 DEF Numbered
<1>8. PassOK' /\ RowsCurrent'
  BY <1>3, <1>4, <1>5, <1>6, <1>7 DEF PassOK, RowsCurrent
<1>9. ExecutedCovered'
  <2> SUFFICES ASSUME NEW o \in DOMAIN ticket, broker[o].executed > 0 PROVE Covered(o)'
    BY <1>5 DEF ExecutedCovered
  <2>1. Covered(o)
    BY DEF GuardInv, ExecutedCovered
  <2>2. CASE Paper
    BY <1>5, <2>1, <2>2 DEF Covered, Paper
  <2>3. CASE ~Paper /\ o \in Open
    BY <1>5, <1>6, <2>3 DEF Covered, Settling, Paper
  <2>4. CASE ~Paper /\ (credited[<<o, "row">>] > 0 \/ Settling(o))
    BY <1>1, <1>5, <1>6, <2>4 DEF Covered, Settling, Paper
  <2> QED BY <2>1, <2>2, <2>3, <2>4 DEF Covered
<1>10. Paper => \A o \in DOMAIN ticket' : ticket'[o].status \in {"submitted", "accepted"}
                 => broker'[o].state = "working" \/ o \in DOMAIN supervisor'.closing
  BY <1>2, <1>5, <1>6 DEF GuardInv, RepliesTrue
<1>11. /\ \A o \in Orders : Exposure(o)' \in Nat /\ Exposure(o)' <= Exposure(o)
       /\ \A o \in DOMAIN ticket : ticket'[o].quantity = ticket[o].quantity
  BY <1>5
<1> QED BY <1>3, <1>5, <1>8, <1>9, <1>10, <1>11, PassAlone

\* All that was executed is of today, so the pass has a row of it.
LEMMA GuardFetch == ASSUME GuardInv, Undisturbed, FetchHistory PROVE Guarded'
<1>1. /\ supervisor.pc \in {"cancel", "closed"} /\ supervisor.todo = {}
      /\ DOMAIN supervisor.closing = {} /\ ~Paper
      /\ supervisor' = [supervisor EXCEPT !.pc = "rows",
                          !.rows = [o \in Fetched |-> broker[o].executed],
                          !.seen = {<<e.order, e.quantity>> : e \in fillEvents}]
      /\ UNCHANGED <<brokerVars, logVars, credited, submitter, failures>>
      /\ UNCHANGED <<gateway, broker, ticket, fillEvents, bound, credited>>
  BY DEF FetchHistory, ReadyToReconcile, accountVars, brokerVars, logVars
<1>2. submitter.pc = "idle" /\ supervisor.reconcile
  BY <1>1 DEF GuardInv, PassOK, OneAtATime
<1>3. /\ supervisor'.pc = "rows" /\ supervisor'.reconcile
      /\ DOMAIN supervisor'.closing = {}
      /\ DOMAIN supervisor'.rows = Fetched /\ \A o \in Fetched : supervisor'.rows[o] = broker[o].executed
      /\ supervisor'.seen = {<<e.order, e.quantity>> : e \in fillEvents}
  BY <1>1, <1>2, GuardTypes
<1>4. \A o \in Orders : broker[o].executed > 0 => o \in Fetched
  <2>1. \A o \in Orders : broker[o].day \in 0..0
    BY GuardTypes DEF Undisturbed
  <2>2. day \in 0..0
    BY DEF GuardInv, LogInv, TypeOK, Undisturbed
  <2> QED BY <2>1, <2>2 DEF Fetched
<1>5. PassOK'
  BY <1>1, <1>3 DEF PassOK, Paper
<1>6. RowsCurrent'
  <2>1. ASSUME NEW o \in Fetched, <<o, broker[o].executed>> \in supervisor'.seen
        PROVE  credited[<<o, "row">>] > 0
    <3>1. PICK e \in fillEvents : e.order = o
      BY <1>3, <2>1
    <3>2. e.source = "row"
      BY <1>1, <3>1, GuardTypes DEF GuardInv, FillsOwned, Sources
    <3> QED BY <3>1, <3>2 DEF GuardInv, FillsOwned
  <2> QED BY <1>1, <1>3, <2>1 DEF RowsCurrent
<1>7. \A o \in DOMAIN ticket : broker[o].executed > 0 /\ ~Paper /\ Settling(o) => Settling(o)'
  BY <1>1, <1>3, <1>4, GuardTypes DEF Settling
<1> QED BY <1>1, <1>2, <1>5, <1>6, <1>7, PassMoves

\* A pass ends with nothing left to import.
LEMMA GuardEnd == ASSUME GuardInv, EndPass PROVE Guarded'
<1>1. /\ supervisor' = NoPass
      /\ UNCHANGED <<brokerVars, logVars, credited, submitter, failures>>
      /\ supervisor.pc \in {"cancel", "closed", "rows"}
  BY DEF EndPass, ReadyToReconcile, accountVars
<1>2. submitter.pc = "idle" /\ supervisor.reconcile /\ DOMAIN supervisor.closing = {}
  BY <1>1 DEF GuardInv, PassOK, OneAtATime, EndPass, ReadyToReconcile
<1>3. \A o \in DOMAIN ticket : ~Paper => ~Settling(o)
  BY <1>2 DEF EndPass, ReadyToReconcile, Settling
<1>4. PassOK' /\ RowsCurrent'
  BY <1>1 DEF PassOK, RowsCurrent, NoPass
<1> QED BY <1>1, <1>2, <1>3, <1>4, PassMoves

\* What is left of the rows when one is dropped.
LEMMA RowDropped ==
  ASSUME GuardInv, NEW o, NEW S,
         supervisor' = DropRow(o) \/ supervisor' = [DropRow(o) EXCEPT !.todo = S]
  PROVE  /\ supervisor'.pc = "rows" /\ DOMAIN supervisor'.rows = DOMAIN supervisor.rows \ {o}
         /\ \A p \in DOMAIN supervisor.rows \ {o} : supervisor'.rows[p] = supervisor.rows[p]
         /\ supervisor'.reconcile = supervisor.reconcile
         /\ supervisor'.closing = supervisor.closing /\ supervisor'.seen = supervisor.seen
<1> DEFINE rest == Restrict(supervisor.rows, DOMAIN supervisor.rows \ {o})
<1>1. /\ DOMAIN rest = DOMAIN supervisor.rows \ {o}
      /\ \A p \in DOMAIN supervisor.rows \ {o} : rest[p] = supervisor.rows[p]
  BY DEF Restrict
<1>2. DropRow(o) = [supervisor EXCEPT !.pc = "rows", !.rows = rest]
  BY DEF DropRow
<1> HIDE DEF rest
<1>3. DOMAIN supervisor = {"pc", "reconcile", "todo", "closing", "rows", "seen"}
  BY GuardTypes
<1>4. /\ supervisor'.pc = "rows" /\ supervisor'.rows = rest
      /\ supervisor'.reconcile = supervisor.reconcile
      /\ supervisor'.closing = supervisor.closing /\ supervisor'.seen = supervisor.seen
  BY <1>2, <1>3
<1> QED BY <1>1, <1>4

\* A row is imported as what was executed, unless it was already.
LEMMA GuardImport == ASSUME GuardInv, NEW o \in Orders, ImportRow(o) PROVE Guarded'
<1>1. /\ supervisor.pc = "rows" /\ o \in DOMAIN supervisor.rows
      /\ credited' = IF RowKind(o) = "new"
                     THEN [credited EXCEPT ![<<o, "row">>] = supervisor.rows[o]] ELSE credited
      /\ supervisor' = IF RowKind(o) \in {"applied", "new"}
                       THEN [supervisor EXCEPT !.pc = "log", !.todo = {o}] ELSE DropRow(o)
      /\ UNCHANGED <<brokerVars, logVars, bound, submitter, failures>>
      /\ UNCHANGED <<gateway, broker, ticket, fillEvents, bound>>
  BY DEF ImportRow, brokerVars, logVars
<1>2. /\ submitter.pc = "idle" /\ supervisor.reconcile /\ ~Paper /\ DOMAIN supervisor.closing = {}
  BY <1>1 DEF GuardInv, PassOK, OneAtATime
<1>3. /\ supervisor.rows[o] = broker[o].executed /\ broker[o].executed > 0
      /\ o \in DOMAIN ticket /\ broker[o].executed \in Nat
  <2>1. supervisor.rows[o] = broker[o].executed
    BY <1>1 DEF GuardInv, RowsCurrent
  <2>2. o \in DOMAIN ticket /\ supervisor.rows[o] \in Nat \ {0} /\ broker[o].executed \in Nat
    BY <1>1, RowInHand DEF GuardInv
  <2> QED BY <2>1, <2>2
<1>4. \A p \in Orders, s \in Sources : /\ credited[<<p, s>>] \in Nat
                                       /\ credited[<<p, s>>] > 0 => credited'[<<p, s>>] > 0
                                       /\ credited'[<<p, s>>] > 0 => credited'[<<p, s>>] = broker[p].executed
  <2>1. CASE RowKind(o) = "new"
    <3>1. ASSUME NEW p \in Orders, NEW s \in Sources
          PROVE  credited'[<<p, s>>] = IF p = o /\ s = "row" THEN broker[o].executed ELSE credited[<<p, s>>]
      BY <1>1, <1>3, <2>1, GuardTypes
    <3>2. \A p \in Orders, s \in Sources :
            credited[<<p, s>>] \in Nat /\ (credited[<<p, s>>] > 0 => credited[<<p, s>>] = broker[p].executed)
      BY GuardTypes DEF GuardInv, FillsOwned
    <3> QED BY <1>3, <3>1, <3>2
  <2>2. CASE RowKind(o) # "new"
    BY <1>1, <2>2, GuardTypes DEF GuardInv, FillsOwned
  <2> QED BY <2>1, <2>2
<1>5. WorldInv' /\ \A p \in Orders : Exposure(p)' = Exposure(p) /\ Exposure(p)' \in Nat
  <2>1. \A p \in Orders : Exposure(p)' = Exposure(p)
    BY <1>1 DEF Exposure
  <2>2. FillsOwned'
    <3>1. \A e \in fillEvents : e.source = "row" => credited'[<<e.order, "row">>] > 0
      BY <1>4, GuardTypes DEF GuardInv, FillsOwned, Sources
    <3> QED BY <1>1, <1>4, <3>1 DEF GuardInv, FillsOwned, Paper
  <2>3. WholeFills' /\ \A p \in Open' : ticket'[p].filled = 0
    BY <1>1 DEF GuardInv, WholeFills, OpenUnfilled, Open
  <2> QED BY <2>1, <2>2, <2>3, ExposureIs DEF WorldInv
<1>6. Open' = Open
  BY <1>1 DEF Open
<1>7. RowKind(o) # "logged"
  BY <1>1 DEF GuardInv, RowsCurrent, RowKind
<1>8. PassOK' /\ RowsCurrent' /\ ExecutedCovered'
  <2>0. ASSUME NEW p \in DOMAIN supervisor.rows
        PROVE  /\ p \in Orders /\ supervisor.rows[p] = broker[p].executed
               /\ <<p, supervisor.rows[p]>> \in supervisor.seen => credited'[<<p, "row">>] > 0
    <3>1. p \in Orders
      BY GuardTypes DEF GuardInv, LogInv, RowsOfTickets
    <3> QED BY <1>4, <3>1 DEF GuardInv, RowsCurrent, Sources
  <2>1. CASE RowKind(o) \in {"applied", "new"}
    <3>1. /\ supervisor'.pc = "log" /\ supervisor'.todo = {o} /\ supervisor'.rows = supervisor.rows
          /\ supervisor'.reconcile /\ supervisor'.closing = supervisor.closing
          /\ supervisor'.seen = supervisor.seen
      BY <1>1, <1>2, <2>1, GuardTypes
    <3>2. credited'[<<o, "row">>] > 0
      <4>1. CASE RowKind(o) = "new"
        BY <1>1, <1>3, <4>1, GuardTypes DEF Sources
      <4>2. CASE RowKind(o) # "new"
        BY <1>1, <2>1, <4>2 DEF RowKind
      <4> QED BY <4>1, <4>2
    <3>3. PassOK'
      BY <1>1, <1>2, <3>1 DEF PassOK, Paper
    <3>4. RowsCurrent'
      BY <1>1, <2>0, <3>1, <3>2 DEF RowsCurrent
    <3>5. ExecutedCovered'
      <4> SUFFICES ASSUME NEW p \in DOMAIN ticket, broker[p].executed > 0 PROVE Covered(p)'
        BY <1>1 DEF ExecutedCovered
      <4>1. p \in Orders /\ Covered(p)
        BY GuardTypes DEF GuardInv, ExecutedCovered
      <4>2. Settling(p) => Settling(p)'
        BY <1>1, <3>1 DEF Settling
      <4>3. p \in Open \/ credited[<<p, "row">>] > 0 \/ Settling(p)
        BY <1>2, <4>1 DEF Covered
      <4>4. credited[<<p, "row">>] > 0 => credited'[<<p, "row">>] > 0
        BY <1>4, <4>1 DEF Sources
      <4> QED BY <1>1, <1>2, <1>6, <4>2, <4>3, <4>4 DEF Covered, Paper
    <3> QED BY <3>3, <3>4, <3>5
  <2>2. CASE RowKind(o) \notin {"applied", "new"}
    <3>1. supervisor' = DropRow(o) /\ o \notin bound
      BY <1>1, <1>7, <2>2 DEF RowKind
    <3>2. /\ supervisor'.pc = "rows" /\ DOMAIN supervisor'.rows = DOMAIN supervisor.rows \ {o}
          /\ \A p \in DOMAIN supervisor.rows \ {o} : supervisor'.rows[p] = supervisor.rows[p]
          /\ supervisor'.reconcile = supervisor.reconcile
          /\ supervisor'.closing = supervisor.closing /\ supervisor'.seen = supervisor.seen
      <4>1. supervisor' = DropRow(o) \/ supervisor' = [DropRow(o) EXCEPT !.todo = {}]
        BY <3>1
      <4> QED BY <4>1, RowDropped
    <3>3. PassOK'
      BY <1>1, <1>2, <3>2 DEF PassOK, Paper
    <3>4. RowsCurrent'
      BY <1>1, <2>0, <3>2 DEF RowsCurrent
    <3>5. ExecutedCovered'
      <4> SUFFICES ASSUME NEW p \in DOMAIN ticket, broker[p].executed > 0 PROVE Covered(p)'
        BY <1>1 DEF ExecutedCovered
      <4>1. p \in Orders /\ Covered(p)
        BY GuardTypes DEF GuardInv, ExecutedCovered
      <4>2. Settling(p) => Settling(p)'
        BY <1>1, <3>1, <3>2 DEF Settling
      <4>3. p \in Open \/ credited[<<p, "row">>] > 0 \/ Settling(p)
        BY <1>2, <4>1 DEF Covered
      <4>4. credited[<<p, "row">>] > 0 => credited'[<<p, "row">>] > 0
        BY <1>4, <4>1 DEF Sources
      <4> QED BY <1>1, <1>2, <1>6, <4>2, <4>3, <4>4 DEF Covered, Paper
    <3> QED BY <3>3, <3>4, <3>5
  <2> QED BY <2>1, <2>2
<1>9. /\ ~Paper /\ \A p \in Orders : Exposure(p)' \in Nat /\ Exposure(p)' <= Exposure(p)
      /\ \A p \in DOMAIN ticket : ticket'[p].quantity = ticket[p].quantity
  BY <1>1, <1>2, <1>5
<1> QED BY <1>1, <1>2, <1>5, <1>8, <1>9, PassAlone

\* The log counts the fill as a whole, which ends the ticket; it is credited by now.
LEMMA GuardLogRow == ASSUME GuardInv, NEW o \in Orders, LogRow(o) PROVE Guarded'
<1> DEFINE q == supervisor.rows[o]
           new == WithFill(ticket[o], q, q >= Remaining(o))
<1>1. /\ supervisor.pc = "log" /\ o \in supervisor.todo
      /\ \/ ticket' = ticket /\ fillEvents' = fillEvents
         \/ /\ fillEvents' = fillEvents \cup {Fill(o, q, "row")}
            /\ ticket' = [ticket EXCEPT ![o] = new]
      /\ supervisor' = [DropRow(o) EXCEPT !.todo = {}]
      /\ UNCHANGED <<brokerVars, accountVars, submitter, failures>>
      /\ UNCHANGED <<gateway, day, broker, placed, bound, credited>>
  BY DEF LogRow, logVars, brokerVars, accountVars
<1>2. submitter.pc = "idle" /\ supervisor.reconcile /\ ~Paper /\ DOMAIN supervisor.closing = {}
  BY <1>1 DEF GuardInv, PassOK, OneAtATime
<1>3. /\ o \in DOMAIN supervisor.rows /\ o \in DOMAIN ticket /\ ticket[o] \in TicketType
      /\ ticket[o].quantity \in Nat \ {0} /\ ticket[o].filled \in Nat
      /\ q = ticket[o].quantity /\ broker[o].executed = q /\ q > 0
      /\ credited[<<o, "row">>] > 0 /\ broker[o].state # "working"
  <2>1. o \in DOMAIN supervisor.rows /\ credited[<<o, "row">>] > 0
    BY <1>1 DEF GuardInv, LogInv, SupervisorOK, RowsCurrent
  <2>2. q = broker[o].executed /\ o \in DOMAIN ticket /\ q \in Nat \ {0}
    BY <2>1, RowInHand DEF GuardInv, RowsCurrent
  <2>3. ticket[o] \in TicketType /\ ticket[o].quantity \in Nat \ {0} /\ ticket[o].filled \in Nat
    BY <2>2, GuardTypes
  <2>4. q = ticket[o].quantity /\ broker[o].state # "working"
    BY <2>2 DEF GuardInv, WholeFills
  <2> QED BY <2>1, <2>2, <2>3, <2>4
<1>4. new \in TicketType /\ new.quantity = ticket[o].quantity /\ new.status = "filled"
  <2>1. (q >= Remaining(o)) = TRUE
    BY <1>3 DEF Remaining
  <2>2. new = WithFill(ticket[o], q, TRUE)
    BY <2>1
  <2>3. q \in Nat /\ ticket[o].filled <= ticket[o].quantity
    BY <1>3, GuardTypes
  <2>4. WithFill(ticket[o], q, TRUE) \in TicketType
        /\ WithFill(ticket[o], q, TRUE).quantity = ticket[o].quantity
    BY <1>3, <2>3, FilledTicket
  <2>5. WithFill(ticket[o], q, TRUE).status = "filled"
    BY <1>3 DEF WithFill, TicketType
  <2> HIDE DEF new
  <2> QED BY <2>2, <2>4, <2>5
<1> HIDE DEF new, q
<1>5. /\ supervisor'.pc = "rows" /\ DOMAIN supervisor'.rows = DOMAIN supervisor.rows \ {o}
      /\ \A p \in DOMAIN supervisor.rows \ {o} : supervisor'.rows[p] = supervisor.rows[p]
      /\ supervisor'.reconcile = supervisor.reconcile
      /\ supervisor'.closing = supervisor.closing /\ supervisor'.seen = supervisor.seen
  <2>1. supervisor' = DropRow(o) \/ supervisor' = [DropRow(o) EXCEPT !.todo = {}]
    BY <1>1
  <2> QED BY <2>1, RowDropped
<1>6. /\ DOMAIN ticket' = DOMAIN ticket
      /\ \A p \in DOMAIN ticket : /\ ticket'[p].quantity = ticket[p].quantity
                                  /\ p # o => ticket'[p] = ticket[p]
      /\ ticket'[o] = ticket[o] \/ ticket'[o].status = "filled"
  BY <1>1, <1>3, <1>4
<1>7. Open' \subseteq Open /\ \A p \in Open : p # o => p \in Open'
  BY <1>6 DEF Open, Terminal
<1>8. WorldInv'
  <2>1. WholeFills'
    BY <1>1, <1>3, <1>6, <1>7 DEF GuardInv, WholeFills
  <2>2. FillsOwned'
    <3>1. CASE fillEvents' = fillEvents
      BY <1>1, <3>1 DEF GuardInv, FillsOwned, Paper
    <3>2. CASE fillEvents' = fillEvents \cup {Fill(o, q, "row")}
      <4>1. ASSUME NEW e \in fillEvents'
            PROVE  /\ e.quantity > 0
                   /\ e.source = "row" => ~Paper /\ credited[<<e.order, "row">>] > 0
                   /\ e.source = "poll" => Paper /\ e.quantity = broker[e.order].executed
        <5>1. CASE e \in fillEvents
          BY <5>1 DEF GuardInv, FillsOwned
        <5>2. CASE e = Fill(o, q, "row")
          BY <1>2, <1>3, <5>2 DEF Fill
        <5> QED BY <3>2, <5>1, <5>2
      <4> QED BY <1>1, <4>1 DEF GuardInv, FillsOwned, Paper
    <3> QED BY <1>1, <3>1, <3>2
  <2>3. \A p \in Open' : ticket'[p].filled = 0
    <3>1. ASSUME NEW p \in Open' PROVE ticket'[p] = ticket[p] /\ p \in Open
      BY <1>6, <1>7 DEF Open, Terminal
    <3> QED BY <3>1 DEF GuardInv, OpenUnfilled
  <2> QED BY <2>1, <2>2, <2>3 DEF WorldInv
<1>9. PassOK'
  BY <1>1, <1>2, <1>5 DEF PassOK, Paper
<1>10. RowsCurrent'
  BY <1>1, <1>5 DEF GuardInv, RowsCurrent
<1>11. ExecutedCovered'
  <2> SUFFICES ASSUME NEW p \in DOMAIN ticket, broker[p].executed > 0 PROVE Covered(p)'
    BY <1>1, <1>6 DEF ExecutedCovered
  <2>1. CASE p = o
    BY <1>1, <1>2, <1>3, <2>1 DEF Covered, Paper
  <2>2. CASE p # o
    <3>1. p \in Open \/ credited[<<p, "row">>] > 0 \/ Settling(p)
      BY <1>2 DEF GuardInv, ExecutedCovered, Covered
    <3>2. Settling(p) => Settling(p)'
      BY <1>1, <1>5, <2>2 DEF Settling
    <3> QED BY <1>1, <1>2, <1>7, <2>2, <3>1, <3>2 DEF Covered, Paper
  <2> QED BY <2>1, <2>2
<1>12. \A p \in Orders : Exposure(p)' \in Nat /\ Exposure(p)' <= Exposure(p)
  <2>1. ASSUME NEW p \in Orders PROVE Exposure(p)' = Exposure(p)
    <3>1. broker[p].state = "working" => ticket'[p].quantity = ticket[p].quantity
      BY <1>6, ExposureIs
    <3> QED BY <1>1, <3>1 DEF Exposure
  <2>2. \A p \in Orders : Exposure(p) \in Nat
    BY ExposureIs
  <2> QED BY <2>1, <2>2
<1>13. \A p \in DOMAIN ticket : ticket'[p].quantity = ticket[p].quantity
  BY <1>6
<1> QED BY <1>1, <1>2, <1>8, <1>9, <1>10, <1>11, <1>12, <1>13, PassAlone

\* The broker executes what was exposed already.
LEMMA GuardExecute == ASSUME GuardInv, Undisturbed, NEW o \in Orders, Execute(o) PROVE Guarded'
<1>1. /\ ~Paper /\ o \in DOMAIN ticket /\ broker[o].state = "working"
      /\ UNCHANGED <<gateway, day, placed, logVars, accountVars, submitter, supervisor, failures>>
      /\ UNCHANGED <<ticket, fillEvents, bound, credited>>
  BY ExecuteIs DEF Execute, GuardInv, logVars, accountVars
<1>2. broker' = [broker EXCEPT ![o] = [state |-> "closed", executed |-> ticket[o].quantity,
                                       day |-> broker[o].day]]
  <2>1. PICK n \in (broker[o].executed + 1)..ticket[o].quantity :
          /\ n = ticket[o].quantity
          /\ broker' = [broker EXCEPT ![o] = [state |-> IF n = ticket[o].quantity THEN "closed"
                                                                                  ELSE "working",
                                              executed |-> n, day |-> @.day]]
    BY DEF Execute, Undisturbed
  <2> QED BY <2>1, GuardTypes
<1>3. /\ broker'[o].state = "closed" /\ broker'[o].executed = ticket[o].quantity
      /\ \A p \in Orders \ {o} : broker'[p] = broker[p]
      /\ broker[o].executed = 0 /\ o \in Open /\ ticket[o].quantity \in Nat \ {0}
  BY <1>1, <1>2, GuardTypes DEF GuardInv, WholeFills
<1>4. Open' = Open
  BY <1>1 DEF Open
<1>5. WorldInv'
  <2>1. WholeFills'
    BY <1>1, <1>3, <1>4, GuardTypes DEF GuardInv, WholeFills
  <2>2. ASSUME NEW p \in Orders, NEW s \in Sources, credited[<<p, s>>] > 0
        PROVE  p # o
    <3>1. credited[<<p, s>>] = broker[p].executed
      BY <2>2 DEF GuardInv, FillsOwned
    <3> QED BY <1>3, <2>2, <3>1
  <2>3. FillsOwned'
    BY <1>1, <1>3, <2>2 DEF GuardInv, FillsOwned, Paper
  <2> QED BY <1>1, <1>4, <2>1, <2>3 DEF WorldInv, GuardInv, OpenUnfilled
<1>6. PassInv'
  <2>1. OneAtATime' /\ PassOK'
    <3>1. \A p \in DOMAIN supervisor.closing : p \in Orders /\ p # o
      BY <1>1, GuardTypes DEF GuardInv, PassOK, Numbered
    <3> QED BY <1>1, <1>3, <3>1 DEF GuardInv, OneAtATime, PassOK, Numbered, Paper
  <2>2. RowsCurrent'
    <3>1. ASSUME NEW p \in DOMAIN supervisor.rows PROVE broker'[p] = broker[p]
      <4>1. p \in Orders /\ broker[p].executed # 0
        <5>1. p \in DOMAIN ticket /\ supervisor.rows[p] \in 1..broker[p].executed
          BY DEF GuardInv, LogInv, RowsOfTickets
        <5>2. p \in Orders /\ broker[p].executed \in Nat
          BY <5>1, GuardTypes
        <5> QED BY <5>1, <5>2
      <4> QED BY <1>3, <4>1
    <3> QED BY <1>1, <3>1 DEF GuardInv, RowsCurrent
  <2> QED BY <2>1, <2>2 DEF PassInv
<1>7. OpenUnfilled' /\ RepliesTrue'
  BY <1>1, <1>4 DEF GuardInv, OpenUnfilled, RepliesTrue, Paper
<1>8. ExecutedCovered'
  <2> SUFFICES ASSUME NEW p \in DOMAIN ticket, broker'[p].executed > 0 PROVE Covered(p)'
    BY <1>1 DEF ExecutedCovered
  <2>1. CASE p = o
    BY <1>1, <1>3, <1>4, <2>1 DEF Covered, Paper
  <2>2. CASE p # o
    <3>1. Covered(p)
      BY <1>3, <2>2, GuardTypes DEF GuardInv, ExecutedCovered
    <3> QED BY <1>1, <1>4, <3>1 DEF Covered, Settling, Paper
  <2> QED BY <2>1, <2>2
<1>9. Reserved'
  <2>1. ASSUME NEW p \in Orders PROVE Exposure(p)' = Exposure(p) /\ Exposure(p) \in Nat
    <3>1. CASE p = o
      <4>1. Exposure(o)' = ticket[o].quantity
        BY <1>1, <1>3 DEF Exposure
      <4> QED BY <1>1, <3>1, <4>1, ExposureIs
    <3>2. CASE p # o
      BY <1>1, <1>3, <3>2, ExposureIs DEF Exposure
    <3> QED BY <3>1, <3>2
  <2>2. \A p \in Orders : Exposure(p)' \in Nat /\ Exposure(p)' <= Exposure(p)
    BY <2>1
  <2>3. \A p \in DOMAIN ticket : ticket'[p].quantity = ticket[p].quantity
    BY <1>1
  <2> QED BY <1>1, <2>2, <2>3, ReservedKept
<1> QED BY <1>5, <1>6, <1>7, <1>8, <1>9 DEF Guarded

\* Nothing is reserved at the start.
LEMMA GuardInvInit == ASSUME Init PROVE GuardInv
<1>1. LogInv
  BY LogInvInit
<1>2. OneAtATime /\ PassOK /\ WholeFills /\ OpenUnfilled /\ RepliesTrue /\ FillsOwned /\ RowsCurrent
      /\ ExecutedCovered
  BY DEF Init, NoSubmit, NoPass, OneAtATime, PassOK, WholeFills, OpenUnfilled, Open, RepliesTrue,
         FillsOwned, RowsCurrent, ExecutedCovered
<1>3. Reserved
  <2> DEFINE W == [o \in Orders |-> Exposure(o)]
  <2>1. \A o \in Orders : W[o] = 0
    BY DEF Init, Exposure
  <2>2. Total = SumFunctionOnSet(W, Orders)
    BY DEF Total, SumFunction
  <2> HIDE DEF W
  <2>3. Total = 0
    BY <2>1, <2>2, RuntimeAssumption, SumZero
  <2>4. InHand = 0 /\ submitter.pc = "idle"
    BY DEF Init, NoSubmit, InHand
  <2> QED BY <2>3, <2>4, RuntimeAssumption DEF Reserved
<1> QED BY <1>1, <1>2, <1>3 DEF GuardInv

\* Every step of an undisturbed runtime keeps the guard's invariant.
LEMMA GuardInvStep == ASSUME GuardInv, Undisturbed, [Next]_vars PROVE GuardInv'
<1>0. LogInv'
  BY LogInvStep DEF GuardInv
<1>1. ASSUME NEW o \in Orders, NEW want \in Wants, Evaluate(o, want) PROVE Guarded'
  BY <1>1, GuardEvaluate
<1>2. ASSUME SubmitStep PROVE Guarded'
  BY <1>0, <1>2, GuardRecordTicket, GuardRegister, GuardSubmit, GuardReply, GuardSubmitPoll,
     GuardSubmitApply DEF SubmitStep
<1>3. ASSUME NEW r \in Reconciles, StartPass(r) PROVE Guarded'
  BY <1>3, GuardStart
<1>4. ASSUME SuperviseStep PROVE Guarded'
  <2>1. ~FailFetch
    BY DEF FailFetch, Undisturbed, GuardInv, OneAtATime
  <2>2. ASSUME NEW o \in Orders,
               ApplyPoll(o) \/ BindClosed(o) \/ CancelStale(o) \/ ImportRow(o) \/ LogRow(o)
        PROVE  Guarded'
    BY <2>2, GuardApplyPoll, GuardBind, GuardCancel, GuardImport, GuardLogRow
  <2>3. ASSUME NEW S \in SUBSET Orders, FindStale(S) PROVE Guarded'
    BY <2>3, GuardStale
  <2> QED BY <1>4, <2>1, <2>2, <2>3, GuardPollOpen, GuardExpire, GuardRecordClosed, GuardFetch, GuardEnd
          DEF SuperviseStep
<1>5. ASSUME NEW o \in Orders, Execute(o) PROVE Guarded'
  BY <1>5, GuardExecute
<1>6. ~CloseDay
  BY DEF CloseDay, Undisturbed, GuardInv, LogInv, TypeOK
<1>7. ASSUME CrashSubmit PROVE Guarded'
  BY <1>7, GuardRegister
<1>8. ~CrashSupervise
  BY DEF CrashSupervise, Undisturbed, GuardInv, OneAtATime
<1>9. ASSUME UNCHANGED vars PROVE Guarded'
  BY <1>9 DEF vars, brokerVars, logVars, accountVars, GuardInv, OneAtATime, PassOK, Numbered,
     WholeFills, OpenUnfilled, Open, RepliesTrue, FillsOwned, RowsCurrent, ExecutedCovered, Covered,
     Settling, Reserved, Total, InHand, Exposure, Paper, Guarded, PassInv, WorldInv
<1>10. Guarded'
  BY <1>1, <1>2, <1>3, <1>4, <1>5, <1>6, <1>7, <1>8, <1>9 DEF Next
<1> QED BY <1>0, <1>10 DEF Guarded, PassInv, WorldInv, GuardInv

\* The engine guard keeps shares bought and shares on order within the target as
\* long as one command runs at a time and ends, every pass reconciles, every reply
\* arrives and orders fill as a whole on one day; submits may crash.
THEOREM GuardKeepsTarget == ASSUME Undisturbed PROVE Spec => []NeverOverTarget
<1>1. Init => GuardInv
  BY GuardInvInit
<1>2. GuardInv /\ [Next]_vars => GuardInv'
  BY GuardInvStep
<1>3. GuardInv => NeverOverTarget
  <2> SUFFICES ASSUME GuardInv PROVE NeverOverTarget
    OBVIOUS
  <2>1. Total \in Nat
    BY TotalType
  <2>2. InHand \in Nat
    <3>1. submitter.pc = "admitted" => submitter.quantity \in Nat
      BY RuntimeAssumption DEF GuardInv, LogInv, TicketInHand
    <3>2. submitter.pc \in {"recorded", "registered"} => submitter.quantity \in Nat
      BY GuardTypes DEF GuardInv, Reserved
    <3> QED BY <3>1, <3>2 DEF InHand
  <2>3. Total <= Target
    BY <2>1, <2>2, RuntimeAssumption DEF GuardInv, Reserved
  <2> QED BY <2>3 DEF NeverOverTarget, Total
<1> QED BY <1>1, <1>2, <1>3, PTL DEF Spec

===============================================================================
