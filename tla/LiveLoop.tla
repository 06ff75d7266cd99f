------------------------------- MODULE LiveLoop --------------------------------
(* The multi-sleeve live order loop, the file queue that steers it, and the safe    *)
(* start that (re)starts it. A loop is a process: what it has not put into a file   *)
(* is gone when it ends. Safe start knows of a loop by its heartbeat alone, which   *)
(* is written when a cycle begins and when it ends, so there may be two of them.    *)
(* Time is in minutes; a step of a loop may take any number of them.                *)
EXTENDS Integers, Sequences, FiniteSets

CONSTANTS
  Loops,         \* processes a loop may be started as, from 1
  Listed,        \* per configuration file, the sleeves it lists; none: it does not validate
  FirstConfig,   \* the configuration a start names
  Startup,       \* the sleeves a start names when none are saved
  Session,       \* per sleeve, the minutes of a day its schedule has
  ClosedDays,    \* per sleeve, the days its market is closed
  RunCadence,       \* per sleeve, the minutes between two runs
  BatchHashes,       \* what the order batch of a run may be, by its hash
  Scripts,       \* what operators submit, one command after the other, and the ends of
                 \* processes there may be: [commands, ends]
  Surroundings,  \* what a preflight may find
  MaxBeatAge, DayLength, LastMinute, CyclesInAll,
  Nothing

VARIABLES
  lpScript,   \* commands still to be submitted
  lpEnds,     \* ends of a process still to come
  lpQueue,    \* the queue file: its lines, or Nothing
  lpWriter,   \* the command a writer has opened the file for, or Nothing
  lpLoop,     \* per process, its memory
  lpSaved,    \* the active sleeve file: [sleeves, config], "torn" or Nothing
  lpBeat,     \* the heartbeat file: [status, at], or Nothing
  lpBatch,    \* the order batch file
  lpGuard,    \* the submit state file: [day, batch], or Nothing
  lpJournal,  \* is the cycle journal readable?
  lpBusy,     \* sleeves with open tickets or holdings
  lpNow,
  lpStory     \* what happened, for the properties

loopVars == <<lpScript, lpEnds, lpQueue, lpWriter, lpLoop, lpSaved, lpBeat, lpBatch, lpGuard,
              lpJournal, lpBusy, lpNow, lpStory>>


TornState == [sleeves |-> {}, config |-> "torn"]
Cut == [type |-> "cut"]       \* a line whose writer ended before its end
Spoilt == [type |-> "spoilt"] \* the same with the next line behind it
AllSleeves == DOMAIN Session
Day == lpNow \div DayLength
Alive(l) == lpLoop[l].at # "down"
Down ==
  [at |-> "down", sleeves |-> {}, config |-> FirstConfig, paused |-> FALSE, stop |-> FALSE,
   due |-> {}, ran |-> [s \in AllSleeves |-> Nothing], sent |-> Nothing, hand |-> <<>>, beat |-> 0]

--------------------------------------------------------------------------------
(* The queue: one command a line, appended; a drain takes the file away whole.    *)
\* FileRuntimeControlQueue.submit, which opens the file before it writes.
OpenQueue ==
  /\ lpScript # <<>> /\ lpWriter = Nothing
  /\ lpWriter' = Head(lpScript) /\ lpScript' = Tail(lpScript)
  /\ lpQueue' = IF lpQueue = Nothing THEN <<>> ELSE lpQueue
  /\ UNCHANGED <<lpEnds, lpLoop, lpSaved, lpBeat, lpBatch, lpGuard, lpJournal, lpBusy, lpNow, lpStory>>

WriteCommand ==
  /\ lpWriter # Nothing
  /\ lpWriter' = Nothing
  /\ \/ /\ lpQueue' = IF lpQueue # <<>> /\ lpQueue[Len(lpQueue)] = Cut
                      THEN [lpQueue EXCEPT ![Len(lpQueue)] = Spoilt] ELSE Append(lpQueue, lpWriter)
        /\ UNCHANGED lpEnds
     \/ /\ lpEnds > 0 /\ lpEnds' = lpEnds - 1
        /\ lpQueue' = Append(lpQueue, Cut)
  /\ UNCHANGED <<lpScript, lpLoop, lpSaved, lpBeat, lpBatch, lpGuard, lpJournal, lpBusy, lpNow, lpStory>>

\* Mutant: the file is read and left where it is.
LeftAfter == lpQueue
\* The file is renamed, so what is submitted from now on starts another.
TakenAway == Nothing

\* FileRuntimeControlQueue.drain; a file that a writer holds open cannot be renamed. One
\* line that does not parse, and none of the file is used.
DrainQueue(l) ==
  LET broken == \E n \in DOMAIN lpQueue : lpQueue[n] \in {Cut, Spoilt} IN
  /\ lpLoop[l].at = "top"
  /\ IF lpQueue = Nothing \/ lpWriter # Nothing
     THEN lpLoop' = [lpLoop EXCEPT ![l].at = "steer"] /\ UNCHANGED lpQueue
     ELSE /\ lpLoop' = [lpLoop EXCEPT ![l].at = IF broken THEN "taken" ELSE "steer", ![l].hand = lpQueue]
          /\ lpQueue' = TakenAway
  /\ UNCHANGED <<lpScript, lpEnds, lpWriter, lpSaved, lpBeat, lpBatch, lpGuard, lpJournal, lpBusy,
                 lpNow, lpStory>>

\* The file is put back, unless there is another one by now.
GiveBack(l) ==
  /\ lpLoop[l].at = "taken"
  /\ lpLoop' = [lpLoop EXCEPT ![l].at = IF lpQueue = Nothing THEN "restore" ELSE "steer",
                              ![l].hand = IF lpQueue = Nothing THEN @ ELSE <<>>]
  /\ UNCHANGED <<lpScript, lpEnds, lpQueue, lpWriter, lpSaved, lpBeat, lpBatch, lpGuard, lpJournal, lpBusy,
                  lpNow, lpStory>>

\* What was submitted since the look at the file is overwritten.
RestoreQueue(l) ==
  /\ lpLoop[l].at = "restore"
  /\ lpLoop' = [lpLoop EXCEPT ![l].at = "steer", ![l].hand = <<>>]
  /\ lpQueue' = IF lpWriter = Nothing THEN lpLoop[l].hand ELSE lpQueue
  /\ UNCHANGED <<lpScript, lpEnds, lpWriter, lpSaved, lpBeat, lpBatch, lpGuard, lpJournal, lpBusy,
                 lpNow, lpStory>>

--------------------------------------------------------------------------------
(* What a command does. The set of active sleeves is changed in memory, then saved.*)
\* Test-ActiveSleeveSet.
Valid(sleeves, config) == sleeves # {} /\ sleeves \subseteq Listed[config]

CandidateOf(me, command) ==
  CASE command.type \in {"activate_sleeve", "resume_sleeve"} -> me.sleeves \cup {command.sleeve}
    [] command.type \in {"suspend_sleeve", "deactivate_sleeve"} -> me.sleeves \ {command.sleeve}
    [] OTHER -> me.sleeves

\* Set-ActiveSleeves: a sleeve is only deactivated when its state is known and it has
\* neither open tickets nor holdings; it is suspended whatever it has.
Accepted(me, command, known) ==
  /\ command.type \notin {"pause_worker", "resume_worker", "run_once", "shutdown"}
  /\ command.type = "reload_sleeve" => command.sleeve \in me.sleeves
  /\ Valid(CandidateOf(me, command), command.config)
  /\ command.type = "deactivate_sleeve" /\ command.sleeve \in me.sleeves => known /\ command.sleeve \notin lpBusy

Obey(l, known) ==
  LET me == lpLoop[l]  command == Head(me.hand)  accepted == Accepted(me, command, known) IN
  /\ me.at = "steer" /\ me.hand # <<>>
  /\ lpLoop' = [lpLoop EXCEPT
       ![l].hand = Tail(@),
       ![l].at = IF accepted THEN "save" ELSE @,
       ![l].sleeves = IF accepted THEN CandidateOf(me, command) ELSE @,
       ![l].config = IF accepted THEN command.config ELSE @,
       ![l].paused = (@ \/ command.type = "pause_worker") /\ command.type # "resume_worker",
       ![l].stop = @ \/ command.type = "shutdown"]
  /\ lpStory' = [lpStory EXCEPT
       !.obeyed = @ \cup {command.id},
       !.barred = IF ~accepted THEN @ ELSE (@ \cup me.sleeves) \ CandidateOf(me, command)]
  /\ UNCHANGED <<lpScript, lpEnds, lpQueue, lpWriter, lpSaved, lpBeat, lpBatch, lpGuard, lpJournal, lpBusy,
                  lpNow>>

\* Mutant: only what adds a sleeve is saved.
SavedIfMore(me) ==
  IF lpSaved # Nothing /\ me.sleeves \subseteq lpSaved.sleeves THEN lpSaved
  ELSE [sleeves |-> me.sleeves, config |-> me.config]
\* Save-ActiveSleeveState.
ActiveState(me) == [sleeves |-> me.sleeves, config |-> me.config]

SaveActive(l) ==
  /\ lpLoop[l].at = "save"
  /\ lpSaved' = ActiveState(lpLoop[l])
  /\ lpLoop' = [lpLoop EXCEPT ![l].at = "steer"]
  /\ UNCHANGED <<lpScript, lpEnds, lpQueue, lpWriter, lpBeat, lpBatch, lpGuard, lpJournal, lpBusy,
                 lpNow, lpStory>>

--------------------------------------------------------------------------------
(* A cycle of the loop.                                                           *)
Beat(status) == lpBeat' = [status |-> status, at |-> lpNow]

\* order-runtime-supervise closes tickets of active sleeves, of no others.
Supervised(l) == {lpBusy} \cup {lpBusy \ {s} : s \in lpLoop[l].sleeves}

\* Test-SleeveScheduledNow.
Scheduled(s) == Day \notin ClosedDays[s] /\ lpNow % DayLength \in Session[s]

\* Mutant: when a sleeve ran last is not looked at.
DueAnyway(me) == {s \in me.sleeves : Scheduled(s)}
\* Get-ScheduledSleeveIds.
DueNow(me) ==
  {s \in me.sleeves : Scheduled(s) /\ (me.ran[s] # Nothing => lpNow - me.ran[s] >= RunCadence[s])}

StopLoop(l) ==
  /\ lpLoop[l].at = "steer" /\ lpLoop[l].hand = <<>> /\ lpLoop[l].stop
  /\ lpLoop' = [lpLoop EXCEPT ![l] = Down]
  /\ Beat("shutdown")
  /\ lpStory' = [lpStory EXCEPT !.ran = [s \in AllSleeves |-> Nothing]]
  /\ UNCHANGED <<lpScript, lpEnds, lpQueue, lpWriter, lpSaved, lpBatch, lpGuard, lpJournal, lpBusy, lpNow>>

PausedCycle(l) ==
  /\ lpLoop[l].at = "steer" /\ lpLoop[l].hand = <<>> /\ ~lpLoop[l].stop /\ lpLoop[l].paused
  /\ lpLoop' = [lpLoop EXCEPT ![l].at = "top", ![l].beat = lpNow]
  /\ Beat("paused")
  /\ lpBusy' \in Supervised(l)
  /\ UNCHANGED <<lpScript, lpEnds, lpQueue, lpWriter, lpSaved, lpBatch, lpGuard, lpJournal, lpNow, lpStory>>

BeginCycle(l) ==
  /\ lpLoop[l].at = "steer" /\ lpLoop[l].hand = <<>> /\ ~lpLoop[l].stop /\ ~lpLoop[l].paused
  /\ lpStory.cycles < CyclesInAll
  /\ \E due \in {DueNow(lpLoop[l])} :
       /\ lpLoop' = [lpLoop EXCEPT ![l].at = IF due = {} THEN "close" ELSE "run", ![l].due = due, ![l].beat = lpNow]
       /\ Beat(IF due = {} THEN "idle" ELSE "running")
  /\ lpBusy' \in Supervised(l)
  /\ lpStory' = [lpStory EXCEPT !.cycles = @ + 1]
  /\ UNCHANGED <<lpScript, lpEnds, lpQueue, lpWriter, lpSaved, lpBatch, lpGuard, lpJournal, lpNow>>

\* runtime-run-multi-once writes the order batch; only a run that succeeds is marked.
RunSleeves(l) ==
  /\ lpLoop[l].at = "run"
  /\ \/ /\ lpLoop' = [lpLoop EXCEPT ![l].at = "close"]
        /\ UNCHANGED <<lpBatch, lpStory>>
     \/ /\ \E batch \in BatchHashes : lpBatch' = [hash |-> batch, of |-> lpLoop[l].due]
        /\ lpLoop' = [lpLoop EXCEPT ![l].at = "submit",
             ![l].ran = [s \in AllSleeves |-> IF s \in lpLoop[l].due THEN lpNow ELSE @[s]]]
        /\ lpStory' = [lpStory EXCEPT
             !.ran = [s \in AllSleeves |-> IF s \in lpLoop[l].due THEN lpNow ELSE @[s]]]
  /\ UNCHANGED <<lpScript, lpEnds, lpQueue, lpWriter, lpSaved, lpBeat, lpGuard, lpJournal, lpBusy, lpNow>>

\* Mutant: every batch may be submitted.
NeverBlocked == FALSE
\* Test-SubmitGuardBlocked: only with the batch that was submitted last, and only today.
SubmitBlocked == lpGuard = [day |-> Day, hash |-> lpBatch.hash]

\* order-runtime-submit; without a report of tickets it is not taken as submitted.
SubmitOrders(l) ==
  /\ lpLoop[l].at = "submit"
  /\ \/ /\ lpLoop' = [lpLoop EXCEPT ![l].at = "close"]
        /\ UNCHANGED lpBusy
     \/ /\ lpBatch.hash # "none" /\ ~SubmitBlocked
        /\ lpBusy' = lpBusy \cup lpBatch.of
        /\ \E reported \in BOOLEAN :
             lpLoop' = [lpLoop EXCEPT ![l].at = IF reported THEN "mark" ELSE "close",
                                      ![l].sent = [day |-> Day, hash |-> lpBatch.hash]]
  /\ UNCHANGED <<lpScript, lpEnds, lpQueue, lpWriter, lpSaved, lpBeat, lpBatch, lpGuard, lpJournal,
                 lpNow, lpStory>>

\* Save-SubmitState, with the day and the hash from before the submit.
MarkSubmitted(l) ==
  /\ lpLoop[l].at = "mark"
  /\ lpGuard' = lpLoop[l].sent
  /\ lpLoop' = [lpLoop EXCEPT ![l].at = "close"]
  /\ lpStory' = [lpStory EXCEPT !.marked = lpLoop[l].sent]
  /\ UNCHANGED <<lpScript, lpEnds, lpQueue, lpWriter, lpSaved, lpBeat, lpBatch, lpJournal, lpBusy, lpNow>>

\* The end of a cycle, with its errors: the loop goes on.
CloseCycle(l) ==
  /\ lpLoop[l].at = "close"
  /\ lpLoop' = [lpLoop EXCEPT ![l].at = "top", ![l].due = {}, ![l].beat = lpNow, ![l].sent = Nothing]
  /\ \E status \in {"running", "error"} : Beat(status)
  /\ lpBusy' \in Supervised(l)
  /\ UNCHANGED <<lpScript, lpEnds, lpQueue, lpWriter, lpSaved, lpBatch, lpGuard, lpJournal, lpNow, lpStory>>

--------------------------------------------------------------------------------
(* runtime-preflight: what is wrong, and how much it matters.                     *)
Check(name, status) == [name |-> name, status |-> status]
When(condition, check) == IF condition THEN {check} ELSE {}

PreflightChecks(around, sleeves) ==
  UNION {When(~around.files, Check("runtime_file_fingerprints", "critical")),
         When(~around.routed, Check("sleeve_account_route", "critical")),
         When(around.gateway # "ok", Check("kis_gateway_liveness", "critical")),
         When(around.degradedCalendar, Check("market_calendar", "warning")),
         When(~around.orderable, Check("market_session_gate", "warning")),
         When(around.changed, Check("config_changed_since_last_cycle", "warning")),
         When(around.changed, Check("engine_code_changed_since_last_cycle", "warning")),
         When(lpBusy \cap sleeves # {}, Check("open_tickets", "warning")),
         When(~around.bootstraps, Check("bootstrap_sleeve", "critical"))}

\* Invoke-LivePreflight: open tickets block the start although they are a warning, and so
\* does a journal that cannot be read, since the preflight then has no answer.
Blocks(checks) ==
  ~lpJournal \/ \E check \in checks : check.status = "critical" \/ check.name = "open_tickets"

--------------------------------------------------------------------------------
(* Safe start: the loop is alive if its heartbeat is young and says so.           *)
SleevesToStart ==
  IF lpSaved = Nothing THEN Startup ELSE IF lpSaved = TornState THEN Startup ELSE lpSaved.sleeves

\* Mutant: a heartbeat of any age will do for being silent.
SilentIfNotRunning == lpBeat # Nothing => lpBeat.status # "running"
\* Get-LiveLoopHeartbeat.
Silent ==
  lpBeat # Nothing =>
    lpNow - lpBeat.at > MaxBeatAge \/ lpBeat.status \notin {"running", "idle", "paused"}

\* Safe start does nothing where it finds a loop; what it starts is alive before it says so.
SafeStart(around) ==
  /\ Silent /\ ~Blocks(PreflightChecks(around, SleevesToStart))
  /\ \E l \in Loops :
       /\ ~Alive(l) /\ \A m \in 1..(l - 1) : Alive(m)
       /\ lpLoop' = [lpLoop EXCEPT ![l] = [Down EXCEPT !.at = "boot", !.sleeves = SleevesToStart]]
  /\ lpStory' = [lpStory EXCEPT !.odd = @ \/ \E m \in Loops : Alive(m)]
  /\ UNCHANGED <<lpScript, lpEnds, lpQueue, lpWriter, lpSaved, lpBeat, lpBatch, lpGuard, lpJournal, lpBusy, lpNow>>

\* Initialize-ActiveSleeveState: the saved set if it is valid under the configuration of the
\* start, whatever configuration it was saved with; else the set of the start, now saved.
BootLoop(l) ==
  LET me == lpLoop[l]
      usable == lpSaved # Nothing /\ Valid(lpSaved.sleeves, me.config)
  IN
  /\ me.at = "boot"
  /\ IF usable
     THEN lpLoop' = [lpLoop EXCEPT ![l].at = "top", ![l].sleeves = lpSaved.sleeves, ![l].beat = lpNow]
          /\ UNCHANGED <<lpSaved, lpStory>>
     ELSE /\ lpLoop' = [lpLoop EXCEPT ![l].at = "top", ![l].beat = lpNow]
          /\ lpSaved' = IF Valid(me.sleeves, me.config) THEN ActiveState(me) ELSE lpSaved
          /\ lpStory' = [lpStory EXCEPT !.odd = @ \/ lpSaved # Nothing]
  /\ Beat("running")
  /\ UNCHANGED <<lpScript, lpEnds, lpQueue, lpWriter, lpBatch, lpGuard, lpJournal, lpBusy, lpNow>>

\* A process is killed. What it was writing is cut off: the active sleeve file when it was
\* replacing it, the journal when it was appending to it.
EndLoop(l) ==
  /\ Alive(l) /\ lpEnds > 0
  /\ lpEnds' = lpEnds - 1
  /\ lpLoop' = [lpLoop EXCEPT ![l] = Down]
  /\ lpSaved' \in {lpSaved} \cup When(lpLoop[l].at = "save", TornState)
  /\ lpJournal' \in {lpJournal} \cup When(lpLoop[l].at = "run", FALSE)
  /\ lpStory' = [lpStory EXCEPT !.ran = [s \in AllSleeves |-> Nothing],
                                !.barred = IF lpLoop[l].at = "save" THEN {} ELSE @]
  /\ UNCHANGED <<lpScript, lpQueue, lpWriter, lpBeat, lpBatch, lpGuard, lpBusy, lpNow>>

PassTime ==
  /\ lpNow < LastMinute
  /\ lpNow' = lpNow + 1
  /\ UNCHANGED <<lpScript, lpEnds, lpQueue, lpWriter, lpLoop, lpSaved, lpBeat, lpBatch, lpGuard, lpJournal, lpBusy,
                  lpStory>>

--------------------------------------------------------------------------------
LoopInit ==
  /\ \E script \in Scripts : lpScript = script.commands /\ lpEnds = script.ends
  /\ lpQueue = Nothing /\ lpWriter = Nothing
  /\ lpLoop = [l \in Loops |-> Down]
  /\ lpSaved = Nothing /\ lpBeat = Nothing
  /\ lpBatch = [hash |-> "none", of |-> {}]
  /\ lpGuard = Nothing /\ lpJournal = TRUE /\ lpBusy = {} /\ lpNow = 0
  /\ lpStory = [obeyed |-> {}, barred |-> {}, ran |-> [s \in AllSleeves |-> Nothing], marked |-> Nothing,
                cycles |-> 0, odd |-> FALSE]

LoopStep(l) ==
  \/ DrainQueue(l) \/ GiveBack(l) \/ RestoreQueue(l)
  \/ \E known \in BOOLEAN : Obey(l, known)
  \/ SaveActive(l) \/ StopLoop(l) \/ PausedCycle(l) \/ BeginCycle(l) \/ RunSleeves(l)
  \/ SubmitOrders(l) \/ MarkSubmitted(l) \/ CloseCycle(l) \/ BootLoop(l)

\* Bound: nothing is promised of two loops, so none is followed further.
LoopNext ==
  /\ ~lpStory.odd
  /\ \/ OpenQueue \/ WriteCommand \/ PassTime
     \/ \E around \in Surroundings : SafeStart(around)
     \/ \E l \in Loops : LoopStep(l) \/ EndLoop(l)

--------------------------------------------------------------------------------
\* A command takes effect after those that were submitted before it, and only once.
ObeyedInOrder ==
  \A l \in Loops : lpLoop[l].at = "steer" /\ Len(lpLoop'[l].hand) < Len(lpLoop[l].hand) =>
    \A id \in lpStory.obeyed : id < Head(lpLoop[l].hand).id

\* A sleeve that was suspended or deactivated runs no more, through restarts of the loop.
\* A sleeve runs with the distance of its cadence, as long as the process lives.
RunsAsTold ==
  \A l \in Loops : lpLoop[l].at = "run" /\ lpLoop'[l].at = "submit" =>
    /\ lpLoop[l].due \cap lpStory.barred = {}
    /\ \A s \in lpLoop[l].due : lpStory.ran[s] # Nothing => lpNow - lpStory.ran[s] >= RunCadence[s]

\* What is submitted was written by this cycle's run, and is not what was submitted last.
SubmitsAsRun ==
  \A l \in Loops : lpLoop[l].sent = Nothing /\ lpLoop'[l].sent # Nothing =>
    lpBatch.of = lpLoop[l].due /\ lpStory.marked # lpLoop'[l].sent

\* Between cycles the file says what the loop does.
SavedAsActive ==
  \A l \in Loops : lpLoop'[l].at = "top" => lpSaved'.sleeves = lpLoop'[l].sleeves

\* A second loop is only started when the first has shown no life, or an error.
SecondWhenSilent ==
  \A l, m \in Loops : l # m /\ ~Alive(l) /\ lpLoop'[l].at = "boot" /\ Alive(m) =>
    \/ lpLoop[m].at = "boot" \/ lpNow - lpLoop[m].beat > MaxBeatAge \/ lpBeat.status = "error"

\* The promises hold as long as there is one loop and it found the sleeves it had saved.
LoopKept ==
  /\ SecondWhenSilent
  /\ ~lpStory'.odd => ObeyedInOrder /\ RunsAsTold /\ SubmitsAsRun /\ SavedAsActive
================================================================================
