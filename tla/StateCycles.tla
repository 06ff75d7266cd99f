----------------------------- MODULE StateCycles ------------------------------
(***************************************************************************)
(* Who writes model-owned runtime state, and when.                         *)
(*                                                                         *)
(* A pipeline run (runtime-run-once, runtime_bootstrap.py) first refreshes *)
(* the active universe if its cadence is due and commits that, then lets   *)
(* the trailing-stop alpha read each high watermark and propose a new one, *)
(* and commits all proposals when the cycle has succeeded                  *)
(* (framework/runner.py).  The seeder (runtime-state-seed-trailing-stop,   *)
(* model_state_seed.py) reads the same watermarks, compares them with the  *)
(* virtual account's position states and commits the larger.  Both read    *)
(* long before they write, and neither knows of the other.                 *)
(*                                                                         *)
(* Abstracted: of a trailing-stop record its high watermark, of a universe *)
(* record the day it was selected on; the price of a symbol and the        *)
(* account's position states are any number at any time; what the other    *)
(* models of a cycle patch is any of ModelPatches.                         *)
(***************************************************************************)
EXTENDS ModelState

CONSTANTS
  Sleeves,
  Symbols,
  NoSymbol,      \* the empty symbol_key
  SleeveOf,      \* [Writers -> Sleeves], the --sleeve-id of the command
  Runs,          \* writers that are pipeline runs
  Seeders,       \* writers that are seed commands
  ReadOnly,      \* the runs started with --runtime-state-read-only
  Exclusive,     \* TRUE: one command at a time on the same sleeve
  Cadence,       \* universe.active.cadence
  ModelPatches,  \* what other models of a cycle may ask for
  Prices,        \* bound: closes and position watermarks
  Days,          \* bound: the day is at most this
  MaxProposed,   \* bound: patches of one cycle
  MaxEvents      \* bound: transactions that would exceed this many events

StopKey(s, y) == <<s, "trailing_stop", y>>
UniverseKey(s) == <<s, "active_universe", NoSymbol>>

\* A single-key merge, the default of StatePatch.
MergePatch(k, field, datum) ==
  [key |-> k, operation |-> "merge", value |-> [f \in {field} |-> datum]]

\* The patches of the trailing-stop alpha and of the other models of a sleeve; the
\* batch of an active universe selected on a day.
CyclePatches(s) ==
  {MergePatch(StopKey(s, y), "high", price) : y \in Symbols, price \in Prices}
    \cup {patch \in ModelPatches : patch.key[1] = s}
UniverseBatch(s, d) == <<MergePatch(UniverseKey(s), "selected", d)>>

ASSUME CycleAssumption ==
  /\ SleeveOf \in [Writers -> Sleeves]
  /\ Runs \cup Seeders = Writers
  /\ Runs \cap Seeders = {}
  /\ ReadOnly \subseteq Runs
  /\ Exclusive \in BOOLEAN
  /\ Cadence \in {"every_cycle", "once_per_day", "startup_only"}
  /\ NoSymbol \notin Symbols
  /\ \A s \in Sleeves : UniverseKey(s) \in Keys
  /\ \A s \in Sleeves, y \in Symbols : StopKey(s, y) \in Keys
  /\ ModelPatches \subseteq Patch
  /\ \A patch \in ModelPatches :
       WellFormed(patch) /\ patch.key[2] \notin {"trailing_stop", "active_universe"}
  /\ Prices \subseteq Nat \ {0}
  /\ {"high", "selected"} \subseteq Fields
  /\ Prices \cup 1..Days \subseteq Data
  /\ Days \in Nat \ {0}
  /\ MaxProposed \in Nat

\* apply_patches takes any batch: Batches has all that the commands put together.
ASSUME BatchesSuffice ==
  \A s \in Sleeves :
    /\ \A d \in 1..Days : UniverseBatch(s, d) \in Batches
    /\ \A n \in 1..MaxProposed : [1..n -> CyclePatches(s)] \subseteq Batches

VARIABLES
  pc,        \* [Writers -> stage of the command]
  proposed,  \* [Writers -> Seq(Patch)], state_patches of the cycle or the seeder
  day

cycleVars == <<pc, proposed, day>>
vars == <<records, events, pending, seen, pc, proposed, day>>

Stages == {"idle", "universe", "refresh", "mark", "commit"}

CycleTypeOK ==
  /\ TypeOK
  /\ pc \in [Writers -> Stages]
  /\ \A w \in Writers : proposed[w] \in Seq(Patch)
  /\ day \in 1..Days

Init ==
  /\ StoreInit
  /\ pc = [w \in Writers |-> "idle"]
  /\ proposed = [w \in Writers |-> <<>>]
  /\ day = 1

Goto(w, stage) == pc' = [pc EXCEPT ![w] = stage]

HasField(k, field) == field \in DOMAIN records[k].value

-----------------------------------------------------------------------------
(* Commands. *)

\* Mutant: commands on the same sleeve overlap.
StartBeside(w) ==
  /\ pc[w] = "idle"
  /\ \E stage \in IF w \in Runs THEN {"universe", "mark"} ELSE {"mark"} : Goto(w, stage)
  /\ UNCHANGED <<storeVars, proposed, day>>

\* The start of a seed command or of a pipeline run; runtime-run-multi-once does
\* not look at the active universe.
Start(w) ==
  /\ pc[w] = "idle"
  /\ Exclusive => \A v \in Writers : SleeveOf[v] = SleeveOf[w] => pc[v] = "idle"
  /\ \E stage \in IF w \in Runs THEN {"universe", "mark"} ELSE {"mark"} : Goto(w, stage)
  /\ UNCHANGED <<storeVars, proposed, day>>

\* Mutant: the run trusts no record and refreshes each time.
DueAlways(s) == TRUE

\* refresh_active_universe_if_due: cadence_due for the day of the record.
Due(s) ==
  \/ records[UniverseKey(s)] = NoRecord
  \/ Cadence = "every_cycle"
  \/ Cadence = "once_per_day" /\ records[UniverseKey(s)].value["selected"] # day

\* refresh_active_universe_if_due: store.get, cadence_due and the selection.  A
\* startup_only cadence without a record selects nothing, but persists as well.
CheckUniverse(w) ==
  LET s == SleeveOf[w] IN
  /\ pc[w] = "universe"
  /\ IF Due(s)
     THEN /\ Goto(w, "refresh")
          /\ proposed' = [proposed EXCEPT ![w] = UniverseBatch(s, day)]
     ELSE Goto(w, "mark") /\ UNCHANGED proposed
  /\ UNCHANGED <<storeVars, day>>

\* Mutant: the committed patch stays among the proposals of the cycle.
PersistUniverseKept(w) ==
  /\ pc[w] = "refresh"
  /\ ReadAll(w, proposed[w])
  /\ UNCHANGED <<pc, proposed, day>>

\* _persist_active_universe_state, which does not look at the read-only flag.
PersistUniverse(w) ==
  /\ pc[w] = "refresh"
  /\ ReadAll(w, proposed[w])
  /\ proposed' = [proposed EXCEPT ![w] = <<>>]
  /\ UNCHANGED <<pc, day>>

\* Mutant: the key of a symbol is the same for all sleeves.
KeyForAll(w, y) == StopKey(CHOOSE s \in Sleeves : TRUE, y)

\* RuntimeModelStateView.key with its default sleeve; the seeder's key.
KeyFor(w, y) == StopKey(SleeveOf[w], y)

Unmarked(w, k) == \A i \in DOMAIN proposed[w] : proposed[w][i].key # k

\* Mutant: the price itself, whatever was recorded.
RaisedAnew(k, price) == price

\* The watermark proposed for a price, never below the recorded one: that of
\* _trailing_mark for the close a run sees, that of the seeder's high_candidates
\* for the watermark of a position state.
Raised(k, price) ==
  IF HasField(k, "high") /\ records[k].value["high"] > price
  THEN records[k].value["high"]
  ELSE price

\* One symbol of the trailing-stop alpha's state_patches, or one position of the
\* seeder: the recorded watermark is read with store.get.
MarkSymbol(w, y, price) ==
  LET k == KeyFor(w, y) IN
  /\ pc[w] = "mark"
  /\ Unmarked(w, k)
  /\ Len(proposed[w]) < MaxProposed
  /\ proposed' = [proposed EXCEPT ![w] = Append(@, MergePatch(k, "high", Raised(k, price)))]
  /\ UNCHANGED <<storeVars, pc, day>>

\* state_patches of another model of the cycle.
ProposePatch(w, patch) ==
  /\ pc[w] = "mark"
  /\ w \in Runs
  /\ patch.key[1] = SleeveOf[w]
  /\ Len(proposed[w]) < MaxProposed
  /\ proposed' = [proposed EXCEPT ![w] = Append(@, patch)]
  /\ UNCHANGED <<storeVars, pc, day>>

\* _commit_state_patches at the end of the cycle, or the seeder's apply_patches:
\* the proposals are applied in one call.
CommitProposals(w) ==
  /\ pc[w] = "mark"
  /\ w \notin ReadOnly
  /\ ReadAll(w, proposed[w])
  /\ Goto(w, "commit")
  /\ proposed' = [proposed EXCEPT ![w] = <<>>]
  /\ UNCHANGED day

\* The end of a command that has nothing to commit, or must not.
SkipCommit(w) ==
  /\ pc[w] = "mark"
  /\ w \in ReadOnly \/ proposed[w] = <<>>
  /\ Goto(w, "idle")
  /\ proposed' = [proposed EXCEPT ![w] = <<>>]
  /\ UNCHANGED <<storeVars, day>>

\* The transaction: a refresh goes on with the cycle, a cycle has ended.
Write(w) ==
  /\ Len(events) + Len(pending[w]) <= MaxEvents
  /\ Commit(w)
  /\ Goto(w, IF pc[w] = "refresh" THEN "mark" ELSE "idle")
  /\ UNCHANGED <<proposed, day>>

\* The command ends anywhere: a model raises, the process is killed, or the
\* database stays locked.  What was not committed is lost.
Crash(w) ==
  /\ pc[w] # "idle"
  /\ Finished(w)
  /\ Goto(w, "idle")
  /\ proposed' = [proposed EXCEPT ![w] = <<>>]
  /\ UNCHANGED <<records, events, day>>

NextDay ==
  /\ day < Days
  /\ day' = day + 1
  /\ UNCHANGED <<storeVars, pc, proposed>>

Next ==
  \/ \E w \in Writers :
       \/ Start(w)
       \/ CheckUniverse(w)
       \/ PersistUniverse(w)
       \/ \E y \in Symbols, price \in Prices : MarkSymbol(w, y, price)
       \/ \E patch \in ModelPatches : ProposePatch(w, patch)
       \/ CommitProposals(w)
       \/ SkipCommit(w)
       \/ Write(w)
       \/ Crash(w)
  \/ NextDay

Spec == Init /\ [][Next]_vars

-----------------------------------------------------------------------------
(* Properties. *)

NeverLowers(k) ==
  HasField(k, "high") =>
    /\ "high" \in DOMAIN records'[k].value
    /\ records'[k].value["high"] >= records[k].value["high"]

(* The records are what their audit trail gives when it is replayed, and the     *)
(* processes that write them are where their commands may be.                   *)
RecordsReplayed == CycleTypeOK /\ TrailReplays

(* Whatever overlaps, the last audit event of a key describes its record.        *)
RecordsAudited == CycleTypeOK /\ RecordsExplained

(* A trailing-stop watermark never falls (the max of _trailing_mark and of the *)
(* seeder), although both compute it from a read that is older than the write. *)
WatermarkNeverFalls ==
  [][\A s \in Sleeves, y \in Symbols : NeverLowers(StopKey(s, y))]_vars

(* docs/krx-market-open-runbook.md:359 of the seed command: "It never lowers an *)
(* existing high-watermark, so it is safe to repeat during startup recovery".   *)
SeedNeverLowers ==
  [][\A w \in Seeders, y \in Symbols :
       Write(w) => NeverLowers(StopKey(SleeveOf[w], y))]_vars

(* The active universe of a sleeve is persisted once a day, whatever runs crash *)
(* in between (cadence once_per_day of refresh_active_universe_if_due, whose    *)
(* memory is the record and nothing in the process).                            *)
SelectedOncePerDay ==
  \A i, j \in DOMAIN events :
    LET s == events[i].key[1] IN
    (/\ events[i].key = UniverseKey(s)
     /\ events[j].key = UniverseKey(s)
     /\ events[i].value = events[j].value) => i = j
===============================================================================
