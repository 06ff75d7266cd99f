----------------------------- MODULE FrameworkCycle ---------------------------
(* FrameworkRunner for one sleeve, up to the target batch that order sizing     *)
(* gets. The live loop starts a process for every cycle, which restores the     *)
(* runner from its state file, runs one cycle, commits the state patches to the *)
(* model state store and saves the file; it can die between any two of these.   *)
EXTENDS Cadence, PortfolioBlend, SequencesExt

CONSTANTS Alphas,            \* a sequence: the alpha models in the order of their ids
          CadenceOf,         \* [alpha -> its evaluation_cadence]
          SignalsOf,         \* [alpha -> the sequences of signals it may produce]
          Conditions,        \* what a cycle may meet: the quality of its snapshot, the
                             \* symbols that have a bar, the market session
          Steps, MaxTime,    \* minutes between cycles, and the bound on time
          MaxCrashes         \* bound on processes that die

AlphaIds == Range(Alphas)
PortfolioCadence == policy.cadence  \* of the rebalance policy

Signals == [symbol : Symbols, direction : {"up", "down", "flat"}, ttl : Nat]

ASSUME FrameworkAssumption ==
  /\ IsFiniteSet(Symbols)
  /\ Alphas \in Seq(AlphaIds)
  /\ \A a \in AlphaIds : SignalsOf[a] \subseteq Seq(Signals)
  /\ \A c \in Conditions : /\ c.quality \in {"valid", "stale", "invalid"}
                           /\ c.priced \subseteq Symbols
                           /\ c.session \in {"closed", "orderable", "regular"}
  /\ Steps \subseteq Nat \ {0}
  /\ MaxTime \in Nat /\ MaxCrashes \in Nat

--------------------------------------------------------------------------------
(* The records a runner keeps. None is none of them.                            *)

Weightings == UNION {[S -> 0..Full] : S \in SUBSET Symbols}
TargetSets == UNION {[S -> [weight : 0..Full, urgent : BOOLEAN]] : S \in SUBSET Symbols}
Transitions ==
  [from : Weightings, to : Weightings, urgent : SUBSET Symbols, started : Nat,
   fromElapsed : Nat, elapsed : Nat, lastProgress : Nat]
TargetBatches == [targets : TargetSets, transition : Transitions \cup {None}]
Insights ==
  [symbol : Symbols, alpha : AlphaIds, direction : {"up", "down", "flat"}, at : Nat,
   expires : Nat]
Runners ==
  [insights : SUBSET Insights, alphaLast : [AlphaIds -> Nat \cup {Never}],
   portfolioLast : Nat \cup {Never}, batch : TargetBatches \cup {None}]

ASSUME NoneAssumption ==
  None \notin Weightings /\ None \notin Transitions /\ None \notin TargetBatches
  /\ None \notin Runners

VARIABLES
  now,
  process,  \* "down", "ready" (state restored) or "ran" (not yet saved)
  runner,   \* the FrameworkRunner's memory
  file,     \* the saved FrameworkRunnerState, or None
  store,    \* the blend's records of the model state store
  held,     \* symbols with a position
  cycle,    \* the last cycle: its kind, its targets, the resolved targets that a
            \* rebalance asked for last and for how many open minutes they stand
  evaluated, \* [alpha -> dates of its evaluations]
  crashes

vars == <<policy, now, process, runner, file, store, held, cycle, evaluated, crashes>>

--------------------------------------------------------------------------------
(* InsightManager: the active insights, of which restored files keep the rest.  *)

Key(i) == <<i.symbol, i.alpha>>

Unexpired(insights, t) == {i \in insights : i.expires >= t}

\* What superseded insights leave of a batch, a function from places in a list to
\* insights: the last insight of each key.
Standing(batch) ==
  {batch[n] : n \in {n \in DOMAIN batch : \A k \in DOMAIN batch :
                        Key(batch[k]) = Key(batch[n]) => k <= n}}

\* An insight replaces those of its key, also when it has expired itself.
Ingest(insights, batch, t) ==
  {j \in Unexpired(insights, t) : \A n \in DOMAIN batch : Key(batch[n]) # Key(j)}
  \cup Unexpired(Standing(batch), t)

--------------------------------------------------------------------------------
(* AlphaRuntime.run                                                             *)

\* Mutant: when the model ran last is not consulted.
DueAnew(lastRun, t) == {a \in AlphaIds : CadenceDue(CadenceOf[a], t, Never)}

DueAlphas(lastRun, t) == {a \in AlphaIds : CadenceDue(CadenceOf[a], t, lastRun[a])}

Insight(a, signal, t) ==
  [symbol |-> signal.symbol, alpha |-> a, direction |-> signal.direction,
   at |-> t, expires |-> t + signal.ttl]

\* The batch of a run in which every due alpha produces its signals.
AlphaBatch(due, signals, t) ==
  FlattenSeq([k \in 1..Len(Alphas) |->
    IF Alphas[k] \in due
    THEN [n \in 1..Len(signals[Alphas[k]]) |-> Insight(Alphas[k], signals[Alphas[k]][n], t)]
    ELSE <<>>])

\* A snapshot that does not allow new entries drops the new UP insights.
WithoutNewEntries(batch) ==
  [n \in {n \in DOMAIN batch : batch[n].direction # "up"} |-> batch[n]]

--------------------------------------------------------------------------------
(* EqualWeightPortfolioConstructionModel between the engine's two filters.      *)

Rank(a) == CHOOSE k \in 1..Len(Alphas) : Alphas[k] = a

Latest(insights, y) ==
  CHOOSE i \in insights : /\ i.symbol = y
                          /\ \A j \in insights : j.symbol = y =>
                               \/ j.at < i.at
                               \/ j.at = i.at /\ Rank(j.alpha) >= Rank(i.alpha)

\* Entries need a price or a position.
Targetable(targets, priced, positions) ==
  LET kept == {y \in DOMAIN targets : targets[y].weight = 0 \/ y \in priced \cup positions}
  IN [y \in kept |-> targets[y]]

\* Mutant: every symbol takes the whole portfolio.
CreateFull(insights, priced, positions) ==
  LET up == {i.symbol : i \in {j \in insights : j.direction = "up"}}
  IN [y \in up |-> [weight |-> Full, urgent |-> FALSE]]

\* Equal weights of the money in each currency for the symbols whose latest insight is
\* UP; a held symbol with an older exit insight is only left when its latest is not UP.
CreateTargets(insights, priced, positions) ==
  LET visible == {i \in insights : i.symbol \in priced \cup positions}
      symbols == {i.symbol : i \in visible}
      up == {y \in symbols : Latest(visible, y).direction = "up"}
      exits == {y \in positions \ up : \E i \in visible : i.symbol = y /\ i.direction # "up"}
      shared(y) == Full \div Cardinality(up \cap In(CurrencyOf[y]))
  IN [y \in up \cup exits |->
        IF y \in up THEN [weight |-> shared(y), urgent |-> FALSE] ELSE ZeroTarget]

--------------------------------------------------------------------------------
(* FrameworkRunner.run_once                                                     *)

NoRunner ==
  [insights |-> {}, alphaLast |-> [a \in AlphaIds |-> Never], portfolioLast |-> Never,
   batch |-> None]

TargetsOf(batch) == IF batch = None THEN <<>> ELSE batch.targets

\* The model ran: its targets, completed, blended and filtered once more.
FreshBatch(insights, t, priced, session) ==
  LET raw == CreateTargets(insights, priced, held)
      resolved == Targetable(Resolve(raw, TargetsOf(runner.batch), held), priced, held)
      noAction == NoAction(raw, resolved)
      decision == BlendApply(resolved, noAction, runner.batch, store, t, session)
  IN [resolved |-> IF noAction THEN cycle.resolved ELSE resolved,
      store |-> decision.store,
      batch |-> [decision.batch EXCEPT !.targets = Targetable(@, priced, held)]]

\* The model was not due: the last batch again, moved along by the blend.
ReusedBatch(t, priced, session) ==
  LET source == Targetable(runner.batch.targets, priced, held)
      decision == BlendAdvance(source, runner.batch, store, t, session)
  IN [resolved |-> cycle.resolved,
      store |-> decision.store,
      batch |-> [decision.batch EXCEPT !.targets = Targetable(@, priced, held)]]

\* A cycle on an invalid snapshot runs no model and aims at nothing.
InvalidCycle(t) ==
  /\ runner' = [runner EXCEPT !.insights = Unexpired(@, t)]
  /\ cycle' = [cycle EXCEPT !.kind = "invalid", !.targets = <<>>]
  /\ UNCHANGED <<store, evaluated>>

PortfolioStage(insights, due, t, priced, session) ==
  LET rebalance == CadenceDue(PortfolioCadence, t, runner.portfolioLast)
      result == IF rebalance THEN FreshBatch(insights, t, priced, session)
                ELSE ReusedBatch(t, priced, session)
      quiet == IF result.resolved = cycle.resolved
               THEN cycle.quiet + (IF ClockRuns(session) THEN t - now ELSE 0) ELSE 0
      after == [runner EXCEPT !.insights = insights,
                              !.alphaLast = [a \in AlphaIds |-> IF a \in due THEN t ELSE @[a]],
                              !.portfolioLast = IF rebalance THEN t ELSE @]
  IN IF ~rebalance /\ runner.batch = None
     THEN /\ runner' = after
          /\ cycle' = [cycle EXCEPT !.kind = "waiting", !.targets = <<>>]
          /\ UNCHANGED store
     ELSE /\ runner' = [after EXCEPT !.batch = result.batch]
          /\ cycle' = [kind |-> IF rebalance THEN "fresh" ELSE "reused",
                       targets |-> result.batch.targets, resolved |-> result.resolved,
                       quiet |-> quiet]
          /\ store' = result.store

\* One cycle and the commit of its patches.
Cycle(step, condition, signals) ==
  LET t == now + step
      due == DueAlphas(runner.alphaLast, t)
      produced == AlphaBatch(due, signals, t)
      batch == IF condition.quality = "stale" THEN WithoutNewEntries(produced) ELSE produced
  IN /\ process = "ready"
     /\ t <= MaxTime
     /\ process' = "ran"
     /\ now' = t
     /\ IF condition.quality = "invalid"
        THEN InvalidCycle(t)
        ELSE /\ PortfolioStage(Ingest(runner.insights, batch, t), due, t,
                               condition.priced, condition.session)
             /\ evaluated' = [a \in AlphaIds |->
                                IF a \in due THEN Append(evaluated[a], t) ELSE evaluated[a]]
     /\ UNCHANGED <<file, held, crashes>>

\* A new process: the state file is read back, if there is one.
Start ==
  /\ process = "down" /\ now < MaxTime
  /\ process' = "ready"
  /\ runner' = IF file = None THEN NoRunner ELSE file
  /\ UNCHANGED <<now, file, store, held, cycle, evaluated, crashes>>

\* Mutant: the saved state leaves out when the portfolio model ran.
SaveWithoutCadence ==
  /\ process = "ran"
  /\ process' = "down"
  /\ file' = [runner EXCEPT !.insights = Unexpired(@, now), !.portfolioLast = Never]
  /\ runner' = NoRunner
  /\ UNCHANGED <<now, store, held, cycle, evaluated, crashes>>

\* export_state as of the cycle, and the end of the process.
Save ==
  /\ process = "ran"
  /\ process' = "down"
  /\ file' = [runner EXCEPT !.insights = Unexpired(@, now)]
  /\ runner' = NoRunner
  /\ UNCHANGED <<now, store, held, cycle, evaluated, crashes>>

\* The process dies, or another sleeve of the run raises before the files are saved.
Crash ==
  /\ process # "down" /\ crashes < MaxCrashes
  /\ process' = "down"
  /\ runner' = NoRunner
  /\ crashes' = crashes + 1
  /\ UNCHANGED <<now, file, store, held, cycle, evaluated>>

\* Between two cycles the orders of the last one fill: a position towards its target.
Trade(y) ==
  /\ process = "down" /\ y \in DOMAIN cycle.targets
  /\ held' = IF cycle.targets[y].weight = 0 THEN held \ {y} ELSE held \cup {y}
  /\ held' # held
  /\ UNCHANGED <<now, process, runner, file, store, cycle, evaluated, crashes>>

Init ==
  /\ policy \in Policies
  /\ now = 0
  /\ process = "down"
  /\ runner = NoRunner
  /\ file = None
  /\ store = [last |-> None, active |-> None]
  /\ held = {}
  /\ cycle = [kind |-> "none", targets |-> <<>>, resolved |-> <<>>, quiet |-> 0]
  /\ evaluated = [a \in AlphaIds |-> <<>>]
  /\ crashes = 0

SignalChoices == {f \in [AlphaIds -> UNION {SignalsOf[a] : a \in AlphaIds}] :
                    \A a \in AlphaIds : f[a] \in SignalsOf[a]}

Next ==
  /\ UNCHANGED policy
  /\ \/ Start \/ Save \/ Crash
     \/ \E y \in Symbols : Trade(y)
     \/ \E step \in Steps, condition \in Conditions, signals \in SignalChoices :
          Cycle(step, condition, signals)

Spec == Init /\ [][Next]_vars

--------------------------------------------------------------------------------
Memory == IF process # "down" THEN runner ELSE IF file = None THEN NoRunner ELSE file

TypeOK ==
  /\ policy \in Policies
  /\ now \in 0..MaxTime
  /\ process \in {"down", "ready", "ran"}
  /\ runner \in Runners /\ file \in Runners \cup {None}
  /\ store \in [last : Weightings \cup {None}, active : Transitions \cup {None}]
  /\ held \in SUBSET Symbols
  /\ cycle \in [kind : {"none", "invalid", "waiting", "fresh", "reused"},
                targets : TargetSets, resolved : TargetSets, quiet : Nat]
  /\ evaluated \in [AlphaIds -> Seq(0..MaxTime)]
  /\ crashes \in 0..MaxCrashes

(* No leverage: of the money in each currency the weights of a cycle take 100% at *)
(* most, while a model, the completion of its batch and a blend overlap. A       *)
(* patched batch, which keeps what the model left out, promises nothing.         *)
FullyInvestedAtMost ==
  Mode # "patch" => \A c \in Currencies : Share(WeightsOf(cycle.targets), c) <= Full

(* The blend arrives: once the resolved targets have stood for the duration of   *)
(* the blend while its clock ran, what the cycle aims at differs from them by    *)
(* less than the drift threshold, whatever retargets came before.                *)
BlendArrives ==
  LET asked == [y \in DOMAIN cycle.targets |-> Weight(WeightsOf(cycle.resolved), y)]
      off == Drift(WeightsOf(cycle.targets), asked)
  IN cycle.kind \in {"fresh", "reused"} /\ crashes = 0 /\ cycle.quiet >= Duration
       => off = 0 \/ off < Threshold

(* An exit that bypasses the blend is not slowed by it: while the resolved      *)
(* targets ask to leave a symbol under an exit tag, the cycle aims at leaving it.*)
ExitNotSlowed ==
  cycle.kind \in {"fresh", "reused"} =>
    \A y \in DOMAIN cycle.targets \cap DOMAIN cycle.resolved :
      cycle.resolved[y] = ZeroTarget => cycle.targets[y].weight = 0

(* A restart forgets nothing: starting a process and ending one leave what the    *)
(* runner knows as it was; only a process that dies loses a cycle.               *)
RestartKeepsMemory ==
  [][now' = now /\ crashes' = crashes => Memory' = Memory]_vars

(* A model that is due once per period is evaluated once in each: again only when *)
(* a process died before it could save that it had run.                          *)
EvaluatedOncePerDay ==
  \A k \in AlphaIds : CadenceOf[k].kind = "once_per_day" =>
    \A day \in 0..Date(MaxTime) :
      Cardinality({n \in DOMAIN evaluated[k] : Date(evaluated[k][n]) = day}) <= 1 + crashes

(* No cycle asks too much, and no alpha is asked too often, whatever processes   *)
(* die in between.                                                               *)
CyclesSound == TypeOK /\ FullyInvestedAtMost /\ EvaluatedOncePerDay

(* A transition keeps its deadline: retargets, restarts and lost cycles move      *)
(* where it leads and never when it started; the minutes counted are those the   *)
(* clock ran, and all of them when it is the time of day.                        *)
DeadlineKept ==
  [][ store'.active # None =>
        /\ store'.active.elapsed <= now' - store'.active.started
        /\ Clock = "wall_time" /\ store'.active.started + Duration >= now' =>
             store'.active.elapsed = now' - store'.active.started
        /\ store.active # None =>
             /\ store'.active.started = store.active.started
             /\ store'.active.elapsed >= store.active.elapsed ]_store

(* Nothing the runner promised is lost over a restart: neither its memory nor the *)
(* deadline of a transition.                                                     *)
MemoryKept == RestartKeepsMemory /\ DeadlineKept
===============================================================================
