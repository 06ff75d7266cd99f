----------------------------- MODULE PortfolioBlend ---------------------------
(* From the targets a portfolio model asks for to the targets an order cycle    *)
(* aims at: PortfolioTargetResolver completes the model's batch, and            *)
(* PortfolioBlendEngine moves from the old weights to the new ones over a       *)
(* number of minutes. A batch is a function from the symbols it names to their  *)
(* weight (in units of which Full is 100%) and whether their tag lets them      *)
(* bypass the blend. The transition under way is kept in the model state store  *)
(* and in the metadata of the last batch.                                       *)
EXTENDS FrameworkUnits, FiniteSets, Functions

CONSTANTS None,
          Policies  \* configurations a sleeve may have

VARIABLE
  policy     \* the sleeve's configuration; chosen once

Mode == policy.mode              \* portfolio.target_resolution.mode
ZeroWhenEmpty == policy.zeroWhenEmpty
Duration == policy.duration      \* portfolio.blend.duration_minutes; 0 disables it
Threshold == policy.threshold    \* target_drift_threshold_pct
Clock == policy.clock            \* portfolio.blend.clock

ASSUME BlendAssumption ==
  \A p \in Policies :
    /\ p.mode \in {"raw", "patch", "complete"} /\ p.zeroWhenEmpty \in BOOLEAN
    /\ p.duration \in Nat /\ p.threshold \in Nat
    /\ p.clock \in {"wall_time", "orderable_session", "regular_session"}

Batch(targets, transition) == [targets |-> targets, transition |-> transition]

Weight(weights, y) == IF y \in DOMAIN weights THEN weights[y] ELSE 0
WeightsOf(targets) == [y \in DOMAIN targets |-> targets[y].weight]
UrgentIn(targets) == {y \in DOMAIN targets : targets[y].urgent}

\* What weights take of the money in a currency, as portfolio_equity_by_currency counts it.
Share(weights, currency) ==
  SumFunctionOnSet([y \in Symbols |-> Weight(weights, y)], In(currency))

ZeroTarget == [weight |-> 0, urgent |-> TRUE]

\* {**others, **raw}
Completed(raw, others) ==
  [y \in DOMAIN raw \cup DOMAIN others |-> IF y \in DOMAIN raw THEN raw[y] ELSE others[y]]

\* TargetResolver.resolve: what becomes of the symbols the raw batch omits.
Missing(raw, previous, held) ==
  ({y \in DOMAIN previous : previous[y].weight # 0} \cup held) \ DOMAIN raw
Resolve(raw, previous, held) ==
  CASE Mode = "raw" -> raw
    [] Mode = "patch" -> Completed(raw, previous)
    [] Mode = "complete" ->
         IF DOMAIN raw = {} /\ ~ZeroWhenEmpty
         THEN raw
         ELSE Completed(raw, [y \in Missing(raw, previous, held) |-> ZeroTarget])

\* The status empty_no_action of the resolver.
NoAction(raw, resolved) ==
  Mode = "complete" /\ DOMAIN raw = {} /\ DOMAIN resolved = {}

Drift(first, second) ==
  SumFunction([y \in DOMAIN first \cup DOMAIN second |->
                 Abs(Weight(second, y) - Weight(first, y))])

\* PortfolioBlendTransition; `urgent` stands for its to_tags.
NewTransition(from, raw, now) ==
  [from |-> from, to |-> WeightsOf(raw), urgent |-> UrgentIn(raw), started |-> now,
   fromElapsed |-> 0, elapsed |-> 0, lastProgress |-> now]

IsComplete(t) == t.elapsed >= Duration

ClockRuns(session) ==
  CASE Clock = "wall_time" -> TRUE
    [] Clock = "orderable_session" -> session \in {"orderable", "regular"}
    [] Clock = "regular_session" -> session = "regular"

\* Mutant: the minutes since the start are added every time.
AdvanceFromStart(t, now, session) ==
  LET delta == IF ClockRuns(session) THEN now - t.started ELSE 0
  IN [t EXCEPT !.elapsed = IF @ + delta > Duration THEN Duration ELSE @ + delta,
               !.lastProgress = now]

AdvanceTransition(t, now, session) ==
  LET delta == IF ClockRuns(session) THEN now - t.lastProgress ELSE 0
      late == Clock = "wall_time" /\ now >= t.started + Duration
  IN [t EXCEPT !.elapsed = IF late \/ @ + delta > Duration THEN Duration ELSE @ + delta,
               !.lastProgress = now]

\* Mutant: the progress before a retarget is counted twice.
WeightTooFar(t, y) ==
  LET from == Weight(t.from, y)
      to == Weight(t.to, y)
      remaining == Duration - t.fromElapsed
  IN IF remaining = 0 THEN to
     ELSE from + ((to - from) * (t.elapsed + t.fromElapsed)) \div remaining

\* weights_at_progress: linear from `from` at fromElapsed to `to` at Duration.
WeightAt(t, y) ==
  LET from == Weight(t.from, y)
      to == Weight(t.to, y)
      remaining == Duration - t.fromElapsed
  IN IF remaining = 0 THEN to
     ELSE from + ((to - from) * (t.elapsed - t.fromElapsed)) \div remaining

WeightsAt(t) == [y \in DOMAIN t.from \cup DOMAIN t.to |-> WeightAt(t, y)]

\* Mutant: a retarget turns off from where it is, and still leads to the old targets.
RetargetAstray(t, raw) == [t EXCEPT !.from = WeightsAt(t), !.fromElapsed = t.elapsed]

\* Mutant: a retarget starts the blend anew.
RetargetAnew(t, raw) ==
  [t EXCEPT !.from = WeightsAt(t), !.to = WeightsOf(raw), !.urgent = UrgentIn(raw),
            !.started = t.lastProgress, !.fromElapsed = 0, !.elapsed = 0]

Retarget(t, raw) ==
  [t EXCEPT !.from = WeightsAt(t), !.to = WeightsOf(raw), !.urgent = UrgentIn(raw),
            !.fromElapsed = t.elapsed]

--------------------------------------------------------------------------------
(* Decisions. A decision is the batch that goes on to order sizing, with the    *)
(* transition its metadata shows, and the store as its patches leave it:        *)
(* `last`, the weights moved to last, and `active`, the transition under way.   *)

Decision(targets, shown, store) ==
  [batch |-> Batch(targets, shown), store |-> store]

\* The targets of the weights, in which the symbols that bypass the blend take
\* their raw weight. A tag comes from the raw batch, the transition or the last batch.
TargetsFrom(weights, raw, t, bypass, previous) ==
  LET urgent(y) == IF y \in DOMAIN raw THEN raw[y].urgent
                   ELSE IF y \in DOMAIN t.to THEN y \in t.urgent
                   ELSE y \in UrgentIn(previous)
  IN [y \in DOMAIN weights \cup DOMAIN raw |->
        [weight |-> IF y \in bypass THEN raw[y].weight ELSE Weight(weights, y),
         urgent |-> urgent(y)]]

Blended(raw, t, bypass, previous, store) ==
  Decision(TargetsFrom(WeightsAt(t), raw, t, bypass, previous), t,
           [store EXCEPT !.active = t])

FromTransition(raw, t, bypass, previous, store) ==
  IF IsComplete(t)
  THEN Decision(TargetsFrom(t.to, raw, t, bypass, previous), t,
                [last |-> t.to, active |-> None])
  ELSE Blended(raw, t, bypass, previous, store)

\* The store's record, and without one what the last batch's metadata shows.
ActiveTransition(store, previous) ==
  IF store.active # None THEN store.active
  ELSE IF previous # None THEN previous.transition ELSE None

PreviousWeights(store, previous) ==
  IF store.last # None THEN store.last
  ELSE IF previous # None THEN WeightsOf(previous.targets) ELSE <<>>

\* PortfolioBlendEngine.apply, on a cycle whose portfolio model ran.
BlendApply(raw, noAction, previous, store, now, session) ==
  LET desired == WeightsOf(raw)
      bypass == UrgentIn(raw)
      shown == IF previous = None THEN <<>> ELSE previous.targets
      active == ActiveTransition(store, previous)
      t == AdvanceTransition(active, now, session)
      old == PreviousWeights(store, previous)
  IN CASE Duration = 0 -> Decision(raw, None, store)
       [] Duration # 0 /\ active # None ->
            IF ~noAction /\ Drift(t.to, desired) >= Threshold
            THEN Blended(raw, Retarget(t, raw), bypass, shown, store)
            ELSE FromTransition(raw, t, bypass, shown, store)
       [] Duration # 0 /\ active = None ->
            IF noAction THEN Decision(raw, None, store)
            ELSE IF DOMAIN old = {} \/ Drift(old, desired) < Threshold
            THEN Decision(raw, None, [store EXCEPT !.last = desired])
            ELSE Blended(raw, NewTransition(old, raw, now), bypass, shown, store)

\* Mutant: a reused batch does not move.
BlendWaits(source, previous, store, now, session) ==
  Decision(source, previous.transition, store)

\* PortfolioBlendEngine.advance, on a cycle that reuses the last batch: no symbol
\* bypasses the blend.
BlendAdvance(source, previous, store, now, session) ==
  LET active == ActiveTransition(store, previous)
      t == AdvanceTransition(active, now, session)
      synthetic == [y \in DOMAIN t.to |-> [weight |-> t.to[y], urgent |-> y \in t.urgent]]
  IN IF Duration = 0 \/ active = None
     THEN Decision(source, None, store)
     ELSE FromTransition(synthetic, t, {}, previous.targets, store)
===============================================================================
