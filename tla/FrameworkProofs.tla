---------------------------- MODULE FrameworkProofs ---------------------------
(***************************************************************************)
(* Proofs about FrameworkCycle: the cycles of a runner ask for no more     *)
(* than 100% and evaluate no alpha too often, what the runner knows and    *)
(* the deadline of a transition outlast its processes, and a blend arrives *)
(* where the targets asked for stand long enough. Then about LeapsSleeve:  *)
(* in every cycle its guards hold.                                         *)
(***************************************************************************)
EXTENDS FrameworkCycle, LeapsSleeve, InductionLemmas

\* Weights that stay within 100% of the money in each currency, which nobody promises
\* of a patched batch.
Funded(w) == Mode # "patch" => \A c \in Currencies : Share(w, c) <= Full

\* A transition as the blend may keep it at time n: the minutes it has counted are
\* minutes that went by since it started, and all of them on the wall clock.
SoundAt(t, n) ==
  /\ t.fromElapsed <= t.elapsed /\ t.elapsed <= Duration
  /\ t.started <= t.lastProgress /\ t.lastProgress <= n
  /\ t.elapsed <= t.lastProgress - t.started
  /\ Clock = "wall_time" => t.elapsed = Duration \/ t.elapsed = t.lastProgress - t.started
  /\ Funded(t.from) /\ Funded(t.to)

BatchSoundAt(b, n) ==
  /\ Funded(WeightsOf(b.targets))
  /\ b.transition # None => SoundAt(b.transition, n)

StoreSoundAt(s, n) ==
  /\ s.last # None => Funded(s.last)
  /\ s.active # None => SoundAt(s.active, n)

\* The same under a policy that is named.
FundedFor(p, w) == p.mode # "patch" => \A c \in Currencies : Share(w, c) <= Full

SoundFor(p, t, n) ==
  /\ t.fromElapsed <= t.elapsed /\ t.elapsed <= p.duration
  /\ t.started <= t.lastProgress /\ t.lastProgress <= n
  /\ t.elapsed <= t.lastProgress - t.started
  /\ p.clock = "wall_time" => t.elapsed = p.duration \/ t.elapsed = t.lastProgress - t.started
  /\ FundedFor(p, t.from) /\ FundedFor(p, t.to)

BatchFor(p, b, n) ==
  /\ FundedFor(p, WeightsOf(b.targets))
  /\ b.transition # None => SoundFor(p, b.transition, n)

RunnerFor(p, r, n) ==
  /\ r.batch # None => BatchFor(p, r.batch, n)
  /\ \A a \in AlphaIds : r.alphaLast[a] # Never => r.alphaLast[a] <= n

StoreFor(p, s, n) ==
  /\ s.last # None => FundedFor(p, s.last)
  /\ s.active # None => SoundFor(p, s.active, n)

RecordsSound ==
  /\ RunnerFor(policy, runner, now)
  /\ file # None => RunnerFor(policy, file, now)
  /\ StoreFor(policy, store, now)
  /\ FundedFor(policy, WeightsOf(cycle.targets))

\* What ran has dropped what expired, so saving it drops nothing more.
RanUnexpired == process = "ran" => Unexpired(runner.insights, now) = runner.insights

\* The evaluations of an alpha on a day.
OnDay(times, day) == {n \in DOMAIN times : Date(times[n]) = day}

\* A day that the runner remembers to have reached may have had one evaluation
\* more than processes died; a day it does not remember, or has not reached, none.
Remembered(last, day) == IF last # Never /\ day <= Date(last) THEN 1 ELSE 0

Counted(times, last, deaths) ==
  \A a \in AlphaIds : CadenceOf[a].kind = "once_per_day" =>
    \A day \in Nat : Cardinality(OnDay(times[a], day)) <= deaths + Remembered(last[a], day)

EvaluationsCounted == Counted(evaluated, Memory.alphaLast, crashes)

\* Weights that the drift threshold does not tell apart.
Near(p, v, w) == Drift(v, w) = 0 \/ Drift(v, w) < p.threshold

Steady(t) == \A y \in Symbols : Weight(t.from, y) = Weight(t.to, y)

\* The transition leads to what was asked for, and has moved for as long as that
\* stands or has nowhere to move.
Leads(p, t, c) ==
  /\ Near(p, t.to, WeightsOf(c.resolved))
  /\ t.elapsed >= p.duration \/ t.elapsed >= c.quiet \/ Steady(t)

\* Without a transition the batch is what was asked for, as far as it goes.
Settled(p, b, s, c) ==
  /\ s.active = None
  /\ \A y \in DOMAIN b.targets : b.targets[y].weight = Weight(WeightsOf(c.resolved), y)
  /\ p.duration # 0 => \/ s.last = WeightsOf(c.resolved)
                       \/ s.last = None /\ c.resolved = <<>> /\ b.targets = <<>>

Fresh(s, c) == s.active = None /\ s.last = None /\ c.resolved = <<>>

Moving(p, b, s, c) ==
  /\ p.duration # 0 /\ Leads(p, b.transition, c)
  /\ IF s.active = None THEN b.transition.elapsed >= p.duration ELSE s.active = b.transition

OnTheWayFor(p, b, s, c) ==
  /\ b = None => Fresh(s, c)
  /\ b # None /\ b.transition = None => Settled(p, b, s, c)
  /\ b # None /\ b.transition # None => Moving(p, b, s, c)

\* As long as no process has died, batch and store show the same transition.
OnTheWay == crashes = 0 => OnTheWayFor(policy, Memory.batch, store, cycle)

CycleInv == TypeOK /\ RecordsSound /\ RanUnexpired /\ EvaluationsCounted

-------------------------------------------------------------------------------
(* Arithmetic.                                                                 *)

\* A quotient rounded down, times the divisor.
LEMMA DivBound ==
  ASSUME NEW a \in Int, NEW r \in Nat \ {0}
  PROVE  /\ a \div r \in Int
         /\ r * (a \div r) <= a
         /\ a < r * (a \div r) + r
  OBVIOUS
\* A later time lies on no earlier day.
LEMMA DivMonotone ==
  ASSUME NEW a \in Nat, NEW b \in Nat, NEW m \in Nat \ {0}, a <= b
  PROVE  a \div m \in Nat /\ a \div m <= b \div m
  OBVIOUS

\* Between two weights lies the one in between, at most what the exact one would be.
LEMMA Interpolated ==
  ASSUME NEW F \in Nat, NEW v \in 0..F, NEW w \in 0..F, NEW r \in Nat \ {0}, NEW k \in 0..r
  PROVE  /\ v + ((w - v) * k) \div r \in 0..F
         /\ r * (v + ((w - v) * k) \div r) <= (r - k) * v + k * w
<1> DEFINE q == ((w - v) * k) \div r
<1>1. q \in Int /\ r * q <= (w - v) * k /\ (w - v) * k < r * q + r
  BY DivBound
<1> HIDE DEF q
<1>2. (w - v) * k = w * k - v * k
  OBVIOUS
<1>3. r * (v + q) = r * v + r * q
  BY <1>1
<1>4. (r - k) * v = r * v - k * v
  OBVIOUS
<1>5. r * (v + q) <= (r - k) * v + k * w
  BY <1>1, <1>2, <1>3, <1>4
<1>6. 0 <= (r - k) * v /\ 0 <= k * w
  OBVIOUS
<1>7. v + q >= 0
  <2>1. r * (v + q) + r > 0
    BY <1>1, <1>2, <1>3, <1>4, <1>6
  <2>2. r * ((v + q) + 1) > 0
    BY <2>1, <1>1
  <2>3. (v + q) + 1 > 0
    BY <2>2, <1>1
  <2> QED BY <2>3, <1>1
<1>8. v + q <= F
  <2>1. (r - k) * v <= (r - k) * F /\ k * w <= k * F
    OBVIOUS
  <2>2. (r - k) * F + k * F = r * F
    OBVIOUS
  <2>3. r * (v + q) <= r * F
    BY <1>1, <1>5, <2>1, <2>2
  <2> QED BY <2>3, <1>1
<1> QED BY <1>1, <1>5, <1>7, <1>8 DEF q

\* What is between two sums within a bound is within it.
LEMMA BetweenBounds ==
  ASSUME NEW F \in Nat, NEW f \in 0..F, NEW t \in 0..F, NEW s \in Int,
         NEW r \in Nat \ {0}, NEW k \in 0..r, r * s <= (r - k) * f + k * t
  PROVE  s <= F
<1>1. (r - k) * f <= (r - k) * F /\ k * t <= k * F
  OBVIOUS
<1>2. (r - k) * F + k * F = r * F
  OBVIOUS
<1>3. r * s <= r * F
  BY <1>1, <1>2
<1> QED BY <1>3

-------------------------------------------------------------------------------
(* Weights by symbol, of which a symbol that has none weighs nothing.          *)

Spread(w) == [y \in Symbols |-> Weight(w, y)]

\* The parameters of the policy.
LEMMA PolicyType ==
  ASSUME policy \in Policies
  PROVE  /\ Duration \in Nat /\ Threshold \in Nat /\ Mode \in {"raw", "patch", "complete"}
         /\ Clock \in {"wall_time", "orderable_session", "regular_session"}
BY BlendAssumption DEF Duration, Threshold, Mode, Clock

\* What a weighting is.
LEMMA WeightingType ==
  ASSUME NEW w \in Weightings
  PROVE  /\ DOMAIN w \in SUBSET Symbols /\ w = [y \in DOMAIN w |-> w[y]]
         /\ \A y \in DOMAIN w : w[y] \in 0..Full
BY DEF Weightings

\* A function from symbols to weights is a weighting.
LEMMA WeightingMade ==
  ASSUME NEW S \in SUBSET Symbols, NEW w, w = [y \in S |-> w[y]], \A y \in S : w[y] \in 0..Full
  PROVE  w \in Weightings
<1>1. w \in [S -> 0..Full]
  OBVIOUS
<1> QED BY <1>1 DEF Weightings

\* What a set of targets is.
LEMMA TargetsType ==
  ASSUME NEW targets \in TargetSets
  PROVE  /\ DOMAIN targets \in SUBSET Symbols /\ targets = [y \in DOMAIN targets |-> targets[y]]
         /\ \A y \in DOMAIN targets : targets[y] \in [weight : 0..Full, urgent : BOOLEAN]
BY DEF TargetSets

\* A function from symbols to targets is a set of targets.
LEMMA TargetsMade ==
  ASSUME NEW S \in SUBSET Symbols, NEW targets, targets = [y \in S |-> targets[y]],
         \A y \in S : targets[y] \in [weight : 0..Full, urgent : BOOLEAN]
  PROVE  targets \in TargetSets
<1>1. targets \in [S -> [weight : 0..Full, urgent : BOOLEAN]]
  OBVIOUS
<1> QED BY <1>1 DEF TargetSets

\* The weights of targets.
LEMMA WeightsOfType ==
  ASSUME NEW targets \in TargetSets
  PROVE  /\ WeightsOf(targets) \in Weightings /\ DOMAIN WeightsOf(targets) = DOMAIN targets
         /\ \A y \in DOMAIN targets : WeightsOf(targets)[y] = targets[y].weight
<1> DEFINE w == WeightsOf(targets)
<1>1. DOMAIN w = DOMAIN targets /\ w = [y \in DOMAIN targets |-> w[y]]
      /\ \A y \in DOMAIN targets : w[y] = targets[y].weight
  BY DEF WeightsOf
<1>2. DOMAIN targets \in SUBSET Symbols
      /\ \A y \in DOMAIN targets : targets[y].weight \in 0..Full
  BY TargetsType
<1> HIDE DEF w
<1>3. \A y \in DOMAIN targets : w[y] \in 0..Full
  BY <1>1, <1>2
<1>4. w \in Weightings
  BY <1>1, <1>2, <1>3, WeightingMade
<1> QED BY <1>1, <1>4 DEF w

\* The weight of any symbol.
LEMMA WeightType ==
  ASSUME NEW w \in Weightings, NEW y
  PROVE  Weight(w, y) \in 0..Full /\ Weight(w, y) \in Nat
<1>1. Full \in Nat
  BY UnitAssumption
<1> QED BY <1>1, WeightingType DEF Weight

\* The symbols of a currency are finitely many.
LEMMA ListedType ==
  ASSUME NEW c
  PROVE  In(c) \in SUBSET Symbols /\ IsFiniteSet(In(c))
<1>1. In(c) \in SUBSET Symbols
  BY DEF In
<1> QED BY <1>1, FrameworkAssumption, FS_Subset

\* What weights take of a currency.
LEMMA ShareSpread ==
  ASSUME NEW w \in Weightings, NEW c
  PROVE  Share(w, c) = SumFunctionOnSet(Spread(w), In(c)) /\ Share(w, c) \in Nat
<1>1. \A y \in In(c) : Spread(w)[y] \in Nat
  BY ListedType, WeightType DEF Spread
<1>2. SumFunctionOnSet(Spread(w), In(c)) \in Nat
  BY <1>1, ListedType, SumNatOn
<1> QED BY <1>2 DEF Share, Spread

\* Weights are within 100% when others are that are nowhere less.
LEMMA FundedBelow ==
  ASSUME NEW v \in Weightings, NEW w \in Weightings, Funded(w),
         \A y \in DOMAIN v : v[y] <= Weight(w, y)
  PROVE  Funded(v)
<1> SUFFICES ASSUME Mode # "patch", NEW c \in Currencies PROVE Share(v, c) <= Full
  BY DEF Funded
<1>1. \A y \in In(c) : Spread(v)[y] \in Int /\ Spread(w)[y] \in Int
                       /\ Spread(v)[y] <= Spread(w)[y]
  <2> SUFFICES ASSUME NEW y \in Symbols
               PROVE  Weight(v, y) \in Int /\ Weight(w, y) \in Int
                      /\ Weight(v, y) <= Weight(w, y)
    BY ListedType DEF Spread
  <2>1. Weight(v, y) \in Nat /\ Weight(w, y) \in Nat
    BY WeightType
  <2>2. CASE y \in DOMAIN v
    BY <2>1, <2>2 DEF Weight
  <2>3. CASE y \notin DOMAIN v
    <3>1. Weight(v, y) = 0
      BY <2>3 DEF Weight
    <3> QED BY <2>1, <3>1
  <2> QED BY <2>2, <2>3
<1>2. SumFunctionOnSet(Spread(v), In(c)) <= SumFunctionOnSet(Spread(w), In(c))
  BY <1>1, ListedType, SumAtMost
<1>3. Share(v, c) <= Share(w, c) /\ Share(v, c) \in Nat /\ Share(w, c) \in Nat
  BY <1>2, ShareSpread
<1>4. Full \in Nat /\ Share(w, c) <= Full
  BY UnitAssumption DEF Funded
<1> QED BY <1>3, <1>4

\* The empty weighting and the empty set of targets.
LEMMA EmptyTypes ==
  /\ <<>> \in Weightings /\ <<>> \in TargetSets /\ Funded(<<>>)
  /\ WeightsOf(<<>>) = <<>> /\ DOMAIN <<>> = {}
<1>1. DOMAIN <<>> = {} /\ <<>> = [y \in {} |-> <<>>[y]]
  OBVIOUS
<1>2. <<>> \in Weightings
  BY <1>1, WeightingMade
<1>3. <<>> \in TargetSets
  BY <1>1, TargetsMade
<1>4. Full \in Nat
  BY UnitAssumption
<1>5. ASSUME NEW c PROVE Share(<<>>, c) = 0
  <2>1. \A y \in In(c) : Spread(<<>>)[y] = 0
    BY <1>1, ListedType DEF Spread, Weight
  <2>2. SumFunctionOnSet(Spread(<<>>), In(c)) = SumFunctionOnSet(Spread(<<>>), {})
    BY <2>1, ListedType, SumWithin
  <2> QED BY <1>2, <2>2, ShareSpread, SumEmpty
<1>6. Funded(<<>>)
  BY <1>4, <1>5 DEF Funded
<1>7. WeightsOf(<<>>) = <<>>
  BY <1>1 DEF WeightsOf
<1> QED BY <1>1, <1>2, <1>3, <1>6, <1>7

-------------------------------------------------------------------------------
(* Transitions.                                                                *)

\* A transition sound at a time is so later.
LEMMA SoundLater ==
  ASSUME NEW t \in Transitions, NEW m \in Nat, NEW n \in Nat, m <= n, SoundAt(t, m)
  PROVE  SoundAt(t, n)
<1>1. t.lastProgress \in Nat
  BY DEF Transitions
<1> QED BY <1>1 DEF SoundAt

\* The minutes a cycle adds to the clock of the blend.
Minutes(session, from, to) == IF ClockRuns(session) THEN to - from ELSE 0

\* A transition that is moved along stays sound, keeps where it comes from, where it
\* leads and when it started, and has moved by the minutes its clock ran.
LEMMA Advanced ==
  ASSUME policy \in Policies, NEW t \in Transitions, NEW m \in Nat, NEW n \in Nat, m <= n,
         SoundAt(t, m), NEW session, NEW a, a = AdvanceTransition(t, n, session)
  PROVE  /\ a \in Transitions /\ SoundAt(a, n)
         /\ a.from = t.from /\ a.to = t.to /\ a.urgent = t.urgent /\ a.started = t.started
         /\ a.fromElapsed = t.fromElapsed /\ a.elapsed >= t.elapsed
         /\ a.elapsed >= Duration \/ a.elapsed >= t.elapsed + Minutes(session, m, n)
<1>1. /\ Duration \in Nat
      /\ t.fromElapsed \in Nat /\ t.elapsed \in Nat /\ t.started \in Nat
      /\ t.lastProgress \in Nat
  BY PolicyType DEF Transitions
<1>2. /\ t.fromElapsed <= t.elapsed /\ t.elapsed <= Duration
      /\ t.started <= t.lastProgress /\ t.lastProgress <= m
      /\ t.elapsed <= t.lastProgress - t.started
      /\ Clock = "wall_time" => t.elapsed = Duration \/ t.elapsed = t.lastProgress - t.started
      /\ Funded(t.from) /\ Funded(t.to)
  BY DEF SoundAt
<1> DEFINE delta == IF ClockRuns(session) THEN n - t.lastProgress ELSE 0
           late == Clock = "wall_time" /\ n >= t.started + Duration
           e == IF late \/ t.elapsed + delta > Duration THEN Duration ELSE t.elapsed + delta
<1>3. a = [t EXCEPT !.elapsed = e, !.lastProgress = n]
  BY DEF AdvanceTransition
<1>4. delta \in Nat /\ delta <= n - t.lastProgress /\ delta >= Minutes(session, m, n)
      /\ Minutes(session, m, n) \in Nat
  BY <1>1, <1>2 DEF Minutes
<1>5. Clock = "wall_time" => delta = n - t.lastProgress
  BY DEF ClockRuns
<1> HIDE DEF delta
<1>6. /\ e \in Nat /\ e <= Duration /\ t.elapsed <= e /\ e <= n - t.started
      /\ Clock = "wall_time" => e = Duration \/ e = n - t.started
      /\ e >= Duration \/ e >= t.elapsed + Minutes(session, m, n)
  <2>1. CASE late
    BY <1>1, <1>2, <1>4, <2>1
  <2>2. CASE ~late
    <3>1. e = IF t.elapsed + delta > Duration THEN Duration ELSE t.elapsed + delta
      BY <2>2
    <3> HIDE DEF e, late
    <3> QED BY <1>1, <1>2, <1>4, <1>5, <3>1
  <2> QED BY <2>1, <2>2
<1> HIDE DEF e
<1>7. /\ a \in Transitions
      /\ a.from = t.from /\ a.to = t.to /\ a.urgent = t.urgent /\ a.started = t.started
      /\ a.fromElapsed = t.fromElapsed /\ a.elapsed = e /\ a.lastProgress = n
  BY <1>3, <1>6 DEF Transitions
<1>8. t.fromElapsed <= e /\ t.started <= n
  BY <1>1, <1>2, <1>6
<1>9. SoundAt(a, n)
  BY <1>1, <1>2, <1>6, <1>7, <1>8 DEF SoundAt
<1> QED BY <1>6, <1>7, <1>9

\* The weights a transition shows are weights, within 100% when both its ends are.
LEMMA ShownWeights ==
  ASSUME policy \in Policies, NEW t \in Transitions, NEW m \in Nat, SoundAt(t, m)
  PROVE  /\ WeightsAt(t) \in Weightings /\ Funded(WeightsAt(t))
         /\ DOMAIN WeightsAt(t) = DOMAIN t.from \cup DOMAIN t.to
<1> DEFINE r == Duration - t.fromElapsed
           k == t.elapsed - t.fromElapsed
           w == WeightsAt(t)
<1>1. /\ Duration \in Nat /\ t.fromElapsed \in Nat /\ t.elapsed \in Nat
      /\ t.from \in Weightings /\ t.to \in Weightings /\ Full \in Nat
  BY PolicyType, UnitAssumption DEF Transitions
<1>2. r \in Nat /\ k \in 0..r
  BY <1>1 DEF SoundAt
<1>3. ASSUME NEW y
      PROVE  /\ WeightAt(t, y) \in 0..Full /\ WeightAt(t, y) \in Nat
             /\ r = 0 => WeightAt(t, y) = Weight(t.to, y)
             /\ r # 0 => r * WeightAt(t, y) <= (r - k) * Weight(t.from, y) + k * Weight(t.to, y)
  <2>1. Weight(t.from, y) \in 0..Full /\ Weight(t.to, y) \in 0..Full
    BY <1>1, WeightType
  <2>2. WeightAt(t, y) = IF r = 0 THEN Weight(t.to, y)
          ELSE Weight(t.from, y) + ((Weight(t.to, y) - Weight(t.from, y)) * k) \div r
    BY DEF WeightAt
  <2> HIDE DEF r, k
  <2> DEFINE v == WeightAt(t, y)
             from == Weight(t.from, y)
             to == Weight(t.to, y)
  <2> HIDE DEF v, from, to
  <2>5. \A x \in 0..Full : x \in Nat
    BY <1>1
  <2>3. CASE r = 0
    <3>1. v = to
      BY <2>2, <2>3 DEF v, to
    <3> QED BY <2>1, <2>3, <2>5, <3>1 DEF v, to
  <2>4. CASE r # 0
    <3>1. r \in Nat \ {0}
      BY <1>2, <2>4
    <3>2. v = from + ((to - from) * k) \div r
      BY <2>2, <2>4 DEF v, from, to
    <3>3. from \in 0..Full /\ to \in 0..Full
      BY <2>1 DEF from, to
    <3>4. v \in 0..Full /\ r * v <= (r - k) * from + k * to
      BY <1>1, <1>2, <3>1, <3>2, <3>3, Interpolated
    <3> QED BY <2>4, <2>5, <3>4 DEF v, from, to
  <2> QED BY <2>3, <2>4
<1> HIDE DEF r, k
<1>4. /\ DOMAIN w = DOMAIN t.from \cup DOMAIN t.to /\ w = [y \in DOMAIN w |-> w[y]]
      /\ \A y \in DOMAIN w : w[y] = WeightAt(t, y)
  BY DEF WeightsAt
<1>5. DOMAIN w \in SUBSET Symbols
  BY <1>1, <1>4, WeightingType
<1> HIDE DEF w
<1>6. w \in Weightings
  BY <1>3, <1>4, <1>5, WeightingMade
<1>7. Funded(w)
  <2>1. CASE r = 0
    <3>1. \A y \in DOMAIN w : w[y] <= Weight(t.to, y)
      <4> SUFFICES ASSUME NEW y \in DOMAIN w PROVE w[y] <= Weight(t.to, y)
        OBVIOUS
      <4>1. w[y] = Weight(t.to, y) /\ w[y] \in Nat
        BY <1>3, <1>4, <2>1
      <4> QED BY <4>1
    <3>2. Funded(t.to)
      BY DEF SoundAt
    <3> QED BY <1>1, <1>6, <3>1, <3>2, FundedBelow
  <2>2. CASE r # 0
    <3> SUFFICES ASSUME Mode # "patch", NEW c \in Currencies PROVE Share(w, c) <= Full
      BY DEF Funded
    <3>1. Share(t.from, c) <= Full /\ Share(t.to, c) <= Full
      BY DEF SoundAt, Funded
    <3> DEFINE W == Spread(w)
               F == Spread(t.from)
               T == Spread(t.to)
               rW == [y \in Symbols |-> r * W[y]]
               kF == [y \in Symbols |-> (r - k) * F[y]]
               kT == [y \in Symbols |-> k * T[y]]
               Both == [y \in Symbols |-> kF[y] + kT[y]]
    <3>2. \A y \in Symbols : W[y] \in Int /\ F[y] \in Int /\ T[y] \in Int
      BY <1>1, <1>6, WeightType DEF Spread
    <3>3. r \in Int /\ k \in Int /\ r - k \in Int
      BY <1>2
    <3>4. \A y \in Symbols : W[y] = WeightAt(t, y) \/ W[y] = 0
      BY <1>4 DEF Weight, Spread
    <3>5. \A y \in Symbols : r * W[y] <= (r - k) * F[y] + k * T[y]
      <4> SUFFICES ASSUME NEW y \in Symbols PROVE r * W[y] <= (r - k) * F[y] + k * T[y]
        OBVIOUS
      <4>1. F[y] = Weight(t.from, y) /\ T[y] = Weight(t.to, y)
        BY DEF Spread
      <4>2. F[y] \in Nat /\ T[y] \in Nat
        BY <1>1, <4>1, WeightType
      <4>3. r * WeightAt(t, y) <= (r - k) * F[y] + k * T[y]
        BY <1>3, <2>2, <4>1
      <4> HIDE DEF W, F, T
      <4>4. 0 <= (r - k) * F[y] /\ 0 <= k * T[y]
        BY <1>2, <4>2
      <4>5. r * 0 = 0
        BY <1>2
      <4> QED BY <1>2, <3>2, <3>4, <4>2, <4>3, <4>4, <4>5
    <3>6. \A y \in Symbols : rW[y] = r * W[y] /\ kF[y] = (r - k) * F[y] /\ kT[y] = k * T[y]
                             /\ Both[y] = kF[y] + kT[y]
      OBVIOUS
    <3> HIDE DEF W, F, T, rW, kF, kT, Both
    <3>7. \A y \in Symbols : rW[y] \in Int /\ kF[y] \in Int /\ kT[y] \in Int /\ Both[y] \in Int
      BY <3>2, <3>3, <3>6
    <3>8. \A y \in Symbols : rW[y] <= Both[y]
      BY <3>5, <3>6
    <3>9. In(c) \in SUBSET Symbols /\ IsFiniteSet(In(c))
      BY ListedType
    <3>10. SumFunctionOnSet(rW, In(c)) <= SumFunctionOnSet(Both, In(c))
      BY <3>7, <3>8, <3>9, SumAtMost
    <3>11. SumFunctionOnSet(Both, In(c))
             = SumFunctionOnSet(kF, In(c)) + SumFunctionOnSet(kT, In(c))
      BY <3>6, <3>7, <3>9, SumPlus
    <3>12. SumFunctionOnSet(rW, In(c)) = r * SumFunctionOnSet(W, In(c))
      BY <3>2, <3>3, <3>6, <3>9, SumScale
    <3>13. SumFunctionOnSet(kF, In(c)) = (r - k) * SumFunctionOnSet(F, In(c))
      BY <3>2, <3>3, <3>6, <3>9, SumScale
    <3>14. SumFunctionOnSet(kT, In(c)) = k * SumFunctionOnSet(T, In(c))
      BY <3>2, <3>3, <3>6, <3>9, SumScale
    <3>15. /\ SumFunctionOnSet(W, In(c)) = Share(w, c) /\ SumFunctionOnSet(F, In(c)) = Share(t.from, c)
           /\ SumFunctionOnSet(T, In(c)) = Share(t.to, c)
           /\ Share(w, c) \in Nat /\ Share(t.from, c) \in Nat /\ Share(t.to, c) \in Nat
      BY <1>1, <1>6, ShareSpread DEF W, F, T
    <3>16. r * Share(w, c) <= (r - k) * Share(t.from, c) + k * Share(t.to, c)
      BY <3>10, <3>11, <3>12, <3>13, <3>14, <3>15
    <3>17. Share(w, c) \in Int /\ Share(t.from, c) \in 0..Full /\ Share(t.to, c) \in 0..Full /\ r \in Nat \ {0}
      BY <1>1, <1>2, <2>2, <3>1, <3>15
    <3> QED BY <1>1, <1>2, <3>16, <3>17, BetweenBounds
  <2> QED BY <2>1, <2>2
<1> QED BY <1>4, <1>6, <1>7 DEF w

\* A transition that is led elsewhere goes on from where it is, and on its clock.
LEMMA Retargeted ==
  ASSUME policy \in Policies, NEW t \in Transitions, NEW m \in Nat, SoundAt(t, m),
         NEW raw \in TargetSets, Funded(WeightsOf(raw)), NEW a, a = Retarget(t, raw)
  PROVE  /\ a \in Transitions /\ SoundAt(a, m)
         /\ a.from = WeightsAt(t) /\ a.to = WeightsOf(raw) /\ a.fromElapsed = t.elapsed
         /\ a.elapsed = t.elapsed /\ a.started = t.started /\ a.lastProgress = t.lastProgress
<1>1. UrgentIn(raw) \in SUBSET Symbols
  BY TargetsType DEF UrgentIn
<1>2. WeightsAt(t) \in Weightings /\ Funded(WeightsAt(t)) /\ WeightsOf(raw) \in Weightings
  BY ShownWeights, WeightsOfType
<1>3. a = [t EXCEPT !.from = WeightsAt(t), !.to = WeightsOf(raw), !.urgent = UrgentIn(raw),
                    !.fromElapsed = t.elapsed]
  BY DEF Retarget
<1>4. /\ a \in Transitions
      /\ a.from = WeightsAt(t) /\ a.to = WeightsOf(raw) /\ a.fromElapsed = t.elapsed
      /\ a.elapsed = t.elapsed /\ a.started = t.started /\ a.lastProgress = t.lastProgress
  BY <1>1, <1>2, <1>3 DEF Transitions
<1>5. a.fromElapsed <= a.elapsed
  BY <1>4 DEF Transitions
<1>6. SoundAt(a, m)
  BY <1>2, <1>4, <1>5 DEF SoundAt
<1> QED BY <1>4, <1>6

\* A transition that starts has counted nothing.
LEMMA Started ==
  ASSUME policy \in Policies, NEW old \in Weightings, Funded(old), NEW n \in Nat,
         NEW raw \in TargetSets, Funded(WeightsOf(raw)), NEW a, a = NewTransition(old, raw, n)
  PROVE  /\ a \in Transitions /\ SoundAt(a, n)
         /\ a.from = old /\ a.to = WeightsOf(raw) /\ a.elapsed = 0 /\ a.started = n
         /\ a.fromElapsed = 0
<1>1. UrgentIn(raw) \in SUBSET Symbols
  BY TargetsType DEF UrgentIn
<1>2. WeightsOf(raw) \in Weightings /\ Duration \in Nat
  BY WeightsOfType, PolicyType
<1>3. /\ a \in Transitions /\ a.from = old /\ a.to = WeightsOf(raw) /\ a.elapsed = 0
      /\ a.started = n /\ a.fromElapsed = 0 /\ a.lastProgress = n
  BY <1>1, <1>2 DEF NewTransition, Transitions
<1>4. SoundAt(a, n)
  BY <1>2, <1>3 DEF SoundAt
<1> QED BY <1>3, <1>4

-------------------------------------------------------------------------------
(* Decisions of the blend.                                                     *)

Stores == [last : Weightings \cup {None}, active : Transitions \cup {None}]

\* What bypasses the blend is left, which nobody promises of a patched batch.
Left(targets, bypass) == Mode # "patch" => \A y \in bypass : targets[y].weight = 0

\* Targets of the weights, in which the raw weight of what bypasses the blend stands.
Shows(targets, weights, raw, bypass) ==
  /\ targets \in TargetSets /\ Funded(WeightsOf(targets))
  /\ DOMAIN targets = DOMAIN weights \cup DOMAIN raw
  /\ \A y \in DOMAIN targets : targets[y].weight = IF y \in bypass THEN raw[y].weight
                                                  ELSE Weight(weights, y)

DecisionSoundAt(d, n) ==
  /\ d.batch \in TargetBatches /\ BatchSoundAt(d.batch, n)
  /\ d.store \in Stores /\ StoreSoundAt(d.store, n)

\* How far weights lie apart, taken over all symbols.
LEMMA DriftType ==
  ASSUME NEW v \in Weightings, NEW w \in Weightings
  PROVE  Drift(v, w) \in Nat
<1> DEFINE S == DOMAIN v \cup DOMAIN w
           f == [y \in S |-> Abs(Weight(w, y) - Weight(v, y))]
<1>1. S \in SUBSET Symbols /\ IsFiniteSet(Symbols)
  BY WeightingType, FrameworkAssumption
<1>2. IsFiniteSet(S)
  BY <1>1, FS_Subset
<1>3. DOMAIN f = S /\ \A y \in S : f[y] = Abs(Weight(w, y) - Weight(v, y))
  OBVIOUS
<1>4. \A y \in S : f[y] \in Nat
  <2> SUFFICES ASSUME NEW y \in S PROVE f[y] \in Nat
    OBVIOUS
  <2>1. Weight(w, y) \in Nat /\ Weight(v, y) \in Nat
    BY WeightType
  <2> HIDE DEF f, S
  <2> QED BY <1>3, <2>1 DEF Abs
<1>5. Drift(v, w) = SumFunction(f)
  BY DEF Drift
<1> HIDE DEF f, S
<1> QED BY <1>2, <1>3, <1>4, <1>5, SumNat

\* The targets of the weights a blend shows, in which what bypasses it is raw.
LEMMA TargetsFromType ==
  ASSUME policy \in Policies, NEW weights \in Weightings, Funded(weights),
         NEW raw \in TargetSets, NEW t \in Transitions, NEW bypass \in SUBSET DOMAIN raw,
         Left(raw, bypass),
         NEW previous \in TargetSets,
         NEW x, x = TargetsFrom(weights, raw, t, bypass, previous)
  PROVE  Shows(x, weights, raw, bypass)
<1>1. /\ DOMAIN x = DOMAIN weights \cup DOMAIN raw /\ x = [y \in DOMAIN x |-> x[y]]
      /\ \A y \in DOMAIN x : x[y] = [weight |-> x[y].weight, urgent |-> x[y].urgent]
  BY DEF TargetsFrom
<1>6. ASSUME NEW y \in DOMAIN x
      PROVE  x[y].weight = IF y \in bypass THEN raw[y].weight ELSE Weight(weights, y)
  BY DEF TargetsFrom
<1>7. ASSUME NEW y \in DOMAIN x
      PROVE  x[y].urgent = IF y \in DOMAIN raw THEN raw[y].urgent
                           ELSE IF y \in DOMAIN t.to THEN y \in t.urgent
                           ELSE y \in UrgentIn(previous)
  BY DEF TargetsFrom
<1>2. /\ DOMAIN raw \in SUBSET Symbols /\ DOMAIN weights \in SUBSET Symbols
      /\ \A y \in DOMAIN raw : raw[y].weight \in 0..Full /\ raw[y].urgent \in BOOLEAN
  BY TargetsType, WeightingType
<1>3. ASSUME NEW y \in DOMAIN x PROVE x[y] \in [weight : 0..Full, urgent : BOOLEAN]
  <2>1. x[y].weight \in 0..Full
    <3>1. CASE y \in bypass
      BY <1>2, <1>6, <3>1
    <3>2. CASE y \notin bypass
      <4>1. x[y].weight = Weight(weights, y)
        BY <1>6, <3>2
      <4> QED BY <4>1, WeightType
    <3> QED BY <3>1, <3>2
  <2>2. x[y].urgent \in BOOLEAN
    <3>1. CASE y \in DOMAIN raw
      BY <1>2, <1>7, <3>1
    <3>2. CASE y \notin DOMAIN raw
      <4> DEFINE v == x[y].urgent
                 first == y \in t.urgent
                 second == y \in UrgentIn(previous)
      <4>1. v = IF y \in DOMAIN t.to THEN first ELSE second
        BY <1>7, <3>2
      <4>2. first \in BOOLEAN /\ second \in BOOLEAN
        OBVIOUS
      <4> HIDE DEF v, first, second
      <4>3. v \in BOOLEAN
        BY <4>1, <4>2
      <4> QED BY <4>3 DEF v
    <3> QED BY <3>1, <3>2
  <2>3. x[y] = [weight |-> x[y].weight, urgent |-> x[y].urgent]
    BY <1>1
  <2> QED BY <2>1, <2>2, <2>3
<1>4. x \in TargetSets
  <2>1. DOMAIN x \in SUBSET Symbols
    BY <1>1, <1>2
  <2> QED BY <1>1, <1>3, <2>1, TargetsMade
<1>5. Funded(WeightsOf(x))
  <2> SUFFICES ASSUME Mode # "patch" PROVE Funded(WeightsOf(x))
    BY DEF Funded
  <2>0. \A y \in bypass : raw[y].weight = 0
    BY DEF Left
  <2>1. /\ WeightsOf(x) \in Weightings /\ DOMAIN WeightsOf(x) = DOMAIN x
        /\ \A y \in DOMAIN x : WeightsOf(x)[y] = x[y].weight
    BY <1>4, WeightsOfType
  <2>2. \A y \in DOMAIN x : x[y].weight <= Weight(weights, y)
    <3> SUFFICES ASSUME NEW y \in DOMAIN x PROVE x[y].weight <= Weight(weights, y)
      OBVIOUS
    <3>1. Weight(weights, y) \in Nat
      BY WeightType
    <3>2. CASE y \in bypass
      <4>1. x[y].weight = raw[y].weight /\ raw[y].weight = 0
        BY <1>6, <2>0, <3>2
      <4> QED BY <3>1, <4>1
    <3>3. CASE y \notin bypass
      <4>1. x[y].weight = Weight(weights, y)
        BY <1>6, <3>3
      <4> QED BY <3>1, <4>1
    <3> QED BY <3>2, <3>3
  <2> QED BY <2>1, <2>2, FundedBelow
<1> QED BY <1>1, <1>4, <1>5, <1>6 DEF Shows

\* The transition a decision goes by, and the weights it starts from without one.
LEMMA ActiveType ==
  ASSUME policy \in Policies, NEW s \in Stores, NEW previous \in TargetBatches \cup {None},
         NEW m \in Nat, StoreSoundAt(s, m), previous # None => BatchSoundAt(previous, m)
  PROVE  /\ ActiveTransition(s, previous) \in Transitions \cup {None}
         /\ ActiveTransition(s, previous) # None => SoundAt(ActiveTransition(s, previous), m)
         /\ PreviousWeights(s, previous) \in Weightings /\ Funded(PreviousWeights(s, previous))
<1>1. /\ s.last \in Weightings \cup {None} /\ s.active \in Transitions \cup {None}
      /\ s.last # None => Funded(s.last)
      /\ s.active # None => SoundAt(s.active, m)
  BY DEF Stores, StoreSoundAt
<1>2. ASSUME previous # None
      PROVE  /\ previous.transition \in Transitions \cup {None}
             /\ previous.transition # None => SoundAt(previous.transition, m)
             /\ previous.targets \in TargetSets /\ Funded(WeightsOf(previous.targets))
  BY <1>2 DEF TargetBatches, BatchSoundAt
<1>3. /\ ActiveTransition(s, previous) \in Transitions \cup {None}
      /\ ActiveTransition(s, previous) # None => SoundAt(ActiveTransition(s, previous), m)
  BY <1>1, <1>2 DEF ActiveTransition
<1>4. PreviousWeights(s, previous) \in Weightings /\ Funded(PreviousWeights(s, previous))
  <2>1. CASE s.last # None
    BY <1>1, <2>1 DEF PreviousWeights
  <2>2. CASE s.last = None /\ previous # None
    BY <1>2, <2>2, WeightsOfType DEF PreviousWeights
  <2>3. CASE s.last = None /\ previous = None
    BY <2>3, EmptyTypes DEF PreviousWeights
  <2> QED BY <2>1, <2>2, <2>3
<1> QED BY <1>3, <1>4

\* A decision under way shows the weights of its transition and stores it.
LEMMA BlendedSound ==
  ASSUME policy \in Policies, NEW t \in Transitions, NEW n \in Nat, SoundAt(t, n),
         NEW raw \in TargetSets, NEW bypass \in SUBSET DOMAIN raw,
         Left(raw, bypass),
         NEW shown \in TargetSets, NEW s \in Stores, StoreSoundAt(s, n),
         NEW d, d = Blended(raw, t, bypass, shown, s)
  PROVE  /\ DecisionSoundAt(d, n) /\ d.batch.transition = t
         /\ d.store.active = t /\ d.store.last = s.last
         /\ Shows(d.batch.targets, WeightsAt(t), raw, bypass)
<1> DEFINE x == TargetsFrom(WeightsAt(t), raw, t, bypass, shown)
<1>1. WeightsAt(t) \in Weightings /\ Funded(WeightsAt(t))
  BY ShownWeights
<1>6. x = TargetsFrom(WeightsAt(t), raw, t, bypass, shown)
  OBVIOUS
<1> HIDE DEF x
<1>2. Shows(x, WeightsAt(t), raw, bypass)
  BY <1>1, <1>6, TargetsFromType
<1>3. d = [batch |-> [targets |-> x, transition |-> t], store |-> [s EXCEPT !.active = t]]
  BY <1>6 DEF Blended, Decision, Batch
<1>4. /\ d.batch.targets = x /\ d.batch.transition = t /\ d.batch \in TargetBatches
      /\ d.store \in Stores /\ d.store.active = t /\ d.store.last = s.last
  BY <1>2, <1>3 DEF Shows, Stores, TargetBatches
<1>5. DecisionSoundAt(d, n)
  BY <1>2, <1>4 DEF Shows, DecisionSoundAt, BatchSoundAt, StoreSoundAt
<1> QED BY <1>2, <1>4, <1>5

\* A decision at the end of a transition shows where it leads and forgets it.
LEMMA CompletedSound ==
  ASSUME policy \in Policies, NEW t \in Transitions, NEW n \in Nat, SoundAt(t, n),
         NEW raw \in TargetSets, NEW bypass \in SUBSET DOMAIN raw,
         Left(raw, bypass),
         NEW shown \in TargetSets, NEW s \in Stores, StoreSoundAt(s, n), IsComplete(t),
         NEW d, d = FromTransition(raw, t, bypass, shown, s)
  PROVE  /\ DecisionSoundAt(d, n) /\ d.batch.transition = t
         /\ d.store.active = None /\ d.store.last = t.to
         /\ Shows(d.batch.targets, t.to, raw, bypass)
<1> DEFINE x == TargetsFrom(t.to, raw, t, bypass, shown)
<1>1. t.to \in Weightings /\ Funded(t.to)
  BY DEF Transitions, SoundAt
<1>6. x = TargetsFrom(t.to, raw, t, bypass, shown)
  OBVIOUS
<1> HIDE DEF x
<1>2. Shows(x, t.to, raw, bypass)
  BY <1>1, <1>6, TargetsFromType
<1>3. d = [batch |-> [targets |-> x, transition |-> t], store |-> [last |-> t.to, active |-> None]]
  BY <1>6 DEF FromTransition, Decision, Batch
<1>4. /\ d.batch.targets = x /\ d.batch.transition = t /\ d.batch \in TargetBatches
      /\ d.store \in Stores /\ d.store.active = None /\ d.store.last = t.to
  BY <1>1, <1>2, <1>3 DEF Shows, Stores, TargetBatches
<1>5. DecisionSoundAt(d, n)
  BY <1>1, <1>2, <1>4 DEF Shows, DecisionSoundAt, BatchSoundAt, StoreSoundAt
<1> QED BY <1>2, <1>4, <1>5

\* A decision without a transition is the batch it was given.
LEMMA PlainSound ==
  ASSUME policy \in Policies, NEW n \in Nat, NEW raw \in TargetSets, Funded(WeightsOf(raw)),
         NEW s \in Stores, StoreSoundAt(s, n), NEW d, d = Decision(raw, None, s)
  PROVE  /\ DecisionSoundAt(d, n) /\ d.batch.transition = None /\ d.batch.targets = raw
         /\ d.store = s
<1>1. d.batch = [targets |-> raw, transition |-> None] /\ d.store = s
  BY DEF Decision, Batch
<1>2. d.batch \in TargetBatches
  BY <1>1 DEF TargetBatches
<1> QED BY <1>1, <1>2 DEF DecisionSoundAt, BatchSoundAt

\* What the blend decides on a cycle whose portfolio model ran: with a transition that
\* it has moved along, which it leads elsewhere or follows; without one, which it starts
\* or not.
Shown(previous) == IF previous = None THEN <<>> ELSE previous.targets

Follows(d, raw, t, bypass, previous, s) ==
  d = FromTransition(raw, t, bypass, Shown(previous), s)
Leaves(d, raw, t, previous, s) ==
  d = Blended(raw, Retarget(t, raw), UrgentIn(raw), Shown(previous), s)
Starts(d, raw, old, n, previous, s) ==
  d = Blended(raw, NewTransition(old, raw, n), UrgentIn(raw), Shown(previous), s)

\* The ways of the blend on a cycle whose portfolio model ran.
LEMMA BlendApplyCases ==
  ASSUME NEW raw, NEW noAction \in BOOLEAN, NEW previous, NEW s, NEW n, NEW session,
         NEW d, d = BlendApply(raw, noAction, previous, s, n, session),
         NEW active, active = ActiveTransition(s, previous),
         NEW t, t = AdvanceTransition(active, n, session),
         NEW old, old = PreviousWeights(s, previous)
  PROVE  \/ Duration = 0 /\ d = Decision(raw, None, s)
         \/ /\ Duration # 0 /\ active # None
            /\ \/ /\ ~noAction /\ Drift(t.to, WeightsOf(raw)) >= Threshold
                  /\ Leaves(d, raw, t, previous, s)
               \/ /\ noAction \/ ~(Drift(t.to, WeightsOf(raw)) >= Threshold)
                  /\ Follows(d, raw, t, UrgentIn(raw), previous, s)
         \/ /\ Duration # 0 /\ active = None
            /\ \/ noAction /\ d = Decision(raw, None, s)
               \/ /\ ~noAction
                  /\ DOMAIN old = {} \/ Drift(old, WeightsOf(raw)) < Threshold
                  /\ d = Decision(raw, None, [s EXCEPT !.last = WeightsOf(raw)])
               \/ /\ ~noAction /\ ~(Drift(old, WeightsOf(raw)) < Threshold)
                  /\ Starts(d, raw, old, n, previous, s)
BY DEF BlendApply, Shown, Follows, Leaves, Starts

\* A store that a cycle at time n changes keeps the deadline of its transition.
KeepsDeadline(s, after, n) ==
  after # s /\ after.active # None =>
    /\ after.active.elapsed <= n - after.active.started
    /\ Clock = "wall_time" /\ after.active.started + Duration >= n =>
         after.active.elapsed = n - after.active.started
    /\ s.active # None => /\ after.active.started = s.active.started
                          /\ after.active.elapsed >= s.active.elapsed

\* What a sound transition that has progress up to n says of its deadline.
LEMMA SoundDeadline ==
  ASSUME policy \in Policies, NEW t \in Transitions, NEW n \in Nat, SoundAt(t, n),
         t.lastProgress = n
  PROVE  /\ t.elapsed <= n - t.started
         /\ Clock = "wall_time" /\ t.started + Duration >= n => t.elapsed = n - t.started
<1>1. t.elapsed \in Nat /\ t.started \in Nat /\ Duration \in Nat
  BY PolicyType DEF Transitions
<1>2. /\ t.started <= n /\ t.elapsed <= n - t.started
      /\ Clock = "wall_time" => t.elapsed = Duration \/ t.elapsed = n - t.started
  BY DEF SoundAt
<1> QED BY <1>1, <1>2

\* Moving a transition along brings its progress to the time of the cycle.
LEMMA AdvancedTo ==
  ASSUME NEW t \in Transitions, NEW n, NEW session
  PROVE  AdvanceTransition(t, n, session).lastProgress = n
BY DEF AdvanceTransition, Transitions

\* What the blend decides on a rebalance is sound and keeps the deadline.
LEMMA ApplySound ==
  ASSUME policy \in Policies, NEW raw \in TargetSets, Funded(WeightsOf(raw)),
         Left(raw, UrgentIn(raw)), NEW noAction \in BOOLEAN,
         NEW previous \in TargetBatches \cup {None}, NEW m \in Nat, NEW n \in Nat, m <= n,
         previous # None => BatchSoundAt(previous, m),
         NEW s \in Stores, StoreSoundAt(s, m), NEW session,
         NEW d, d = BlendApply(raw, noAction, previous, s, n, session)
  PROVE  DecisionSoundAt(d, n) /\ KeepsDeadline(s, d.store, n)
<1> DEFINE active == ActiveTransition(s, previous)
           t == AdvanceTransition(active, n, session)
           old == PreviousWeights(s, previous)
<1>1. /\ active \in Transitions \cup {None} /\ (active # None => SoundAt(active, m))
      /\ old \in Weightings /\ Funded(old)
  BY ActiveType
<1>2. StoreSoundAt(s, n)
  <2>1. s.active \in Transitions \cup {None}
    BY DEF Stores
  <2> QED BY <2>1, SoundLater DEF StoreSoundAt
<1>3. Shown(previous) \in TargetSets
  BY EmptyTypes DEF Shown, TargetBatches
<1>4. UrgentIn(raw) \in SUBSET DOMAIN raw
  BY DEF UrgentIn
<1>5. s.active # None => active = s.active
  BY DEF ActiveTransition
<1>6. ASSUME active # None
      PROVE  /\ t \in Transitions /\ SoundAt(t, n) /\ t.lastProgress = n
             /\ t.started = active.started /\ t.elapsed >= active.elapsed
  BY <1>1, <1>6, Advanced, AdvancedTo
<1>7. \/ Duration = 0 /\ d = Decision(raw, None, s)
      \/ /\ Duration # 0 /\ active # None
         /\ \/ Leaves(d, raw, t, previous, s)
            \/ Follows(d, raw, t, UrgentIn(raw), previous, s)
      \/ /\ Duration # 0 /\ active = None
         /\ \/ d = Decision(raw, None, s)
            \/ d = Decision(raw, None, [s EXCEPT !.last = WeightsOf(raw)])
            \/ Starts(d, raw, old, n, previous, s)
  BY BlendApplyCases
<1> HIDE DEF active, t, old
<1>8. CASE d = Decision(raw, None, s)
  BY <1>2, <1>8, PlainSound DEF KeepsDeadline
<1>9. CASE active # None /\ Leaves(d, raw, t, previous, s)
  <2> DEFINE a == Retarget(t, raw)
  <2>1. /\ a \in Transitions /\ SoundAt(a, n) /\ a.elapsed = t.elapsed /\ a.started = t.started
        /\ a.lastProgress = n
    BY <1>6, <1>9, Retargeted
  <2>2. d = Blended(raw, a, UrgentIn(raw), Shown(previous), s)
    BY <1>9 DEF Leaves
  <2> HIDE DEF a
  <2>3. DecisionSoundAt(d, n) /\ d.store.active = a
    BY <1>2, <1>3, <1>4, <2>1, <2>2, BlendedSound
  <2>4. KeepsDeadline(s, d.store, n)
    BY <1>5, <1>6, <1>9, <2>1, <2>3, SoundDeadline DEF KeepsDeadline
  <2> QED BY <2>3, <2>4
<1>10. CASE active # None /\ Follows(d, raw, t, UrgentIn(raw), previous, s)
  <2>1. CASE IsComplete(t)
    <3>1. d = FromTransition(raw, t, UrgentIn(raw), Shown(previous), s)
      BY <1>10 DEF Follows
    <3>2. DecisionSoundAt(d, n) /\ d.store.active = None
      BY <1>2, <1>3, <1>4, <1>6, <1>10, <2>1, <3>1, CompletedSound
    <3> QED BY <3>2 DEF KeepsDeadline
  <2>2. CASE ~IsComplete(t)
    <3>1. d = Blended(raw, t, UrgentIn(raw), Shown(previous), s)
      BY <1>10, <2>2 DEF Follows, FromTransition
    <3>2. DecisionSoundAt(d, n) /\ d.store.active = t
      BY <1>2, <1>3, <1>4, <1>6, <1>10, <3>1, BlendedSound
    <3>3. KeepsDeadline(s, d.store, n)
      BY <1>5, <1>6, <1>10, <3>2, SoundDeadline DEF KeepsDeadline
    <3> QED BY <3>2, <3>3
  <2> QED BY <2>1, <2>2
<1>11. CASE active = None /\ d = Decision(raw, None, [s EXCEPT !.last = WeightsOf(raw)])
  <2> DEFINE z == [s EXCEPT !.last = WeightsOf(raw)]
  <2>1. z \in Stores /\ z.active = s.active /\ z.last = WeightsOf(raw)
    BY WeightsOfType DEF Stores
  <2>2. d = Decision(raw, None, z)
    BY <1>11
  <2> HIDE DEF z
  <2>3. StoreSoundAt(z, n)
    BY <1>2, <2>1 DEF StoreSoundAt
  <2>4. DecisionSoundAt(d, n) /\ d.store = z
    BY <2>1, <2>2, <2>3, PlainSound
  <2>5. z.active = None
    BY <1>5, <1>11, <2>1
  <2> QED BY <2>4, <2>5 DEF KeepsDeadline
<1>12. CASE active = None /\ Starts(d, raw, old, n, previous, s)
  <2> DEFINE a == NewTransition(old, raw, n)
  <2>1. a \in Transitions /\ SoundAt(a, n) /\ a.elapsed = 0 /\ a.started = n
    BY <1>1, Started
  <2>2. d = Blended(raw, a, UrgentIn(raw), Shown(previous), s)
    BY <1>12 DEF Starts
  <2> HIDE DEF a
  <2>3. DecisionSoundAt(d, n) /\ d.store.active = a
    BY <1>2, <1>3, <1>4, <2>1, <2>2, BlendedSound
  <2>4. s.active = None
    BY <1>5, <1>12
  <2> QED BY <2>1, <2>3, <2>4 DEF KeepsDeadline
<1> QED BY <1>7, <1>8, <1>9, <1>10, <1>11, <1>12

\* What the blend decides on a cycle that reuses the last batch.
Synthetic(t) == [y \in DOMAIN t.to |-> [weight |-> t.to[y], urgent |-> y \in t.urgent]]

\* It names the symbols of the transition, and they are targets.
LEMMA SyntheticType ==
  ASSUME NEW t \in Transitions
  PROVE  Synthetic(t) \in TargetSets /\ DOMAIN Synthetic(t) = DOMAIN t.to
<1>1. t.to \in Weightings
  BY DEF Transitions
<1>2. DOMAIN t.to \in SUBSET Symbols /\ \A y \in DOMAIN t.to : t.to[y] \in 0..Full
  BY <1>1, WeightingType
<1> DEFINE x == Synthetic(t)
<1>3. x = [y \in DOMAIN t.to |-> x[y]]
  BY DEF Synthetic
<1>4. ASSUME NEW y \in DOMAIN t.to PROVE x[y] \in [weight : 0..Full, urgent : BOOLEAN]
  <2>1. x[y] = [weight |-> t.to[y], urgent |-> y \in t.urgent]
    BY DEF Synthetic
  <2>2. (y \in t.urgent) \in BOOLEAN
    OBVIOUS
  <2> QED BY <1>2, <2>1, <2>2
<1> HIDE DEF x
<1>5. x \in TargetSets
  BY <1>2, <1>3, <1>4, TargetsMade
<1> QED BY <1>3, <1>5 DEF x

\* A reused batch that is moved along stays sound and keeps the deadline.
LEMMA AdvanceSound ==
  ASSUME policy \in Policies, NEW source \in TargetSets, Funded(WeightsOf(source)),
         NEW previous \in TargetBatches, NEW m \in Nat, NEW n \in Nat, m <= n,
         BatchSoundAt(previous, m), NEW s \in Stores, StoreSoundAt(s, m), NEW session,
         NEW d, d = BlendAdvance(source, previous, s, n, session)
  PROVE  DecisionSoundAt(d, n) /\ KeepsDeadline(s, d.store, n)
<1> DEFINE active == ActiveTransition(s, previous)
           t == AdvanceTransition(active, n, session)
<1>1. active \in Transitions \cup {None} /\ (active # None => SoundAt(active, m))
  BY ActiveType
<1>2. StoreSoundAt(s, n)
  <2>1. s.active \in Transitions \cup {None}
    BY DEF Stores
  <2> QED BY <2>1, SoundLater DEF StoreSoundAt
<1>3. previous.targets \in TargetSets
  BY DEF TargetBatches
<1>4. s.active # None => active = s.active
  BY DEF ActiveTransition
<1>5. ASSUME active # None
      PROVE  /\ t \in Transitions /\ SoundAt(t, n) /\ t.lastProgress = n
             /\ t.started = active.started /\ t.elapsed >= active.elapsed
  BY <1>1, <1>5, Advanced, AdvancedTo
<1>6. d = IF Duration = 0 \/ active = None THEN Decision(source, None, s)
          ELSE FromTransition(Synthetic(t), t, {}, previous.targets, s)
  BY DEF BlendAdvance, Synthetic
<1> HIDE DEF active, t
<1>7. CASE Duration = 0 \/ active = None
  BY <1>2, <1>6, <1>7, PlainSound DEF KeepsDeadline
<1>8. CASE ~(Duration = 0 \/ active = None)
  <2> DEFINE x == Synthetic(t)
  <2>1. x \in TargetSets /\ {} \in SUBSET DOMAIN x /\ Left(x, {})
    BY <1>5, <1>8, SyntheticType DEF Left
  <2>2. d = FromTransition(x, t, {}, previous.targets, s)
    BY <1>6, <1>8
  <2> HIDE DEF x
  <2>3. CASE IsComplete(t)
    <3>1. DecisionSoundAt(d, n) /\ d.store.active = None
      BY <1>2, <1>3, <1>5, <1>8, <2>1, <2>2, <2>3, CompletedSound
    <3> QED BY <3>1 DEF KeepsDeadline
  <2>4. CASE ~IsComplete(t)
    <3>1. d = Blended(x, t, {}, previous.targets, s)
      BY <2>2, <2>4 DEF FromTransition
    <3>2. DecisionSoundAt(d, n) /\ d.store.active = t
      BY <1>2, <1>3, <1>5, <1>8, <2>1, <3>1, BlendedSound
    <3>3. KeepsDeadline(s, d.store, n)
      BY <1>4, <1>5, <1>8, <3>2, SoundDeadline DEF KeepsDeadline
    <3> QED BY <3>2, <3>3
  <2> QED BY <2>3, <2>4
<1> QED BY <1>7, <1>8

-------------------------------------------------------------------------------
(* The targets of a cycle.                                                     *)

\* Targets that are left out take nothing from the others.
LEMMA TargetableSound ==
  ASSUME NEW targets \in TargetSets, NEW priced, NEW positions,
         NEW x, x = Targetable(targets, priced, positions)
  PROVE  /\ x \in TargetSets /\ DOMAIN x \in SUBSET DOMAIN targets
         /\ \A y \in DOMAIN x : x[y] = targets[y]
         /\ Funded(WeightsOf(targets)) => Funded(WeightsOf(x))
         /\ \A bypass : Left(targets, bypass) => Left(x, bypass \cap DOMAIN x)
<1>1. /\ DOMAIN x \in SUBSET DOMAIN targets /\ x = [y \in DOMAIN x |-> x[y]]
      /\ \A y \in DOMAIN x : x[y] = targets[y]
  BY DEF Targetable
<1>2. /\ DOMAIN targets \in SUBSET Symbols
      /\ \A y \in DOMAIN targets : targets[y] \in [weight : 0..Full, urgent : BOOLEAN]
  BY TargetsType
<1>3. x \in TargetSets
  BY <1>1, <1>2, TargetsMade
<1>4. /\ WeightsOf(x) \in Weightings /\ WeightsOf(targets) \in Weightings
      /\ DOMAIN WeightsOf(x) = DOMAIN x /\ DOMAIN WeightsOf(targets) = DOMAIN targets
      /\ \A y \in DOMAIN x : WeightsOf(x)[y] = x[y].weight
      /\ \A y \in DOMAIN targets : WeightsOf(targets)[y] = targets[y].weight
  BY <1>3, WeightsOfType
<1>5. ASSUME NEW y \in DOMAIN x PROVE WeightsOf(x)[y] <= Weight(WeightsOf(targets), y)
  <2>1. Weight(WeightsOf(targets), y) = targets[y].weight /\ WeightsOf(x)[y] = targets[y].weight
    BY <1>1, <1>4 DEF Weight
  <2>2. targets[y].weight \in Nat
    BY <1>1, <1>2, UnitAssumption
  <2> QED BY <2>1, <2>2
<1>6. Funded(WeightsOf(targets)) => Funded(WeightsOf(x))
  BY <1>4, <1>5, FundedBelow
<1>7. \A bypass : Left(targets, bypass) => Left(x, bypass \cap DOMAIN x)
  BY <1>1 DEF Left
<1> QED BY <1>1, <1>3, <1>6, <1>7

\* Equal weights make up 100% of a currency at most, and what is left is left.
LEMMA CreateSound ==
  ASSUME policy \in Policies, NEW insights, NEW priced \in SUBSET Symbols,
         NEW positions \in SUBSET Symbols,
         NEW x, x = CreateTargets(insights, priced, positions)
  PROVE  x \in TargetSets /\ Funded(WeightsOf(x)) /\ Left(x, UrgentIn(x))
<1> DEFINE visible == {i \in insights : i.symbol \in priced \cup positions}
           symbols == {i.symbol : i \in visible}
           up == {y \in symbols : Latest(visible, y).direction = "up"}
           exits == {y \in positions \ up : \E i \in visible : i.symbol = y /\ i.direction # "up"}
           shared(c) == Full \div Cardinality(up \cap In(c))
<1>1. /\ DOMAIN x = up \cup exits /\ x = [y \in DOMAIN x |-> x[y]]
      /\ \A y \in up \cup exits :
           x[y] = IF y \in up THEN [weight |-> shared(CurrencyOf[y]), urgent |-> FALSE]
                  ELSE ZeroTarget
  BY DEF CreateTargets
<1>2. up \in SUBSET Symbols /\ exits \in SUBSET Symbols
  OBVIOUS
<1>4. Full \in Nat
  BY UnitAssumption
<1> HIDE DEF visible, symbols, up, exits
<1>5. ASSUME NEW c, up \cap In(c) # {}
      PROVE  /\ shared(c) \in 0..Full /\ shared(c) \in Nat
             /\ shared(c) * Cardinality(up \cap In(c)) <= Full
  <2> DEFINE k == Cardinality(up \cap In(c))
             q == shared(c)
  <2>1. k \in Nat \ {0} /\ q = Full \div k
    BY <1>5, ListedType, FS_Subset, FS_CardinalityType, FS_EmptySet
  <2> HIDE DEF k, q
  <2>3. q \in Int /\ k * q <= Full /\ Full < k * q + k
    BY <1>4, <2>1, DivBound
  <2>4. q >= 0
    <3>1. k * q + k > 0
      BY <1>4, <2>1, <2>3
    <3>2. k * (q + 1) > 0
      BY <2>1, <2>3, <3>1
    <3>3. q + 1 > 0
      BY <2>1, <2>3, <3>2
    <3> QED BY <2>3, <3>3
  <2>5. q <= k * q /\ q * k = k * q
    BY <2>1, <2>3, <2>4
  <2>6. q \in 0..Full /\ q \in Nat /\ q * k <= Full
    BY <1>4, <2>1, <2>3, <2>4, <2>5
  <2> QED BY <2>6 DEF k, q
<1> HIDE DEF shared
<1>6. ASSUME NEW y \in DOMAIN x
      PROVE  /\ x[y] \in [weight : 0..Full, urgent : BOOLEAN]
             /\ y \in up => x[y].weight = shared(CurrencyOf[y]) /\ ~x[y].urgent
             /\ y \notin up => x[y].weight = 0
  <2>1. CASE y \in up
    <3>1. x[y] = [weight |-> shared(CurrencyOf[y]), urgent |-> FALSE]
      BY <1>1, <2>1
    <3>2. y \in up \cap In(CurrencyOf[y])
      BY <1>2, <2>1 DEF In
    <3>3. shared(CurrencyOf[y]) \in 0..Full
      BY <1>5, <3>2
    <3> QED BY <2>1, <3>1, <3>3
  <2>2. CASE y \notin up
    <3>1. x[y] = ZeroTarget
      BY <1>1, <2>2
    <3> QED BY <1>4, <2>2, <3>1 DEF ZeroTarget
  <2> QED BY <2>1, <2>2
<1>7. x \in TargetSets
  <2>1. DOMAIN x \in SUBSET Symbols
    BY <1>1, <1>2
  <2> QED BY <1>1, <1>6, <2>1, TargetsMade
<1>8. Left(x, UrgentIn(x))
  BY <1>6 DEF Left, UrgentIn
<1>9. ASSUME NEW c \in Currencies PROVE Share(WeightsOf(x), c) <= Full
  <2> DEFINE w == WeightsOf(x)
             v == Spread(w)
             mine == up \cap In(c)
  <2>1. w \in Weightings /\ DOMAIN w = DOMAIN x /\ \A y \in DOMAIN x : w[y] = x[y].weight
    BY <1>7, WeightsOfType
  <2>2. \A y \in Symbols : v[y] = Weight(w, y)
    BY DEF Spread
  <2>3. Share(w, c) = SumFunctionOnSet(v, In(c))
    BY <2>1, ShareSpread
  <2> HIDE DEF v, w
  <2>10. In(c) \in SUBSET Symbols /\ IsFiniteSet(In(c)) /\ IsFiniteSet(mine)
    BY ListedType, FS_Subset
  <2>4. \A y \in In(c) : v[y] \in Int
    BY <2>1, <2>2, <2>10, WeightType
  <2>5. \A y \in mine : v[y] = shared(c)
    <3> SUFFICES ASSUME NEW y \in mine PROVE v[y] = shared(c)
      OBVIOUS
    <3>1. y \in up /\ y \in Symbols /\ CurrencyOf[y] = c
      BY DEF In
    <3>2. y \in DOMAIN x /\ w[y] = shared(c)
      BY <1>1, <1>6, <2>1, <3>1
    <3> QED BY <2>1, <2>2, <3>1, <3>2 DEF Weight
  <2>6. \A y \in In(c) \ mine : v[y] = 0
    <3> SUFFICES ASSUME NEW y \in In(c) \ mine PROVE v[y] = 0
      OBVIOUS
    <3>1. y \notin up /\ v[y] = Weight(w, y)
      BY <2>2, <2>10
    <3> QED BY <1>6, <2>1, <3>1 DEF Weight
  <2>7. SumFunctionOnSet(v, In(c)) = SumFunctionOnSet(v, mine)
    BY <2>4, <2>6, <2>10, SumWithin
  <2>8. CASE mine = {}
    <3>1. SumFunctionOnSet(v, mine) = 0
      BY <2>8, SumEmpty
    <3> QED BY <1>4, <2>3, <2>7, <3>1 DEF w
  <2>9. CASE mine # {}
    <3>1. shared(c) \in Int /\ shared(c) * Cardinality(mine) <= Full
      BY <1>5, <2>9
    <3>2. SumFunctionOnSet(v, mine) = shared(c) * Cardinality(mine)
      BY <2>5, <2>10, <3>1, SumConstant
    <3> QED BY <2>3, <2>7, <3>1, <3>2 DEF w
  <2> QED BY <2>8, <2>9
<1>10. Funded(WeightsOf(x))
  BY <1>9 DEF Funded
<1> QED BY <1>7, <1>8, <1>10

\* Completing a batch asks for no weight, unless it patches.
LEMMA ResolveSound ==
  ASSUME policy \in Policies, NEW raw \in TargetSets, Funded(WeightsOf(raw)),
         Left(raw, UrgentIn(raw)), NEW previous \in TargetSets, NEW positions \in SUBSET Symbols,
         NEW x, x = Resolve(raw, previous, positions)
  PROVE  x \in TargetSets /\ Funded(WeightsOf(x)) /\ Left(x, UrgentIn(x))
<1>1. /\ DOMAIN raw \in SUBSET Symbols /\ DOMAIN previous \in SUBSET Symbols
      /\ \A y \in DOMAIN raw : raw[y] \in [weight : 0..Full, urgent : BOOLEAN]
      /\ \A y \in DOMAIN previous : previous[y] \in [weight : 0..Full, urgent : BOOLEAN]
  BY TargetsType
<1>2. CASE x = raw
  BY <1>2
<1>3. CASE Mode = "patch" /\ x = Completed(raw, previous)
  <2>1. /\ DOMAIN x = DOMAIN raw \cup DOMAIN previous /\ x = [y \in DOMAIN x |-> x[y]]
        /\ \A y \in DOMAIN x : x[y] = IF y \in DOMAIN raw THEN raw[y] ELSE previous[y]
    BY <1>3 DEF Completed
  <2>2. DOMAIN x \in SUBSET Symbols
    BY <1>1, <2>1
  <2>3. \A y \in DOMAIN x : x[y] \in [weight : 0..Full, urgent : BOOLEAN]
    BY <1>1, <2>1
  <2>4. x \in TargetSets
    BY <2>1, <2>2, <2>3, TargetsMade
  <2> QED BY <1>3, <2>4 DEF Funded, Left
<1>4. CASE x = Completed(raw, [y \in Missing(raw, previous, positions) |-> ZeroTarget])
  <2> DEFINE missing == Missing(raw, previous, positions)
  <2>1. missing \in SUBSET Symbols
    BY <1>1 DEF Missing
  <2>2. /\ DOMAIN x = DOMAIN raw \cup missing /\ x = [y \in DOMAIN x |-> x[y]]
        /\ \A y \in DOMAIN x : x[y] = IF y \in DOMAIN raw THEN raw[y] ELSE ZeroTarget
    BY <1>4 DEF Completed
  <2> HIDE DEF missing
  <2>3. Full \in Nat
    BY UnitAssumption
  <2>4. ZeroTarget \in [weight : 0..Full, urgent : BOOLEAN] /\ ZeroTarget.weight = 0
    BY <2>3 DEF ZeroTarget
  <2>5. \A y \in DOMAIN x : x[y] \in [weight : 0..Full, urgent : BOOLEAN]
    BY <1>1, <2>2, <2>4
  <2>6. DOMAIN x \in SUBSET Symbols
    BY <1>1, <2>1, <2>2
  <2>7. x \in TargetSets
    BY <2>2, <2>5, <2>6, TargetsMade
  <2>8. /\ WeightsOf(x) \in Weightings /\ WeightsOf(raw) \in Weightings
        /\ DOMAIN WeightsOf(x) = DOMAIN x /\ DOMAIN WeightsOf(raw) = DOMAIN raw
        /\ \A y \in DOMAIN x : WeightsOf(x)[y] = x[y].weight
        /\ \A y \in DOMAIN raw : WeightsOf(raw)[y] = raw[y].weight
    BY <2>7, WeightsOfType
  <2>9. ASSUME NEW y \in DOMAIN x PROVE WeightsOf(x)[y] <= Weight(WeightsOf(raw), y)
    <3>1. Weight(WeightsOf(raw), y) \in Nat
      BY <2>8, WeightType
    <3>2. CASE y \in DOMAIN raw
      <4>1. WeightsOf(x)[y] = WeightsOf(raw)[y] /\ Weight(WeightsOf(raw), y) = WeightsOf(raw)[y]
        BY <2>2, <2>8, <3>2 DEF Weight
      <4> QED BY <3>1, <4>1
    <3>3. CASE y \notin DOMAIN raw
      <4>1. WeightsOf(x)[y] = 0
        BY <2>2, <2>4, <2>8, <3>3
      <4> QED BY <3>1, <4>1
    <3> QED BY <3>2, <3>3
  <2>10. Funded(WeightsOf(x))
    BY <2>8, <2>9, FundedBelow
  <2>11. Left(x, UrgentIn(x))
    BY <2>2, <2>4 DEF Left, UrgentIn
  <2> QED BY <2>7, <2>10, <2>11
<1>5. Mode \in {"raw", "patch", "complete"}
  BY PolicyType
<1> QED BY <1>2, <1>3, <1>4, <1>5 DEF Resolve

\* The batch of a rebalance, and the one of a cycle that reuses the last.
ResultSoundAt(r, s, n) ==
  /\ r.resolved \in TargetSets
  /\ r.batch \in TargetBatches /\ BatchSoundAt(r.batch, n)
  /\ r.store \in Stores /\ StoreSoundAt(r.store, n) /\ KeepsDeadline(s, r.store, n)

\* A sound decision stays so when targets are left out of its batch.
LEMMA FilteredSound ==
  ASSUME NEW n, NEW d, DecisionSoundAt(d, n), NEW priced,
         NEW b, b = [d.batch EXCEPT !.targets = Targetable(@, priced, held)]
  PROVE  b \in TargetBatches /\ BatchSoundAt(b, n) /\ b.transition = d.batch.transition
         /\ b.targets = Targetable(d.batch.targets, priced, held)
<1> DEFINE x == Targetable(d.batch.targets, priced, held)
<1>1. d.batch \in TargetBatches /\ BatchSoundAt(d.batch, n)
  BY DEF DecisionSoundAt
<1>2. d.batch.targets \in TargetSets /\ Funded(WeightsOf(d.batch.targets))
  BY <1>1 DEF TargetBatches, BatchSoundAt
<1>3. x \in TargetSets /\ Funded(WeightsOf(x))
  BY <1>2, TargetableSound
<1> HIDE DEF x
<1>4. b = [d.batch EXCEPT !.targets = x]
  BY DEF x
<1>5. b \in TargetBatches /\ b.transition = d.batch.transition /\ b.targets = x
  BY <1>1, <1>3, <1>4 DEF TargetBatches
<1> QED BY <1>1, <1>3, <1>5 DEF BatchSoundAt, x

\* What a ready runner holds.
Ready ==
  /\ policy \in Policies /\ held \in SUBSET Symbols /\ now \in Nat
  /\ runner.batch \in TargetBatches \cup {None}
  /\ runner.batch # None => BatchSoundAt(runner.batch, now)
  /\ store \in Stores /\ StoreSoundAt(store, now)
  /\ cycle.resolved \in TargetSets

\* The resolved targets of a rebalance, before the blend.
Raw(insights, priced) == CreateTargets(insights, priced, held)
Resolved(insights, priced) ==
  Targetable(Resolve(Raw(insights, priced), TargetsOf(runner.batch), held), priced, held)

\* The resolved targets stay within 100%, and what bypasses the blend is left.
LEMMA ResolvedSound ==
  ASSUME Ready, NEW insights, NEW priced \in SUBSET Symbols,
         NEW x, x = Resolved(insights, priced)
  PROVE  x \in TargetSets /\ Funded(WeightsOf(x)) /\ Left(x, UrgentIn(x))
<1> DEFINE raw == Raw(insights, priced)
           previous == TargetsOf(runner.batch)
           full == Resolve(raw, previous, held)
<1>1. raw \in TargetSets /\ Funded(WeightsOf(raw)) /\ Left(raw, UrgentIn(raw))
  BY CreateSound DEF Ready, Raw
<1>2. previous \in TargetSets
  BY EmptyTypes DEF Ready, TargetsOf, TargetBatches
<1> HIDE DEF raw, previous
<1>3. full \in TargetSets /\ Funded(WeightsOf(full)) /\ Left(full, UrgentIn(full))
  BY <1>1, <1>2, ResolveSound DEF Ready
<1>4. x = Targetable(full, priced, held)
  BY DEF Resolved, raw, previous
<1> HIDE DEF full
<1>5. /\ x \in TargetSets /\ Funded(WeightsOf(x)) /\ DOMAIN x \in SUBSET DOMAIN full
      /\ \A y \in DOMAIN x : x[y] = full[y]
      /\ Left(x, UrgentIn(full) \cap DOMAIN x)
  BY <1>3, <1>4, TargetableSound
<1>6. UrgentIn(x) \subseteq UrgentIn(full) \cap DOMAIN x
  BY <1>5 DEF UrgentIn
<1>7. Left(x, UrgentIn(x))
  BY <1>5, <1>6 DEF Left
<1> QED BY <1>5, <1>7

\* A rebalance: its resolved targets, what the blend decides on them, and the batch.
Decided(insights, n, priced, session) ==
  BlendApply(Resolved(insights, priced),
             NoAction(Raw(insights, priced), Resolved(insights, priced)),
             runner.batch, store, n, session)

\* The batch of a rebalance, by these parts.
LEMMA FreshBatchIs ==
  ASSUME NEW insights, NEW n, NEW priced, NEW session,
         NEW r, r = FreshBatch(insights, n, priced, session)
  PROVE  /\ r.resolved = IF NoAction(Raw(insights, priced), Resolved(insights, priced))
                         THEN cycle.resolved ELSE Resolved(insights, priced)
         /\ r.store = Decided(insights, n, priced, session).store
         /\ r.batch = [Decided(insights, n, priced, session).batch EXCEPT
                         !.targets = Targetable(@, priced, held)]
BY DEF FreshBatch, Decided, Resolved, Raw

\* The decision of a rebalance is sound.
LEMMA DecidedSound ==
  ASSUME Ready, NEW insights, NEW n \in Nat, now <= n, NEW priced \in SUBSET Symbols, NEW session,
         NEW d, d = Decided(insights, n, priced, session)
  PROVE  DecisionSoundAt(d, n) /\ KeepsDeadline(store, d.store, n)
<1> DEFINE x == Resolved(insights, priced)
           noAction == NoAction(Raw(insights, priced), Resolved(insights, priced))
<1>1. x \in TargetSets /\ Funded(WeightsOf(x)) /\ Left(x, UrgentIn(x))
  BY ResolvedSound
<1>2. noAction \in BOOLEAN
  BY DEF NoAction
<1>3. d = BlendApply(x, noAction, runner.batch, store, n, session)
  BY DEF Decided
<1> HIDE DEF x, noAction
<1>4. /\ policy \in Policies /\ now \in Nat /\ runner.batch \in TargetBatches \cup {None}
      /\ runner.batch # None => BatchSoundAt(runner.batch, now)
      /\ store \in Stores /\ StoreSoundAt(store, now)
  BY DEF Ready
<1> QED BY <1>1, <1>2, <1>3, <1>4, ApplySound

\* So is what it leaves.
LEMMA FreshSound ==
  ASSUME Ready, NEW insights, NEW n \in Nat, now <= n, NEW priced \in SUBSET Symbols, NEW session,
         NEW r, r = FreshBatch(insights, n, priced, session)
  PROVE  ResultSoundAt(r, store, n)
<1> DEFINE d == Decided(insights, n, priced, session)
<1>1. DecisionSoundAt(d, n) /\ KeepsDeadline(store, d.store, n)
  BY DecidedSound
<1>2. Resolved(insights, priced) \in TargetSets /\ cycle.resolved \in TargetSets
  BY ResolvedSound DEF Ready
<1>3. /\ r.resolved \in TargetSets /\ r.store = d.store
      /\ r.batch = [d.batch EXCEPT !.targets = Targetable(@, priced, held)]
  BY <1>2, FreshBatchIs
<1> HIDE DEF d
<1>4. r.batch \in TargetBatches /\ BatchSoundAt(r.batch, n)
  BY <1>1, <1>3, FilteredSound
<1> QED BY <1>1, <1>3, <1>4 DEF ResultSoundAt, DecisionSoundAt

\* A cycle that reuses the last batch, by its parts.
Reused(n, priced, session) ==
  BlendAdvance(Targetable(runner.batch.targets, priced, held), runner.batch, store, n, session)

\* The batch of a cycle that reuses the last, by these parts.
LEMMA ReusedBatchIs ==
  ASSUME NEW n, NEW priced, NEW session, NEW r, r = ReusedBatch(n, priced, session)
  PROVE  /\ r.resolved = cycle.resolved
         /\ r.store = Reused(n, priced, session).store
         /\ r.batch = [Reused(n, priced, session).batch EXCEPT
                         !.targets = Targetable(@, priced, held)]
BY DEF ReusedBatch, Reused

\* What such a cycle leaves is sound.
LEMMA ReusedSound ==
  ASSUME Ready, runner.batch # None, NEW n \in Nat, now <= n, NEW priced, NEW session,
         NEW r, r = ReusedBatch(n, priced, session)
  PROVE  ResultSoundAt(r, store, n)
<1> DEFINE d == Reused(n, priced, session)
           source == Targetable(runner.batch.targets, priced, held)
<1>1. /\ policy \in Policies /\ now \in Nat /\ runner.batch \in TargetBatches
      /\ BatchSoundAt(runner.batch, now)
      /\ store \in Stores /\ StoreSoundAt(store, now) /\ cycle.resolved \in TargetSets
  BY DEF Ready
<1>2. runner.batch.targets \in TargetSets /\ Funded(WeightsOf(runner.batch.targets))
  BY <1>1 DEF TargetBatches, BatchSoundAt
<1>3. source \in TargetSets /\ Funded(WeightsOf(source))
  BY <1>2, TargetableSound
<1>4. d = BlendAdvance(source, runner.batch, store, n, session)
  BY DEF Reused
<1>5. /\ r.resolved = cycle.resolved /\ r.store = d.store
      /\ r.batch = [d.batch EXCEPT !.targets = Targetable(@, priced, held)]
  BY ReusedBatchIs
<1> HIDE DEF d, source
<1>6. DecisionSoundAt(d, n) /\ KeepsDeadline(store, d.store, n)
  BY <1>1, <1>3, <1>4, AdvanceSound
<1>7. r.batch \in TargetBatches /\ BatchSoundAt(r.batch, n)
  BY <1>5, <1>6, FilteredSound
<1> QED BY <1>1, <1>5, <1>6, <1>7 DEF ResultSoundAt, DecisionSoundAt

-------------------------------------------------------------------------------
(* Insights and evaluations.                                                   *)

\* The two ways to say what is sound say the same.
LEMMA SaysTheSame ==
  ASSUME NEW n
  PROVE  /\ \A w : Funded(w) <=> FundedFor(policy, w)
         /\ \A t : SoundAt(t, n) <=> SoundFor(policy, t, n)
         /\ \A b : BatchSoundAt(b, n) <=> BatchFor(policy, b, n)
         /\ \A s : StoreSoundAt(s, n) <=> StoreFor(policy, s, n)
<1>1. \A w : Funded(w) <=> FundedFor(policy, w)
  BY DEF Funded, FundedFor, Mode
<1>2. \A t : SoundAt(t, n) <=> SoundFor(policy, t, n)
  BY <1>1 DEF SoundAt, SoundFor, Duration, Clock
<1>3. \A b : BatchSoundAt(b, n) <=> BatchFor(policy, b, n)
  BY <1>1, <1>2 DEF BatchSoundAt, BatchFor
<1>4. \A s : StoreSoundAt(s, n) <=> StoreFor(policy, s, n)
  BY <1>1, <1>2 DEF StoreSoundAt, StoreFor
<1> QED BY <1>1, <1>2, <1>3, <1>4

\* A runner that is sound is so later.
LEMMA RunnerLater ==
  ASSUME policy \in Policies, NEW r \in Runners, NEW m \in Nat, NEW n \in Nat, m <= n,
         RunnerFor(policy, r, m)
  PROVE  RunnerFor(policy, r, n)
<1>1. r.batch \in TargetBatches \cup {None} /\ r.alphaLast \in [AlphaIds -> Nat \cup {Never}]
  BY DEF Runners
<1>2. r.batch # None => BatchFor(policy, r.batch, n)
  <2> SUFFICES ASSUME r.batch # None PROVE BatchFor(policy, r.batch, n)
    OBVIOUS
  <2>1. BatchSoundAt(r.batch, m)
    BY SaysTheSame DEF RunnerFor
  <2>2. r.batch.transition \in Transitions \cup {None}
    BY <1>1 DEF TargetBatches
  <2>3. BatchSoundAt(r.batch, n)
    BY <2>1, <2>2, SoundLater DEF BatchSoundAt
  <2> QED BY <2>3, SaysTheSame
<1>3. ASSUME NEW a \in AlphaIds, r.alphaLast[a] # Never PROVE r.alphaLast[a] <= n
  <2>1. r.alphaLast[a] \in Nat /\ r.alphaLast[a] <= m
    BY <1>1, <1>3 DEF RunnerFor
  <2> QED BY <2>1
<1> QED BY <1>2, <1>3 DEF RunnerFor

\* So is a store.
LEMMA StoreLater ==
  ASSUME policy \in Policies, NEW s \in Stores, NEW m \in Nat, NEW n \in Nat, m <= n,
         StoreFor(policy, s, m)
  PROVE  StoreFor(policy, s, n)
<1>1. s.active \in Transitions \cup {None}
  BY DEF Stores
<1>2. StoreSoundAt(s, m)
  BY SaysTheSame
<1>3. StoreSoundAt(s, n)
  BY <1>1, <1>2, SoundLater DEF StoreSoundAt
<1> QED BY <1>3, SaysTheSame

\* The insights an alpha run produces.
LEMMA ProducedType ==
  ASSUME NEW due, NEW signals \in SignalChoices, NEW t \in Nat
  PROVE  AlphaBatch(due, signals, t) \in Seq(Insights)
<1> DEFINE part(k) == IF Alphas[k] \in due
                      THEN [n \in 1..Len(signals[Alphas[k]]) |->
                              Insight(Alphas[k], signals[Alphas[k]][n], t)]
                      ELSE <<>>
           parts == [k \in 1..Len(Alphas) |-> part(k)]
<1>1. Alphas \in Seq(AlphaIds) /\ \A a \in AlphaIds : SignalsOf[a] \subseteq Seq(Signals)
  BY FrameworkAssumption
<1>2. ASSUME NEW k \in 1..Len(Alphas) PROVE part(k) \in Seq(Insights)
  <2> DEFINE a == Alphas[k]
             list == signals[a]
  <2>1. a \in AlphaIds
    BY <1>1
  <2>2. list \in Seq(Signals)
    BY <1>1, <2>1 DEF SignalChoices
  <2>3. ASSUME NEW n \in 1..Len(list) PROVE Insight(a, list[n], t) \in Insights
    <3>1. list[n] \in Signals
      BY <2>2
    <3> HIDE DEF list
    <3> QED BY <2>1, <3>1 DEF Insight, Insights, Signals
  <2>4. part(k) = IF a \in due THEN [n \in 1..Len(list) |-> Insight(a, list[n], t)] ELSE <<>>
    OBVIOUS
  <2>5. Len(list) \in Nat
    BY <2>2
  <2> HIDE DEF part, list, a
  <2> QED BY <2>3, <2>4, <2>5
<1> HIDE DEF part
<1>3. parts \in Seq(Seq(Insights))
  BY <1>1, <1>2
<1>4. AlphaBatch(due, signals, t) = FlattenSeq(parts)
  BY DEF AlphaBatch, part
<1> HIDE DEF parts
<1> QED BY <1>3, <1>4, FlattenedType

\* What is ingested is typed, and nothing of it has expired.
LEMMA IngestedType ==
  ASSUME NEW insights \in SUBSET Insights, NEW batch, \A n \in DOMAIN batch : batch[n] \in Insights,
         NEW t, NEW x, x = Ingest(insights, batch, t)
  PROVE  x \in SUBSET Insights /\ Unexpired(x, t) = x
BY DEF Ingest, Standing, Unexpired

\* A sequence of some values is one of more values.
LEMMA SeqWider ==
  ASSUME NEW S, NEW T, S \subseteq T, NEW s \in Seq(S)
  PROVE  s \in Seq(T)
<1>1. Len(s) \in Nat /\ s = [i \in 1..Len(s) |-> s[i]] /\ \A i \in 1..Len(s) : s[i] \in T
  OBVIOUS
<1> QED BY <1>1

\* The evaluations of a day, after one more.
LEMMA OneMoreOnDay ==
  ASSUME NEW times \in Seq(Nat), NEW t \in Nat, NEW day
  PROVE  /\ Cardinality(OnDay(times, day)) \in Nat
         /\ Cardinality(OnDay(Append(times, t), day))
              = IF Date(t) = day THEN Cardinality(OnDay(times, day)) + 1
                ELSE Cardinality(OnDay(times, day))
<1> DEFINE more == Append(times, t)
           k == Len(times)
<1>1. /\ k \in Nat /\ DOMAIN times = 1..k /\ DOMAIN more = 1..(k + 1) /\ more[k + 1] = t
      /\ \A n \in 1..k : more[n] = times[n]
  OBVIOUS
<1>2. IsFiniteSet(1..k) /\ OnDay(times, day) \subseteq 1..k
  BY <1>1, FS_Interval DEF OnDay
<1>3. IsFiniteSet(OnDay(times, day))
  BY <1>2, FS_Subset
<1> HIDE DEF more, k
<1>4. k + 1 \notin OnDay(times, day)
  BY <1>1, <1>2
<1>5. OnDay(more, day) = IF Date(t) = day THEN OnDay(times, day) \cup {k + 1} ELSE OnDay(times, day)
  <2>1. ASSUME NEW n
        PROVE  n \in OnDay(more, day) <=> \/ n \in OnDay(times, day)
                                         \/ (n = k + 1 /\ Date(t) = day)
    <3>1. n \in 1..(k + 1) <=> n \in 1..k \/ n = k + 1
      BY <1>1
    <3>2. n \in OnDay(more, day) <=> n \in 1..(k + 1) /\ Date(more[n]) = day
      BY <1>1 DEF OnDay
    <3>3. n \in OnDay(times, day) <=> n \in 1..k /\ Date(times[n]) = day
      BY <1>1 DEF OnDay
    <3>4. CASE n \in 1..k
      <4>1. n # k + 1 /\ more[n] = times[n]
        BY <1>1, <3>4
      <4> QED BY <3>1, <3>2, <3>3, <3>4, <4>1
    <3>5. CASE n \notin 1..k
      <4>1. n = k + 1 => more[n] = t
        BY <1>1
      <4> QED BY <3>1, <3>2, <3>3, <3>5, <4>1
    <3> QED BY <3>4, <3>5
  <2>2. CASE Date(t) = day
    BY <2>1, <2>2
  <2>3. CASE Date(t) # day
    BY <2>1, <2>3
  <2> QED BY <2>2, <2>3
<1>6. Cardinality(OnDay(times, day)) \in Nat
      /\ Cardinality(OnDay(times, day) \cup {k + 1}) = Cardinality(OnDay(times, day)) + 1
  BY <1>3, <1>4, FS_CardinalityType, FS_AddElement
<1> QED BY <1>5, <1>6 DEF more

\* Days follow one another as times do.
LEMMA DateMonotone ==
  ASSUME NEW s \in Nat, NEW t \in Nat, s <= t
  PROVE  Date(s) \in Nat /\ Date(t) \in Nat /\ Date(s) <= Date(t)
<1>1. MinutesPerDay \in Nat \ {0}
  BY CadenceAssumption
<1> QED BY <1>1, DivMonotone DEF Date

\* An alpha that is due once a day was not evaluated on that day.
LEMMA DueOncePerDay ==
  ASSUME NEW cadence, cadence.kind = "once_per_day", NEW t, NEW last, CadenceDue(cadence, t, last)
  PROVE  last = Never \/ Date(t) # Date(last)
BY DEF CadenceDue, ScheduledKinds

\* The evaluations and the last runs, after those that are due run at t.
MoreRuns(times, due, t) ==
  [a \in AlphaIds |-> IF a \in due THEN Append(times[a], t) ELSE times[a]]
LastRuns(last, due, t) == [a \in AlphaIds |-> IF a \in due THEN t ELSE last[a]]

\* Counting what is evaluated at t.
LEMMA CountedOn ==
  ASSUME NEW times \in [AlphaIds -> Seq(Nat)], NEW last \in [AlphaIds -> Nat \cup {Never}],
         NEW deaths \in Nat, NEW m \in Nat, NEW t \in Nat, m <= t,
         \A a \in AlphaIds : last[a] # Never => last[a] <= m,
         Counted(times, last, deaths),
         NEW due, due = DueAlphas(last, t),
         NEW more, more = MoreRuns(times, due, t), NEW after, after = LastRuns(last, due, t)
  PROVE  Counted(more, after, deaths)
<1> SUFFICES ASSUME NEW a \in AlphaIds, CadenceOf[a].kind = "once_per_day", NEW day \in Nat
             PROVE  Cardinality(OnDay(more[a], day)) <= deaths + Remembered(after[a], day)
  BY DEF Counted
<1>1. Cardinality(OnDay(times[a], day)) <= deaths + Remembered(last[a], day)
  BY DEF Counted
<1>2. times[a] \in Seq(Nat) /\ last[a] \in Nat \cup {Never} /\ Never \notin Nat
  BY CadenceAssumption
<1>3. CASE a \notin due
  <2>1. more[a] = times[a] /\ after[a] = last[a]
    BY <1>3 DEF MoreRuns, LastRuns
  <2> QED BY <1>1, <2>1
<1>4. CASE a \in due
  <2>1. more[a] = Append(times[a], t) /\ after[a] = t
    BY <1>4 DEF MoreRuns, LastRuns
  <2>2. CadenceDue(CadenceOf[a], t, last[a])
    BY <1>4 DEF DueAlphas
  <2>3. last[a] = Never \/ Date(t) # Date(last[a])
    BY <2>2, DueOncePerDay
  <2> DEFINE c == Cardinality(OnDay(times[a], day))
  <2>4. c \in Nat /\ Cardinality(OnDay(more[a], day)) = IF Date(t) = day THEN c + 1 ELSE c
    BY <1>2, <2>1, OneMoreOnDay
  <2>5. Date(t) \in Nat /\ t # Never
    BY <1>2, DateMonotone
  <2>6. last[a] # Never => Date(last[a]) \in Nat /\ Date(last[a]) < Date(t)
    <3>1. SUFFICES ASSUME last[a] # Never PROVE Date(last[a]) \in Nat /\ Date(last[a]) < Date(t)
      OBVIOUS
    <3>2. last[a] \in Nat /\ last[a] <= t
      BY <1>2, <3>1
    <3>3. Date(last[a]) \in Nat /\ Date(last[a]) <= Date(t)
      BY <3>2, DateMonotone
    <3> QED BY <2>3, <2>5, <3>1, <3>3
  <2>7. c <= deaths + Remembered(last[a], day)
    BY <1>1
  <2>8. Cardinality(OnDay(more[a], day)) \in Nat
    BY <2>4
  <2> HIDE DEF c
  <2>9. Remembered(after[a], day) = IF day <= Date(t) THEN 1 ELSE 0
    BY <2>1, <2>5 DEF Remembered
  <2>10. CASE Date(t) = day
    <3>1. Remembered(last[a], day) = 0
      BY <2>6, <2>10 DEF Remembered
    <3> QED BY <2>4, <2>5, <2>7, <2>9, <2>10, <3>1
  <2>11. CASE Date(t) # day
    <3>1. Remembered(last[a], day) = 1 => day <= Date(t)
      BY <2>5, <2>6 DEF Remembered
    <3>2. Remembered(last[a], day) \in {0, 1}
      BY DEF Remembered
    <3> QED BY <2>4, <2>7, <2>9, <2>11, <3>1, <3>2
  <2> QED BY <2>10, <2>11
<1> QED BY <1>3, <1>4

\* Forgetting when an alpha ran takes a process that dies.
LEMMA CountedAfterDeath ==
  ASSUME NEW times \in [AlphaIds -> Seq(Nat)], NEW last, NEW other, NEW deaths \in Nat,
         Counted(times, last, deaths)
  PROVE  Counted(times, other, deaths + 1)
<1> SUFFICES ASSUME NEW a \in AlphaIds, CadenceOf[a].kind = "once_per_day", NEW day \in Nat
             PROVE  Cardinality(OnDay(times[a], day)) <= (deaths + 1) + Remembered(other[a], day)
  BY DEF Counted
<1>1. Cardinality(OnDay(times[a], day)) <= deaths + Remembered(last[a], day)
  BY DEF Counted
<1>2. Remembered(last[a], day) \in {0, 1} /\ Remembered(other[a], day) \in {0, 1}
  BY DEF Remembered
<1>3. Cardinality(OnDay(times[a], day)) \in Nat
  <2>1. times[a] \in Seq(Nat) /\ 0 \in Nat
    OBVIOUS
  <2> QED BY <2>1, OneMoreOnDay
<1> QED BY <1>1, <1>2, <1>3

-------------------------------------------------------------------------------
(* What a cycle leaves behind.                                                 *)

\* The invariant makes a runner ready.
LEMMA ReadyNow ==
  ASSUME CycleInv
  PROVE  Ready
<1>1. /\ policy \in Policies /\ now \in Nat /\ runner \in Runners /\ store \in Stores
      /\ held \in SUBSET Symbols /\ cycle.resolved \in TargetSets
  BY FrameworkAssumption DEF CycleInv, TypeOK, Stores
<1>2. RunnerFor(policy, runner, now) /\ StoreFor(policy, store, now)
  BY DEF CycleInv, RecordsSound
<1>3. runner.batch \in TargetBatches \cup {None}
  BY <1>1 DEF Runners
<1>4. runner.batch # None => BatchSoundAt(runner.batch, now)
  BY <1>2, SaysTheSame DEF RunnerFor
<1>5. StoreSoundAt(store, now)
  BY <1>2, SaysTheSame
<1> QED BY <1>1, <1>3, <1>4, <1>5 DEF Ready

\* The runner once its alphas, and perhaps its portfolio model, ran at time t.
AfterModels(insights, due, t, last) ==
  [runner EXCEPT !.insights = insights,
                 !.alphaLast = [a \in AlphaIds |-> IF a \in due THEN t ELSE @[a]],
                 !.portfolioLast = last]

Quiet(resolved, t, session) ==
  IF resolved = cycle.resolved THEN cycle.quiet + Minutes(session, now, t) ELSE 0

\* No model was due and there is no batch yet.
Waits(insights, due, t) ==
  /\ runner.batch = None
  /\ runner' = AfterModels(insights, due, t, runner.portfolioLast)
  /\ cycle' = [cycle EXCEPT !.kind = "waiting", !.targets = <<>>]
  /\ store' = store

\* The cycle leaves a batch.
Leaving(result, kind, last, insights, due, t, session) ==
  /\ runner' = [AfterModels(insights, due, t, last) EXCEPT !.batch = result.batch]
  /\ cycle' = [kind |-> kind,
               targets |-> result.batch.targets, resolved |-> result.resolved,
               quiet |-> Quiet(result.resolved, t, session)]
  /\ store' = result.store

Rebalances(insights, due, t, priced, session) ==
  Leaving(FreshBatch(insights, t, priced, session), "fresh", t, insights, due, t, session)

Reuses(insights, due, t, priced, session) ==
  /\ runner.batch # None
  /\ Leaving(ReusedBatch(t, priced, session), "reused", runner.portfolioLast, insights, due, t,
             session)

\* The three ways of the portfolio stage.
LEMMA StageCases ==
  ASSUME NEW insights, NEW due, NEW t, NEW priced, NEW session,
         PortfolioStage(insights, due, t, priced, session)
  PROVE  \/ Waits(insights, due, t)
         \/ Rebalances(insights, due, t, priced, session)
         \/ Reuses(insights, due, t, priced, session)
<1>1. CASE CadenceDue(PortfolioCadence, t, runner.portfolioLast)
  BY <1>1 DEF PortfolioStage, Rebalances, Leaving, AfterModels, Quiet, Minutes
<1>2. CASE ~CadenceDue(PortfolioCadence, t, runner.portfolioLast) /\ runner.batch = None
  BY <1>2 DEF PortfolioStage, Waits, AfterModels
<1>3. CASE ~CadenceDue(PortfolioCadence, t, runner.portfolioLast) /\ runner.batch # None
  BY <1>3 DEF PortfolioStage, Reuses, Leaving, AfterModels, Quiet, Minutes
<1> QED BY <1>1, <1>2, <1>3

\* The models that run add to the runner what it is typed to keep.
LEMMA AfterModelsType ==
  ASSUME runner \in Runners, NEW insights \in SUBSET Insights, NEW due, NEW t \in Nat,
         NEW last \in Nat \cup {Never}, NEW r, r = AfterModels(insights, due, t, last)
  PROVE  /\ r \in Runners /\ r.insights = insights /\ r.alphaLast = LastRuns(runner.alphaLast, due, t)
         /\ r.batch = runner.batch
<1>1. /\ runner.alphaLast \in [AlphaIds -> Nat \cup {Never}]
      /\ runner.portfolioLast \in Nat \cup {Never}
      /\ runner.batch \in TargetBatches \cup {None}
  BY DEF Runners
<1>2. LastRuns(runner.alphaLast, due, t) \in [AlphaIds -> Nat \cup {Never}]
  BY <1>1 DEF LastRuns
<1>3. r = [runner EXCEPT !.insights = insights, !.alphaLast = LastRuns(runner.alphaLast, due, t),
                         !.portfolioLast = last]
  BY DEF AfterModels, LastRuns
<1> QED BY <1>1, <1>2, <1>3 DEF Runners

\* What the portfolio stage leaves is sound.
StageSoundAt(insights, due, t) ==
  /\ runner' \in Runners /\ runner'.insights = insights /\ runner'.alphaLast = LastRuns(runner.alphaLast, due, t)
  /\ runner'.batch # None => BatchFor(policy, runner'.batch, t)
  /\ store' \in Stores /\ StoreFor(policy, store', t) /\ KeepsDeadline(store, store', t)
  /\ cycle' \in [kind : {"none", "invalid", "waiting", "fresh", "reused"},
                 targets : TargetSets, resolved : TargetSets, quiet : Nat]
  /\ FundedFor(policy, WeightsOf(cycle'.targets))

\* A cycle that leaves a sound result is sound.
LEMMA LeavingSound ==
  ASSUME CycleInv, NEW insights \in SUBSET Insights, NEW due, NEW t \in Nat, now <= t, NEW session,
         NEW result, ResultSoundAt(result, store, t), NEW kind \in {"fresh", "reused"},
         NEW last \in Nat \cup {Never}, Leaving(result, kind, last, insights, due, t, session)
  PROVE  StageSoundAt(insights, due, t)
<1> DEFINE r == AfterModels(insights, due, t, last)
           b == result.batch
           quiet == Quiet(result.resolved, t, session)
<1>1. runner \in Runners /\ now \in Nat /\ cycle.quiet \in Nat
  BY FrameworkAssumption DEF CycleInv, TypeOK
<1>2. /\ r \in Runners /\ r.insights = insights /\ r.alphaLast = LastRuns(runner.alphaLast, due, t)
  BY <1>1, AfterModelsType
<1>3. /\ result.resolved \in TargetSets /\ b \in TargetBatches /\ BatchSoundAt(b, t)
      /\ result.store \in Stores /\ StoreSoundAt(result.store, t)
      /\ KeepsDeadline(store, result.store, t)
  BY DEF ResultSoundAt
<1>4. b.targets \in TargetSets /\ Funded(WeightsOf(b.targets))
  BY <1>3 DEF TargetBatches, BatchSoundAt
<1>5. quiet \in Nat
  BY <1>1 DEF Quiet, Minutes
<1>6. /\ runner' = [r EXCEPT !.batch = b] /\ store' = result.store
      /\ cycle' = [kind |-> kind,
                   targets |-> b.targets, resolved |-> result.resolved, quiet |-> quiet]
  BY DEF Leaving
<1> HIDE DEF r, b, quiet
<1>7. /\ runner' \in Runners /\ runner'.insights = insights
      /\ runner'.alphaLast = LastRuns(runner.alphaLast, due, t) /\ runner'.batch = b
  BY <1>2, <1>3, <1>6 DEF Runners
<1>8. cycle' \in [kind : {"none", "invalid", "waiting", "fresh", "reused"},
                  targets : TargetSets, resolved : TargetSets, quiet : Nat]
      /\ cycle'.targets = b.targets
  BY <1>3, <1>4, <1>5, <1>6
<1>9. BatchFor(policy, b, t) /\ StoreFor(policy, result.store, t)
      /\ FundedFor(policy, WeightsOf(b.targets))
  BY <1>3, <1>4, SaysTheSame
<1> QED BY <1>3, <1>6, <1>7, <1>8, <1>9 DEF StageSoundAt

\* The portfolio stage is sound, whichever way it takes.
LEMMA StageSound ==
  ASSUME CycleInv, NEW insights \in SUBSET Insights, NEW due, NEW t \in Nat, now <= t,
         NEW priced \in SUBSET Symbols, NEW session,
         PortfolioStage(insights, due, t, priced, session)
  PROVE  StageSoundAt(insights, due, t)
<1>1. Ready
  BY ReadyNow
<1>2. CASE Waits(insights, due, t)
  <2> DEFINE r == AfterModels(insights, due, t, runner.portfolioLast)
  <2>1. /\ runner \in Runners /\ now \in Nat /\ store \in Stores /\ policy \in Policies
        /\ cycle \in [kind : {"none", "invalid", "waiting", "fresh", "reused"},
                      targets : TargetSets, resolved : TargetSets, quiet : Nat]
        /\ StoreFor(policy, store, now)
    BY FrameworkAssumption DEF CycleInv, TypeOK, RecordsSound, Stores
  <2>2. /\ runner' = r /\ store' = store /\ runner.batch = None
        /\ cycle' = [cycle EXCEPT !.kind = "waiting", !.targets = <<>>]
    BY <1>2 DEF Waits
  <2>3. r \in Runners /\ r.insights = insights /\ r.alphaLast = LastRuns(runner.alphaLast, due, t) /\ r.batch = None
    <3>1. runner.portfolioLast \in Nat \cup {Never}
      BY <2>1 DEF Runners
    <3> QED BY <2>1, <2>2, <3>1, AfterModelsType
  <2> HIDE DEF r
  <2>4. StoreFor(policy, store, t)
    BY <2>1, StoreLater
  <2>5. cycle' \in [kind : {"none", "invalid", "waiting", "fresh", "reused"},
                    targets : TargetSets, resolved : TargetSets, quiet : Nat]
        /\ cycle'.targets = <<>>
    BY <2>1, <2>2, EmptyTypes
  <2>6. FundedFor(policy, WeightsOf(<<>>))
    BY EmptyTypes, SaysTheSame
  <2>7. KeepsDeadline(store, store', t)
    BY <2>2 DEF KeepsDeadline
  <2> QED BY <2>1, <2>2, <2>3, <2>4, <2>5, <2>6, <2>7 DEF StageSoundAt
<1>3. CASE Rebalances(insights, due, t, priced, session)
  <2> DEFINE result == FreshBatch(insights, t, priced, session)
  <2>1. ResultSoundAt(result, store, t)
    BY <1>1, FreshSound
  <2>2. Leaving(result, "fresh", t, insights, due, t, session)
    BY <1>3 DEF Rebalances
  <2>3. t \in Nat \cup {Never} /\ "fresh" \in {"fresh", "reused"}
    OBVIOUS
  <2> HIDE DEF result
  <2> QED BY <2>1, <2>2, <2>3, LeavingSound
<1>4. CASE Reuses(insights, due, t, priced, session)
  <2> DEFINE result == ReusedBatch(t, priced, session)
  <2>1. ResultSoundAt(result, store, t)
    BY <1>1, <1>4, ReusedSound DEF Reuses
  <2>2. Leaving(result, "reused", runner.portfolioLast, insights, due, t, session)
    BY <1>4 DEF Reuses
  <2>3. runner.portfolioLast \in Nat \cup {Never} /\ "reused" \in {"fresh", "reused"}
    BY DEF CycleInv, TypeOK, Runners
  <2> HIDE DEF result
  <2> QED BY <2>1, <2>2, <2>3, LeavingSound
<1> QED BY <1>2, <1>3, <1>4, StageCases

-------------------------------------------------------------------------------
(* Every step keeps the invariant.                                             *)

\* The values that tell a runner from none.
LEMMA NoRunnerType ==
  /\ NoRunner \in Runners /\ None \notin Runners
  /\ NoRunner.batch = None /\ \A a \in AlphaIds : NoRunner.alphaLast[a] = Never
  /\ \A n : RunnerFor(policy, NoRunner, n)
<1>1. /\ NoRunner.batch = None /\ NoRunner.insights = {}
      /\ NoRunner.alphaLast = [a \in AlphaIds |-> Never]
  BY DEF NoRunner
<1>2. NoRunner \in Runners
  BY DEF NoRunner, Runners
<1>3. \A n : RunnerFor(policy, NoRunner, n)
  BY <1>1 DEF RunnerFor
<1> QED BY <1>1, <1>2, <1>3, NoneAssumption

\* The invariant holds at first.
LEMMA InitInv == Init => CycleInv
<1> SUFFICES ASSUME Init PROVE CycleInv
  OBVIOUS
<1>1. /\ policy \in Policies /\ now = 0 /\ process = "down" /\ runner = NoRunner /\ file = None
      /\ store = [last |-> None, active |-> None] /\ held = {}
      /\ cycle = [kind |-> "none", targets |-> <<>>, resolved |-> <<>>, quiet |-> 0]
      /\ evaluated = [a \in AlphaIds |-> <<>>] /\ crashes = 0
  BY DEF Init
<1>2. MaxTime \in Nat /\ MaxCrashes \in Nat
  BY FrameworkAssumption
<1>3. TypeOK
  <2>1. cycle \in [kind : {"none", "invalid", "waiting", "fresh", "reused"},
                   targets : TargetSets, resolved : TargetSets, quiet : Nat]
    BY <1>1, EmptyTypes
  <2>2. evaluated \in [AlphaIds -> Seq(0..MaxTime)]
    BY <1>1
  <2> QED BY <1>1, <1>2, <2>1, <2>2, NoRunnerType DEF TypeOK
<1>4. RecordsSound
  <2>1. StoreFor(policy, store, now)
    BY <1>1 DEF StoreFor
  <2>2. FundedFor(policy, WeightsOf(cycle.targets))
    <3>1. cycle.targets = <<>>
      BY <1>1
    <3> QED BY <3>1, EmptyTypes, SaysTheSame
  <2> QED BY <1>1, <2>1, <2>2, NoRunnerType DEF RecordsSound
<1>5. RanUnexpired
  BY <1>1 DEF RanUnexpired
<1>6. EvaluationsCounted
  <2> SUFFICES ASSUME NEW a \in AlphaIds, NEW day \in Nat
               PROVE  Cardinality(OnDay(evaluated[a], day))
                        <= crashes + Remembered(Memory.alphaLast[a], day)
    BY DEF EvaluationsCounted, Counted
  <2>1. OnDay(evaluated[a], day) = {}
    BY <1>1 DEF OnDay
  <2>2. Remembered(Memory.alphaLast[a], day) \in {0, 1}
    BY DEF Remembered
  <2>3. Cardinality(OnDay(evaluated[a], day)) = 0
    BY <2>1, FS_EmptySet
  <2>4. crashes = 0
    BY <1>1
  <2> QED BY <2>2, <2>3, <2>4
<1> QED BY <1>3, <1>4, <1>5, <1>6 DEF CycleInv

\* What a cycle does to what the runner knows, to the evaluations and to the store.
LEMMA CycleIs ==
  ASSUME CycleInv, NEW step \in Steps, NEW condition \in Conditions, NEW signals \in SignalChoices,
         Cycle(step, condition, signals)
  PROVE  /\ process = "ready" /\ process' = "ran" /\ now' = now + step
         /\ now' \in 0..MaxTime /\ now < now' /\ UNCHANGED <<file, held, crashes>>
         /\ \/ /\ condition.quality = "invalid" /\ InvalidCycle(now')
            \/ \E insights \in SUBSET Insights :
                 /\ Unexpired(insights, now') = insights
                 /\ PortfolioStage(insights, DueAlphas(runner.alphaLast, now'), now',
                                   condition.priced, condition.session)
                 /\ evaluated' = MoreRuns(evaluated, DueAlphas(runner.alphaLast, now'), now')
<1> DEFINE t == now + step
           due == DueAlphas(runner.alphaLast, t)
           produced == AlphaBatch(due, signals, t)
           batch == IF condition.quality = "stale" THEN WithoutNewEntries(produced) ELSE produced
<1>1. /\ now \in 0..MaxTime /\ MaxTime \in Nat /\ step \in Nat \ {0} /\ runner \in Runners
  BY FrameworkAssumption DEF CycleInv, TypeOK
<1>2. /\ process = "ready" /\ t <= MaxTime /\ process' = "ran" /\ now' = t
      /\ UNCHANGED <<file, held, crashes>>
  BY DEF Cycle
<1>3. t \in Nat /\ t \in 0..MaxTime /\ now < t
  BY <1>1, <1>2
<1>4. CASE condition.quality = "invalid"
  BY <1>2, <1>3, <1>4 DEF Cycle
<1>5. CASE condition.quality # "invalid"
  <2>1. produced \in Seq(Insights)
    BY <1>3, ProducedType
  <2>2. \A n \in DOMAIN produced : produced[n] \in Insights
    BY <2>1
  <2>3. \A n \in DOMAIN batch : batch[n] \in Insights
    BY <2>2 DEF WithoutNewEntries
  <2>4. runner.insights \in SUBSET Insights
    BY <1>1 DEF Runners
  <2> DEFINE x == Ingest(runner.insights, batch, t)
  <2>5. /\ PortfolioStage(x, due, t, condition.priced, condition.session)
        /\ evaluated' = MoreRuns(evaluated, due, t)
    BY <1>5 DEF Cycle, MoreRuns
  <2> HIDE DEF batch, produced
  <2>6. x \in SUBSET Insights /\ Unexpired(x, t) = x
    BY <2>3, <2>4, IngestedType
  <2> HIDE DEF x
  <2> QED BY <1>2, <1>3, <2>5, <2>6
<1> QED BY <1>4, <1>5

\* What the invariant says of a runner that has just run at the present time.
LEMMA RanInv ==
  ASSUME CycleInv, policy' = policy, process' = "ran", now < now', now' \in 0..MaxTime,
         file' = file, held' = held, crashes' = crashes,
         runner' \in Runners, Unexpired(runner'.insights, now') = runner'.insights,
         RunnerFor(policy, runner', now'),
         store' \in Stores, StoreFor(policy, store', now'),
         cycle' \in [kind : {"none", "invalid", "waiting", "fresh", "reused"},
                     targets : TargetSets, resolved : TargetSets, quiet : Nat],
         FundedFor(policy, WeightsOf(cycle'.targets)),
         evaluated' \in [AlphaIds -> Seq(0..MaxTime)],
         Counted(evaluated', runner'.alphaLast, crashes)
  PROVE  CycleInv'
<1>1. /\ policy \in Policies /\ now \in Nat /\ now' \in Nat /\ now <= now'
      /\ file \in Runners \cup {None} /\ held \in SUBSET Symbols /\ crashes \in 0..MaxCrashes
      /\ file # None => RunnerFor(policy, file, now)
  BY FrameworkAssumption DEF CycleInv, TypeOK, RecordsSound
<1>2. TypeOK'
  BY <1>1 DEF TypeOK, Stores
<1>3. RecordsSound'
  <2>1. file # None => RunnerFor(policy, file, now')
    BY <1>1, RunnerLater
  <2> QED BY <2>1 DEF RecordsSound
<1>4. RanUnexpired'
  BY DEF RanUnexpired
<1>5. EvaluationsCounted'
  <2>1. Memory' = runner'
    BY DEF Memory
  <2> QED BY <2>1 DEF EvaluationsCounted
<1> QED BY <1>2, <1>3, <1>4, <1>5 DEF CycleInv

\* A cycle keeps the invariant and the deadline of the transition.
LEMMA CycleSound ==
  ASSUME CycleInv, policy' = policy,
         NEW step \in Steps, NEW condition \in Conditions, NEW signals \in SignalChoices,
         Cycle(step, condition, signals)
  PROVE  CycleInv' /\ KeepsDeadline(store, store', now')
<1>1. /\ process = "ready" /\ process' = "ran" /\ now' \in 0..MaxTime /\ now < now'
      /\ file' = file /\ held' = held /\ crashes' = crashes
  BY CycleIs
<1>2. /\ policy \in Policies /\ now \in Nat /\ now' \in Nat /\ now <= now' /\ crashes \in Nat
      /\ runner \in Runners /\ store \in Stores /\ evaluated \in [AlphaIds -> Seq(0..MaxTime)]
      /\ cycle \in [kind : {"none", "invalid", "waiting", "fresh", "reused"},
                    targets : TargetSets, resolved : TargetSets, quiet : Nat]
      /\ RunnerFor(policy, runner, now) /\ StoreFor(policy, store, now)
  BY <1>1, FrameworkAssumption DEF CycleInv, TypeOK, RecordsSound, Stores
<1>3. Counted(evaluated, runner.alphaLast, crashes)
  <2>1. Memory = runner
    BY <1>1 DEF Memory
  <2> QED BY <2>1 DEF CycleInv, EvaluationsCounted
<1>4. RunnerFor(policy, runner, now') /\ StoreFor(policy, store, now')
  BY <1>2, RunnerLater, StoreLater
<1>5. CASE condition.quality = "invalid" /\ InvalidCycle(now')
  <2> DEFINE kept == Unexpired(runner.insights, now')
  <2>1. /\ runner' = [runner EXCEPT !.insights = kept] /\ store' = store /\ evaluated' = evaluated
        /\ cycle' = [cycle EXCEPT !.kind = "invalid", !.targets = <<>>]
    BY <1>5 DEF InvalidCycle
  <2>2. kept \in SUBSET Insights /\ Unexpired(kept, now') = kept
    BY <1>2 DEF Unexpired, Runners
  <2> HIDE DEF kept
  <2>3. /\ runner' \in Runners /\ runner'.insights = kept
        /\ runner'.alphaLast = runner.alphaLast /\ runner'.batch = runner.batch
    BY <1>2, <2>1, <2>2 DEF Runners
  <2>4. RunnerFor(policy, runner', now')
    BY <1>4, <2>3 DEF RunnerFor
  <2>5. cycle' \in [kind : {"none", "invalid", "waiting", "fresh", "reused"},
                    targets : TargetSets, resolved : TargetSets, quiet : Nat]
        /\ cycle'.targets = <<>>
    BY <1>2, <2>1, EmptyTypes
  <2>6. FundedFor(policy, WeightsOf(cycle'.targets))
    BY <2>5, EmptyTypes, SaysTheSame
  <2>7. CycleInv'
    BY <1>1, <1>2, <1>3, <1>4, <2>1, <2>2, <2>3, <2>4, <2>5, <2>6, RanInv
  <2> QED BY <2>1, <2>7 DEF KeepsDeadline
<1>6. ASSUME NEW insights \in SUBSET Insights, Unexpired(insights, now') = insights,
             PortfolioStage(insights, DueAlphas(runner.alphaLast, now'), now',
                            condition.priced, condition.session),
             evaluated' = MoreRuns(evaluated, DueAlphas(runner.alphaLast, now'), now')
      PROVE  CycleInv' /\ KeepsDeadline(store, store', now')
  <2> DEFINE due == DueAlphas(runner.alphaLast, now')
             t == now'
  <2>1. condition.priced \in SUBSET Symbols
    BY FrameworkAssumption
  <2>2. StageSoundAt(insights, due, t)
    BY <1>2, <1>6, <2>1, StageSound
  <2>3. /\ runner' \in Runners /\ runner'.insights = insights /\ runner'.alphaLast = LastRuns(runner.alphaLast, due, t)
        /\ runner'.batch # None => BatchFor(policy, runner'.batch, t)
        /\ store' \in Stores /\ StoreFor(policy, store', t) /\ KeepsDeadline(store, store', t)
        /\ cycle' \in [kind : {"none", "invalid", "waiting", "fresh", "reused"},
                       targets : TargetSets, resolved : TargetSets, quiet : Nat]
        /\ FundedFor(policy, WeightsOf(cycle'.targets))
    BY <2>2 DEF StageSoundAt
  <2>4. /\ runner.alphaLast \in [AlphaIds -> Nat \cup {Never}]
        /\ \A a \in AlphaIds : runner.alphaLast[a] # Never => runner.alphaLast[a] <= now
        /\ \A a \in AlphaIds : runner.alphaLast[a] # Never => runner.alphaLast[a] <= t
    BY <1>2, <1>4 DEF Runners, RunnerFor
  <2>5. evaluated' = MoreRuns(evaluated, due, t)
    BY <1>6
  <2>6. RunnerFor(policy, runner', t)
    <3>1. ASSUME NEW a \in AlphaIds, runner'.alphaLast[a] # Never PROVE runner'.alphaLast[a] <= t
      BY <1>2, <2>3, <2>4, <3>1 DEF LastRuns
    <3> QED BY <2>3, <3>1 DEF RunnerFor
  <2>7. evaluated \in [AlphaIds -> Seq(Nat)]
    <3>1. 0..MaxTime \subseteq Nat
      OBVIOUS
    <3>2. \A a \in AlphaIds : evaluated[a] \in Seq(Nat)
      BY <1>2, <3>1, SeqWider
    <3> QED BY <1>2, <3>2
  <2>8. Counted(evaluated', runner'.alphaLast, crashes)
    <3>1. due = DueAlphas(runner.alphaLast, t) /\ t \in Nat /\ now <= t
      BY <1>2
    <3> HIDE DEF due, t
    <3> QED BY <1>2, <1>3, <2>3, <2>4, <2>5, <2>7, <3>1, CountedOn
  <2> HIDE DEF due
  <2>9. evaluated' \in [AlphaIds -> Seq(0..MaxTime)]
    <3>1. \A a \in AlphaIds : Append(evaluated[a], t) \in Seq(0..MaxTime)
      BY <1>1, <1>2
    <3> QED BY <1>2, <2>5, <3>1 DEF MoreRuns
  <2>10. CycleInv'
    BY <1>1, <1>6, <2>3, <2>6, <2>8, <2>9, RanInv
  <2> QED BY <2>3, <2>10
<1> QED BY <1>5, <1>6, CycleIs

\* What outlasts the end of a process.
LEMMA LastingParts ==
  ASSUME CycleInv, policy' = policy, now' = now, store' = store, cycle' = cycle,
         evaluated' = evaluated, held' \subseteq Symbols,
         process' \in {"down", "ready"}, runner' \in Runners, RunnerFor(policy, runner', now),
         file' \in Runners \cup {None}, file' # None => RunnerFor(policy, file', now),
         crashes' \in 0..MaxCrashes, Counted(evaluated, Memory'.alphaLast, crashes')
  PROVE  CycleInv'
<1>1. TypeOK'
  BY DEF CycleInv, TypeOK
<1>2. RecordsSound'
  BY DEF CycleInv, RecordsSound
<1>3. RanUnexpired'
  BY DEF RanUnexpired
<1>4. EvaluationsCounted'
  BY DEF EvaluationsCounted
<1> QED BY <1>1, <1>2, <1>3, <1>4 DEF CycleInv

\* A process that starts reads what the last one left.
LEMMA StartSound ==
  ASSUME CycleInv, policy' = policy, Start
  PROVE  CycleInv' /\ Memory' = Memory
<1>1. /\ process = "down" /\ process' = "ready" /\ runner' = (IF file = None THEN NoRunner ELSE file)
      /\ now' = now /\ file' = file /\ store' = store /\ held' = held /\ cycle' = cycle
      /\ evaluated' = evaluated /\ crashes' = crashes
  BY DEF Start
<1>2. Memory' = Memory
  BY <1>1 DEF Memory
<1>3. /\ file \in Runners \cup {None} /\ held \in SUBSET Symbols /\ crashes \in 0..MaxCrashes
      /\ file # None => RunnerFor(policy, file, now)
      /\ Counted(evaluated, Memory.alphaLast, crashes)
  BY DEF CycleInv, TypeOK, RecordsSound, EvaluationsCounted
<1>4. runner' \in Runners /\ RunnerFor(policy, runner', now)
  BY <1>1, <1>3, NoRunnerType
<1>5. CycleInv'
  BY <1>1, <1>2, <1>3, <1>4, LastingParts
<1> QED BY <1>2, <1>5

\* Saving drops what has expired, which is nothing.
LEMMA SaveSound ==
  ASSUME CycleInv, policy' = policy, Save
  PROVE  CycleInv' /\ Memory' = Memory
<1>1. /\ process = "ran" /\ process' = "down"
      /\ file' = [runner EXCEPT !.insights = Unexpired(@, now)] /\ runner' = NoRunner
      /\ now' = now /\ store' = store /\ held' = held /\ cycle' = cycle
      /\ evaluated' = evaluated /\ crashes' = crashes
  BY DEF Save
<1>2. /\ runner \in Runners /\ Unexpired(runner.insights, now) = runner.insights
      /\ RunnerFor(policy, runner, now)
      /\ held \in SUBSET Symbols /\ crashes \in 0..MaxCrashes
      /\ Counted(evaluated, Memory.alphaLast, crashes)
  BY <1>1 DEF CycleInv, TypeOK, RecordsSound, EvaluationsCounted, RanUnexpired
<1>3. file' = runner
  <2>1. runner = [runner EXCEPT !.insights = runner.insights]
    BY <1>2 DEF Runners
  <2> QED BY <1>1, <1>2, <2>1
<1>4. file' # None /\ Memory' = Memory
  <2>1. runner # None
    BY <1>2, NoRunnerType
  <2> QED BY <1>1, <1>3, <2>1 DEF Memory
<1>5. NoRunner \in Runners /\ RunnerFor(policy, NoRunner, now)
  BY NoRunnerType
<1>6. CycleInv'
  BY <1>1, <1>2, <1>3, <1>4, <1>5, LastingParts
<1> QED BY <1>4, <1>6

\* A process that dies may have forgotten one evaluation of each alpha on a day.
LEMMA CrashSound ==
  ASSUME CycleInv, policy' = policy, Crash
  PROVE  CycleInv' /\ crashes' # crashes
<1>1. /\ process # "down" /\ crashes < MaxCrashes /\ process' = "down" /\ runner' = NoRunner
      /\ crashes' = crashes + 1 /\ now' = now /\ file' = file /\ store' = store /\ held' = held
      /\ cycle' = cycle /\ evaluated' = evaluated
  BY DEF Crash
<1>2. /\ crashes \in 0..MaxCrashes /\ MaxCrashes \in Nat /\ held \in SUBSET Symbols
      /\ evaluated \in [AlphaIds -> Seq(0..MaxTime)]
      /\ file \in Runners \cup {None}
      /\ file # None => RunnerFor(policy, file, now)
      /\ Counted(evaluated, Memory.alphaLast, crashes)
  BY FrameworkAssumption DEF CycleInv, TypeOK, RecordsSound, EvaluationsCounted
<1>3. crashes \in Nat /\ crashes' \in 0..MaxCrashes /\ crashes' # crashes
  BY <1>1, <1>2
<1>4. evaluated \in [AlphaIds -> Seq(Nat)]
  <2>1. 0..MaxTime \subseteq Nat
    OBVIOUS
  <2>2. \A a \in AlphaIds : evaluated[a] \in Seq(Nat)
    BY <1>2, <2>1, SeqWider
  <2> QED BY <1>2, <2>2
<1>5. Counted(evaluated, Memory'.alphaLast, crashes')
  BY <1>1, <1>2, <1>3, <1>4, CountedAfterDeath
<1>6. NoRunner \in Runners /\ RunnerFor(policy, NoRunner, now)
  BY NoRunnerType
<1>7. /\ now' = now /\ store' = store /\ cycle' = cycle /\ evaluated' = evaluated
      /\ process' \in {"down", "ready"} /\ runner' \in Runners
      /\ RunnerFor(policy, runner', now)
      /\ file' \in Runners \cup {None}
      /\ file' # None => RunnerFor(policy, file', now)
  BY <1>1, <1>2, <1>6
<1>8. held' \subseteq Symbols
  BY <1>1, <1>2
<1>9. CycleInv'
  BY <1>3, <1>5, <1>7, <1>8, LastingParts
<1> QED BY <1>3, <1>9

\* Trades change positions only.
LEMMA TradeSound ==
  ASSUME CycleInv, policy' = policy, NEW y \in Symbols, Trade(y)
  PROVE  CycleInv' /\ Memory' = Memory
<1>1. /\ process = "down" /\ held' \in {held \ {y}, held \cup {y}}
      /\ now' = now /\ process' = process /\ runner' = runner /\ file' = file /\ store' = store
      /\ cycle' = cycle /\ evaluated' = evaluated /\ crashes' = crashes
  BY DEF Trade
<1>2. Memory' = Memory
  BY <1>1 DEF Memory
<1>3. /\ runner \in Runners /\ RunnerFor(policy, runner, now)
      /\ held \in SUBSET Symbols /\ crashes \in 0..MaxCrashes
      /\ file \in Runners \cup {None}
      /\ file # None => RunnerFor(policy, file, now)
      /\ Counted(evaluated, Memory.alphaLast, crashes)
  BY DEF CycleInv, TypeOK, RecordsSound, EvaluationsCounted
<1>4. held' \subseteq Symbols
  BY <1>1, <1>3
<1>5. /\ now' = now /\ store' = store /\ cycle' = cycle /\ evaluated' = evaluated
      /\ process' \in {"down", "ready"} /\ runner' \in Runners
      /\ RunnerFor(policy, runner', now)
      /\ file' \in Runners \cup {None}
      /\ file' # None => RunnerFor(policy, file', now)
  BY <1>1, <1>3
<1>6. crashes' \in 0..MaxCrashes /\ Counted(evaluated, Memory'.alphaLast, crashes')
  BY <1>1, <1>2, <1>3
<1>7. CycleInv'
  BY <1>4, <1>5, <1>6, LastingParts
<1> QED BY <1>2, <1>7

\* A step on which nothing happens.
LEMMA StutterSound ==
  ASSUME CycleInv, UNCHANGED vars
  PROVE  CycleInv' /\ Memory' = Memory
<1>1. Memory' = Memory
  BY DEF vars, Memory
<1>2. TypeOK' /\ RecordsSound' /\ RanUnexpired'
  BY DEF CycleInv, vars, TypeOK, RecordsSound, RanUnexpired
<1>3. EvaluationsCounted'
  BY <1>1 DEF CycleInv, vars, EvaluationsCounted
<1> QED BY <1>1, <1>2, <1>3 DEF CycleInv

\* What a step keeps: the invariant, what is known, and the deadline of a transition.
Kept ==
  /\ CycleInv'
  /\ now' = now /\ crashes' = crashes => Memory' = Memory
  /\ store' # store => KeepsDeadline(store, store', now')

\* Every step keeps all of it.
LEMMA NextKept ==
  ASSUME CycleInv, [Next]_vars
  PROVE  Kept
<1>1. CASE UNCHANGED vars
  BY <1>1, StutterSound DEF Kept, vars
<1>2. CASE policy' = policy /\ Start
  BY <1>2, StartSound DEF Kept, Start
<1>3. CASE policy' = policy /\ Save
  BY <1>3, SaveSound DEF Kept, Save
<1>4. CASE policy' = policy /\ Crash
  BY <1>4, CrashSound DEF Kept, Crash
<1>5. CASE policy' = policy /\ \E y \in Symbols : Trade(y)
  BY <1>5, TradeSound DEF Kept, Trade
<1>6. ASSUME policy' = policy,
             NEW step \in Steps, NEW condition \in Conditions, NEW signals \in SignalChoices,
             Cycle(step, condition, signals)
      PROVE  Kept
  <2>1. CycleInv' /\ KeepsDeadline(store, store', now')
    BY <1>6, CycleSound
  <2>2. now < now' /\ now \in Nat /\ now' \in Nat
    BY <1>6, CycleIs DEF CycleInv, TypeOK
  <2> QED BY <2>1, <2>2 DEF Kept
<1> QED BY <1>1, <1>2, <1>3, <1>4, <1>5, <1>6 DEF Next

\* The weights of a cycle and its evaluations, by the invariant.
LEMMA CyclesSoundBy ==
  ASSUME CycleInv
  PROVE  CyclesSound
<1>1. FullyInvestedAtMost
  BY DEF CycleInv, RecordsSound, FundedFor, FullyInvestedAtMost, Mode
<1>2. EvaluatedOncePerDay
  <2> SUFFICES ASSUME NEW a \in AlphaIds, CadenceOf[a].kind = "once_per_day",
                      NEW day \in 0..Date(MaxTime)
               PROVE  Cardinality(OnDay(evaluated[a], day)) <= 1 + crashes
    BY DEF EvaluatedOncePerDay, OnDay
  <2>1. /\ evaluated[a] \in Seq(0..MaxTime) /\ crashes \in Nat /\ MaxTime \in Nat
    BY FrameworkAssumption DEF CycleInv, TypeOK
  <2>2. evaluated[a] \in Seq(Nat)
    <3>1. 0..MaxTime \subseteq Nat
      OBVIOUS
    <3> QED BY <2>1, <3>1, SeqWider
  <2>3. day \in Nat
    OBVIOUS
  <2>4. Cardinality(OnDay(evaluated[a], day)) <= crashes + Remembered(Memory.alphaLast[a], day)
    BY <2>3 DEF CycleInv, EvaluationsCounted, Counted
  <2>5. Remembered(Memory.alphaLast[a], day) \in {0, 1}
    BY DEF Remembered
  <2>6. Cardinality(OnDay(evaluated[a], day)) \in Nat
    BY <2>2, <2>3, OneMoreOnDay
  <2> QED BY <2>1, <2>4, <2>5, <2>6
<1> QED BY <1>1, <1>2 DEF CycleInv, CyclesSound

\* The inductive invariant holds in every state.
LEMMA CycleInvariant == Spec => []CycleInv
<1>1. Init => CycleInv
  BY InitInv
<1>2. CycleInv /\ [Next]_vars => CycleInv'
  BY NextKept DEF Kept
<1> QED BY <1>1, <1>2, PTL DEF Spec

(* The weights a cycle aims at stay within 100% while a model, the completion of  *)
(* its batch and a blend overlap, and an alpha that is due once a day is not      *)
(* evaluated more often than processes died.                                     *)
THEOREM CyclesAreSound == Spec => []CyclesSound
<1>1. CycleInv => CyclesSound
  BY CyclesSoundBy
<1> QED BY <1>1, CycleInvariant, PTL

(* What the runner knows outlasts the end of its process, and a transition keeps  *)
(* its deadline.                                                                 *)
THEOREM MemoryIsKept == Spec => MemoryKept
<1>1. CycleInv /\ [Next]_vars => [now' = now /\ crashes' = crashes => Memory' = Memory]_vars
  BY NextKept DEF Kept
<1>2. CycleInv /\ [Next]_vars =>
        [ store'.active # None =>
            /\ store'.active.elapsed <= now' - store'.active.started
            /\ Clock = "wall_time" /\ store'.active.started + Duration >= now' =>
                 store'.active.elapsed = now' - store'.active.started
            /\ store.active # None =>
                 /\ store'.active.started = store.active.started
                 /\ store'.active.elapsed >= store.active.elapsed ]_store
  BY NextKept DEF Kept, KeepsDeadline
<1>3. Spec => RestartKeepsMemory
  BY <1>1, CycleInvariant, PTL DEF Spec, RestartKeepsMemory
<1>4. Spec => DeadlineKept
  BY <1>2, CycleInvariant, PTL DEF Spec, DeadlineKept
<1> QED BY <1>3, <1>4 DEF MemoryKept

-------------------------------------------------------------------------------
(* The blend arrives. First, how far weights lie apart.                        *)

Gap(v, w) == [y \in Symbols |-> Abs(Weight(w, y) - Weight(v, y))]

Equal(v, w) == \A y \in Symbols : Weight(v, y) = Weight(w, y)

\* The distance of two weights.
LEMMA GapType ==
  ASSUME NEW v \in Weightings, NEW w \in Weightings, NEW y
  PROVE  /\ Abs(Weight(w, y) - Weight(v, y)) \in Nat
         /\ Abs(Weight(w, y) - Weight(v, y)) = 0 <=> Weight(v, y) = Weight(w, y)
<1>1. Weight(w, y) \in Nat /\ Weight(v, y) \in Nat
  BY WeightType
<1> QED BY <1>1 DEF Abs

\* How far weights lie apart, taken over all symbols.
LEMMA DriftSpread ==
  ASSUME NEW v \in Weightings, NEW w \in Weightings
  PROVE  /\ Drift(v, w) = SumFunctionOnSet(Gap(v, w), Symbols)
         /\ \A y \in Symbols : Gap(v, w)[y] = Abs(Weight(w, y) - Weight(v, y))
         /\ \A y \in Symbols : Gap(v, w)[y] \in Nat
<1> DEFINE S == DOMAIN v \cup DOMAIN w
           f == [y \in S |-> Abs(Weight(w, y) - Weight(v, y))]
           g == Gap(v, w)
<1>1. S \in SUBSET Symbols /\ IsFiniteSet(Symbols)
  BY WeightingType, FrameworkAssumption
<1>2. IsFiniteSet(S)
  BY <1>1, FS_Subset
<1>3. DOMAIN f = S /\ \A y \in S : f[y] = Abs(Weight(w, y) - Weight(v, y))
  OBVIOUS
<1>4. \A y \in Symbols : g[y] = Abs(Weight(w, y) - Weight(v, y))
  BY DEF Gap
<1>5. Drift(v, w) = SumFunction(f)
  BY DEF Drift
<1>6. ASSUME NEW y \in Symbols, y \notin S PROVE Weight(v, y) = Weight(w, y)
  BY <1>6 DEF Weight
<1> HIDE DEF f, g, S
<1>7. \A y \in Symbols : g[y] \in Nat
  BY <1>4, GapType
<1>8. \A y \in Symbols \ S : g[y] = 0
  BY <1>4, <1>6, GapType
<1>9. SumFunctionOnSet(f, S) = SumFunctionOnSet(g, S)
  <2>1. \A y \in S : f[y] = g[y]
    BY <1>1, <1>3, <1>4
  <2> QED BY <1>2, <2>1, SumSame
<1>10. SumFunctionOnSet(g, Symbols) = SumFunctionOnSet(g, S)
  <2>1. \A y \in Symbols : g[y] \in Int
    BY <1>7
  <2> QED BY <1>1, <1>8, <2>1, SumWithin
<1> QED BY <1>3, <1>4, <1>5, <1>7, <1>9, <1>10 DEF SumFunction, g

\* Weights do not lie apart just when they are equal.
LEMMA DriftEqual ==
  ASSUME NEW v \in Weightings, NEW w \in Weightings
  PROVE  Drift(v, w) = 0 <=> Equal(v, w)
<1> DEFINE g == Gap(v, w)
<1>1. /\ Drift(v, w) = SumFunctionOnSet(g, Symbols) /\ IsFiniteSet(Symbols)
      /\ \A y \in Symbols : g[y] \in Nat
      /\ \A y \in Symbols : g[y] = 0 <=> Weight(v, y) = Weight(w, y)
  BY DriftSpread, GapType, FrameworkAssumption
<1> HIDE DEF g
<1>2. ASSUME Equal(v, w) PROVE Drift(v, w) = 0
  BY <1>1, <1>2, SumZero DEF Equal
<1>3. ASSUME Drift(v, w) = 0, NEW y \in Symbols PROVE g[y] = 0
  <2>1. \A z \in Symbols : g[z] \in Int
    BY <1>1
  <2>2. SumFunctionOnSet(g, Symbols) = g[y] + SumFunctionOnSet(g, Symbols \ {y})
    BY <1>1, <2>1, SumWithout
  <2>3. SumFunctionOnSet(g, Symbols \ {y}) \in Nat
    BY <1>1, SumNatOn
  <2>4. SumFunctionOnSet(g, Symbols) = 0
    BY <1>1, <1>3
  <2>5. g[y] \in Nat
    BY <1>1
  <2> QED BY <2>2, <2>3, <2>4, <2>5
<1> QED BY <1>1, <1>2, <1>3 DEF Equal

\* Weights lie no further apart when each is either the same in both or one of others.
LEMMA DriftBelow ==
  ASSUME NEW a \in Weightings, NEW b \in Weightings, NEW v \in Weightings, NEW w \in Weightings,
         \A y \in Symbols : \/ Weight(a, y) = Weight(b, y)
                            \/ Weight(a, y) = Weight(v, y) /\ Weight(b, y) = Weight(w, y)
  PROVE  Drift(a, b) <= Drift(v, w)
<1> DEFINE g == Gap(a, b)
           h == Gap(v, w)
<1>1. /\ Drift(a, b) = SumFunctionOnSet(g, Symbols) /\ Drift(v, w) = SumFunctionOnSet(h, Symbols)
      /\ IsFiniteSet(Symbols)
      /\ \A y \in Symbols : g[y] = Abs(Weight(b, y) - Weight(a, y)) /\ g[y] \in Nat
      /\ \A y \in Symbols : h[y] = Abs(Weight(w, y) - Weight(v, y)) /\ h[y] \in Nat
  BY DriftSpread, FrameworkAssumption
<1> HIDE DEF g, h
<1>2. ASSUME NEW y \in Symbols PROVE g[y] \in Int /\ h[y] \in Int /\ g[y] <= h[y]
  <2>1. g[y] \in Nat /\ h[y] \in Nat
    BY <1>1
  <2>2. CASE Weight(a, y) = Weight(b, y)
    <3>1. g[y] = 0
      BY <1>1, <2>2, GapType
    <3> QED BY <2>1, <3>1
  <2>3. CASE Weight(a, y) = Weight(v, y) /\ Weight(b, y) = Weight(w, y)
    <3>1. g[y] = h[y]
      BY <1>1, <2>3
    <3> QED BY <2>1, <3>1
  <2> QED BY <2>2, <2>3
<1> QED BY <1>1, <1>2, SumAtMost

\* What lies no further apart than weights that are near is near.
LEMMA NearBelow ==
  ASSUME policy \in Policies, NEW a \in Weightings, NEW b \in Weightings,
         NEW v \in Weightings, NEW w \in Weightings, Near(policy, v, w),
         \A y \in Symbols : \/ Weight(a, y) = Weight(b, y)
                            \/ Weight(a, y) = Weight(v, y) /\ Weight(b, y) = Weight(w, y)
  PROVE  Near(policy, a, b)
<1>1. Drift(a, b) \in Nat /\ Drift(v, w) \in Nat /\ Drift(a, b) <= Drift(v, w)
  BY DriftType, DriftBelow
<1>2. policy.threshold \in Nat
  BY BlendAssumption
<1> QED BY <1>1, <1>2 DEF Near

\* A product by a number, divided by it.
LEMMA DivExact ==
  ASSUME NEW a \in Int, NEW r \in Nat \ {0}
  PROVE  (a * r) \div r = a
<1> DEFINE q == (a * r) \div r
<1>1. q \in Int /\ r * q <= a * r /\ a * r < r * q + r
  <2>1. a * r \in Int
    OBVIOUS
  <2> QED BY <2>1, DivBound
<1> HIDE DEF q
<1>2. a * r = r * a /\ r * q + r = r * (q + 1)
  BY <1>1
<1>3. r * q <= r * a /\ r * a < r * (q + 1)
  BY <1>1, <1>2
<1>4. q <= a /\ a < q + 1
  BY <1>1, <1>3
<1> QED BY <1>1, <1>4 DEF q

\* At its end, or when it has nowhere to move, a transition shows where it leads.
LEMMA ShownAtEnd ==
  ASSUME policy \in Policies, NEW t \in Transitions, NEW m \in Nat, SoundAt(t, m),
         t.elapsed >= Duration \/ Steady(t)
  PROVE  Equal(WeightsAt(t), t.to)
<1> DEFINE r == Duration - t.fromElapsed
           k == t.elapsed - t.fromElapsed
<1>1. /\ t.from \in Weightings /\ t.to \in Weightings
      /\ t.fromElapsed \in Nat /\ t.elapsed \in Nat /\ Duration \in Nat
      /\ t.fromElapsed <= t.elapsed /\ t.elapsed <= Duration
  BY PolicyType DEF Transitions, SoundAt
<1>2. r \in Nat /\ k \in 0..r /\ (t.elapsed >= Duration => k = r)
  BY <1>1
<1> SUFFICES ASSUME NEW y \in Symbols PROVE Weight(WeightsAt(t), y) = Weight(t.to, y)
  BY DEF Equal
<1> DEFINE v == Weight(t.from, y)
           w == Weight(t.to, y)
<1>3. v \in Nat /\ w \in Nat
  BY <1>1, WeightType
<1>4. WeightAt(t, y) = IF r = 0 THEN w ELSE v + ((w - v) * k) \div r
  BY DEF WeightAt
<1>5. t.elapsed >= Duration \/ v = w
  BY DEF Steady
<1> HIDE DEF r, k
<1>6. WeightAt(t, y) = w
  <2> HIDE DEF v, w
  <2>1. CASE r = 0
    BY <1>4, <2>1
  <2>2. CASE r # 0 /\ v = w
    <3>1. (w - v) * k = 0
      BY <1>2, <1>3, <2>2
    <3>2. r \in Nat \ {0} /\ 0 \div r = 0
      BY <1>2, <2>2
    <3> QED BY <1>3, <1>4, <2>2, <3>1, <3>2
  <2>3. CASE r # 0 /\ k = r
    <3>1. r \in Nat \ {0} /\ w - v \in Int
      BY <1>2, <1>3, <2>3
    <3>2. ((w - v) * r) \div r = w - v
      BY <3>1, DivExact
    <3> QED BY <1>3, <1>4, <2>3, <3>2
  <2> QED BY <1>2, <1>5, <2>1, <2>2, <2>3
<1>7. DOMAIN WeightsAt(t) = DOMAIN t.from \cup DOMAIN t.to
      /\ \A z \in DOMAIN WeightsAt(t) : WeightsAt(t)[z] = WeightAt(t, z)
  BY DEF WeightsAt
<1>8. CASE y \in DOMAIN WeightsAt(t)
  BY <1>6, <1>7, <1>8 DEF Weight
<1>9. CASE y \notin DOMAIN WeightsAt(t)
  BY <1>7, <1>9 DEF Weight
<1> QED BY <1>8, <1>9

-------------------------------------------------------------------------------
(* What a cycle aims at, next to what was asked for.                           *)

Asked(b, c) == [y \in DOMAIN b.targets |-> Weight(WeightsOf(c.resolved), y)]

ArrivedFor(p, b, c) ==
  c.quiet >= p.duration => Near(p, WeightsOf(b.targets), Asked(b, c))

\* The weights of both, by symbol.
LEMMA AskedType ==
  ASSUME NEW b, b.targets \in TargetSets, NEW c, c.resolved \in TargetSets
  PROVE  /\ WeightsOf(b.targets) \in Weightings /\ WeightsOf(c.resolved) \in Weightings
         /\ Asked(b, c) \in Weightings
         /\ \A y \in DOMAIN b.targets :
              /\ Weight(WeightsOf(b.targets), y) = b.targets[y].weight
              /\ Weight(Asked(b, c), y) = Weight(WeightsOf(c.resolved), y)
         /\ \A y \in Symbols \ DOMAIN b.targets :
              Weight(WeightsOf(b.targets), y) = Weight(Asked(b, c), y)
<1> DEFINE S == DOMAIN b.targets
           w == WeightsOf(b.targets)
           q == WeightsOf(c.resolved)
           x == Asked(b, c)
<1>1. /\ w \in Weightings /\ q \in Weightings /\ DOMAIN w = S
      /\ \A y \in S : w[y] = b.targets[y].weight
  BY WeightsOfType
<1>2. S \in SUBSET Symbols
  BY TargetsType
<1>3. DOMAIN x = S /\ x = [y \in S |-> x[y]] /\ \A y \in S : x[y] = Weight(q, y)
  BY DEF Asked
<1> HIDE DEF S, w, q, x
<1>4. \A y \in S : x[y] \in 0..Full
  BY <1>1, <1>3, WeightType
<1>5. x \in Weightings
  BY <1>2, <1>3, <1>4, WeightingMade
<1>6. \A y \in S : Weight(w, y) = b.targets[y].weight /\ Weight(x, y) = Weight(q, y)
  BY <1>1, <1>3 DEF Weight
<1>7. \A y \in Symbols \ S : Weight(w, y) = Weight(x, y)
  BY <1>1, <1>3 DEF Weight
<1> QED BY <1>1, <1>5, <1>6, <1>7 DEF S, w, q, x

\* Without a transition a cycle aims at what was asked for.
LEMMA SettledArrives ==
  ASSUME NEW b, b.targets \in TargetSets, NEW c, c.resolved \in TargetSets, NEW s,
         Settled(policy, b, s, c)
  PROVE  ArrivedFor(policy, b, c)
<1> DEFINE w == WeightsOf(b.targets)
           x == Asked(b, c)
<1>1. /\ w \in Weightings /\ x \in Weightings
      /\ \A y \in DOMAIN b.targets : /\ Weight(w, y) = b.targets[y].weight
                                     /\ Weight(x, y) = Weight(WeightsOf(c.resolved), y)
      /\ \A y \in Symbols \ DOMAIN b.targets : Weight(w, y) = Weight(x, y)
  BY AskedType
<1>2. \A y \in DOMAIN b.targets : b.targets[y].weight = Weight(WeightsOf(c.resolved), y)
  BY DEF Settled
<1> HIDE DEF w, x
<1>3. Equal(w, x)
  BY <1>1, <1>2 DEF Equal
<1>4. Drift(w, x) = 0
  BY <1>1, <1>3, DriftEqual
<1> QED BY <1>4 DEF ArrivedFor, Near, w, x

\* What bypasses the blend takes the weight that was asked for.
TakesAsked(raw, bypass, resolved) ==
  \A y \in bypass : raw[y].weight = Weight(WeightsOf(resolved), y)

\* The weights that the blend shows for a transition, on its way or at its end.
ShownFor(t, w) == w \in Weightings /\ (w = t.to \/ w = WeightsAt(t))

\* A transition that has led to what was asked for, for as long as the blend takes,
\* is over or had nowhere to move: the cycle shows where it leads.
LEMMA MovingArrives ==
  ASSUME policy \in Policies, NEW t \in Transitions, NEW n \in Nat, SoundAt(t, n),
         NEW c, c.resolved \in TargetSets, c.quiet \in Nat, Leads(policy, t, c),
         NEW w, ShownFor(t, w),
         NEW targets, NEW raw, NEW bypass, Shows(targets, w, raw, bypass),
         TakesAsked(raw, bypass, c.resolved),
         NEW b, b.targets \in TargetSets, DOMAIN b.targets \in SUBSET DOMAIN targets,
         \A y \in DOMAIN b.targets : b.targets[y] = targets[y]
  PROVE  ArrivedFor(policy, b, c)
<1> SUFFICES ASSUME c.quiet >= Duration
             PROVE  Near(policy, WeightsOf(b.targets), Asked(b, c))
  BY DEF ArrivedFor, Duration
<1> DEFINE v == WeightsOf(b.targets)
           x == Asked(b, c)
           q == WeightsOf(c.resolved)
<1>1. t.elapsed \in Nat /\ t.to \in Weightings /\ Duration \in Nat
  BY PolicyType DEF Transitions
<1>2. t.elapsed >= Duration \/ Steady(t)
  <2>1. t.elapsed >= Duration \/ t.elapsed >= c.quiet \/ Steady(t)
    BY DEF Leads, Duration
  <2> QED BY <1>1, <2>1
<1>3. Equal(w, t.to)
  BY <1>2, ShownAtEnd DEF Equal, ShownFor
<1>4. /\ v \in Weightings /\ x \in Weightings /\ q \in Weightings
      /\ \A y \in DOMAIN b.targets : Weight(v, y) = b.targets[y].weight /\ Weight(x, y) = Weight(q, y)
      /\ \A y \in Symbols \ DOMAIN b.targets : Weight(v, y) = Weight(x, y)
  BY AskedType
<1>5. Near(policy, t.to, q)
  BY DEF Leads
<1>6. DOMAIN b.targets \in SUBSET Symbols
  BY TargetsType
<1>7. \A y \in DOMAIN b.targets :
        b.targets[y].weight = IF y \in bypass THEN raw[y].weight ELSE Weight(w, y)
  BY DEF Shows
<1>8. \A y \in bypass : raw[y].weight = Weight(q, y)
  BY DEF TakesAsked
<1> HIDE DEF v, x, q
<1>9. ASSUME NEW y \in Symbols
      PROVE  \/ Weight(v, y) = Weight(x, y)
             \/ Weight(v, y) = Weight(t.to, y) /\ Weight(x, y) = Weight(q, y)
  <2>1. CASE y \notin DOMAIN b.targets
    BY <1>4, <2>1
  <2>2. CASE y \in DOMAIN b.targets /\ y \in bypass
    BY <1>4, <1>7, <1>8, <2>2
  <2>3. CASE y \in DOMAIN b.targets /\ y \notin bypass
    <3>1. Weight(v, y) = Weight(w, y) /\ Weight(x, y) = Weight(q, y)
      BY <1>4, <1>7, <2>3
    <3> QED BY <1>3, <3>1 DEF Equal
  <2> QED BY <2>1, <2>2, <2>3
<1>10. Near(policy, v, x)
  BY <1>1, <1>4, <1>5, <1>9, NearBelow
<1> QED BY <1>10 DEF v, x

\* A transition moves on for as long as what it leads to stands.
LEMMA MovesOn ==
  ASSUME policy \in Policies, NEW t \in Transitions, now \in Nat, SoundAt(t, now), cycle.quiet \in Nat,
         t.elapsed >= Duration \/ t.elapsed >= cycle.quiet \/ Steady(t),
         NEW n \in Nat, now <= n, NEW session, NEW a, a = AdvanceTransition(t, n, session),
         NEW resolved, NEW quiet, quiet = Quiet(resolved, n, session)
  PROVE  /\ quiet \in Nat
         /\ a.elapsed >= Duration \/ a.elapsed >= quiet \/ Steady(a)
         /\ Steady(t) => Steady(a)
<1>1. /\ a \in Transitions /\ a.from = t.from /\ a.to = t.to /\ a.elapsed >= t.elapsed
      /\ a.elapsed >= Duration \/ a.elapsed >= t.elapsed + Minutes(session, now, n)
  BY Advanced
<1>2. a.elapsed \in Nat /\ t.elapsed \in Nat /\ Duration \in Nat
  BY <1>1, PolicyType DEF Transitions
<1>3. Minutes(session, now, n) \in Nat
  BY DEF Minutes
<1>4. quiet = IF resolved = cycle.resolved THEN cycle.quiet + Minutes(session, now, n) ELSE 0
  BY DEF Quiet
<1>5. Steady(t) => Steady(a)
  BY <1>1 DEF Steady
<1>6. a.elapsed >= Duration \/ a.elapsed >= quiet \/ Steady(a)
  <2>1. CASE resolved = cycle.resolved
    <3>1. quiet = cycle.quiet + Minutes(session, now, n)
      BY <1>4, <2>1
    <3> HIDE DEF Minutes
    <3>2. CASE t.elapsed >= Duration
      BY <1>1, <1>2, <3>2
    <3>3. CASE t.elapsed >= cycle.quiet
      BY <1>1, <1>2, <1>3, <3>1, <3>3
    <3>4. CASE Steady(t)
      BY <1>5, <3>4
    <3> QED BY <3>2, <3>3, <3>4
  <2>2. CASE resolved # cycle.resolved
    BY <1>2, <1>4, <2>2
  <2> QED BY <2>1, <2>2
<1>7. quiet \in Nat
  BY <1>3, <1>4
<1> QED BY <1>5, <1>6, <1>7

\* A batch is what a decision aims at, without some of its targets.
FilteredFrom(b, d) ==
  /\ b \in TargetBatches /\ b.targets \in TargetSets /\ b.transition = d.batch.transition
  /\ DOMAIN b.targets \in SUBSET DOMAIN d.batch.targets
  /\ \A y \in DOMAIN b.targets : b.targets[y] = d.batch.targets[y]

\* The filter after the blend leaves targets out and changes none.
LEMMA FilteredIs ==
  ASSUME NEW n, NEW d, DecisionSoundAt(d, n), NEW priced,
         NEW b, b = [d.batch EXCEPT !.targets = Targetable(@, priced, held)]
  PROVE  FilteredFrom(b, d)
<1> DEFINE x == Targetable(d.batch.targets, priced, held)
<1>1. b \in TargetBatches /\ b.transition = d.batch.transition /\ b.targets = x
  BY FilteredSound
<1>2. d.batch.targets \in TargetSets
  BY DEF DecisionSoundAt, TargetBatches
<1>3. x \in TargetSets /\ DOMAIN x \in SUBSET DOMAIN d.batch.targets
      /\ \A y \in DOMAIN x : x[y] = d.batch.targets[y]
  BY <1>2, TargetableSound
<1> HIDE DEF x
<1> QED BY <1>1, <1>3 DEF FilteredFrom

\* A batch that shows a transition on its way is on its way.
LEMMA OnWayMoving ==
  ASSUME policy \in Policies, Duration # 0, NEW t \in Transitions, NEW n \in Nat, SoundAt(t, n),
         NEW c, c.resolved \in TargetSets, c.quiet \in Nat, Leads(policy, t, c),
         NEW d, d.batch.transition = t, NEW w, ShownFor(t, w),
         NEW raw, NEW bypass, Shows(d.batch.targets, w, raw, bypass),
         TakesAsked(raw, bypass, c.resolved),
         NEW b, FilteredFrom(b, d),
         NEW s, s.active = t \/ (s.active = None /\ t.elapsed >= Duration)
  PROVE  OnTheWayFor(policy, b, s, c) /\ ArrivedFor(policy, b, c)
<1>1. /\ b # None /\ t # None /\ b.transition = t /\ b.targets \in TargetSets
      /\ DOMAIN b.targets \in SUBSET DOMAIN d.batch.targets
      /\ \A y \in DOMAIN b.targets : b.targets[y] = d.batch.targets[y]
  BY NoneAssumption DEF FilteredFrom
<1>2. Moving(policy, b, s, c)
  BY <1>1 DEF Moving, Duration
<1>3. OnTheWayFor(policy, b, s, c)
  BY <1>1, <1>2 DEF OnTheWayFor
<1>4. ArrivedFor(policy, b, c)
  BY <1>1, MovingArrives
<1> QED BY <1>3, <1>4

\* A batch without a transition has settled.
LEMMA OnWaySettled ==
  ASSUME NEW c, c.resolved \in TargetSets, NEW d, NEW b, FilteredFrom(b, d),
         d.batch.transition = None, NEW s, s.active = None,
         \A y \in DOMAIN d.batch.targets :
           d.batch.targets[y].weight = Weight(WeightsOf(c.resolved), y),
         policy.duration # 0 => \/ s.last = WeightsOf(c.resolved)
                                \/ s.last = None /\ c.resolved = <<>> /\ d.batch.targets = <<>>
  PROVE  OnTheWayFor(policy, b, s, c) /\ ArrivedFor(policy, b, c)
<1>1. /\ b # None /\ b.transition = None /\ b.targets \in TargetSets
      /\ DOMAIN b.targets \in SUBSET DOMAIN d.batch.targets
      /\ \A y \in DOMAIN b.targets : b.targets[y] = d.batch.targets[y]
  BY NoneAssumption DEF FilteredFrom
<1>2. d.batch.targets = <<>> => b.targets = <<>>
  <2> SUFFICES ASSUME d.batch.targets = <<>> PROVE b.targets = <<>>
    OBVIOUS
  <2>1. DOMAIN b.targets = {}
    BY <1>1, EmptyTypes
  <2>2. b.targets = [y \in DOMAIN b.targets |-> b.targets[y]]
    BY <1>1, TargetsType
  <2> QED BY <2>1, <2>2
<1>3. Settled(policy, b, s, c)
  <2>1. \A y \in DOMAIN b.targets : b.targets[y].weight = Weight(WeightsOf(c.resolved), y)
    BY <1>1
  <2> QED BY <1>2, <2>1 DEF Settled
<1>4. OnTheWayFor(policy, b, s, c)
  BY <1>1, <1>3 DEF OnTheWayFor
<1> QED BY <1>1, <1>3, <1>4, SettledArrives

\* Where the blend stands before a cycle.
LEMMA WayBefore ==
  ASSUME Ready, OnTheWayFor(policy, runner.batch, store, cycle),
         NEW active, active = ActiveTransition(store, runner.batch)
  PROVE  \/ /\ active = None /\ store.active = None
            /\ \/ runner.batch = None /\ Fresh(store, cycle)
               \/ runner.batch # None /\ Settled(policy, runner.batch, store, cycle)
         \/ /\ active # None /\ Duration # 0 /\ active \in Transitions /\ SoundAt(active, now)
            /\ runner.batch # None /\ Leads(policy, active, cycle)
<1>1. /\ policy \in Policies /\ store \in Stores /\ now \in Nat /\ StoreSoundAt(store, now)
      /\ runner.batch \in TargetBatches \cup {None}
      /\ runner.batch # None => BatchSoundAt(runner.batch, now)
  BY DEF Ready
<1>2. active \in Transitions \cup {None} /\ (active # None => SoundAt(active, now))
  BY <1>1, ActiveType
<1>3. CASE runner.batch = None
  BY <1>3 DEF OnTheWayFor, Fresh, ActiveTransition
<1>4. CASE runner.batch # None /\ runner.batch.transition = None
  BY <1>4 DEF OnTheWayFor, Settled, ActiveTransition
<1>5. CASE runner.batch # None /\ runner.batch.transition # None
  <2>1. Moving(policy, runner.batch, store, cycle)
    BY <1>5 DEF OnTheWayFor
  <2>2. active = runner.batch.transition
    BY <1>5, <2>1 DEF Moving, ActiveTransition
  <2> QED BY <1>2, <1>5, <2>1, <2>2 DEF Moving, Duration
<1> QED BY <1>3, <1>4, <1>5

\* Without a transition the weights moved to last are what was asked for.
LEMMA OldBefore ==
  ASSUME Ready, Duration # 0,
         \/ runner.batch = None /\ Fresh(store, cycle)
         \/ runner.batch # None /\ Settled(policy, runner.batch, store, cycle)
  PROVE  Equal(PreviousWeights(store, runner.batch), WeightsOf(cycle.resolved))
<1> DEFINE old == PreviousWeights(store, runner.batch)
           q == WeightsOf(cycle.resolved)
<1>1. q \in Weightings /\ None \notin Weightings
  BY WeightsOfType, NoneAssumption DEF Ready
<1>2. CASE store.last = q
  BY <1>1, <1>2 DEF PreviousWeights, Equal
<1>3. CASE store.last = None /\ cycle.resolved = <<>>
           /\ (runner.batch # None => runner.batch.targets = <<>>)
  <2>1. q = <<>>
    BY <1>3, EmptyTypes
  <2>2. old = <<>>
    BY <1>3, EmptyTypes DEF PreviousWeights
  <2> QED BY <2>1, <2>2 DEF Equal
<1>4. store.last = q \/ (store.last = None /\ cycle.resolved = <<>>
                         /\ (runner.batch # None => runner.batch.targets = <<>>))
  BY DEF Fresh, Settled, Duration
<1> QED BY <1>2, <1>3, <1>4

\* What a followed transition shows.
LEMMA FollowedIs ==
  ASSUME policy \in Policies, NEW t \in Transitions, NEW n \in Nat, SoundAt(t, n),
         NEW raw \in TargetSets, NEW bypass \in SUBSET DOMAIN raw, Left(raw, bypass),
         NEW shown \in TargetSets, NEW s \in Stores, StoreSoundAt(s, n),
         NEW d, d = FromTransition(raw, t, bypass, shown, s)
  PROVE  /\ d.batch.transition = t
         /\ d.store.active = t \/ (d.store.active = None /\ t.elapsed >= Duration)
         /\ \E w : ShownFor(t, w) /\ Shows(d.batch.targets, w, raw, bypass)
<1>1. CASE IsComplete(t)
  <2>1. /\ d.batch.transition = t /\ d.store.active = None
        /\ Shows(d.batch.targets, t.to, raw, bypass)
    BY <1>1, CompletedSound
  <2>2. t.to \in Weightings
    BY DEF Transitions
  <2> QED BY <1>1, <2>1, <2>2 DEF IsComplete, ShownFor
<1>2. CASE ~IsComplete(t)
  <2>1. d = Blended(raw, t, bypass, shown, s)
    BY <1>2 DEF FromTransition
  <2>2. /\ d.batch.transition = t /\ d.store.active = t
        /\ Shows(d.batch.targets, WeightsAt(t), raw, bypass)
    BY <2>1, BlendedSound
  <2>3. WeightsAt(t) \in Weightings
    BY ShownWeights
  <2> QED BY <2>2, <2>3 DEF ShownFor
<1> QED BY <1>1, <1>2

\* Weights and what they are equal to lie near.
LEMMA NearEqual ==
  ASSUME NEW v \in Weightings, NEW w \in Weightings, Equal(v, w)
  PROVE  Near(policy, v, w)
BY DriftEqual DEF Near

\* A cycle that follows the transition under way stays on the way.
LEMMA FollowingOnWay ==
  ASSUME Ready, Duration # 0, NEW active \in Transitions, SoundAt(active, now),
         Leads(policy, active, cycle), cycle.quiet \in Nat,
         NEW n \in Nat, now <= n, NEW session, NEW t, t = AdvanceTransition(active, n, session),
         NEW c, c.resolved \in TargetSets, c.quiet = Quiet(c.resolved, n, session),
         Near(policy, t.to, WeightsOf(c.resolved)),
         NEW raw \in TargetSets, NEW bypass \in SUBSET DOMAIN raw, Left(raw, bypass),
         TakesAsked(raw, bypass, c.resolved),
         NEW shown \in TargetSets, NEW d, d = FromTransition(raw, t, bypass, shown, store),
         NEW b, FilteredFrom(b, d)
  PROVE  OnTheWayFor(policy, b, d.store, c) /\ ArrivedFor(policy, b, c)
<1>1. policy \in Policies /\ now \in Nat /\ store \in Stores /\ StoreSoundAt(store, now)
  BY DEF Ready
<1>2. StoreSoundAt(store, n)
  <2>1. store.active \in Transitions \cup {None}
    BY <1>1 DEF Stores
  <2> QED BY <1>1, <2>1, SoundLater DEF StoreSoundAt
<1>3. t \in Transitions /\ SoundAt(t, n)
  BY <1>1, Advanced
<1>4. active.elapsed >= Duration \/ active.elapsed >= cycle.quiet \/ Steady(active)
  BY DEF Leads, Duration
<1>5. c.quiet \in Nat /\ (t.elapsed >= Duration \/ t.elapsed >= c.quiet \/ Steady(t))
  BY <1>1, <1>4, MovesOn
<1>6. Leads(policy, t, c)
  BY <1>5 DEF Leads, Duration
<1>7. /\ d.batch.transition = t
      /\ d.store.active = t \/ (d.store.active = None /\ t.elapsed >= Duration)
      /\ \E w : ShownFor(t, w) /\ Shows(d.batch.targets, w, raw, bypass)
  BY <1>1, <1>2, <1>3, FollowedIs
<1>8. PICK w : ShownFor(t, w) /\ Shows(d.batch.targets, w, raw, bypass)
  BY <1>7
<1> QED BY <1>1, <1>3, <1>5, <1>6, <1>7, <1>8, OnWayMoving

\* A rebalance stays on the way.
LEMMA FreshOnWay ==
  ASSUME Ready, OnTheWayFor(policy, runner.batch, store, cycle), cycle.quiet \in Nat,
         NEW insights, NEW n \in Nat, now <= n, NEW priced \in SUBSET Symbols, NEW session,
         NEW r, r = FreshBatch(insights, n, priced, session),
         NEW c, c.resolved = r.resolved, c.quiet = Quiet(r.resolved, n, session)
  PROVE  OnTheWayFor(policy, r.batch, r.store, c) /\ ArrivedFor(policy, r.batch, c)
<1> DEFINE x == Resolved(insights, priced)
           noAction == NoAction(Raw(insights, priced), Resolved(insights, priced))
           d == Decided(insights, n, priced, session)
           active == ActiveTransition(store, runner.batch)
           t == AdvanceTransition(active, n, session)
           old == PreviousWeights(store, runner.batch)
           q == WeightsOf(x)
<1>1. /\ policy \in Policies /\ now \in Nat /\ store \in Stores /\ StoreSoundAt(store, now)
      /\ runner.batch \in TargetBatches \cup {None}
      /\ runner.batch # None => BatchSoundAt(runner.batch, now)
      /\ cycle.resolved \in TargetSets
  BY DEF Ready
<1>2. x \in TargetSets /\ Funded(WeightsOf(x)) /\ Left(x, UrgentIn(x))
  BY ResolvedSound
<1>3. noAction \in BOOLEAN /\ (noAction => DOMAIN x = {})
  BY DEF NoAction
<1>4. d = BlendApply(x, noAction, runner.batch, store, n, session)
  BY DEF Decided
<1>5. /\ r.resolved = (IF noAction THEN cycle.resolved ELSE x) /\ r.store = d.store
      /\ r.batch = [d.batch EXCEPT !.targets = Targetable(@, priced, held)]
  BY FreshBatchIs
<1>6. DecisionSoundAt(d, n)
  BY DecidedSound
<1>8. \/ /\ active = None /\ store.active = None
         /\ \/ runner.batch = None /\ Fresh(store, cycle)
            \/ runner.batch # None /\ Settled(policy, runner.batch, store, cycle)
      \/ /\ active # None /\ Duration # 0 /\ active \in Transitions /\ SoundAt(active, now)
         /\ runner.batch # None /\ Leads(policy, active, cycle)
  BY WayBefore
<1>9. old \in Weightings /\ Funded(old)
  BY <1>1, ActiveType
<1>10. Shown(runner.batch) \in TargetSets
  BY <1>1, EmptyTypes DEF Shown, TargetBatches
<1>11. UrgentIn(x) \in SUBSET DOMAIN x
  BY DEF UrgentIn
<1>12. q \in Weightings /\ DOMAIN q = DOMAIN x /\ \A y \in DOMAIN x : q[y] = x[y].weight
  BY <1>2, WeightsOfType
<1>13. StoreSoundAt(store, n)
  <2>1. store.active \in Transitions \cup {None}
    BY <1>1 DEF Stores
  <2> QED BY <1>1, <2>1, SoundLater DEF StoreSoundAt
<1>14. active = ActiveTransition(store, runner.batch) /\ t = AdvanceTransition(active, n, session)
       /\ old = PreviousWeights(store, runner.batch)
  OBVIOUS
<1>15. active = None => (Duration # 0 => Equal(old, WeightsOf(cycle.resolved)))
  BY <1>8, OldBefore
<1> HIDE DEF x, noAction, d, active, t, old
<1>7. \/ Duration = 0 /\ d = Decision(x, None, store)
      \/ /\ Duration # 0 /\ active # None
         /\ \/ /\ ~noAction /\ Drift(t.to, q) >= Threshold
               /\ Leaves(d, x, t, runner.batch, store)
            \/ /\ noAction \/ ~(Drift(t.to, q) >= Threshold)
               /\ Follows(d, x, t, UrgentIn(x), runner.batch, store)
      \/ /\ Duration # 0 /\ active = None
         /\ \/ noAction /\ d = Decision(x, None, store)
            \/ ~noAction /\ d = Decision(x, None, [store EXCEPT !.last = q])
            \/ ~noAction /\ Starts(d, x, old, n, runner.batch, store)
  BY <1>4, <1>14 DEF BlendApply, Shown, Follows, Leaves, Starts
<1>16. FilteredFrom(r.batch, d)
  BY <1>5, <1>6, FilteredIs
<1>17. \A y \in DOMAIN x : x[y].weight = Weight(q, y)
  BY <1>12 DEF Weight
<1>18. c.resolved = (IF noAction THEN cycle.resolved ELSE x) /\ c.resolved \in TargetSets
       /\ c.quiet = Quiet(c.resolved, n, session)
  BY <1>1, <1>2, <1>5
<1> HIDE DEF q
<1>19. CASE Duration = 0 /\ d = Decision(x, None, store)
  <2>1. d.batch.targets = x /\ d.batch.transition = None /\ d.store = store
    BY <1>19 DEF Decision, Batch
  <2>2. store.active = None
    BY <1>8, <1>19
  <2>3. \A y \in DOMAIN d.batch.targets :
          d.batch.targets[y].weight = Weight(WeightsOf(c.resolved), y)
    BY <1>3, <1>17, <1>18, <2>1 DEF q
  <2>4. policy.duration = 0
    BY <1>19 DEF Duration
  <2> QED BY <1>5, <1>16, <1>18, <2>1, <2>2, <2>3, <2>4, OnWaySettled
<1>20. CASE Duration # 0 /\ active = None /\ noAction /\ d = Decision(x, None, store)
  <2>1. d.batch.targets = x /\ d.batch.transition = None /\ d.store = store
    BY <1>20 DEF Decision, Batch
  <2>2. x = <<>>
    <3>1. x = [y \in DOMAIN x |-> x[y]]
      BY <1>2, TargetsType
    <3> QED BY <1>3, <1>20, <3>1
  <2>3. c.resolved = cycle.resolved /\ store.active = None
    BY <1>8, <1>18, <1>20
  <2>4. \/ store.last = WeightsOf(c.resolved)
        \/ store.last = None /\ c.resolved = <<>>
    BY <1>8, <1>20, <2>3 DEF Fresh, Settled, Duration
  <2>5. \A y \in DOMAIN d.batch.targets :
          d.batch.targets[y].weight = Weight(WeightsOf(c.resolved), y)
    BY <1>3, <1>20, <2>1
  <2> QED BY <1>5, <1>16, <1>18, <2>1, <2>2, <2>3, <2>4, <2>5, OnWaySettled
<1>21. CASE Duration # 0 /\ active = None /\ ~noAction
            /\ d = Decision(x, None, [store EXCEPT !.last = q])
  <2>1. /\ d.batch.targets = x /\ d.batch.transition = None
        /\ d.store = [store EXCEPT !.last = q]
    BY <1>21 DEF Decision, Batch
  <2>2. d.store.active = None /\ d.store.last = q
    BY <1>1, <1>8, <1>21, <2>1 DEF Stores
  <2>3. c.resolved = x
    BY <1>18, <1>21
  <2>4. \A y \in DOMAIN d.batch.targets :
          d.batch.targets[y].weight = Weight(WeightsOf(c.resolved), y)
    BY <1>17, <2>1, <2>3 DEF q
  <2>5. d.store.last = WeightsOf(c.resolved)
    BY <2>2, <2>3 DEF q
  <2> QED BY <1>5, <1>16, <1>18, <2>1, <2>2, <2>4, <2>5, OnWaySettled
<1>22. CASE Duration # 0 /\ active = None /\ ~noAction /\ Starts(d, x, old, n, runner.batch, store)
  <2> DEFINE a == NewTransition(old, x, n)
  <2>1. /\ a \in Transitions /\ SoundAt(a, n) /\ a.from = old /\ a.to = q /\ a.elapsed = 0
    BY <1>1, <1>2, <1>9, Started DEF q
  <2>2. d = Blended(x, a, UrgentIn(x), Shown(runner.batch), store)
    BY <1>22 DEF Starts
  <2> HIDE DEF a
  <2>3. /\ d.batch.transition = a /\ d.store.active = a
        /\ Shows(d.batch.targets, WeightsAt(a), x, UrgentIn(x))
    BY <1>1, <1>2, <1>10, <1>11, <1>13, <2>1, <2>2, BlendedSound
  <2>4. c.resolved = x
    BY <1>18, <1>22
  <2>5. Near(policy, a.to, WeightsOf(c.resolved))
    BY <1>12, <2>1, <2>4, NearEqual DEF q, Equal
  <2>6. c.quiet \in Nat /\ (a.elapsed >= c.quiet \/ Steady(a))
    <3>1. CASE x = cycle.resolved
      <4>1. Steady(a)
        BY <1>15, <1>22, <2>1, <3>1 DEF Equal, Steady, q
      <4>2. c.quiet \in Nat
        BY <1>1, <1>18 DEF Quiet, Minutes
      <4> QED BY <4>1, <4>2
    <3>2. CASE x # cycle.resolved
      BY <1>18, <2>1, <2>4, <3>2 DEF Quiet
    <3> QED BY <3>1, <3>2
  <2>7. Leads(policy, a, c)
    BY <2>5, <2>6 DEF Leads
  <2>8. TakesAsked(x, UrgentIn(x), c.resolved)
    BY <1>11, <1>17, <2>4 DEF q, TakesAsked
  <2>9. ShownFor(a, WeightsAt(a))
    BY <1>1, <2>1, ShownWeights DEF ShownFor
  <2> QED BY <1>1, <1>5, <1>16, <1>18, <1>22, <2>1, <2>3, <2>6, <2>7, <2>8, <2>9, OnWayMoving
<1>23. CASE Duration # 0 /\ active # None /\ (noAction \/ ~(Drift(t.to, q) >= Threshold))
            /\ Follows(d, x, t, UrgentIn(x), runner.batch, store)
  <2>1. active \in Transitions /\ SoundAt(active, now) /\ Leads(policy, active, cycle)
    BY <1>8, <1>23
  <2>2. t \in Transitions /\ t.to = active.to
    BY <1>1, <1>14, <2>1, Advanced
  <2>3. Near(policy, t.to, WeightsOf(c.resolved))
    <3>1. CASE noAction
      BY <1>18, <2>1, <2>2, <3>1 DEF Leads
    <3>2. CASE ~noAction
      <4>1. c.resolved = x /\ ~(Drift(t.to, q) >= Threshold)
        BY <1>18, <1>23, <3>2
      <4>2. t.to \in Weightings
        BY <2>2 DEF Transitions
      <4>3. Drift(t.to, q) \in Nat /\ Threshold \in Nat
        BY <1>1, <1>12, <4>2, DriftType, PolicyType
      <4>4. Drift(t.to, q) < Threshold
        BY <4>1, <4>3
      <4> QED BY <4>1, <4>4 DEF Near, Threshold, q
    <3> QED BY <1>3, <3>1, <3>2
  <2>4. TakesAsked(x, UrgentIn(x), c.resolved)
    BY <1>3, <1>11, <1>17, <1>18 DEF q, TakesAsked
  <2>5. d = FromTransition(x, t, UrgentIn(x), Shown(runner.batch), store)
    BY <1>23 DEF Follows
  <2> QED BY <1>2, <1>5, <1>10, <1>11, <1>14, <1>16, <1>18, <1>23, <2>1, <2>3, <2>4, <2>5,
             FollowingOnWay
<1>24. CASE Duration # 0 /\ active # None /\ ~noAction /\ Drift(t.to, q) >= Threshold
            /\ Leaves(d, x, t, runner.batch, store)
  <2> DEFINE a == Retarget(t, x)
  <2>1. active \in Transitions /\ SoundAt(active, now) /\ Leads(policy, active, cycle)
    BY <1>8, <1>24
  <2>2. t \in Transitions /\ SoundAt(t, n) /\ t.to = active.to
    BY <1>1, <1>14, <2>1, Advanced
  <2>3. /\ a \in Transitions /\ SoundAt(a, n) /\ a.from = WeightsAt(t) /\ a.to = q
        /\ a.elapsed = t.elapsed
    BY <1>1, <1>2, <2>2, Retargeted DEF q
  <2>4. d = Blended(x, a, UrgentIn(x), Shown(runner.batch), store)
    BY <1>24 DEF Leaves
  <2> HIDE DEF a
  <2>5. /\ d.batch.transition = a /\ d.store.active = a
        /\ Shows(d.batch.targets, WeightsAt(a), x, UrgentIn(x))
    BY <1>1, <1>2, <1>10, <1>11, <1>13, <2>3, <2>4, BlendedSound
  <2>6. c.resolved = x
    BY <1>18, <1>24
  <2>7. Near(policy, a.to, WeightsOf(c.resolved))
    BY <1>12, <2>3, <2>6, NearEqual DEF q, Equal
  <2>8. active.elapsed >= Duration \/ active.elapsed >= cycle.quiet \/ Steady(active)
    BY <2>1 DEF Leads, Duration
  <2>9. c.quiet \in Nat /\ (t.elapsed >= Duration \/ t.elapsed >= c.quiet \/ Steady(t))
    BY <1>1, <1>14, <1>18, <2>1, <2>8, MovesOn
  <2>10. a.elapsed >= Duration \/ a.elapsed >= c.quiet \/ Steady(a)
    <3>1. CASE ~Steady(t)
      BY <2>3, <2>9, <3>1
    <3>2. CASE x # cycle.resolved
      <4>1. c.quiet = 0
        BY <1>18, <2>6, <3>2 DEF Quiet
      <4>2. a.elapsed \in Nat
        BY <2>3 DEF Transitions
      <4> QED BY <4>1, <4>2
    <3>3. CASE Steady(t) /\ x = cycle.resolved
      <4>1. t.to \in Weightings
        BY <2>2 DEF Transitions
      <4>2. Drift(t.to, q) \in Nat /\ Threshold \in Nat
        BY <1>1, <1>12, <4>1, DriftType, PolicyType
      <4>3. Drift(t.to, q) = 0 \/ Drift(t.to, q) < Threshold
        BY <2>1, <2>2, <3>3 DEF Leads, Near, Threshold, q
      <4>4. Drift(t.to, q) = 0
        BY <1>24, <4>2, <4>3
      <4>5. Equal(t.to, q)
        BY <1>12, <4>1, <4>4, DriftEqual
      <4>6. Equal(WeightsAt(t), t.to)
        BY <1>1, <2>2, <3>3, ShownAtEnd
      <4>7. Steady(a)
        BY <2>3, <4>5, <4>6 DEF Steady, Equal
      <4> QED BY <4>7
    <3> QED BY <3>1, <3>2, <3>3
  <2>11. Leads(policy, a, c)
    BY <2>7, <2>10 DEF Leads, Duration
  <2>12. TakesAsked(x, UrgentIn(x), c.resolved)
    BY <1>11, <1>17, <2>6 DEF q, TakesAsked
  <2>13. ShownFor(a, WeightsAt(a))
    BY <1>1, <2>3, ShownWeights DEF ShownFor
  <2> QED BY <1>1, <1>5, <1>16, <1>18, <1>24, <2>3, <2>5, <2>9, <2>11, <2>12, <2>13, OnWayMoving
<1> QED BY <1>7, <1>19, <1>20, <1>21, <1>22, <1>23, <1>24

\* A cycle that reuses the last batch stays on the way.
LEMMA ReuseOnWay ==
  ASSUME Ready, OnTheWayFor(policy, runner.batch, store, cycle), cycle.quiet \in Nat,
         runner.batch # None, NEW n \in Nat, now <= n, NEW priced, NEW session,
         NEW r, r = ReusedBatch(n, priced, session),
         NEW c, c.resolved = r.resolved, c.quiet = Quiet(r.resolved, n, session)
  PROVE  OnTheWayFor(policy, r.batch, r.store, c) /\ ArrivedFor(policy, r.batch, c)
<1> DEFINE source == Targetable(runner.batch.targets, priced, held)
           d == Reused(n, priced, session)
           active == ActiveTransition(store, runner.batch)
           t == AdvanceTransition(active, n, session)
<1>1. /\ policy \in Policies /\ now \in Nat /\ store \in Stores /\ StoreSoundAt(store, now)
      /\ runner.batch \in TargetBatches /\ BatchSoundAt(runner.batch, now)
      /\ cycle.resolved \in TargetSets
  BY DEF Ready
<1>2. runner.batch.targets \in TargetSets /\ Funded(WeightsOf(runner.batch.targets))
  BY <1>1 DEF TargetBatches, BatchSoundAt
<1>3. source \in TargetSets /\ Funded(WeightsOf(source))
      /\ DOMAIN source \in SUBSET DOMAIN runner.batch.targets
      /\ \A y \in DOMAIN source : source[y] = runner.batch.targets[y]
  BY <1>2, TargetableSound
<1>4. d = BlendAdvance(source, runner.batch, store, n, session)
  BY DEF Reused
<1>5. /\ r.resolved = cycle.resolved /\ r.store = d.store
      /\ r.batch = [d.batch EXCEPT !.targets = Targetable(@, priced, held)]
  BY ReusedBatchIs
<1>6. \/ /\ active = None /\ store.active = None
         /\ \/ runner.batch = None /\ Fresh(store, cycle)
            \/ runner.batch # None /\ Settled(policy, runner.batch, store, cycle)
      \/ /\ active # None /\ Duration # 0 /\ active \in Transitions /\ SoundAt(active, now)
         /\ runner.batch # None /\ Leads(policy, active, cycle)
  BY WayBefore
<1>7. active = ActiveTransition(store, runner.batch) /\ t = AdvanceTransition(active, n, session)
  OBVIOUS
<1> HIDE DEF source, d, active, t
<1>8. d = IF Duration = 0 \/ active = None THEN Decision(source, None, store)
          ELSE FromTransition(Synthetic(t), t, {}, runner.batch.targets, store)
  BY <1>4, <1>7 DEF BlendAdvance, Synthetic
<1>9. DecisionSoundAt(d, n)
  BY <1>1, <1>3, <1>4, AdvanceSound
<1>10. FilteredFrom(r.batch, d)
  BY <1>5, <1>9, FilteredIs
<1>11. c.resolved = cycle.resolved /\ c.resolved \in TargetSets
       /\ c.quiet = Quiet(c.resolved, n, session)
  BY <1>1, <1>5
<1>12. CASE active = None
  <2>1. Settled(policy, runner.batch, store, cycle) /\ store.active = None
    BY <1>6, <1>12
  <2>2. d.batch.targets = source /\ d.batch.transition = None /\ d.store = store
    BY <1>8, <1>12 DEF Decision, Batch
  <2>3. \A y \in DOMAIN d.batch.targets :
          d.batch.targets[y].weight = Weight(WeightsOf(c.resolved), y)
    BY <1>3, <1>11, <2>1, <2>2 DEF Settled
  <2>4. runner.batch.targets = <<>> => source = <<>>
    <3> SUFFICES ASSUME runner.batch.targets = <<>> PROVE source = <<>>
      OBVIOUS
    <3>1. DOMAIN source = {}
      BY <1>3, EmptyTypes
    <3>2. source = [y \in DOMAIN source |-> source[y]]
      BY <1>3, TargetsType
    <3> QED BY <3>1, <3>2
  <2>5. policy.duration # 0 => \/ store.last = WeightsOf(c.resolved)
                               \/ store.last = None /\ c.resolved = <<>> /\ source = <<>>
    BY <1>11, <2>1, <2>4 DEF Settled
  <2> QED BY <1>5, <1>10, <1>11, <2>1, <2>2, <2>3, <2>5, OnWaySettled
<1>13. CASE active # None
  <2>1. Duration # 0 /\ active \in Transitions /\ SoundAt(active, now) /\ Leads(policy, active, cycle)
    BY <1>6, <1>13
  <2>2. t \in Transitions /\ t.to = active.to
    BY <1>1, <1>7, <2>1, Advanced
  <2>3. Near(policy, t.to, WeightsOf(c.resolved))
    BY <1>11, <2>1, <2>2 DEF Leads
  <2>4. Synthetic(t) \in TargetSets /\ {} \in SUBSET DOMAIN Synthetic(t) /\ Left(Synthetic(t), {})
    BY <2>2, SyntheticType DEF Left
  <2>5. TakesAsked(Synthetic(t), {}, c.resolved)
    BY DEF TakesAsked
  <2>6. d = FromTransition(Synthetic(t), t, {}, runner.batch.targets, store)
    BY <1>8, <1>13, <2>1
  <2> QED BY <1>2, <1>5, <1>7, <1>10, <1>11, <2>1, <2>3, <2>4, <2>5, <2>6, FollowingOnWay
<1> QED BY <1>12, <1>13

-------------------------------------------------------------------------------
(* Every step stays on the way.                                                *)

Arrival == crashes = 0 /\ cycle.kind \in {"fresh", "reused"} => ArrivedFor(policy, cycle, cycle)

WayInv == CycleInv /\ OnTheWay /\ Arrival

\* The way depends on what was asked for and for how long, and on nothing else of a cycle.
LEMMA SameWay ==
  ASSUME NEW c, NEW e, c.resolved = e.resolved, c.quiet = e.quiet, NEW b, NEW s,
         OnTheWayFor(policy, b, s, c)
  PROVE  OnTheWayFor(policy, b, s, e)
BY DEF OnTheWayFor, Fresh, Settled, Moving, Leads

\* What a cycle that leaves a batch aims at.
LEMMA LeavingOnWay ==
  ASSUME CycleInv, NEW insights \in SUBSET Insights, NEW due, NEW n \in Nat, NEW session,
         NEW kind, NEW last \in Nat \cup {Never}, NEW r,
         Leaving(r, kind, last, insights, due, n, session),
         OnTheWayFor(policy, r.batch, r.store, cycle') /\ ArrivedFor(policy, r.batch, cycle')
  PROVE  OnTheWayFor(policy, runner'.batch, store', cycle') /\ ArrivedFor(policy, cycle', cycle')
<1> DEFINE a == AfterModels(insights, due, n, last)
<1>1. runner \in Runners
  BY DEF CycleInv, TypeOK
<1>2. a \in Runners
  BY <1>1, AfterModelsType
<1>3. runner' = [a EXCEPT !.batch = r.batch] /\ store' = r.store /\ cycle'.targets = r.batch.targets
  BY DEF Leaving
<1> HIDE DEF a
<1>4. runner'.batch = r.batch
  BY <1>2, <1>3 DEF Runners
<1>5. ArrivedFor(policy, cycle', cycle')
  BY <1>3 DEF ArrivedFor, Asked
<1> QED BY <1>3, <1>4, <1>5

\* The portfolio stage.
LEMMA StageOnWay ==
  ASSUME CycleInv, OnTheWayFor(policy, runner.batch, store, cycle),
         NEW insights \in SUBSET Insights, NEW due, NEW n \in Nat, now <= n,
         NEW priced \in SUBSET Symbols, NEW session,
         PortfolioStage(insights, due, n, priced, session)
  PROVE  /\ OnTheWayFor(policy, runner'.batch, store', cycle')
         /\ cycle'.kind \in {"fresh", "reused"} => ArrivedFor(policy, cycle', cycle')
<1>1. Ready
  BY ReadyNow
<1>2. runner \in Runners /\ cycle.quiet \in Nat /\ runner.portfolioLast \in Nat \cup {Never}
      /\ cycle \in [kind : {"none", "invalid", "waiting", "fresh", "reused"},
                    targets : TargetSets, resolved : TargetSets, quiet : Nat]
  BY DEF CycleInv, TypeOK, Runners
<1>3. CASE Waits(insights, due, n)
  <2> DEFINE a == AfterModels(insights, due, n, runner.portfolioLast)
  <2>1. a.batch = runner.batch
    BY <1>2 DEF AfterModels, Runners
  <2>2. runner' = a /\ store' = store
        /\ cycle' = [cycle EXCEPT !.kind = "waiting", !.targets = <<>>]
    BY <1>3 DEF Waits
  <2> HIDE DEF a
  <2>3. cycle'.resolved = cycle.resolved /\ cycle'.quiet = cycle.quiet /\ cycle'.kind = "waiting"
    BY <1>2, <2>2
  <2>4. OnTheWayFor(policy, runner.batch, store, cycle')
    BY <2>3, SameWay
  <2> QED BY <2>1, <2>2, <2>3, <2>4
<1>4. CASE Rebalances(insights, due, n, priced, session)
  <2> DEFINE r == FreshBatch(insights, n, priced, session)
  <2>1. Leaving(r, "fresh", n, insights, due, n, session)
    BY <1>4 DEF Rebalances
  <2>2. cycle'.resolved = r.resolved /\ cycle'.quiet = Quiet(r.resolved, n, session)
    BY <2>1 DEF Leaving
  <2>3. r = FreshBatch(insights, n, priced, session) /\ n \in Nat \cup {Never}
    OBVIOUS
  <2> HIDE DEF r
  <2>4. OnTheWayFor(policy, r.batch, r.store, cycle') /\ ArrivedFor(policy, r.batch, cycle')
    BY <1>1, <1>2, <2>2, <2>3, FreshOnWay
  <2> QED BY <2>1, <2>3, <2>4, LeavingOnWay
<1>5. CASE Reuses(insights, due, n, priced, session)
  <2> DEFINE r == ReusedBatch(n, priced, session)
  <2>1. Leaving(r, "reused", runner.portfolioLast, insights, due, n, session) /\ runner.batch # None
    BY <1>5 DEF Reuses
  <2>2. cycle'.resolved = r.resolved /\ cycle'.quiet = Quiet(r.resolved, n, session)
    BY <2>1 DEF Leaving
  <2>3. r = ReusedBatch(n, priced, session)
    OBVIOUS
  <2> HIDE DEF r
  <2>4. OnTheWayFor(policy, r.batch, r.store, cycle') /\ ArrivedFor(policy, r.batch, cycle')
    BY <1>1, <1>2, <2>1, <2>2, <2>3, ReuseOnWay
  <2> QED BY <1>2, <2>1, <2>4, LeavingOnWay
<1> QED BY <1>3, <1>4, <1>5, StageCases

\* A cycle.
LEMMA CycleOnWay ==
  ASSUME WayInv, policy' = policy,
         NEW step \in Steps, NEW condition \in Conditions, NEW signals \in SignalChoices,
         Cycle(step, condition, signals)
  PROVE  OnTheWay' /\ Arrival'
<1>1. /\ process = "ready" /\ process' = "ran" /\ now' \in 0..MaxTime /\ now < now'
      /\ crashes' = crashes /\ CycleInv
  BY CycleIs DEF WayInv
<1>2. now \in Nat /\ now' \in Nat /\ now <= now' /\ runner \in Runners
      /\ cycle \in [kind : {"none", "invalid", "waiting", "fresh", "reused"},
                    targets : TargetSets, resolved : TargetSets, quiet : Nat]
  BY <1>1, FrameworkAssumption DEF CycleInv, TypeOK
<1>3. Memory = runner /\ Memory' = runner'
  BY <1>1 DEF Memory
<1> SUFFICES ASSUME crashes = 0
             PROVE  /\ OnTheWayFor(policy, runner'.batch, store', cycle')
                    /\ cycle'.kind \in {"fresh", "reused"} => ArrivedFor(policy, cycle', cycle')
  BY <1>1, <1>3 DEF OnTheWay, Arrival
<1>4. OnTheWayFor(policy, runner.batch, store, cycle)
  BY <1>3 DEF WayInv, OnTheWay
<1>5. CASE InvalidCycle(now')
  <2>1. /\ runner' = [runner EXCEPT !.insights = Unexpired(@, now')] /\ store' = store
        /\ cycle' = [cycle EXCEPT !.kind = "invalid", !.targets = <<>>]
    BY <1>5 DEF InvalidCycle
  <2>2. runner'.batch = runner.batch
    BY <1>2, <2>1 DEF Runners
  <2>3. cycle'.resolved = cycle.resolved /\ cycle'.quiet = cycle.quiet /\ cycle'.kind = "invalid"
    BY <1>2, <2>1
  <2>4. OnTheWayFor(policy, runner.batch, store, cycle')
    BY <1>4, <2>3, SameWay
  <2> QED BY <2>1, <2>2, <2>3, <2>4
<1>6. CASE \E insights \in SUBSET Insights :
             PortfolioStage(insights, DueAlphas(runner.alphaLast, now'), now',
                            condition.priced, condition.session)
  <2>1. PICK insights \in SUBSET Insights :
          PortfolioStage(insights, DueAlphas(runner.alphaLast, now'), now',
                         condition.priced, condition.session)
    BY <1>6
  <2>2. condition.priced \in SUBSET Symbols
    BY FrameworkAssumption
  <2> QED BY <1>1, <1>2, <1>4, <2>1, <2>2, StageOnWay
<1> QED BY <1>1, <1>5, <1>6, CycleIs

\* Any other step leaves batch, store and cycle as they were, or a process dies.
LEMMA OtherOnWay ==
  ASSUME WayInv, policy' = policy, store' = store, cycle' = cycle,
         (crashes' = crashes /\ Memory' = Memory) \/ crashes' # 0
  PROVE  OnTheWay' /\ Arrival'
BY DEF WayInv, OnTheWay, Arrival

\* Every step stays on the way.
LEMMA NextOnWay ==
  ASSUME WayInv, [Next]_vars
  PROVE  WayInv'
<1>1. CycleInv /\ Kept
  BY NextKept DEF WayInv
<1> SUFFICES OnTheWay' /\ Arrival'
  BY <1>1 DEF WayInv, Kept
<1>2. CASE UNCHANGED vars
  BY <1>2, <1>1, StutterSound, OtherOnWay DEF vars
<1>3. CASE policy' = policy /\ Start
  BY <1>1, <1>3, StartSound, OtherOnWay DEF Start
<1>4. CASE policy' = policy /\ Save
  BY <1>1, <1>4, SaveSound, OtherOnWay DEF Save
<1>5. CASE policy' = policy /\ Crash
  <2>1. crashes \in Nat /\ crashes' = crashes + 1 /\ store' = store /\ cycle' = cycle
    BY <1>1, <1>5, FrameworkAssumption DEF CycleInv, TypeOK, Crash
  <2>2. crashes' # 0
    BY <2>1
  <2> QED BY <1>5, <2>1, <2>2, OtherOnWay
<1>6. CASE policy' = policy /\ \E y \in Symbols : Trade(y)
  BY <1>1, <1>6, TradeSound, OtherOnWay DEF Trade
<1>7. ASSUME policy' = policy,
             NEW step \in Steps, NEW condition \in Conditions, NEW signals \in SignalChoices,
             Cycle(step, condition, signals)
      PROVE  OnTheWay' /\ Arrival'
  BY <1>7, CycleOnWay
<1> QED BY <1>2, <1>3, <1>4, <1>5, <1>6, <1>7 DEF Next

\* At first there is nothing on the way.
LEMMA InitOnWay == Init => WayInv
<1> SUFFICES ASSUME Init PROVE WayInv
  OBVIOUS
<1>1. /\ process = "down" /\ file = None /\ store = [last |-> None, active |-> None]
      /\ cycle = [kind |-> "none", targets |-> <<>>, resolved |-> <<>>, quiet |-> 0]
  BY DEF Init
<1>2. Memory.batch = None
  BY <1>1, NoRunnerType DEF Memory
<1>3. Fresh(store, cycle)
  BY <1>1 DEF Fresh
<1>4. OnTheWay
  BY <1>2, <1>3 DEF OnTheWay, OnTheWayFor
<1>5. Arrival
  BY <1>1 DEF Arrival
<1> QED BY <1>4, <1>5, InitInv DEF WayInv

(* The blend arrives: once the targets asked for have stood as long as the blend  *)
(* takes, what a cycle aims at is within the drift threshold of them.            *)
THEOREM BlendsArrive == Spec => []BlendArrives
<1>1. WayInv => BlendArrives
  BY DEF WayInv, Arrival, ArrivedFor, Near, Asked, BlendArrives, Duration, Threshold
<1>2. WayInv /\ [Next]_vars => WayInv'
  BY NextOnWay
<1> QED BY <1>1, <1>2, InitOnWay, PTL DEF Spec

-------------------------------------------------------------------------------
(* The LEaps sleeve: what its state and the steps of its risk model range over. *)

LeapsReasons ==
  {"rejected", "frozen", "guard_exit", "guard_reduce", "guard_block", "pullback", "limits"}
LeapsDecisions ==
  [symbol : Stocks, wanted : Int, current : Nat, granted : Int, approved : BOOLEAN,
   reason : LeapsReasons, anchor : LeapsFigures, tags : SUBSET LeapsTags]
LeapsPasses == [granted : [Stocks -> Int], cash : Int, decisions : Seq(LeapsDecisions)]
LeapsBooks == [cash : Nat, shares : [Stocks -> Nat]]
LeapsMarks ==
  [status : {NoValue, "reduced", "exited", "recovering", "clear"}, anchor : LeapsFigures,
   confirmed : Int, event : LeapsFigures, cause : {NoValue, "reduced", "exited"}]
LeapsLimits ==
  [cap : Nat, freeze : BOOLEAN, index : BOOLEAN, released : BOOLEAN]
PricesIn(facts) == [y \in Stocks |-> facts[y].price]

\* What a cycle finds, under one of the setups.
LeapsSetting(p, facts, marks, limit) ==
  /\ hedge \in HedgeSetups
  /\ p \in LeapsBooks /\ facts \in [Stocks -> LeapsFacts]
  /\ marks \in [Stocks -> LeapsMarks] /\ limit \in LeapsLimits

LEMMA HedgeTyped ==
  ASSUME hedge \in HedgeSetups
  PROVE  /\ hedge.confirm \in Nat \ {0} /\ hedge.indexConfirm \in Nat \ {0}
         /\ hedge.fraction \in 0..100 /\ hedge.cashBuffer \in 0..100
         /\ hedge.maxPosition \in 0..100 /\ hedge.maxExposure \in 0..100
         /\ hedge.entryCap \in 0..100 /\ hedge.riskCap \in 0..100 /\ hedge.recoveryCap \in 0..100
         /\ hedge.equityEntryCap \in 0..100 /\ hedge.equityRiskCap \in 0..100
         /\ hedge.addFraction \in Nat /\ hedge.recovery \in Nat /\ hedge.indexRecovery \in Nat
         /\ hedge.indexFreeze \in Int /\ hedge.indexRiskOff \in Int
         /\ hedge.highFreeze \in Int /\ hedge.highRiskOff \in Int /\ hedge.hardFreeze \in BOOLEAN
         /\ \A name \in DOMAIN hedge.regimeCap : hedge.regimeCap[name] \in 0..hedge.maxExposure
BY HedgeAssumption

\* A quotient of natural numbers is one.
LEMMA DivNat ==
  ASSUME NEW a \in Nat, NEW r \in Nat \ {0}
  PROVE  a \div r \in Nat
  OBVIOUS

\* Values of nonnegative holdings.
LEMMA ValueType ==
  ASSUME NEW shares, NEW prices, NEW ys \in SUBSET Stocks,
         \A y \in Stocks : shares[y] \in Int /\ prices[y] \in Nat
  PROVE  /\ Value(shares, prices, ys) \in Int
         /\ (\A y \in ys : shares[y] \in Nat) => Value(shares, prices, ys) \in Nat
<1> DEFINE W == [y \in ys |-> shares[y] * prices[y]]
<1>1. IsFiniteSet(ys)
  BY HedgeAssumption, FS_Subset
<1>2. \A y \in ys : W[y] = shares[y] * prices[y] /\ W[y] \in Int
  OBVIOUS
<1>3. Value(shares, prices, ys) = SumFunctionOnSet(W, ys)
  BY DEF Value
<1>4. ASSUME \A y \in ys : shares[y] \in Nat PROVE \A y \in ys : W[y] \in Nat
  <2> SUFFICES ASSUME NEW y \in ys PROVE W[y] \in Nat
    OBVIOUS
  <2>1. shares[y] \in Nat /\ prices[y] \in Nat
    BY <1>4
  <2>2. shares[y] * prices[y] \in Nat
    BY <2>1
  <2> QED BY <1>2, <2>2
<1> HIDE DEF W
<1>5. SumFunctionOnSet(W, ys) \in Int
  BY <1>1, <1>2, SumType
<1>6. ASSUME \A y \in ys : shares[y] \in Nat PROVE SumFunctionOnSet(W, ys) \in Nat
  BY <1>1, <1>4, <1>6, SumNatOn
<1> QED BY <1>3, <1>5, <1>6

LEMMA WealthType ==
  ASSUME NEW p \in LeapsBooks, NEW prices \in [Stocks -> Nat]
  PROVE  Wealth(p, prices) \in Nat
<1>1. Value(p.shares, prices, Stocks) \in Nat
  BY ValueType DEF LeapsBooks
<1> QED BY <1>1 DEF Wealth, LeapsBooks

LEMMA PricesType ==
  ASSUME NEW facts \in [Stocks -> LeapsFacts]
  PROVE  PricesIn(facts) \in [Stocks -> Nat]
BY DEF PricesIn, LeapsFacts

\* The exposure without a stock, as it is, and with another quantity of it.
ExposureSplit(granted, prices, limit, y, q) ==
  LET A == [granted EXCEPT ![y] = 0]
      B == [granted EXCEPT ![y] = q]
  IN /\ Exposure(A, prices, limit) \in Int /\ Exposure(B, prices, limit) \in Int
     /\ Exposure(granted, prices, limit) \in Int
     /\ Counts(limit, y) =>
          /\ Exposure(B, prices, limit) = Exposure(A, prices, limit) + q * prices[y]
          /\ Exposure(granted, prices, limit)
               = Exposure(A, prices, limit) + granted[y] * prices[y]
     /\ ~Counts(limit, y) =>
          /\ Exposure(B, prices, limit) = Exposure(A, prices, limit)
          /\ Exposure(granted, prices, limit) = Exposure(A, prices, limit)

LEMMA ExposureWithout ==
  ASSUME NEW granted \in [Stocks -> Int], NEW prices \in [Stocks -> Nat], NEW limit,
         NEW y \in Stocks, NEW q \in Int
  PROVE  ExposureSplit(granted, prices, limit, y, q)
<1> DEFINE ys == {x \in Stocks : Counts(limit, x)}
           A == [granted EXCEPT ![y] = 0]
           B == [granted EXCEPT ![y] = q]
           U == [x \in ys |-> A[x] * prices[x]]
           V == [x \in ys |-> B[x] * prices[x]]
           W == [x \in ys |-> granted[x] * prices[x]]
<1>1. IsFiniteSet(ys)
  BY HedgeAssumption, FS_Subset
<1>2. /\ Exposure(A, prices, limit) = SumFunctionOnSet(U, ys)
      /\ Exposure(B, prices, limit) = SumFunctionOnSet(V, ys)
      /\ Exposure(granted, prices, limit) = SumFunctionOnSet(W, ys)
  BY DEF Exposure, Value
<1>3. A \in [Stocks -> Int] /\ B \in [Stocks -> Int]
  OBVIOUS
<1>4. \A x \in ys : U[x] \in Int /\ V[x] \in Int /\ W[x] \in Int
  BY <1>3
<1>5. \A x \in ys : x # y => U[x] = W[x] /\ V[x] = W[x]
  OBVIOUS
<1>6. y \in ys => U[y] = 0 /\ V[y] = q * prices[y] /\ W[y] = granted[y] * prices[y]
  OBVIOUS
<1>7. y \in ys <=> Counts(limit, y)
  OBVIOUS
<1> HIDE DEF U, V, W, ys
<1>8. SumFunctionOnSet(U, ys) \in Int /\ SumFunctionOnSet(V, ys) \in Int /\ SumFunctionOnSet(W, ys) \in Int
  BY <1>1, <1>4, SumType
<1>9. CASE y \in ys
  <2>1. \A x \in ys \ {y} : U[x] = W[x] /\ V[x] = W[x]
    BY <1>5
  <2>0. /\ \A x \in ys : W[x] \in Int /\ V[x] \in Int
        /\ \A x \in ys : W[x] \in Int /\ U[x] \in Int
        /\ \A x \in ys \ {y} : V[x] = W[x]
        /\ \A x \in ys \ {y} : U[x] = W[x]
    BY <1>4, <2>1
  <2>2. SumFunctionOnSet(V, ys) = SumFunctionOnSet(W, ys) + (V[y] - W[y])
        /\ SumFunctionOnSet(W, ys) \in Int
    BY ONLY <1>1, <1>9, <2>0, SumMoved
  <2>3. SumFunctionOnSet(U, ys) = SumFunctionOnSet(W, ys) + (U[y] - W[y])
        /\ SumFunctionOnSet(W, ys) \in Int
    BY ONLY <1>1, <1>9, <2>0, SumMoved
  <2>4. V[y] \in Int /\ W[y] \in Int /\ U[y] = 0
    BY <1>4, <1>6, <1>9
  <2>5. SumFunctionOnSet(V, ys) = SumFunctionOnSet(U, ys) + V[y] /\ SumFunctionOnSet(W, ys) = SumFunctionOnSet(U, ys) + W[y]
    BY <1>8, <2>2, <2>3, <2>4
  <2> QED BY <1>2, <1>6, <1>7, <1>8, <1>9, <2>5 DEF ExposureSplit
<1>10. CASE y \notin ys
  <2>1. \A x \in ys : U[x] = W[x] /\ V[x] = W[x]
    BY <1>5, <1>10
  <2>2. SumFunctionOnSet(U, ys) = SumFunctionOnSet(W, ys) /\ SumFunctionOnSet(V, ys) = SumFunctionOnSet(W, ys)
    BY <1>1, <2>1, SumSame
  <2> QED BY <1>2, <1>7, <1>8, <1>10, <2>2 DEF ExposureSplit
<1> QED BY <1>9, <1>10 DEF ExposureSplit

-------------------------------------------------------------------------------
(* The answer to one target.                                                   *)

\* What holds of every answer: only a target that asks for more than is held can be
\* granted more, and then its tags are the target's; a reduction follows the anchor.
AnswerTo(d, t, p, marks) ==
  /\ d \in LeapsDecisions /\ d.symbol = t.symbol /\ d.current = p.shares[t.symbol]
  /\ d.granted > d.current => t.quantity > d.current /\ d.tags = t.tags
  /\ d.reason \in {"guard_exit", "guard_reduce"} => hedge.symbolGuard /\ d.symbol \notin Safety
  /\ d.reason = "guard_reduce" =>
       /\ d.current > 0 /\ d.anchor = Anchor(marks[t.symbol], d.current, t.quantity)
       /\ d.granted = ReducedTo(d.anchor, d.current)

LEMMA DecideTyped ==
  ASSUME NEW t \in LeapsTargets, NEW current \in Nat, NEW granted \in Int, NEW reason \in LeapsReasons
  PROVE  LET d == Decide(t, current, granted, reason)
         IN /\ d \in LeapsDecisions
            /\ d.symbol = t.symbol /\ d.current = current /\ d.granted = granted
            /\ d.reason = reason /\ d.wanted = t.quantity /\ d.anchor = NoValue
            /\ d.approved = (reason # "rejected")
            /\ reason \notin {"guard_exit", "guard_reduce"} /\ granted > current => d.tags = t.tags
<1> DEFINE tags == t.tags \cup (IF reason \in {"guard_exit", "guard_reduce"}
                                   \/ (reason = "limits" /\ granted < current)
                                THEN {"risk"} ELSE {})
<1>1. tags \in SUBSET LeapsTags
  BY DEF LeapsTargets, LeapsTags
<1>2. granted > current => ~(granted < current)
  OBVIOUS
<1>3. reason \notin {"guard_exit", "guard_reduce"} /\ granted > current => tags = t.tags
  BY <1>2
<1>4. Decide(t, current, granted, reason)
        = [symbol |-> t.symbol, wanted |-> t.quantity, current |-> current, granted |-> granted,
           approved |-> reason # "rejected", reason |-> reason, anchor |-> NoValue,
           tags |-> tags]
  BY DEF Decide
<1> HIDE DEF tags
<1> QED BY <1>1, <1>3, <1>4 DEF LeapsDecisions, LeapsTargets, LeapsFigures

LEMMA AnchorTyped ==
  ASSUME NEW mark \in LeapsMarks, NEW current \in Nat, NEW wanted \in Int, hedge \in HedgeSetups
  PROVE  /\ Anchor(mark, current, wanted) \in LeapsFigures
         /\ mark.status = "reduced" /\ mark.anchor # NoValue /\ mark.anchor > 0
            => Anchor(mark, current, wanted) = Most(mark.anchor, current)
         /\ mark.status # "reduced" => Anchor(mark, current, wanted) \in {NoValue, current}
<1>1. mark.anchor \in LeapsFigures
  BY DEF LeapsMarks
<1> QED BY <1>1 DEF Anchor, LeapsFigures, Most

LEMMA ReducedTyped ==
  ASSUME NEW anchor \in LeapsFigures, NEW current \in Nat, hedge \in HedgeSetups
  PROVE  ReducedTo(anchor, current) \in Int /\ ReducedTo(anchor, current) <= current
<1>1. CASE anchor = NoValue
  BY <1>1 DEF ReducedTo
<1>2. CASE anchor # NoValue
  <2>1. anchor \in Int /\ hedge.fraction \in Int
    BY <1>2, HedgeTyped DEF LeapsFigures
  <2>2. (anchor * hedge.fraction) \div 100 \in Int
    BY <2>1
  <2> QED BY <1>2, <2>2 DEF ReducedTo, Least
<1> QED BY <1>1, <1>2

LEMMA GuardAnswers ==
  ASSUME NEW t \in LeapsTargets, NEW p \in LeapsBooks, NEW marks \in [Stocks -> LeapsMarks],
         hedge \in HedgeSetups, NEW fact,
         NEW d \in GuardDecisions(fact, marks[t.symbol], t, p.shares[t.symbol])
  PROVE  AnswerTo(d, t, p, marks) /\ d.reason \in LeapsReasons \ {"limits"}
<1> DEFINE y == t.symbol
           current == p.shares[y]
           mark == marks[y]
           anchor == Anchor(mark, current, t.quantity)
           left == ReducedTo(anchor, current)
           Guarded == hedge.symbolGuard /\ y \notin Safety
           pulled == PullbackQuantity(current, t.quantity)
           exit == Decide(t, current, 0, "guard_exit")
           half == [Decide(t, current, left, "guard_reduce") EXCEPT !.anchor = anchor]
           block == Decide(t, current, current, "guard_block")
           pull == Decide(t, current, pulled, "pullback")
<1>0. y \in Stocks /\ current \in Nat /\ t.quantity \in Int /\ mark \in LeapsMarks
  BY DEF LeapsTargets, LeapsBooks
<1>1. \/ Guarded /\ d = exit
      \/ Guarded /\ current > 0 /\ d = half
      \/ Guarded /\ d = block
      \/ Guarded /\ t.quantity > current /\ d = pull
  BY DEF GuardDecisions
<1>2. anchor \in LeapsFigures
  BY <1>0, AnchorTyped
<1> HIDE DEF anchor
<1>3. left \in Int /\ left <= current
  BY <1>0, <1>2, ReducedTyped
<1>4. pulled \in Int
  <2>1. hedge.addFraction \in Int
    BY HedgeTyped
  <2>2. (t.quantity - current) * hedge.addFraction + 99 \in Int
    BY <1>0, <2>1
  <2>3. ((t.quantity - current) * hedge.addFraction + 99) \div 100 \in Int
    BY <2>2
  <2> QED BY <1>0, <2>3 DEF PullbackQuantity, Least, Most
<1> HIDE DEF y, current, mark, left, pulled
<1>5. /\ {"guard_exit", "guard_reduce", "guard_block", "pullback"} \subseteq LeapsReasons \ {"limits"}
      /\ 0 \in Int
  BY DEF LeapsReasons
<1>6. CASE Guarded /\ d = exit
  <2>1. /\ exit \in LeapsDecisions /\ exit.symbol = t.symbol /\ exit.current = current
        /\ exit.granted = 0 /\ exit.reason = "guard_exit"
    BY <1>0, <1>5, DecideTyped
  <2>2. ~(0 > current)
    BY <1>0
  <2> HIDE DEF exit
  <2> QED BY <1>5, <1>6, <2>1, <2>2 DEF AnswerTo, y, current
<1>7. CASE Guarded /\ current > 0 /\ d = half
  <2> DEFINE plain == Decide(t, current, left, "guard_reduce")
  <2>1. /\ plain \in LeapsDecisions /\ plain.symbol = t.symbol /\ plain.current = current
        /\ plain.granted = left /\ plain.reason = "guard_reduce"
    BY <1>0, <1>3, <1>5, DecideTyped
  <2> HIDE DEF plain
  <2>2. half = [plain EXCEPT !.anchor = anchor]
    BY DEF plain
  <2>3. /\ half \in LeapsDecisions /\ half.symbol = t.symbol /\ half.current = current
        /\ half.granted = left /\ half.reason = "guard_reduce" /\ half.anchor = anchor
    BY <1>2, <2>1, <2>2 DEF LeapsDecisions
  <2>4. ~(left > current)
    BY <1>0, <1>3
  <2> HIDE DEF half
  <2> QED BY <1>5, <1>7, <2>3, <2>4 DEF AnswerTo, y, current, mark, left, anchor
<1>8. CASE Guarded /\ d = block
  <2>1. /\ block \in LeapsDecisions /\ block.symbol = t.symbol /\ block.current = current
        /\ block.granted = current /\ block.reason = "guard_block"
    BY <1>0, <1>5, DecideTyped
  <2>2. ~(current > current)
    BY <1>0
  <2> HIDE DEF block
  <2> QED BY <1>5, <1>8, <2>1, <2>2 DEF AnswerTo, y, current
<1>9. CASE Guarded /\ t.quantity > current /\ d = pull
  <2>1. /\ pull \in LeapsDecisions /\ pull.symbol = t.symbol /\ pull.current = current
        /\ pull.granted = pulled /\ pull.reason = "pullback"
        /\ pulled > current => pull.tags = t.tags
    BY <1>0, <1>4, <1>5, DecideTyped
  <2> HIDE DEF pull
  <2> QED BY <1>5, <1>9, <2>1 DEF AnswerTo, y, current
<1> QED BY <1>1, <1>6, <1>7, <1>8, <1>9

LEMMA RefusedAnswers ==
  ASSUME NEW t \in LeapsTargets, NEW p \in LeapsBooks, NEW marks,
         NEW reason \in {"rejected", "frozen"},
         NEW d, d = Decide(t, p.shares[t.symbol], p.shares[t.symbol], reason)
  PROVE  AnswerTo(d, t, p, marks) /\ d.reason \in LeapsReasons \ {"limits"}
<1> DEFINE current == p.shares[t.symbol]
<1>1. current \in Nat /\ current \in Int /\ ~(current > current)
  BY DEF LeapsTargets, LeapsBooks
<1>2. reason \in LeapsReasons \ {"limits"} /\ reason \notin {"guard_exit", "guard_reduce"}
  BY DEF LeapsReasons
<1>3. /\ d \in LeapsDecisions /\ d.symbol = t.symbol /\ d.current = current
      /\ d.granted = current /\ d.reason = reason
  BY <1>1, <1>2, DecideTyped
<1> QED BY <1>1, <1>2, <1>3 DEF AnswerTo

-------------------------------------------------------------------------------
(* The three limits, and the answer to a target as a whole.                    *)

\* What is left of an amount after paying whole units of it.
LEMMA UnitsPaid ==
  ASSUME NEW a \in Nat, NEW u \in Nat \ {0}, NEW q \in Int, q <= a \div u
  PROVE  u * q <= a
<1> DEFINE d == a \div u
<1>1. d \in Int /\ u * d <= a
  BY DivBound
<1> HIDE DEF d
<1>2. q <= d
  BY DEF d
<1>3. u * q <= u * d
  BY <1>1, <1>2
<1>4. u * q \in Int /\ u * d \in Int
  BY <1>1
<1> QED BY <1>1, <1>3, <1>4

LEMMA LimitsBound ==
  ASSUME NEW p \in LeapsBooks, NEW prices \in [Stocks -> Nat], NEW limit \in LeapsLimits,
         hedge \in HedgeSetups, NEW pass \in LeapsPasses, pass.cash \in Nat,
         NEW t \in LeapsTargets, t.quantity \in Nat, NEW y, y = t.symbol, prices[y] # 0,
         NEW current, current = p.shares[y],
         NEW sized, sized = WithinCap(p, prices, pass, y, WithinPosition(p, prices, t), limit),
         NEW q, q = WithinCash(pass, prices[y], current, sized)
  PROVE  /\ q \in Nat /\ q <= t.quantity
         /\ pass.cash - Spend(prices[y], current, q) \in Nat
         /\ Counts(limit, y) =>
              100 * prices[y] * q
                <= Most(0, Wealth(p, prices) * limit.cap
                             - 100 * Exposure([pass.granted EXCEPT ![y] = 0], prices, limit))
<1> DEFINE wealth == Wealth(p, prices)
           others == Exposure([pass.granted EXCEPT ![y] = 0], prices, limit)
           allowed == Most(0, wealth * limit.cap - 100 * others)
           unit == 100 * prices[y]
           placed == WithinPosition(p, prices, t)
           fits == pass.cash \div unit
<1>1. /\ y \in Stocks /\ prices[y] \in Nat \ {0} /\ current \in Nat /\ limit.cap \in Nat
      /\ pass.granted \in [Stocks -> Int]
  BY DEF LeapsTargets, LeapsBooks, LeapsLimits, LeapsPasses
<1>2. unit \in Nat \ {0}
  BY <1>1
<1>3. wealth \in Nat
  BY WealthType
<1>4. others \in Int
  <2>1. ExposureSplit(pass.granted, prices, limit, y, 0)
    BY <1>1, ExposureWithout
  <2> QED BY <2>1 DEF ExposureSplit
<1> HIDE DEF wealth, others, unit
<1>5. allowed \in Nat
  <2>1. wealth * limit.cap \in Int
    BY <1>1, <1>3
  <2>2. wealth * limit.cap - 100 * others \in Int
    BY <1>4, <2>1
  <2> QED BY <2>2 DEF Most
<1>6. placed \in Nat /\ placed <= t.quantity
  <2>1. wealth * hedge.maxPosition \in Nat
    BY <1>3, HedgeTyped
  <2>2. (wealth * hedge.maxPosition) \div unit \in Nat
    BY <1>2, <2>1, DivNat
  <2>3. placed = Least(t.quantity, (wealth * hedge.maxPosition) \div unit)
    BY DEF WithinPosition, wealth, unit
  <2> QED BY <2>2, <2>3 DEF Least
<1> HIDE DEF placed, allowed
<1>7. sized = IF Counts(limit, y) THEN Least(placed, allowed \div unit) ELSE placed
  BY DEF WithinCap, placed, allowed, others, wealth, unit
<1>8. allowed \div unit \in Nat
  BY <1>2, <1>5, DivNat
<1>9. /\ sized \in Nat /\ sized <= placed
      /\ Counts(limit, y) => sized <= allowed \div unit
  BY <1>6, <1>7, <1>8 DEF Least
<1>10. fits \in Nat /\ unit * fits <= pass.cash
  <2> DEFINE cash == pass.cash
  <2>1. cash \in Nat /\ cash \in Int
    OBVIOUS
  <2> HIDE DEF cash
  <2>2. cash \div unit \in Nat /\ unit * (cash \div unit) <= cash
    BY ONLY <1>2, <2>1, DivNat, DivBound
  <2> QED BY <2>2 DEF cash
<1> HIDE DEF fits
<1>11. q = IF sized <= current THEN sized ELSE Least(sized, current + fits)
  BY DEF WithinCash, fits, unit
<1>12. q \in Nat /\ q <= sized /\ Most(0, q - current) \in Nat /\ Most(0, q - current) <= fits
  BY <1>1, <1>9, <1>10, <1>11 DEF Least, Most
<1>13. q \in Nat /\ q <= t.quantity
  BY <1>6, <1>9, <1>12
<1>14. pass.cash - Spend(prices[y], current, q) \in Nat
  <2> DEFINE more == Most(0, q - current)
  <2>1. Spend(prices[y], current, q) = unit * more
    BY DEF Spend, unit
  <2>2. more \in Nat /\ more <= fits
    BY <1>12
  <2> HIDE DEF more
  <2>3. unit * more \in Nat /\ unit * fits \in Nat /\ unit * more <= unit * fits
    BY <1>2, <1>10, <2>2
  <2> QED BY <1>10, <2>1, <2>3
<1>15. ASSUME Counts(limit, y) PROVE unit * q <= allowed
  <2>1. q <= allowed \div unit
    BY <1>8, <1>9, <1>12, <1>15
  <2> QED BY <1>2, <1>5, <1>12, <2>1, UnitsPaid
<1> QED BY <1>13, <1>14, <1>15 DEF unit, allowed, others, wealth

\* What an answer within the limits makes of the stocks granted so far.
WithinLimits(before, after, d, p, prices, limit) ==
  /\ d.granted \in Nat /\ prices[d.symbol] # 0
  /\ Counts(limit, d.symbol) =>
       100 * prices[d.symbol] * d.granted
         <= Most(0, Wealth(p, prices) * limit.cap
                      - 100 * Exposure([before.granted EXCEPT ![d.symbol] = 0], prices, limit))

LEMMA TargetAnswered ==
  ASSUME NEW p, NEW facts, NEW marks, NEW limit, LeapsSetting(p, facts, marks, limit), NEW fresh,
         NEW pass \in LeapsPasses, pass.cash \in Nat, NEW t \in LeapsTargets,
         NEW after, after = EvaluateTarget(p, facts, marks, limit, fresh, pass, t)
  PROVE  /\ after \in LeapsPasses /\ after.cash \in Nat
         /\ \E d \in LeapsDecisions :
              /\ AnswerTo(d, t, p, marks)
              /\ after.decisions = Append(pass.decisions, d)
              /\ after.granted = [pass.granted EXCEPT ![t.symbol] = d.granted]
              /\ d.reason = "limits" => WithinLimits(pass, after, d, p, PricesIn(facts), limit)
<1> DEFINE y == t.symbol
           current == p.shares[y]
           prices == PricesIn(facts)
           early == EntryRefused(t, current, limit, fresh)
           unpriced == IF prices[y] = 0 THEN {Decide(t, current, current, "rejected")} ELSE {}
           objection == GuardDecisions(facts[y], marks[y], t, current)
           choices == IF early # {} THEN early ELSE IF unpriced # {} THEN unpriced ELSE objection
           answer == CHOOSE d \in choices : TRUE
<1>0. /\ y \in Stocks /\ current \in Nat /\ prices \in [Stocks -> Nat] /\ t.quantity \in Int
      /\ p \in LeapsBooks /\ facts \in [Stocks -> LeapsFacts] /\ marks \in [Stocks -> LeapsMarks]
      /\ limit \in LeapsLimits /\ hedge \in HedgeSetups
  BY PricesType DEF LeapsSetting, LeapsTargets, LeapsBooks
<1>1. after = IF early \cup unpriced \cup objection = {}
              THEN Limited(p, prices, pass, t, current, limit)
              ELSE [pass EXCEPT !.decisions = Append(@, answer), !.granted[y] = answer.granted]
  BY DEF EvaluateTarget, PricesIn
<1>2. ASSUME NEW d \in early PROVE AnswerTo(d, t, p, marks) /\ d.reason \in LeapsReasons \ {"limits"}
  <2>1. PICK reason \in {"rejected", "frozen"} : d = Decide(t, current, current, reason)
    BY DEF EntryRefused
  <2> QED BY <1>0, <2>1, RefusedAnswers
<1>3. ASSUME NEW d \in unpriced PROVE AnswerTo(d, t, p, marks) /\ d.reason \in LeapsReasons \ {"limits"}
  <2>1. d = Decide(t, current, current, "rejected")
    OBVIOUS
  <2> QED BY <1>0, <2>1, RefusedAnswers
<1>4. ASSUME NEW d \in objection PROVE AnswerTo(d, t, p, marks) /\ d.reason \in LeapsReasons \ {"limits"}
  BY <1>0, GuardAnswers
<1>5. early = {} => t.quantity \in Nat
  BY <1>0 DEF EntryRefused
<1>6. unpriced = {} => prices[y] # 0
  OBVIOUS
<1> HIDE DEF early, unpriced, objection, current, prices, y
<1>7. CASE early \cup unpriced \cup objection # {}
  <2>1. answer \in early \cup unpriced \cup objection
    BY <1>7
  <2> HIDE DEF answer
  <2>2. AnswerTo(answer, t, p, marks) /\ answer.reason \in LeapsReasons \ {"limits"}
    BY <1>2, <1>3, <1>4, <2>1
  <2>3. answer \in LeapsDecisions /\ answer.granted \in Int
    BY <2>2 DEF AnswerTo, LeapsDecisions
  <2>4. after = [pass EXCEPT !.decisions = Append(@, answer), !.granted[y] = answer.granted]
    BY <1>1, <1>7
  <2>5. /\ after.decisions = Append(pass.decisions, answer) /\ after.cash = pass.cash
        /\ after.granted = [pass.granted EXCEPT ![y] = answer.granted]
        /\ after = [granted |-> after.granted, cash |-> after.cash, decisions |-> after.decisions]
    BY <2>4 DEF LeapsPasses
  <2>6. after \in LeapsPasses
    <3>1. pass.decisions \in Seq(LeapsDecisions) /\ pass.granted \in [Stocks -> Int]
          /\ pass.cash \in Int
      BY DEF LeapsPasses
    <3>2. after.decisions \in Seq(LeapsDecisions)
      BY <2>3, <2>5, <3>1
    <3>3. after.granted \in [Stocks -> Int] /\ after.cash \in Int
      BY <2>3, <2>5, <3>1
    <3> QED BY <2>5, <3>2, <3>3 DEF LeapsPasses
  <2> QED BY <2>2, <2>3, <2>5, <2>6 DEF y
<1>8. CASE early \cup unpriced \cup objection = {}
  <2> DEFINE sized == WithinCap(p, prices, pass, y, WithinPosition(p, prices, t), limit)
             q == WithinCash(pass, prices[y], current, sized)
             reason == IF q = current /\ t.quantity # current THEN "rejected" ELSE "limits"
             d == Decide(t, current, q, reason)
  <2>1. after = Limited(p, prices, pass, t, current, limit)
    BY <1>1, <1>8
  <2>2. /\ after.decisions = Append(pass.decisions, d)
        /\ after.granted = [pass.granted EXCEPT ![y] = q]
        /\ after.cash = pass.cash - Spend(prices[y], current, q)
        /\ after = [granted |-> after.granted, cash |-> after.cash, decisions |-> after.decisions]
    BY <2>1 DEF Limited, y
  <2>3. prices[y] # 0 /\ t.quantity \in Nat
    BY <1>5, <1>6, <1>8
  <2>4. current = p.shares[y] /\ y = t.symbol
    BY DEF current, y
  <2> HIDE DEF sized
  <2>5. sized = WithinCap(p, prices, pass, y, WithinPosition(p, prices, t), limit)
    BY DEF sized
  <2> HIDE DEF q
  <2>6. q = WithinCash(pass, prices[y], current, sized)
    BY DEF q
  <2>7. /\ q \in Nat /\ q <= t.quantity
        /\ pass.cash - Spend(prices[y], current, q) \in Nat
        /\ Counts(limit, y) =>
             100 * prices[y] * q
               <= Most(0, Wealth(p, prices) * limit.cap
                            - 100 * Exposure([pass.granted EXCEPT ![y] = 0], prices, limit))
    <3>1. pass \in LeapsPasses /\ pass.cash \in Nat /\ t \in LeapsTargets
      OBVIOUS
    <3> QED BY ONLY <1>0, <2>3, <2>4, <2>5, <2>6, <3>1, LimitsBound
  <2>8. reason \in LeapsReasons /\ reason \notin {"guard_exit", "guard_reduce"}
    BY DEF LeapsReasons
  <2> HIDE DEF reason
  <2>9. /\ d \in LeapsDecisions /\ d.symbol = t.symbol /\ d.current = current /\ d.granted = q
        /\ d.reason = reason
        /\ q > current => d.tags = t.tags
    BY <1>0, <2>7, <2>8, DecideTyped
  <2> HIDE DEF d
  <2>10. AnswerTo(d, t, p, marks)
    <3>1. d.granted > d.current => t.quantity > d.current /\ d.tags = t.tags
      <4>1. d.granted = q /\ d.current = current /\ (q > current => d.tags = t.tags)
        BY <2>9
      <4>2. q \in Nat /\ q <= t.quantity /\ current \in Nat /\ t.quantity \in Nat
        BY <1>0, <2>3, <2>7
      <4>3. q > current => t.quantity > current
        BY <4>2
      <4> QED BY <4>1, <4>3
    <3>2. d.current = p.shares[t.symbol] /\ d.reason \notin {"guard_exit", "guard_reduce"}
      BY <2>4, <2>8, <2>9
    <3> QED BY <2>9, <3>1, <3>2 DEF AnswerTo
  <2>11. WithinLimits(pass, after, d, p, prices, limit)
    BY <2>3, <2>4, <2>7, <2>9 DEF WithinLimits
  <2>12. after \in LeapsPasses /\ after.cash \in Nat
    <3>1. pass.decisions \in Seq(LeapsDecisions) /\ pass.granted \in [Stocks -> Int]
      BY DEF LeapsPasses
    <3>2. after.decisions \in Seq(LeapsDecisions)
      BY <2>2, <2>9, <3>1
    <3>3. after.granted \in [Stocks -> Int]
      <4>1. q \in Int
        BY <2>7
      <4>2. after.granted = [pass.granted EXCEPT ![y] = q]
        BY <2>2
      <4> QED BY ONLY <3>1, <4>1, <4>2
    <3>4. after.cash \in Nat /\ after.cash \in Int
      BY <2>2, <2>7
    <3>5. after = [granted |-> after.granted, cash |-> after.cash, decisions |-> after.decisions]
      BY <2>2
    <3> QED BY ONLY <3>2, <3>3, <3>4, <3>5 DEF LeapsPasses
  <2> QED BY <2>2, <2>4, <2>9, <2>10, <2>11, <2>12 DEF prices
<1> QED BY <1>7, <1>8

-------------------------------------------------------------------------------
(* The pass over the targets.                                                  *)

OnlyLimits(ds) == \A i \in DOMAIN ds : ds[i].reason = "limits"

\* What lasts of an answer once its target is forgotten.
Backed(d, p, marks, targets) ==
  /\ d \in LeapsDecisions /\ d.current = p.shares[d.symbol]
  /\ d.granted > d.current =>
       \E i \in DOMAIN targets : targets[i].symbol = d.symbol /\ targets[i].tags = d.tags
  /\ d.reason \in {"guard_exit", "guard_reduce"} => hedge.symbolGuard /\ d.symbol \notin Safety
  /\ d.reason = "guard_reduce" =>
       /\ d.current > 0 /\ d.granted = ReducedTo(d.anchor, d.current)
       /\ \E wanted \in Int : d.anchor = Anchor(marks[d.symbol], d.current, wanted)

\* Within the cap, or whatever has been answered and counts has been given up.
Capped(granted, done, p, prices, limit) ==
  /\ \A y \in Stocks : granted[y] \in Nat
  /\ \/ 100 * Exposure(granted, prices, limit) <= Wealth(p, prices) * limit.cap
     \/ \A y \in done : Counts(limit, y) => granted[y] = 0

AnsweredBy(ds, granted, done, p, marks, targets) ==
  /\ \A i \in DOMAIN ds : /\ ds[i].symbol \in done /\ granted[ds[i].symbol] = ds[i].granted
                          /\ Backed(ds[i], p, marks, targets)
  /\ \A y \in done : \E i \in DOMAIN ds : ds[i].symbol = y
  /\ \A i, j \in DOMAIN ds : ds[i].symbol = ds[j].symbol => i = j

PassSound(pass, done, p, facts, marks, limit, targets) ==
  /\ pass \in LeapsPasses /\ pass.cash \in Nat /\ done \subseteq Stocks
  /\ AnsweredBy(pass.decisions, pass.granted, done, p, marks, targets)
  /\ \A y \in Stocks \ done : pass.granted[y] = p.shares[y]
  /\ OnlyLimits(pass.decisions) => Capped(pass.granted, done, p, PricesIn(facts), limit)

LEMMA CapStep ==
  ASSUME NEW p \in LeapsBooks, NEW prices \in [Stocks -> Nat], NEW limit \in LeapsLimits,
         NEW granted \in [Stocks -> Int], NEW done \in SUBSET Stocks,
         Capped(granted, done, p, prices, limit),
         NEW y \in Stocks, y \notin done, prices[y] # 0, NEW q \in Nat,
         Counts(limit, y) =>
           100 * prices[y] * q
             <= Most(0, Wealth(p, prices) * limit.cap
                          - 100 * Exposure([granted EXCEPT ![y] = 0], prices, limit))
  PROVE  Capped([granted EXCEPT ![y] = q], done \cup {y}, p, prices, limit)
<1> DEFINE after == [granted EXCEPT ![y] = q]
           others == Exposure([granted EXCEPT ![y] = 0], prices, limit)
           old == Exposure(granted, prices, limit)
           new == Exposure(after, prices, limit)
           room == Wealth(p, prices) * limit.cap
           sum == q * prices[y]
           had == granted[y] * prices[y]
<1>1. /\ others \in Int /\ old \in Int /\ new \in Int
      /\ Counts(limit, y) => new = others + sum /\ old = others + had
      /\ ~Counts(limit, y) => new = others /\ old = others
  <2>1. q \in Int
    OBVIOUS
  <2>2. ExposureSplit(granted, prices, limit, y, q)
    BY <2>1, ExposureWithout
  <2> QED BY <2>2 DEF ExposureSplit
<1>2. \A x \in Stocks : after[x] \in Nat /\ (x # y => after[x] = granted[x])
  BY DEF Capped
<1>3. after[y] = q
  OBVIOUS
<1>4. room \in Int
  <2>1. Wealth(p, prices) \in Nat /\ limit.cap \in Nat
    BY WealthType DEF LeapsLimits
  <2> QED BY <2>1
<1>5. sum \in Nat /\ had \in Nat /\ 100 * prices[y] * q = 100 * sum
  <2>1. prices[y] \in Nat /\ granted[y] \in Nat
    BY DEF Capped
  <2> QED BY <2>1
<1>6. \/ 100 * old <= room
      \/ \A x \in done : Counts(limit, x) => granted[x] = 0
  BY DEF Capped
<1>7. Counts(limit, y) => 100 * sum <= Most(0, room - 100 * others)
  BY <1>5
<1> HIDE DEF after, others, old, new, room, sum, had
<1>8. CASE ~Counts(limit, y)
  <2>1. new = old
    BY <1>1, <1>8
  <2>2. \/ 100 * new <= room
        \/ \A x \in done \cup {y} : Counts(limit, x) => after[x] = 0
    BY <1>2, <1>6, <1>8, <2>1
  <2> QED BY <1>2, <2>2 DEF Capped, after, new, room
<1>9. CASE Counts(limit, y)
  <2>1. CASE 100 * others <= room
    <3>1. Most(0, room - 100 * others) = room - 100 * others
      BY <1>1, <1>4, <2>1 DEF Most
    <3>2. 100 * new <= room
      BY <1>1, <1>4, <1>5, <1>7, <1>9, <3>1
    <3> QED BY <1>2, <3>2 DEF Capped, after, new, room
  <2>2. CASE ~(100 * others <= room)
    <3>1. Most(0, room - 100 * others) = 0
      BY <1>1, <1>4, <2>2 DEF Most
    <3>2. sum = 0
      BY <1>5, <1>7, <1>9, <3>1
    <3>0. q = 0
      <4>1. prices[y] \in Nat \ {0}
        OBVIOUS
      <4> QED BY <3>2, <4>1 DEF sum
    <3>3. ~(100 * old <= room)
      BY <1>1, <1>4, <1>5, <1>9, <2>2
    <3>4. \A x \in done : Counts(limit, x) => after[x] = 0
      BY <1>2, <1>6, <3>3
    <3>5. \A x \in done \cup {y} : Counts(limit, x) => after[x] = 0
      BY <1>3, <3>0, <3>4
    <3> QED BY <1>2, <3>5 DEF Capped, after
  <2> QED BY <2>1, <2>2
<1> QED BY <1>8, <1>9

LEMMA PassStep ==
  ASSUME NEW p, NEW facts, NEW marks, NEW limit, LeapsSetting(p, facts, marks, limit), NEW fresh,
         NEW targets, NEW pass, NEW done, PassSound(pass, done, p, facts, marks, limit, targets),
         NEW t \in LeapsTargets, t.symbol \notin done,
         t.quantity > p.shares[t.symbol] =>
           \E i \in DOMAIN targets : targets[i].symbol = t.symbol /\ targets[i].tags = t.tags,
         NEW after, after = EvaluateTarget(p, facts, marks, limit, fresh, pass, t)
  PROVE  PassSound(after, done \cup {t.symbol}, p, facts, marks, limit, targets)
<1> DEFINE y == t.symbol
           ds == pass.decisions
           es == after.decisions
           prices == PricesIn(facts)
<1>1. /\ pass \in LeapsPasses /\ pass.cash \in Nat /\ done \subseteq Stocks
      /\ AnsweredBy(ds, pass.granted, done, p, marks, targets)
      /\ \A x \in Stocks \ done : pass.granted[x] = p.shares[x]
      /\ OnlyLimits(ds) => Capped(pass.granted, done, p, prices, limit)
  BY DEF PassSound
<1>2. /\ y \in Stocks /\ t.quantity \in Int /\ p \in LeapsBooks /\ prices \in [Stocks -> Nat]
      /\ limit \in LeapsLimits
  BY PricesType DEF LeapsSetting, LeapsTargets
<1>3. /\ after \in LeapsPasses /\ after.cash \in Nat
      /\ \E d \in LeapsDecisions :
              /\ AnswerTo(d, t, p, marks)
              /\ after.decisions = Append(pass.decisions, d)
              /\ after.granted = [pass.granted EXCEPT ![t.symbol] = d.granted]
              /\ d.reason = "limits" => WithinLimits(pass, after, d, p, PricesIn(facts), limit)
  BY <1>1, TargetAnswered
<1>4. PICK d \in LeapsDecisions :
              /\ AnswerTo(d, t, p, marks)
              /\ es = Append(ds, d)
              /\ after.granted = [pass.granted EXCEPT ![y] = d.granted]
              /\ d.reason = "limits" => WithinLimits(pass, after, d, p, prices, limit)
  BY <1>3
<1>5. d.symbol = y /\ d.granted \in Int
  BY <1>4 DEF AnswerTo, LeapsDecisions
<1>6. Backed(d, p, marks, targets)
  <2>1. d.granted > d.current =>
          \E i \in DOMAIN targets : targets[i].symbol = d.symbol /\ targets[i].tags = d.tags
    BY <1>4, <1>5 DEF AnswerTo
  <2>2. d.reason = "guard_reduce" =>
          /\ d.current > 0 /\ d.granted = ReducedTo(d.anchor, d.current)
          /\ \E wanted \in Int : d.anchor = Anchor(marks[d.symbol], d.current, wanted)
    BY <1>2, <1>4, <1>5 DEF AnswerTo
  <2> QED BY <1>4, <1>5, <2>1, <2>2 DEF AnswerTo, Backed
<1>7. ds \in Seq(LeapsDecisions) /\ pass.granted \in [Stocks -> Int]
  BY <1>1 DEF LeapsPasses
<1> DEFINE m == Len(ds)
<1> HIDE DEF ds, es, y, prices
<1>8. /\ m \in Nat /\ DOMAIN ds = 1..m /\ DOMAIN es = 1..(m + 1) /\ es[m + 1] = d
      /\ \A i \in 1..m : es[i] = ds[i]
  BY <1>4, <1>7
<1> HIDE DEF m
<1>9. \A i \in 1..(m + 1) : i = m + 1 \/ i \in 1..m
  BY <1>8
<1>10. /\ after.granted[y] = d.granted
       /\ \A x \in Stocks \ {y} : after.granted[x] = pass.granted[x]
  BY <1>2, <1>4, <1>7
<1>11. AnsweredBy(es, after.granted, done \cup {y}, p, marks, targets)
  <2>1. ASSUME NEW i \in DOMAIN es
        PROVE  /\ es[i].symbol \in done \cup {y} /\ after.granted[es[i].symbol] = es[i].granted
               /\ Backed(es[i], p, marks, targets)
    <3>1. CASE i = m + 1
      BY <1>5, <1>6, <1>8, <1>10, <3>1
    <3>2. CASE i \in 1..m
      <4>1. /\ ds[i].symbol \in done /\ pass.granted[ds[i].symbol] = ds[i].granted
            /\ Backed(ds[i], p, marks, targets)
        BY <1>1, <1>8, <3>2 DEF AnsweredBy
      <4>2. ds[i].symbol \in Stocks \ {y}
        BY <1>1, <4>1 DEF y
      <4>3. es[i] = ds[i]
        BY <1>8, <3>2
      <4>4. after.granted[ds[i].symbol] = ds[i].granted
        BY <1>10, <4>1, <4>2
      <4> QED BY <4>1, <4>3, <4>4
    <3> QED BY <1>8, <1>9, <3>1, <3>2
  <2>2. ASSUME NEW x \in done \cup {y} PROVE \E i \in DOMAIN es : es[i].symbol = x
    <3>1. CASE x = y
      <4>1. m + 1 \in DOMAIN es
        BY <1>8
      <4> QED BY <1>5, <1>8, <3>1, <4>1
    <3>2. CASE x \in done
      <4>1. PICK i \in DOMAIN ds : ds[i].symbol = x
        BY <1>1, <3>2 DEF AnsweredBy
      <4>2. i \in DOMAIN es /\ es[i] = ds[i]
        BY <1>8, <4>1
      <4> QED BY <4>1, <4>2
    <3> QED BY <3>1, <3>2
  <2>3. ASSUME NEW i \in DOMAIN es, NEW j \in DOMAIN es, es[i].symbol = es[j].symbol
        PROVE  i = j
    <3>1. \A k \in 1..m : es[k] = ds[k] /\ ds[k].symbol \in done /\ ds[k].symbol # y
      BY <1>1, <1>8 DEF AnsweredBy, y
    <3>2. es[m + 1].symbol = y
      BY <1>5, <1>8
    <3>3. CASE i = m + 1
      BY <1>8, <1>9, <2>3, <3>1, <3>2, <3>3
    <3>4. CASE j = m + 1
      BY <1>8, <1>9, <2>3, <3>1, <3>2, <3>4
    <3>5. CASE i \in 1..m /\ j \in 1..m
      <4>1. ds[i].symbol = ds[j].symbol /\ i \in DOMAIN ds /\ j \in DOMAIN ds
        BY <1>8, <2>3, <3>5
      <4> QED BY <1>1, <4>1 DEF AnsweredBy
    <3> QED BY <1>8, <1>9, <3>3, <3>4, <3>5
  <2> QED BY <2>1, <2>2, <2>3 DEF AnsweredBy
<1>12. \A x \in Stocks \ (done \cup {y}) : after.granted[x] = p.shares[x]
  BY <1>1, <1>10
<1>13. ASSUME OnlyLimits(es) PROVE Capped(after.granted, done \cup {y}, p, prices, limit)
  <2>1. \A i \in DOMAIN ds : i \in DOMAIN es /\ es[i] = ds[i]
    BY <1>8
  <2>2. OnlyLimits(ds)
    BY <1>13, <2>1 DEF OnlyLimits
  <2>3. m + 1 \in DOMAIN es
    BY <1>8
  <2>4. d.reason = "limits"
    BY <1>8, <1>13, <2>3 DEF OnlyLimits
  <2>5. WithinLimits(pass, after, d, p, prices, limit)
    BY <1>4, <2>4
  <2> DEFINE q == d.granted
             old == pass.granted
  <2>6. /\ q \in Nat /\ prices[y] # 0
        /\ Counts(limit, y) =>
             100 * prices[y] * q
               <= Most(0, Wealth(p, prices) * limit.cap
                            - 100 * Exposure([old EXCEPT ![y] = 0], prices, limit))
    BY <1>5, <2>5 DEF WithinLimits
  <2>7. Capped(old, done, p, prices, limit)
    BY <1>1, <2>2
  <2>8. y \notin done /\ done \in SUBSET Stocks /\ old \in [Stocks -> Int]
    BY <1>1, <1>7 DEF y
  <2>9. after.granted = [old EXCEPT ![y] = q]
    BY <1>4
  <2> HIDE DEF q, old
  <2>10. Capped([old EXCEPT ![y] = q], done \cup {y}, p, prices, limit)
    BY ONLY HedgeAssumption, <1>2, <2>6, <2>7, <2>8, CapStep
  <2> QED BY <2>9, <2>10
<1>14. done \cup {y} \subseteq Stocks
  BY <1>1, <1>2
<1> QED BY <1>3, <1>11, <1>12, <1>13, <1>14 DEF PassSound, es, y, prices

LEMMA RiskStarts ==
  ASSUME NEW p, NEW facts, NEW marks, NEW limit, LeapsSetting(p, facts, marks, limit), NEW targets
  PROVE  PassSound(StartRisk(p), {}, p, facts, marks, limit, targets)
<1> DEFINE first == StartRisk(p)
<1>1. p.shares \in [Stocks -> Nat] /\ p.cash \in Nat /\ hedge.cashBuffer \in 0..100
  BY HedgeTyped DEF LeapsSetting, LeapsBooks
<1>2. p.cash * (100 - hedge.cashBuffer) \in Nat
  BY <1>1
<1>3. /\ first.granted = p.shares /\ first.cash = p.cash * (100 - hedge.cashBuffer)
      /\ first.decisions = << >> /\ DOMAIN first.decisions = {}
      /\ first = [granted |-> first.granted, cash |-> first.cash, decisions |-> first.decisions]
  BY DEF StartRisk
<1>4. << >> \in Seq(LeapsDecisions)
  OBVIOUS
<1> HIDE DEF first
<1>5. first \in LeapsPasses /\ first.cash \in Nat
  <2>1. first.granted \in [Stocks -> Int]
    BY <1>1, <1>3
  <2>2. first.cash \in Nat /\ first.cash \in Int
    BY <1>2, <1>3
  <2>3. first.decisions \in Seq(LeapsDecisions)
    BY <1>3, <1>4
  <2> QED BY <1>3, <2>1, <2>2, <2>3 DEF LeapsPasses
<1>6. AnsweredBy(first.decisions, first.granted, {}, p, marks, targets)
  BY <1>3 DEF AnsweredBy
<1>7. Capped(first.granted, {}, p, PricesIn(facts), limit)
  BY <1>1, <1>3 DEF Capped
<1>8. \A y \in Stocks \ {} : first.granted[y] = p.shares[y]
  BY <1>3
<1>9. PassSound(first, {}, p, facts, marks, limit, targets)
  BY <1>5, <1>6, <1>7, <1>8 DEF PassSound
<1>10. QED
  BY <1>9 DEF first

\* The first targets of a batch that names a symbol once.
NamedOnce(targets) == \A i, j \in DOMAIN targets : targets[i].symbol = targets[j].symbol => i = j
Named(targets, n) == {targets[i].symbol : i \in 1..n}

LEMMA TargetsPassed ==
  ASSUME NEW p, NEW facts, NEW marks, NEW limit, LeapsSetting(p, facts, marks, limit), NEW fresh,
         NEW targets \in Seq(LeapsTargets), NamedOnce(targets)
  PROVE  PassSound(TargetsPass(p, facts, marks, limit, fresh, targets),
                   Named(targets, Len(targets)), p, facts, marks, limit, targets)
<1> DEFINE m == Len(targets)
           A0 == StartRisk(p)
           Next1(pass, n) == EvaluateTarget(p, facts, marks, limit, fresh, pass, targets[n])
           Row(g, k) == [n \in 0..k |-> IF n = 0 THEN A0 ELSE Next1(g[n - 1], n)]
           K == {k \in Nat : \E f : f = Row(f, k)}
<1>0. m \in Nat /\ DOMAIN targets = 1..m
  OBVIOUS
<1>1. PassSound(A0, {}, p, facts, marks, limit, targets)
  BY RiskStarts
<1>2. TargetsPass(p, facts, marks, limit, fresh, targets) = (CHOOSE g : g = Row(g, m))[m]
  BY DEF TargetsPass
<1> HIDE DEF Next1, A0
<1>3. 0 \in K
  <2> DEFINE f == [n \in 0..0 |-> A0]
  <2>1. f = Row(f, 0)
    <3>1. \A n \in 0..0 : n = 0
      OBVIOUS
    <3> QED BY <3>1
  <2> QED BY <2>1
<1>4. ASSUME NEW k \in Nat, k \in K PROVE k + 1 \in K
  <2>1. PICK f : f = Row(f, k)
    BY <1>4
  <2> DEFINE h == [n \in 0..(k + 1) |-> IF n = k + 1 THEN Next1(f[k], k + 1) ELSE f[n]]
  <2>2. ASSUME NEW n \in 0..(k + 1)
        PROVE  h[n] = IF n = 0 THEN A0 ELSE Next1(h[n - 1], n)
    <3>1. CASE n = k + 1
      <4>1. n - 1 = k /\ k \in 0..(k + 1) /\ k # k + 1 /\ n # 0
        BY <3>1
      <4>2. h[n] = Next1(f[k], k + 1) /\ h[n - 1] = f[k]
        BY <3>1, <4>1
      <4> QED BY <3>1, <4>1, <4>2
    <3>2. CASE n # k + 1 /\ n = 0
      <4>1. h[n] = f[n] /\ n \in 0..k
        BY <3>2
      <4> QED BY <2>1, <3>2, <4>1
    <3>3. CASE n # k + 1 /\ n # 0
      <4>1. h[n] = f[n] /\ n \in 0..k /\ n - 1 \in 0..(k + 1) /\ n - 1 # k + 1 /\ n - 1 \in 0..k
        BY <3>3
      <4>2. h[n - 1] = f[n - 1]
        BY <4>1
      <4>3. f[n] = Next1(f[n - 1], n)
        BY <2>1, <3>3, <4>1
      <4> QED BY <3>3, <4>1, <4>2, <4>3
    <3> QED BY <3>1, <3>2, <3>3
  <2>3. h = [n \in 0..(k + 1) |-> h[n]]
    OBVIOUS
  <2> HIDE DEF h
  <2>4. h = Row(h, k + 1)
    BY <2>2, <2>3
  <2> HIDE DEF Row
  <2> QED BY <2>4
<1>5. PICK f : f = Row(f, m)
  <2> HIDE DEF Row
  <2>1. Nat \subseteq K
    <3> HIDE DEF K
    <3> QED BY <1>3, <1>4, NumbersInduct
  <2> QED BY <1>0, <2>1
<1> DEFINE h == CHOOSE g : g = Row(g, m)
<1>6. h = Row(h, m)
  <2> HIDE DEF Row
  <2> QED BY <1>5
<1>7. TargetsPass(p, facts, marks, limit, fresh, targets) = h[m]
  BY <1>2
<1> HIDE DEF h
<1>8. ASSUME NEW n \in 0..m
      PROVE  h[n] = IF n = 0 THEN A0 ELSE Next1(h[n - 1], n)
  BY <1>6
<1> DEFINE Holds(n) == PassSound(h[n], Named(targets, n), p, facts, marks, limit, targets)
           S == {n \in 0..m : Holds(n)}
<1>9. 0 \in S
  <2>1. 0 \in 0..m /\ 1..0 = {}
    BY <1>0
  <2>2. h[0] = A0
    BY <1>8, <2>1
  <2>3. Named(targets, 0) = {}
    BY <2>1 DEF Named
  <2> QED BY <1>1, <2>1, <2>2, <2>3
<1>10. ASSUME NEW n \in 1..m, n - 1 \in S PROVE n \in S
  <2> DEFINE t == targets[n]
             done == Named(targets, n - 1)
  <2>1. n \in 0..m /\ n # 0 /\ Holds(n - 1) /\ n \in DOMAIN targets
    BY <1>0, <1>10
  <2>2. h[n] = Next1(h[n - 1], n)
    BY <1>8, <2>1
  <2>3. t \in LeapsTargets
    BY <2>1
  <2>4. t.symbol \notin done
    <3> SUFFICES ASSUME NEW i \in 1..(n - 1), targets[i].symbol = t.symbol PROVE FALSE
      BY DEF Named
    <3>1. i \in DOMAIN targets /\ i # n
      BY <1>0
    <3> QED BY <2>1, <3>1 DEF NamedOnce
  <2>5. t.quantity > p.shares[t.symbol] =>
          \E i \in DOMAIN targets : targets[i].symbol = t.symbol /\ targets[i].tags = t.tags
    BY <2>1
  <2>6. Named(targets, n) = done \cup {t.symbol}
    <3>1. \A i : i \in 1..n <=> i \in 1..(n - 1) \/ i = n
      OBVIOUS
    <3> QED BY <3>1 DEF Named
  <2>7. h[n] = EvaluateTarget(p, facts, marks, limit, fresh, h[n - 1], t)
    BY <2>2 DEF Next1
  <2> HIDE DEF t, done
  <2>8. PassSound(h[n - 1], done, p, facts, marks, limit, targets)
    BY <2>1 DEF done
  <2>9. PassSound(h[n], done \cup {t.symbol}, p, facts, marks, limit, targets)
    BY <2>3, <2>4, <2>5, <2>7, <2>8, PassStep
  <2> QED BY <2>1, <2>6, <2>9
<1>11. 0..m \subseteq S
  <2> HIDE DEF S, m
  <2> QED BY <1>0, <1>9, <1>10, UpTo
<1>12. Holds(m)
  <2>1. m \in 0..m
    BY <1>0
  <2> HIDE DEF Holds
  <2> QED BY <1>11, <2>1
<1> QED BY <1>7, <1>12

-------------------------------------------------------------------------------
(* The reduction of what is held beside the targets.                           *)

LEMMA WorseOrder ==
  ASSUME NEW p \in LeapsBooks, NEW facts \in [Stocks -> LeapsFacts]
  PROVE  /\ \A x \in Stocks : ~Worse(facts, p, x, x)
         /\ \A x, y, z \in Stocks :
              Worse(facts, p, x, y) /\ Worse(facts, p, y, z) => Worse(facts, p, x, z)
<1> DEFINE L == [z \in Stocks |-> IF facts[z].gain = NoValue THEN 0 ELSE facts[z].gain]
           Z == [z \in Stocks |-> p.shares[z] * facts[z].price]
<1>1. ASSUME NEW z \in Stocks PROVE L[z] \in Int /\ Z[z] \in Int
  <2>1. facts[z].gain \in LeapsFigures /\ facts[z].price \in Nat /\ p.shares[z] \in Nat
    BY DEF LeapsFacts, LeapsBooks
  <2>2. p.shares[z] * facts[z].price \in Int
    BY <2>1
  <2>3. L[z] \in Int
    BY <2>1 DEF LeapsFigures
  <2> QED BY <2>2, <2>3
<1>2. \A x, y \in Stocks :
        Worse(facts, p, x, y) <=> L[x] < L[y] \/ (L[x] = L[y] /\ Z[x] > Z[y])
  BY DEF Worse
<1> HIDE DEF L, Z
<1>3. \A a, b, c, i, j, k \in Int :
        (a < b \/ (a = b /\ i > j)) /\ (b < c \/ (b = c /\ j > k))
        => a < c \/ (a = c /\ i > k)
  OBVIOUS
<1>4. \A x \in Stocks : ~Worse(facts, p, x, x)
  BY <1>1, <1>2
<1>5. ASSUME NEW x \in Stocks, NEW y \in Stocks, NEW z \in Stocks,
             Worse(facts, p, x, y), Worse(facts, p, y, z)
      PROVE  Worse(facts, p, x, z)
  <2>1. L[x] \in Int /\ L[y] \in Int /\ L[z] \in Int /\ Z[x] \in Int /\ Z[y] \in Int /\ Z[z] \in Int
    BY <1>1
  <2>2. /\ L[x] < L[y] \/ (L[x] = L[y] /\ Z[x] > Z[y])
        /\ L[y] < L[z] \/ (L[y] = L[z] /\ Z[y] > Z[z])
    BY <1>2, <1>5
  <2>3. L[x] < L[z] \/ (L[x] = L[z] /\ Z[x] > Z[z])
    BY ONLY <2>1, <2>2
  <2> QED BY <1>2, <2>3
<1> QED BY <1>4, <1>5

\* There is always one that none is worse than.
LEMMA WorstExists ==
  ASSUME NEW p \in LeapsBooks, NEW facts \in [Stocks -> LeapsFacts],
         NEW left \in SUBSET Stocks, left # {}
  PROVE  \E y \in left : \A x \in left : ~Worse(facts, p, x, y)
<1> DEFINE F == {T \in SUBSET Stocks : T # {} => \E y \in T : \A x \in T : ~Worse(facts, p, x, y)}
<1>1. ASSUME NEW T \in SUBSET Stocks, \A x \in T : T \ {x} \in F PROVE T \in F
  <2> SUFFICES ASSUME T # {} PROVE \E y \in T : \A x \in T : ~Worse(facts, p, x, y)
    OBVIOUS
  <2>1. PICK x \in T : TRUE
    OBVIOUS
  <2>2. CASE T \ {x} = {}
    <3>1. \A z \in T : z = x
      BY <2>2
    <3> QED BY <2>1, <3>1, WorseOrder
  <2>3. CASE T \ {x} # {}
    <3>1. PICK y \in T \ {x} : \A z \in T \ {x} : ~Worse(facts, p, z, y)
      BY <1>1, <2>1, <2>3
    <3>2. CASE Worse(facts, p, x, y)
      <4>1. ASSUME NEW z \in T, Worse(facts, p, z, x) PROVE FALSE
        <5>1. Worse(facts, p, z, y)
          BY <2>1, <3>1, <3>2, <4>1, WorseOrder
        <5>2. z # x
          BY <4>1, WorseOrder
        <5> QED BY <3>1, <5>1, <5>2
      <4> QED BY <2>1, <4>1
    <3>3. CASE ~Worse(facts, p, x, y)
      BY <3>1, <3>3
    <3> QED BY <3>2, <3>3
  <2> QED BY <2>2, <2>3
<1>2. IsFiniteSet(Stocks)
  BY HedgeAssumption
<1>3. SUBSET Stocks \subseteq F
  <2> HIDE DEF F
  <2> QED BY <1>1, <1>2, SubsetsInduct
<1> QED BY <1>3

\* What holds while the rest of what is held is reduced.
Lightened(state, done, p, facts, marks, limit, targets, spare) ==
  /\ state.left \subseteq spare /\ done \cap state.left = {}
  /\ PassSound(state.pass, done, p, facts, marks, limit, targets)
  /\ Named(targets, Len(targets)) \subseteq done
  /\ ~AboveCap(p, PricesIn(facts), state.pass.granted, limit) \/ spare \ state.left \subseteq done

Lighter(state, after, p, facts, marks, limit, targets, spare) ==
  /\ \E y \in state.left : after.left = state.left \ {y}
  /\ \E more : Lightened(after, more, p, facts, marks, limit, targets, spare)

LEMMA Lightens ==
  ASSUME NEW p, NEW facts, NEW marks, NEW limit, LeapsSetting(p, facts, marks, limit), NEW fresh,
         NEW targets, NEW spare \in SUBSET Stocks, NEW state, NEW done,
         Lightened(state, done, p, facts, marks, limit, targets, spare), state.left # {},
         NEW after, after = Deleverage(p, facts, marks, limit, fresh, state)
  PROVE  Lighter(state, after, p, facts, marks, limit, targets, spare)
<1> DEFINE worst == CHOOSE y \in state.left : \A x \in state.left : ~Worse(facts, p, x, y)
           prices == PricesIn(facts)
           above == AboveCap(p, prices, state.pass.granted, limit)
           t == Target(worst, p.shares[worst], {"risk"})
           next == EvaluateTarget(p, facts, marks, limit, fresh, state.pass, t)
<1>1. /\ state.left \subseteq spare /\ done \cap state.left = {}
      /\ PassSound(state.pass, done, p, facts, marks, limit, targets)
      /\ Named(targets, Len(targets)) \subseteq done
      /\ ~above \/ spare \ state.left \subseteq done
  BY DEF Lightened
<1>2. worst \in state.left /\ worst \in Stocks /\ worst \notin done /\ worst \in spare
  <2>1. p \in LeapsBooks /\ facts \in [Stocks -> LeapsFacts] /\ state.left \in SUBSET Stocks
    BY <1>1 DEF LeapsSetting
  <2>2. \E y \in state.left : \A x \in state.left : ~Worse(facts, p, x, y)
    BY <2>1, WorstExists
  <2>3. worst \in state.left
    BY <2>2
  <2> HIDE DEF worst
  <2> QED BY <1>1, <2>1, <2>3
<1>3. after = [left |-> state.left \ {worst}, pass |-> IF above THEN next ELSE state.pass]
  BY DEF Deleverage, PricesIn
<1> HIDE DEF worst
<1>4. after.left = state.left \ {worst}
  BY <1>3
<1>5. CASE ~above
  <2>1. after.pass = state.pass
    BY <1>3, <1>5
  <2>2. Lightened(after, done, p, facts, marks, limit, targets, spare)
    BY <1>1, <1>4, <1>5, <2>1 DEF Lightened
  <2> QED BY <1>2, <1>4, <2>2 DEF Lighter
<1>6. CASE above
  <2>1. after.pass = next
    BY <1>3, <1>6
  <2>2. t.symbol = worst /\ t.quantity = p.shares[worst] /\ t.tags = {"risk"}
        /\ t = [symbol |-> t.symbol, quantity |-> t.quantity, tags |-> t.tags]
    BY DEF Target
  <2>3. p.shares[worst] \in Nat
    BY <1>2 DEF LeapsSetting, LeapsBooks
  <2> HIDE DEF t
  <2>4. t \in LeapsTargets
    <3>1. t.quantity \in Int /\ t.symbol \in Stocks /\ t.tags \in SUBSET LeapsTags
      BY <1>2, <2>2, <2>3 DEF LeapsTags
    <3> QED BY <2>2, <3>1 DEF LeapsTargets
  <2>5. ~(t.quantity > p.shares[t.symbol])
    BY <2>2, <2>3
  <2>6. PassSound(next, done \cup {t.symbol}, p, facts, marks, limit, targets)
    <3>1. t.symbol \notin done
      BY <1>2, <2>2
    <3> HIDE DEF next
    <3>2. next = EvaluateTarget(p, facts, marks, limit, fresh, state.pass, t)
      BY DEF next
    <3> QED BY <1>1, <2>4, <2>5, <3>1, <3>2, PassStep
  <2> HIDE DEF next
  <2>7. Lightened(after, done \cup {worst}, p, facts, marks, limit, targets, spare)
    <3>1. after.left \subseteq spare /\ (done \cup {worst}) \cap after.left = {}
      BY <1>1, <1>4
    <3>2. spare \ after.left \subseteq done \cup {worst}
      BY <1>1, <1>4, <1>6
    <3> QED BY <1>1, <2>1, <2>2, <2>6, <3>1, <3>2 DEF Lightened
  <2> QED BY <1>2, <1>4, <2>7 DEF Lighter
<1> QED BY <1>5, <1>6

\* Nothing that counts is held: there is no exposure.
LEMMA NoExposure ==
  ASSUME NEW granted, NEW prices, NEW limit,
         \A y \in Stocks : Counts(limit, y) => granted[y] * prices[y] = 0
  PROVE  Exposure(granted, prices, limit) = 0
<1> DEFINE ys == {y \in Stocks : Counts(limit, y)}
           W == [y \in ys |-> granted[y] * prices[y]]
<1>1. IsFiniteSet(ys)
  BY HedgeAssumption, FS_Subset
<1>2. \A y \in ys : W[y] = 0
  OBVIOUS
<1>3. Exposure(granted, prices, limit) = SumFunctionOnSet(W, ys)
  BY DEF Exposure, Value
<1> HIDE DEF ys, W
<1> QED BY <1>1, <1>2, <1>3, SumZero

\* What is held and neither named nor spare weighs nothing.
LEMMA RestWeighsNothing ==
  ASSUME NEW p, NEW facts, NEW marks, NEW limit, LeapsSetting(p, facts, marks, limit),
         NEW targets \in Seq(LeapsTargets), NEW y \in Stocks, Counts(limit, y),
         y \notin Named(targets, Len(targets)), y \notin Spare(p, facts, targets, limit)
  PROVE  p.shares[y] = 0 \/ facts[y].price = 0
<1>1. p.shares[y] \in Nat /\ facts[y].price \in Nat
  BY DEF LeapsSetting, LeapsBooks, LeapsFacts
<1>2. \A i \in DOMAIN targets : targets[i].symbol # y
  BY DEF Named
<1>3. y \notin Held(p) \/ ~(facts[y].price > 0)
  BY <1>2 DEF Spare
<1> QED BY <1>1, <1>3 DEF Held

LEMMA LightenedHolds ==
  ASSUME NEW p, NEW facts, NEW marks, NEW limit, LeapsSetting(p, facts, marks, limit),
         NEW targets \in Seq(LeapsTargets), NEW state, NEW done, NEW spare,
         spare = Spare(p, facts, targets, limit),
         Lightened(state, done, p, facts, marks, limit, targets, spare), state.left = {},
         OnlyLimits(state.pass.decisions), limit.cap < 100
  PROVE  ~AboveCap(p, PricesIn(facts), state.pass.granted, limit)
<1> SUFFICES ASSUME AboveCap(p, PricesIn(facts), state.pass.granted, limit) PROVE FALSE
  OBVIOUS
<1> DEFINE granted == state.pass.granted
           prices == PricesIn(facts)
           wealth == Wealth(p, prices)
           total == Exposure(granted, prices, limit)
<1>0. /\ p \in LeapsBooks /\ prices \in [Stocks -> Nat] /\ limit.cap \in Nat
      /\ \A y \in Stocks : prices[y] = facts[y].price
  BY PricesType DEF LeapsSetting, LeapsLimits, PricesIn
<1>1. wealth \in Nat /\ wealth * limit.cap \in Nat
  <2>1. wealth \in Nat
    BY <1>0, WealthType
  <2> HIDE DEF wealth
  <2> QED BY <1>0, <2>1
<1>2. 100 * total > wealth * limit.cap + 100
  BY DEF AboveCap
<1>3. /\ spare \subseteq done /\ Named(targets, Len(targets)) \subseteq done
      /\ PassSound(state.pass, done, p, facts, marks, limit, targets)
  BY DEF Lightened
<1>4. /\ Capped(granted, done, p, prices, limit)
      /\ \A y \in Stocks \ done : granted[y] = p.shares[y]
      /\ granted \in [Stocks -> Int]
  BY <1>3 DEF PassSound, LeapsPasses
<1>5. total \in Int
  <2>1. \A y \in Stocks : granted[y] \in Int /\ prices[y] \in Nat
    BY <1>0, <1>4
  <2>2. {y \in Stocks : Counts(limit, y)} \in SUBSET Stocks
    OBVIOUS
  <2> HIDE DEF granted, prices
  <2>3. total = Value(granted, prices, {y \in Stocks : Counts(limit, y)})
    BY DEF Exposure
  <2> QED BY <2>1, <2>2, <2>3, ValueType
<1>6. ~(100 * total <= wealth * limit.cap)
  <2> HIDE DEF total, wealth
  <2> QED BY <1>1, <1>2, <1>5
<1>7. \A y \in done : Counts(limit, y) => granted[y] = 0
  BY <1>4, <1>6 DEF Capped
<1>8. ASSUME NEW y \in Stocks, Counts(limit, y) PROVE granted[y] * prices[y] = 0
  <2>1. granted[y] \in Int /\ prices[y] \in Int
    BY <1>0, <1>4
  <2>2. granted[y] = 0 \/ prices[y] = 0
    <3>1. CASE y \in done
      BY <1>7, <1>8, <3>1
    <3>2. CASE y \notin done
      <4>1. p.shares[y] = 0 \/ facts[y].price = 0
        BY <1>3, <1>8, <3>2, RestWeighsNothing
      <4> QED BY <1>0, <1>4, <3>2, <4>1
    <3> QED BY <3>1, <3>2
  <2> HIDE DEF granted, prices
  <2> QED BY <2>1, <2>2
<1>9. total = 0
  <2> HIDE DEF granted, prices
  <2> QED BY <1>8, NoExposure
<1> HIDE DEF total, wealth
<1> QED BY <1>1, <1>2, <1>9

LEMMA Managed ==
  ASSUME NEW p, NEW facts, NEW marks, NEW limit, LeapsSetting(p, facts, marks, limit), NEW fresh,
         NEW targets \in Seq(LeapsTargets), NamedOnce(targets)
  PROVE  \E pass, done :
           /\ PassSound(pass, done, p, facts, marks, limit, targets)
           /\ pass.decisions = ManageRisk(p, facts, marks, limit, fresh, targets)
           /\ OnlyLimits(pass.decisions) /\ limit.cap < 100
              => ~AboveCap(p, PricesIn(facts), pass.granted, limit)
<1> DEFINE spare == Spare(p, facts, targets, limit)
           c == Cardinality(spare)
           A0 == [left |-> spare, pass |-> TargetsPass(p, facts, marks, limit, fresh, targets)]
           Next1(state) == Deleverage(p, facts, marks, limit, fresh, state)
           Row(g, k) == [n \in 0..k |-> IF n = 0 THEN A0 ELSE Next1(g[n - 1])]
           K == {k \in Nat : \E f : f = Row(f, k)}
<1>0. spare \in SUBSET Stocks /\ IsFiniteSet(spare) /\ c \in Nat
  <2>1. spare \in SUBSET Stocks
    BY DEF Spare, Held
  <2> QED BY <2>1, HedgeAssumption, FS_Subset, FS_CardinalityType
<1>1. Lightened(A0, Named(targets, Len(targets)), p, facts, marks, limit, targets, spare)
  <2>1. Named(targets, Len(targets)) \cap spare = {}
    BY DEF Named, Spare
  <2>2. PassSound(A0.pass, Named(targets, Len(targets)), p, facts, marks, limit, targets)
    BY TargetsPassed
  <2>3. A0.left = spare
    OBVIOUS
  <2> HIDE DEF A0, spare
  <2> QED BY <2>1, <2>2, <2>3 DEF Lightened
<1>2. ManageRisk(p, facts, marks, limit, fresh, targets)
        = (CHOOSE g : g = Row(g, c))[c].pass.decisions
  BY DEF ManageRisk
<1>20. A0.left = spare
  OBVIOUS
<1> HIDE DEF Next1, A0, spare
<1>3. 0 \in K
  <2> DEFINE f == [n \in 0..0 |-> A0]
  <2>1. f = Row(f, 0)
    <3>1. \A n \in 0..0 : n = 0
      OBVIOUS
    <3> QED BY <3>1
  <2> QED BY <2>1
<1>4. ASSUME NEW k \in Nat, k \in K PROVE k + 1 \in K
  <2>1. PICK f : f = Row(f, k)
    BY <1>4
  <2> DEFINE h == [n \in 0..(k + 1) |-> IF n = k + 1 THEN Next1(f[k]) ELSE f[n]]
  <2>2. ASSUME NEW n \in 0..(k + 1)
        PROVE  h[n] = IF n = 0 THEN A0 ELSE Next1(h[n - 1])
    <3>1. CASE n = k + 1
      <4>1. n - 1 = k /\ k \in 0..(k + 1) /\ k # k + 1 /\ n # 0
        BY <3>1
      <4>2. h[n] = Next1(f[k]) /\ h[n - 1] = f[k]
        BY <3>1, <4>1
      <4> QED BY <3>1, <4>1, <4>2
    <3>2. CASE n # k + 1 /\ n = 0
      <4>1. h[n] = f[n] /\ n \in 0..k
        BY <3>2
      <4> QED BY <2>1, <3>2, <4>1
    <3>3. CASE n # k + 1 /\ n # 0
      <4>1. h[n] = f[n] /\ n \in 0..k /\ n - 1 \in 0..(k + 1) /\ n - 1 # k + 1 /\ n - 1 \in 0..k
        BY <3>3
      <4>2. h[n - 1] = f[n - 1]
        BY <4>1
      <4>3. f[n] = Next1(f[n - 1])
        BY <2>1, <3>3, <4>1
      <4> QED BY <3>3, <4>1, <4>2, <4>3
    <3> QED BY <3>1, <3>2, <3>3
  <2>3. h = [n \in 0..(k + 1) |-> h[n]]
    OBVIOUS
  <2> HIDE DEF h
  <2>4. h = Row(h, k + 1)
    BY <2>2, <2>3
  <2> HIDE DEF Row
  <2> QED BY <2>4
<1>5. PICK f : f = Row(f, c)
  <2> HIDE DEF Row, c
  <2>1. Nat \subseteq K
    <3> HIDE DEF K
    <3> QED BY <1>3, <1>4, NumbersInduct
  <2> QED BY <1>0, <2>1
<1> DEFINE h == CHOOSE g : g = Row(g, c)
<1>6. h = Row(h, c)
  <2> HIDE DEF Row
  <2> QED BY <1>5
<1>7. ManageRisk(p, facts, marks, limit, fresh, targets) = h[c].pass.decisions
  BY <1>2
<1> HIDE DEF h
<1>8. ASSUME NEW n \in 0..c
      PROVE  h[n] = IF n = 0 THEN A0 ELSE Next1(h[n - 1])
  BY <1>6
<1> DEFINE Holds(n) == /\ \E done : Lightened(h[n], done, p, facts, marks, limit, targets, spare)
                       /\ IsFiniteSet(h[n].left) /\ Cardinality(h[n].left) = c - n
           S == {n \in 0..c : Holds(n)}
<1>9. 0 \in S
  <2>1. 0 \in 0..c /\ c - 0 = c
    BY <1>0
  <2>2. h[0] = A0
    BY <1>8, <2>1
  <2>3. IsFiniteSet(A0.left) /\ Cardinality(A0.left) = c
    BY <1>0, <1>20
  <2> HIDE DEF c
  <2> QED BY <1>1, <2>1, <2>2, <2>3
<1>10. ASSUME NEW n \in 1..c, n - 1 \in S PROVE n \in S
  <2> DEFINE before == h[n - 1]
             after == h[n]
  <2>1. n \in 0..c /\ n # 0 /\ Holds(n - 1) /\ c - (n - 1) # 0 /\ (c - (n - 1)) - 1 = c - n
    <3> HIDE DEF c
    <3> QED BY <1>0, <1>10
  <2>2. after = Deleverage(p, facts, marks, limit, fresh, before)
    BY <1>8, <2>1 DEF Next1
  <2>3. PICK done : Lightened(before, done, p, facts, marks, limit, targets, spare)
    BY <2>1
  <2>4. IsFiniteSet(before.left) /\ Cardinality(before.left) = c - (n - 1)
    BY <2>1
  <2> HIDE DEF before, after, c
  <2>5. before.left # {}
    BY <2>1, <2>4, FS_EmptySet
  <2>6. Lighter(before, after, p, facts, marks, limit, targets, spare)
    BY <1>0, <2>2, <2>3, <2>5, Lightens
  <2>7. IsFiniteSet(after.left) /\ Cardinality(after.left) = c - n
    <3>1. PICK y \in before.left : after.left = before.left \ {y}
      BY <2>6 DEF Lighter
    <3> QED BY <2>1, <2>4, <3>1, FS_RemoveElement
  <2> QED BY <2>1, <2>6, <2>7 DEF Lighter, after
<1>11. 0..c \subseteq S
  <2> HIDE DEF S, c
  <2> QED BY <1>0, <1>9, <1>10, UpTo
<1>12. Holds(c) /\ c - c = 0
  <2>1. c \in 0..c /\ c - c = 0
    BY <1>0
  <2> HIDE DEF Holds
  <2> QED BY <1>11, <2>1
<1> HIDE DEF c
<1> DEFINE last == h[c]
<1>13. PICK done : Lightened(last, done, p, facts, marks, limit, targets, spare)
  BY <1>12
<1>14. last.left = {}
  BY <1>12, FS_EmptySet
<1> HIDE DEF last
<1>15. PassSound(last.pass, done, p, facts, marks, limit, targets)
  BY <1>13 DEF Lightened
<1>16. ASSUME OnlyLimits(last.pass.decisions), limit.cap < 100
       PROVE  ~AboveCap(p, PricesIn(facts), last.pass.granted, limit)
  <2>1. spare = Spare(p, facts, targets, limit)
    BY DEF spare
  <2> QED BY <1>13, <1>14, <1>16, <2>1, LightenedHolds
<1>17. last.pass.decisions = ManageRisk(p, facts, marks, limit, fresh, targets)
  BY <1>7 DEF last
<1> QED BY <1>15, <1>16, <1>17

-------------------------------------------------------------------------------
(* The limit of a cycle.                                                       *)

LeapsIndexes ==
  [day : LeapsFigures, high : Nat \ {0}, low : Nat \ {0}, last : Nat \ {0}, count : Nat]
LeapsEquities ==
  [day : LeapsFigures, last : Nat, peak : Nat, trough : Nat, count : Nat,
   overlay : {"none", "entry_freeze", "risk_off"}]

\* A limit, and what it takes for it to have been lifted.
LimitFrom(limit, state) ==
  /\ limit \in LeapsLimits /\ limit.cap \in 0..100
  /\ limit.released => hedge.indexRecovers /\ state.count >= hedge.indexConfirm

LEMMA LimitTyped ==
  ASSUME NEW cap \in 0..100, NEW freeze \in BOOLEAN, NEW index \in BOOLEAN, NEW state
  PROVE  LimitFrom(Limit(cap, freeze, index), state)
BY DEF Limit, LimitFrom, LeapsLimits

LEMMA NoFreezeTyped ==
  ASSUME NEW cap \in 0..100, NEW state
  PROVE  LimitFrom(NoFreeze(cap), state)
BY LimitTyped DEF NoFreeze

LEMMA ReleasedTyped ==
  ASSUME hedge \in HedgeSetups, NEW base \in 0..100, NEW state, NEW minute, NEW limit,
         LimitFrom(limit, state)
  PROVE  LimitFrom(Released(limit, base, state, minute), state)
<1> DEFINE probe == Least(base, Most(limit.cap, hedge.recoveryCap))
           lifted == [limit EXCEPT !.cap = probe, !.released = TRUE]
<1>1. probe \in 0..100
  BY HedgeTyped DEF LimitFrom, Least, Most
<1> HIDE DEF probe
<1>2. lifted \in LeapsLimits /\ lifted.cap = probe
  <2>1. probe \in Nat /\ limit \in LeapsLimits
    BY <1>1 DEF LimitFrom
  <2> QED BY <2>1 DEF LeapsLimits
<1>3. \/ Released(limit, base, state, minute) = limit
      \/ /\ Released(limit, base, state, minute) = lifted
         /\ hedge.indexRecovers /\ state.count >= hedge.indexConfirm
  BY DEF Released, probe
<1> HIDE DEF lifted
<1> QED BY <1>1, <1>2, <1>3 DEF LimitFrom

LEMMA ShapedTyped ==
  ASSUME NEW x \in 0..100
  PROVE  Shaped(x) \in 0..100
<1> DEFINE s == x * x * (300 - 2 * x)
           u == 100 - x
<1>1. s \in Nat
  <2>1. x \in Nat /\ 300 - 2 * x \in Nat
    OBVIOUS
  <2>2. x * x \in Nat
    BY <2>1
  <2> QED BY <2>1, <2>2
<1>2. s <= 1000000
  <2>1. u \in Nat /\ 2 * x + 100 \in Nat /\ x = 100 - u
    OBVIOUS
  <2>2. u * u * (2 * x + 100) \in Nat
    BY <2>1
  <2>3. 1000000 - s = u * u * (2 * x + 100)
    BY <2>1
  <2> QED BY <1>1, <2>2, <2>3
<1> HIDE DEF s
<1>3. s \div 10000 \in 0..100
  BY <1>1, <1>2
<1>4. Shaped(x) \in {x, s \div 10000}
  BY DEF Shaped, s
<1> QED BY <1>3, <1>4

LEMMA BetweenTyped ==
  ASSUME NEW from \in 0..100, NEW to \in 0..100, NEW x \in 0..100
  PROVE  Between(from, to, x) \in 0..100
<1>1. 100 \in Nat \ {0} /\ 100 \in Nat
  OBVIOUS
<1>2. from + ((to - from) * x) \div 100 \in 0..100
  BY <1>1, Interpolated
<1> QED BY <1>2 DEF Between

\* A part of a distance, in hundredths.
LEMMA PartTyped ==
  ASSUME NEW a \in Nat, NEW b \in Nat \ {0}, a <= b
  PROVE  (a * 100) \div b \in 0..100
<1> DEFINE q == (a * 100) \div b
<1>1. q \in Int /\ b * q <= a * 100 /\ a * 100 < b * q + b
  <2>1. a * 100 \in Int
    OBVIOUS
  <2> QED BY <2>1, DivBound
<1> HIDE DEF q
<1>2. q <= 100
  <2> SUFFICES ASSUME q >= 101 PROVE FALSE
    BY <1>1
  <2>1. b * q >= b * 101
    BY <1>1
  <2>2. b * q \in Int
    BY <1>1
  <2> QED BY <1>1, <2>1, <2>2
<1>3. q >= 0
  <2> SUFFICES ASSUME q <= -1 PROVE FALSE
    BY <1>1
  <2>1. b * q <= b * (-1)
    BY <1>1
  <2>2. b * q \in Int
    BY <1>1
  <2> QED BY <1>1, <2>1, <2>2
<1> QED BY <1>1, <1>2, <1>3 DEF q

LEMMA SmoothCapTyped ==
  ASSUME NEW value \in Int, NEW entryAt \in Int, NEW riskAt \in Int, NEW base \in 0..100,
         NEW entryCap \in 0..100, NEW riskCap \in 0..100
  PROVE  SmoothCap(value, entryAt, riskAt, base, entryCap, riskCap) \in 0..100
<1> DEFINE entry == Least(0, entryAt)
           risk == Least(entry, riskAt)
           x1 == ((entry - value) * 100) \div (entry - risk)
           x2 == (-value * 100) \div (-entry)
           b1 == Between(entryCap, riskCap, Shaped(x1))
           b2 == Between(base, entryCap, Shaped(x2))
<1>1. entry \in Int /\ risk \in Int /\ entry <= 0 /\ risk <= entry
  BY DEF Least
<1>2. SmoothCap(value, entryAt, riskAt, base, entryCap, riskCap)
        = IF value >= 0 THEN base
          ELSE IF value <= risk THEN riskCap
          ELSE IF risk = entry THEN base
          ELSE IF value <= entry THEN b1 ELSE b2
  BY DEF SmoothCap
<1> HIDE DEF entry, risk
<1>3. ASSUME ~(value <= risk), value <= entry PROVE b1 \in 0..100
  <2>1. entry - value \in Nat /\ entry - risk \in Nat \ {0} /\ entry - value <= entry - risk
    BY <1>1, <1>3
  <2>2. x1 \in 0..100
    BY <2>1, PartTyped
  <2> HIDE DEF x1
  <2>3. Shaped(x1) \in 0..100
    BY <2>2, ShapedTyped
  <2> QED BY <2>3, BetweenTyped
<1>4. ASSUME ~(value >= 0), ~(value <= entry) PROVE b2 \in 0..100
  <2>1. -value \in Nat /\ -entry \in Nat \ {0} /\ -value <= -entry
    BY <1>1, <1>4
  <2>2. x2 \in 0..100
    BY <2>1, PartTyped
  <2> HIDE DEF x2
  <2>3. Shaped(x2) \in 0..100
    BY <2>2, ShapedTyped
  <2> QED BY <2>3, BetweenTyped
<1> HIDE DEF b1, b2
<1> QED BY <1>2, <1>3, <1>4

LEMMA BpsTyped ==
  ASSUME NEW price \in Int, NEW base \in Nat \ {0}
  PROVE  Bps(price, base) \in Int
<1>1. price * 10000 \in Int
  OBVIOUS
<1>2. (price * 10000) \div base \in Int
  BY <1>1
<1> QED BY <1>2 DEF Bps

LEMMA SmoothLimitTyped ==
  ASSUME hedge \in HedgeSetups, NEW base \in 0..100, NEW return \in Int, NEW drawdown \in Int,
         NEW state, NEW minute
  PROVE  LimitFrom(SmoothLimit(base, return, drawdown, state, minute), state)
<1> DEFINE entryCap == Least(base, hedge.entryCap)
           riskCap == Least(entryCap, hedge.riskCap)
           byReturn == SmoothCap(return, hedge.indexFreeze, hedge.indexRiskOff, base, entryCap, riskCap)
           byHigh == SmoothCap(drawdown, hedge.highFreeze, hedge.highRiskOff, base, entryCap, riskCap)
           caps == {c \in {byReturn} \cup (IF hedge.fromHigh THEN {byHigh} ELSE {}) : c < base}
                     \cup (IF GateShut(minute) THEN {entryCap} ELSE {})
           limit == Limit(Min(caps), hedge.hardFreeze, TRUE)
<1>1. entryCap \in 0..100 /\ riskCap \in 0..100
  BY HedgeTyped DEF Least
<1>2. SmoothLimit(base, return, drawdown, state, minute)
        = IF caps = {} THEN NoFreeze(base) ELSE Released(limit, base, state, minute)
  BY DEF SmoothLimit
<1> HIDE DEF entryCap, riskCap
<1>3. byReturn \in 0..100 /\ byHigh \in 0..100
  BY <1>1, HedgeTyped, SmoothCapTyped
<1> HIDE DEF byReturn, byHigh
<1>4. caps \subseteq 0..100
  BY <1>1, <1>3
<1> HIDE DEF caps
<1>5. CASE caps = {}
  BY <1>2, <1>5, NoFreezeTyped
<1>6. CASE caps # {}
  <2>1. caps \subseteq Nat
    BY <1>4
  <2>2. \E c \in caps : \A e \in caps : c <= e
    BY <1>6, <2>1, LeastNumber
  <2>3. Min(caps) \in caps
    BY <2>2 DEF Min
  <2>4. Min(caps) \in 0..100 /\ hedge.hardFreeze \in BOOLEAN
    BY <1>4, <2>3, HedgeTyped
  <2>5. LimitFrom(limit, state)
    BY <2>4, LimitTyped
  <2> HIDE DEF limit
  <2>6. LimitFrom(Released(limit, base, state, minute), state)
    BY <2>5, ReleasedTyped
  <2> QED BY <1>2, <1>6, <2>6
<1> QED BY <1>5, <1>6

LEMMA StepLimitTyped ==
  ASSUME hedge \in HedgeSetups, NEW base \in 0..100, NEW return, NEW drawdown,
         NEW state, NEW minute
  PROVE  LimitFrom(StepLimit(base, return, drawdown, state, minute), state)
<1> DEFINE overlay == IndexOverlay(return, drawdown, minute)
           cap == IF overlay = "risk_off" THEN hedge.riskCap ELSE hedge.entryCap
           limit == Limit(Least(base, cap), TRUE, TRUE)
<1>1. StepLimit(base, return, drawdown, state, minute)
        = IF overlay = "none" THEN NoFreeze(base) ELSE Released(limit, base, state, minute)
  BY DEF StepLimit
<1>2. cap \in 0..100
  BY HedgeTyped
<1> HIDE DEF cap, overlay
<1>3. Least(base, cap) \in 0..100
  BY <1>2 DEF Least
<1>4. LimitFrom(limit, state)
  BY <1>3, LimitTyped
<1> HIDE DEF limit
<1>5. LimitFrom(Released(limit, base, state, minute), state) /\ LimitFrom(NoFreeze(base), state)
  BY <1>4, ReleasedTyped, NoFreezeTyped
<1> QED BY <1>1, <1>5

LEMMA IndexLimitTyped ==
  ASSUME hedge \in HedgeSetups, NEW base \in 0..100, NEW bar \in LeapsBars,
         NEW reference \in {NoValue} \cup (Nat \ {0}), NEW state \in LeapsIndexes, NEW minute
  PROVE  LimitFrom(IndexLimit(base, bar, reference, state, minute), state)
<1> DEFINE return == Bps(bar.close, reference)
           drawdown == Bps(bar.close, state.high)
<1>1. bar.close \in Int /\ state.high \in Nat \ {0}
  BY DEF LeapsBars, LeapsIndexes
<1>2. drawdown \in Int
  BY <1>1, BpsTyped
<1>3. reference # NoValue => return \in Int
  BY <1>1, BpsTyped
<1>4. IndexLimit(base, bar, reference, state, minute)
        = IF reference = NoValue THEN NoFreeze(base)
          ELSE IF hedge.smooth THEN SmoothLimit(base, return, drawdown, state, minute)
          ELSE StepLimit(base, return, drawdown, state, minute)
  BY DEF IndexLimit
<1> HIDE DEF return, drawdown
<1> QED BY <1>2, <1>3, <1>4, NoFreezeTyped, SmoothLimitTyped, StepLimitTyped

LEMMA EquityLimitTyped ==
  ASSUME hedge \in HedgeSetups, NEW base \in 0..100, NEW equity \in LeapsEquities, NEW state
  PROVE  LimitFrom(EquityLimit(base, equity), state) /\ ~EquityLimit(base, equity).released
<1>1. equity.overlay \in {"none", "entry_freeze", "risk_off"}
  BY DEF LeapsEquities
<1>2. Least(base, hedge.equityEntryCap) \in 0..100 /\ Least(base, hedge.equityRiskCap) \in 0..100
  BY HedgeTyped DEF Least
<1>3. EquityLimit(base, equity)
        \in {NoFreeze(base), Limit(Least(base, hedge.equityEntryCap), TRUE, FALSE),
             Limit(Least(base, hedge.equityRiskCap), TRUE, FALSE)}
  BY <1>1 DEF EquityLimit
<1>4. LimitFrom(EquityLimit(base, equity), state)
  <2>1. LimitFrom(NoFreeze(base), state)
    BY NoFreezeTyped
  <2>2. LimitFrom(Limit(Least(base, hedge.equityEntryCap), TRUE, FALSE), state)
    BY <1>2, LimitTyped
  <2>3. LimitFrom(Limit(Least(base, hedge.equityRiskCap), TRUE, FALSE), state)
    BY <1>2, LimitTyped
  <2> QED BY <1>3, <2>1, <2>2, <2>3
<1>5. ~EquityLimit(base, equity).released
  BY <1>3 DEF NoFreeze, Limit
<1> QED BY <1>4, <1>5

\* The limit of a cycle: lifted only where the index guard has its bar.
LEMMA LimitOfTyped ==
  ASSUME hedge \in HedgeSetups, NEW scene \in ScenesFor[hedge], NEW index,
         hedge.indexGuard /\ scene.bar # NoValue => index \in LeapsIndexes,
         NEW equity, hedge.overlay => equity \in LeapsEquities,
         NEW limit, limit = LimitOf(scene, index, equity)
  PROVE  /\ LimitFrom(limit, index)
         /\ limit.released => hedge.indexGuard /\ scene.bar # NoValue
<1> DEFINE base == BaseCap(RegimeName(scene.mood))
           minute == MinuteOf(lpMoment)
           guard == hedge.indexGuard /\ scene.bar # NoValue
           byIndex == IndexLimit(base, scene.bar, scene.reference, index, minute)
           guarded == IF guard THEN byIndex ELSE NoFreeze(base)
           free == IF hedge.overlay THEN EquityLimit(base, equity) ELSE guarded
<1>1. base \in 0..100
  <2> DEFINE name == RegimeName(scene.mood)
  <2> HIDE DEF name
  <2>1. BaseCap(name) \in 0..100
    BY HedgeTyped DEF BaseCap
  <2> QED BY <2>1 DEF name
<1>2. limit = IF hedge.regimes THEN free ELSE [free EXCEPT !.cap = hedge.maxExposure]
  BY DEF LimitOf
<1>3. /\ scene.bar \in {NoValue} \cup LeapsBars
      /\ scene.reference \in {NoValue} \cup (Nat \ {0})
  BY LeapsAssumption
<1> HIDE DEF base, minute
<1>4. guard => LimitFrom(byIndex, index)
  BY <1>1, <1>3, IndexLimitTyped
<1>5. LimitFrom(NoFreeze(base), index) /\ ~NoFreeze(base).released
  <2>1. ~NoFreeze(base).released
    BY DEF NoFreeze, Limit
  <2> QED BY <1>1, <2>1, NoFreezeTyped
<1> HIDE DEF byIndex
<1>6. LimitFrom(guarded, index) /\ (guarded.released => guard)
  BY <1>4, <1>5
<1>7. hedge.overlay => LimitFrom(EquityLimit(base, equity), index) /\ ~EquityLimit(base, equity).released
  BY <1>1, EquityLimitTyped
<1> HIDE DEF guarded
<1>8. LimitFrom(free, index) /\ (free.released => guard)
  BY <1>6, <1>7
<1> HIDE DEF free
<1>9. LimitFrom([free EXCEPT !.cap = hedge.maxExposure], index)
      /\ [free EXCEPT !.cap = hedge.maxExposure].released = free.released
  <2>1. hedge.maxExposure \in 0..100
    BY HedgeTyped
  <2> QED BY <1>8, <2>1 DEF LimitFrom, LeapsLimits
<1> QED BY <1>2, <1>8, <1>9

-------------------------------------------------------------------------------
(* What the records of a session know of its bars and of its equities.         *)

LEMMA RisingNext ==
  ASSUME NEW values \in Seq(Int), NEW v \in Int, NEW n \in Nat, Rising(values, n),
         n > 0 => v >= values[Len(values)]
  PROVE  Rising(values \o <<v>>, n + 1)
<1> DEFINE more == values \o <<v>>
           m == Len(values)
<1>1. /\ m \in Nat /\ Len(more) = m + 1 /\ more[m + 1] = v
      /\ \A i \in 1..m : more[i] = values[i] /\ values[i] \in Int
  OBVIOUS
<1>2. m >= n /\ \A i \in (m - n + 2)..m : values[i - 1] <= values[i]
  BY DEF Rising
<1> HIDE DEF more
<1>3. ASSUME NEW i \in ((m + 1) - (n + 1) + 2)..(m + 1) PROVE more[i - 1] <= more[i]
  <2> HIDE DEF m
  <2>1. CASE i = m + 1
    <3>1. n > 0 /\ m \in 1..m /\ i - 1 = m
      BY <1>1, <1>2, <2>1
    <3>2. v >= values[m]
      BY <3>1 DEF m
    <3> QED BY <1>1, <2>1, <3>1, <3>2
  <2>2. CASE i # m + 1
    <3>1. i \in (m - n + 2)..m /\ i \in 1..m /\ i - 1 \in 1..m
      BY <1>1, <1>2, <2>2
    <3>2. more[i] = values[i] /\ more[i - 1] = values[i - 1]
      BY <1>1, <3>1
    <3> QED BY <1>2, <3>1, <3>2
  <2> QED BY <2>1, <2>2
<1>4. Len(more) >= n + 1
  BY <1>1, <1>2
<1> QED BY <1>1, <1>3, <1>4 DEF Rising, more

LEMMA RisingLess ==
  ASSUME NEW values \in Seq(Int), NEW n \in Nat, NEW k \in Nat, k <= n, Rising(values, n)
  PROVE  Rising(values, k)
<1>1. Len(values) \in Nat
  OBVIOUS
<1>2. \A i \in (Len(values) - k + 2)..Len(values) : i \in (Len(values) - n + 2)..Len(values)
  BY <1>1
<1> QED BY <1>1, <1>2 DEF Rising

\* Of one value, and of none.
LEMMA RisingFirst ==
  ASSUME NEW values \in Seq(Int)
  PROVE  Rising(values, 0) /\ (values # << >> => Rising(values, 1))
<1>1. Len(values) \in Nat /\ (values # << >> => Len(values) >= 1)
  OBVIOUS
<1>2. (Len(values) - 0 + 2)..Len(values) = {} /\ (Len(values) - 1 + 2)..Len(values) = {}
  BY <1>1
<1> QED BY <1>1, <1>2 DEF Rising

LEMMA ClosesNext ==
  ASSUME NEW bars \in Seq(LeapsBars), NEW bar \in LeapsBars
  PROVE  /\ Closes(bars) \in Seq(Int) /\ Len(Closes(bars)) = Len(bars)
         /\ Closes(bars \o <<bar>>) = Closes(bars) \o <<bar.close>>
         /\ Lows(bars \o <<bar>>) = Lows(bars) \cup {bar.low, bar.close}
         /\ bars # << >> => Closes(bars)[Len(bars)] = bars[Len(bars)].close
<1> DEFINE more == bars \o <<bar>>
           m == Len(bars)
<1>1. /\ m \in Nat /\ DOMAIN bars = 1..m /\ DOMAIN more = 1..(m + 1) /\ more[m + 1] = bar
      /\ \A i \in 1..m : more[i] = bars[i] /\ bars[i] \in LeapsBars
  OBVIOUS
<1>2. \A i \in 1..m : bars[i].close \in Int
  BY <1>1 DEF LeapsBars
<1> HIDE DEF more, m
<1>3. Closes(bars) = [i \in 1..m |-> bars[i].close]
  BY <1>1 DEF Closes
<1>4. Closes(bars) \in Seq(Int) /\ Len(Closes(bars)) = m
  BY <1>1, <1>2, <1>3
<1>5. Closes(more) = [i \in 1..(m + 1) |-> more[i].close]
  BY <1>1 DEF Closes
<1>6. Closes(more) = Closes(bars) \o <<bar.close>>
  <2> DEFINE old == Closes(bars)
             new == old \o <<bar.close>>
  <2>1. /\ DOMAIN new = 1..(m + 1) /\ new[m + 1] = bar.close
        /\ \A i \in 1..m : new[i] = old[i]
        /\ new = [i \in 1..(m + 1) |-> new[i]]
    BY <1>1, <1>4
  <2>2. \A i \in 1..m : old[i] = bars[i].close
    BY <1>3
  <2> HIDE DEF old, new
  <2>3. \A i \in 1..(m + 1) : i \in 1..m \/ i = m + 1
    BY <1>1
  <2>4. \A i \in 1..(m + 1) : new[i] = more[i].close
    BY <1>1, <2>1, <2>2, <2>3
  <2>5. new = Closes(more)
    BY <1>5, <2>1, <2>4
  <2> QED BY <2>5 DEF new, old
<1>7. Lows(more) = Lows(bars) \cup {bar.low, bar.close}
  <2>1. \A i : i \in 1..(m + 1) <=> i \in 1..m \/ i = m + 1
    BY <1>1
  <2>2. \A x : x \in Lows(more) <=> \E i \in 1..(m + 1) : x = more[i].low \/ x = more[i].close
    BY <1>1 DEF Lows
  <2>3. \A x : x \in Lows(bars) <=> \E i \in 1..m : x = bars[i].low \/ x = bars[i].close
    BY <1>1 DEF Lows
  <2> QED BY <1>1, <2>1, <2>2, <2>3
<1>8. bars # << >> => m \in 1..m
  BY <1>1 DEF m
<1>9. bars # << >> => Closes(bars)[m] = bars[m].close
  BY <1>3, <1>8
<1> QED BY <1>4, <1>6, <1>7, <1>9 DEF more, m

\* A record is of the session if and only if the session has something in it.
Dated(record, past, moment) ==
  /\ record.day \in LeapsFigures /\ (record.day # NoValue => record.day <= Session(moment))
  /\ (past # << >>) <=> (record.day = Session(moment))

\* The extremes and the count of the index guard are those of the session's bars.
IndexFits(index, bars) ==
  /\ index \in LeapsIndexes /\ bars \in Seq(LeapsBars) /\ bars # << >>
  /\ index.last = bars[Len(bars)].close
  /\ index.low \in Lows(bars) /\ \A x \in Lows(bars) : index.low <= x
  /\ Rising(Closes(bars), index.count)
IndexKept(index, bars, moment) ==
  /\ bars \in Seq(LeapsBars) /\ Dated(index, bars, moment)
  /\ bars # << >> => IndexFits(index, bars)

LEMMA IndexNext ==
  ASSUME hedge \in HedgeSetups, NEW moment \in Nat, NEW index, NEW bars,
         IndexKept(index, bars, moment), NEW bar \in LeapsBars,
         NEW after, after = IndexState(index, Session(moment), bar)
  PROVE  /\ IndexFits(after, bars \o <<bar>>) /\ after.day = Session(moment)
         /\ after.count >= hedge.indexConfirm => Bps(bar.close, after.low) >= hedge.indexRecovery
<1> DEFINE day == Session(moment)
           same == index.day = day
           low == Least(IF same THEN index.low ELSE bar.low, Least(bar.low, bar.close))
           high == Most(IF same THEN index.high ELSE bar.high, Most(bar.high, bar.close))
           steady == ~same \/ bar.close >= index.last
           ready == hedge.indexRecovers /\ Bps(bar.close, low) >= hedge.indexRecovery /\ steady
           count == IF ~ready THEN 0 ELSE IF same THEN index.count + 1 ELSE 1
           more == bars \o <<bar>>
<1>1. /\ after = [day |-> day, high |-> high, low |-> low, last |-> bar.close, count |-> count]
  BY DEF IndexState
<1>2. /\ bars \in Seq(LeapsBars) /\ (bars # << >> <=> same)
      /\ same => IndexFits(index, bars)
  BY DEF IndexKept, Dated
<1>3. bar.high \in Nat \ {0} /\ bar.low \in Nat \ {0} /\ bar.close \in Nat \ {0}
  BY DEF LeapsBars
<1>4. same => /\ index.high \in Nat \ {0} /\ index.low \in Nat \ {0} /\ index.count \in Nat
              /\ index.last \in Nat
  BY <1>2 DEF IndexFits, LeapsIndexes
<1>5. day \in Int
  BY LeapsAssumption DEF Session
<1>6. /\ low \in Nat \ {0} /\ high \in Nat \ {0} /\ low <= bar.low /\ low <= bar.close
      /\ same => low <= index.low
      /\ low \in {bar.low, bar.close} \/ (same /\ low = index.low)
  BY <1>3, <1>4 DEF Least, Most
<1>7. count \in Nat /\ (count = 0 \/ (ready /\ count = (IF same THEN index.count + 1 ELSE 1)))
  <2> HIDE DEF same, ready
  <2> QED BY <1>4
<1>8. /\ Closes(bars) \in Seq(Int) /\ Len(Closes(bars)) = Len(bars)
      /\ Closes(more) = Closes(bars) \o <<bar.close>>
      /\ Lows(more) = Lows(bars) \cup {bar.low, bar.close}
      /\ bars # << >> => Closes(bars)[Len(bars)] = bars[Len(bars)].close
  BY <1>2, ClosesNext
<1>9. /\ more \in Seq(LeapsBars) /\ more # << >> /\ more[Len(more)] = bar
      /\ bars = << >> => Closes(bars) = << >> /\ Lows(bars) = {}
  <2>1. /\ more \in Seq(LeapsBars) /\ more # << >> /\ more[Len(more)] = bar
    BY <1>2
  <2>2. ASSUME bars = << >> PROVE Closes(bars) = << >> /\ Lows(bars) = {}
    <3>1. DOMAIN bars = {} /\ Len(Closes(bars)) = 0
      BY <1>8, <2>2
    <3>2. Closes(bars) = << >>
      BY <1>8, <3>1
    <3>3. Lows(bars) = {}
      BY <3>1 DEF Lows
    <3> QED BY <3>2, <3>3
  <2> QED BY <2>1, <2>2
<1>10. /\ low \in Lows(more) /\ \A x \in Lows(more) : low <= x
  <2>1. CASE same
    <3>1. index.low \in Lows(bars) /\ \A x \in Lows(bars) : index.low <= x
      BY <1>2, <2>1 DEF IndexFits
    <3>2. Lows(bars) \subseteq Int
      <4>1. \A i \in DOMAIN bars : bars[i].low \in Int /\ bars[i].close \in Int
        <5>1. \A i \in DOMAIN bars : bars[i] \in LeapsBars
          BY <1>2
        <5> QED BY <5>1 DEF LeapsBars
      <4> QED BY <4>1 DEF Lows
    <3> HIDE DEF low, same
    <3>3. \A x \in Lows(bars) : low <= x
      BY <1>4, <1>6, <2>1, <3>1, <3>2
    <3> QED BY <1>6, <1>8, <3>1, <3>3
  <2>2. CASE ~same
    <3>1. Lows(bars) = {}
      BY <1>2, <1>9, <2>2
    <3> HIDE DEF low, same
    <3> QED BY <1>6, <1>8, <2>2, <3>1
  <2> QED BY <2>1, <2>2
<1>11. Rising(Closes(more), count)
  <2>1. Closes(more) \in Seq(Int) /\ Closes(more) # << >>
    <3> DEFINE values == Closes(bars)
               v == bar.close
    <3>1. values \in Seq(Int) /\ v \in Int
      BY <1>3, <1>8
    <3> HIDE DEF values, v
    <3>2. values \o <<v>> \in Seq(Int) /\ values \o <<v>> # << >>
      BY <3>1
    <3> QED BY <1>8, <3>2 DEF values, v
  <2>2. CASE count = 0
    BY <2>1, <2>2, RisingFirst
  <2>3. CASE count # 0 /\ same
    <3>1. count = index.count + 1 /\ bar.close >= index.last
      BY <1>7, <2>3
    <3>2. Rising(Closes(bars), index.count) /\ index.last = Closes(bars)[Len(Closes(bars))]
      BY <1>2, <1>8, <2>3 DEF IndexFits
    <3>3. Rising(Closes(bars) \o <<bar.close>>, index.count + 1)
      <4> DEFINE values == Closes(bars)
                 v == bar.close
                 n == index.count
      <4>1. values \in Seq(Int) /\ v \in Int /\ n \in Nat /\ Rising(values, n)
            /\ v >= values[Len(values)]
        BY <1>3, <1>4, <1>8, <2>3, <3>1, <3>2
      <4> HIDE DEF values, v, n
      <4>2. Rising(values \o <<v>>, n + 1)
        BY <4>1, RisingNext
      <4> QED BY <4>2 DEF values, v, n
    <3> QED BY <1>8, <3>1, <3>3
  <2>4. CASE count # 0 /\ ~same
    <3>1. count = 1
      BY <1>7, <2>4
    <3> QED BY <2>1, <3>1, RisingFirst
  <2> QED BY <2>2, <2>3, <2>4
<1>12. ASSUME count >= hedge.indexConfirm PROVE Bps(bar.close, low) >= hedge.indexRecovery
  <2>1. hedge.indexConfirm \in Nat \ {0}
    BY HedgeTyped
  <2>2. count # 0
    BY <1>7, <1>12, <2>1
  <2> HIDE DEF count
  <2> QED BY <1>7, <2>2
<1> HIDE DEF count, low, high, day, more
<1>13. after \in LeapsIndexes
  BY <1>1, <1>3, <1>5, <1>6, <1>7 DEF LeapsIndexes, LeapsFigures
<1>14. after.last = bar.close /\ after.low = low /\ after.count = count /\ after.day = day
  BY <1>1
<1>15. IndexFits(after, more)
  BY <1>9, <1>10, <1>11, <1>13, <1>14 DEF IndexFits
<1> QED BY <1>12, <1>14, <1>15 DEF more, day

\* The count of the equity overlay is that of the session's equities without a loss.
EquityFits(equity, worth) ==
  /\ worth # << >> /\ equity.last = worth[Len(worth)]
  /\ Rising(worth, equity.count + 1)
EquityKept(equity, worth, moment) ==
  /\ equity \in LeapsEquities /\ worth \in Seq(Nat \ {0}) /\ Dated(equity, worth, moment)
  /\ worth # << >> => EquityFits(equity, worth)

\* One cycle's equity: the record stays fit, and the overlay comes down by one step only.
EquityStepped(equity, after, worth, moment) ==
  /\ after \in LeapsEquities /\ after.day = Session(moment)
  /\ EquityFits(after, worth)
  /\ equity.day = after.day /\ Severity[after.overlay] < Severity[equity.overlay]
     => /\ Severity[after.overlay] = Severity[equity.overlay] - 1
        /\ Rising(worth, hedge.confirm + 1)

LEMMA EquityNext ==
  ASSUME hedge \in HedgeSetups, NEW moment \in Nat, NEW equity, NEW worth,
         EquityKept(equity, worth, moment), NEW value \in Nat \ {0},
         NEW after, after = EquityState(equity, Session(moment), value)
  PROVE  EquityStepped(equity, after, worth \o <<value>>, moment)
<1> DEFINE Overlays == {"none", "entry_freeze", "risk_off"}
           day == Session(moment)
           same == equity.day = day
           anchor == IF equity.last > 0 THEN equity.last ELSE value
           before == IF same THEN equity.overlay ELSE "none"
           peak == Most(IF same THEN equity.peak ELSE anchor, value)
           trough == IF before = "none" THEN value ELSE Least(equity.trough, value)
           step == IF equity.last > 0 THEN Bps(value, equity.last) ELSE 0
           raw == RawOverlay(step, Bps(value, peak))
           hit == RawOverlay(step, 0)
           recovering == Bps(value, trough) >= hedge.recovery /\ step >= 0
           count == IF before # "none" /\ hit = "none" /\ recovering THEN equity.count + 1 ELSE 0
           overlay ==
             IF before = "none" THEN raw
             ELSE IF hit # "none" THEN Stronger(before, hit)
             ELSE IF count < hedge.confirm THEN Stronger(before, raw) ELSE Lifted(before)
           cleared == overlay = "none" /\ before # "none"
           peak2 == IF cleared THEN value ELSE peak
           trough2 == IF cleared THEN value ELSE trough
           more == worth \o <<value>>
<1>1. after = [day |-> day, last |-> value, peak |-> peak2, trough |-> trough2,
               overlay |-> overlay, count |-> count]
  BY DEF EquityState
<1>2. /\ equity.day \in LeapsFigures /\ equity.last \in Nat /\ equity.peak \in Nat
      /\ equity.trough \in Nat /\ equity.count \in Nat /\ equity.overlay \in Overlays
  BY DEF EquityKept, LeapsEquities
<1>3. /\ worth \in Seq(Nat \ {0}) /\ (worth # << >> <=> same)
      /\ same => EquityFits(equity, worth)
  BY DEF EquityKept, Dated
<1>4. day \in Int /\ hedge.confirm \in Nat \ {0}
  BY LeapsAssumption, HedgeTyped DEF Session
<1>5. peak \in Nat /\ trough \in Nat
  BY <1>2 DEF Most, Least
<1>6. before \in Overlays /\ raw \in Overlays /\ hit \in Overlays /\ Lifted(before) \in Overlays
  BY <1>2 DEF RawOverlay, Lifted
<1>7. step >= 0 /\ equity.last > 0 => value >= equity.last
  <2> SUFFICES ASSUME step >= 0, equity.last > 0 PROVE value >= equity.last
    OBVIOUS
  <2> DEFINE e == equity.last
             q == (value * 10000) \div e
  <2>1. e \in Nat \ {0} /\ value * 10000 \in Int
    BY <1>2
  <2> HIDE DEF e
  <2>2. q \in Int /\ e * q <= value * 10000
    BY <2>1, DivBound
  <2>3. step = q - 10000
    BY DEF Bps, e
  <2> HIDE DEF q, step
  <2>4. q >= 10000
    BY <2>2, <2>3
  <2>5. e * 10000 <= e * q
    BY <2>1, <2>2, <2>4
  <2>6. e * q \in Int
    BY <2>1, <2>2
  <2>7. e <= value
    BY <2>1, <2>2, <2>5, <2>6
  <2> QED BY <2>7 DEF e
<1>8. count \in Nat /\ (count = 0 \/ (before # "none" /\ step >= 0 /\ count = equity.count + 1))
  <2> HIDE DEF before, hit, step, recovering
  <2>1. recovering => step >= 0
    BY DEF recovering
  <2> QED BY <1>2, <2>1
<1> HIDE DEF count, step, raw, hit, peak, trough, recovering, anchor
<1>9. before # "none" => same /\ before = equity.overlay
  OBVIOUS
<1> HIDE DEF before
<1>10. overlay \in Overlays
  BY <1>6 DEF Stronger
<1>11. Severity[overlay] < Severity[before] => Severity[overlay] = Severity[before] - 1 /\ count >= hedge.confirm
  <2>1. Severity["none"] = 0 /\ Severity["entry_freeze"] = 1 /\ Severity["risk_off"] = 2
    BY DEF Severity
  <2>2. \A x, y \in Overlays : Severity[Stronger(x, y)] >= Severity[x]
    BY <2>1 DEF Stronger
  <2>3. \A x \in Overlays : Severity[x] \in 0..2
    BY <2>1
  <2>4. before = "none" => ~(Severity[overlay] < Severity[before])
    BY <1>10, <2>1, <2>3
  <2>5. CASE before # "none" /\ hit # "none"
    <3>1. overlay = Stronger(before, hit)
      BY <2>5
    <3> HIDE DEF overlay
    <3>2. Severity[overlay] >= Severity[before]
      BY <1>6, <2>2, <3>1
    <3> QED BY <1>6, <1>10, <2>3, <3>2
  <2>6. CASE before # "none" /\ ~(hit # "none") /\ count < hedge.confirm
    <3>1. overlay = Stronger(before, raw)
      BY <2>6
    <3> HIDE DEF overlay
    <3>2. Severity[overlay] >= Severity[before]
      BY <1>6, <2>2, <3>1
    <3> QED BY <1>6, <1>10, <2>3, <3>2
  <2>7. CASE before # "none" /\ ~(hit # "none") /\ ~(count < hedge.confirm)
    <3>1. overlay = Lifted(before)
      BY <2>7
    <3> HIDE DEF overlay
    <3>2. count >= hedge.confirm
      BY <1>4, <1>8, <2>7
    <3> QED BY <1>6, <2>1, <2>7, <3>1, <3>2 DEF Lifted
  <2> QED BY <2>4, <2>5, <2>6, <2>7
<1>12. more \in Seq(Int) /\ more # << >> /\ more[Len(more)] = value
  BY <1>3
<1>13. Rising(more, count + 1)
  <2>1. CASE count = 0
    <3> HIDE DEF more
    <3>1. Rising(more, 1)
      BY <1>12, RisingFirst
    <3>2. count + 1 = 1
      BY <2>1
    <3> QED BY <3>1, <3>2
  <2>2. CASE count # 0
    <3>1. /\ same /\ count = equity.count + 1 /\ step >= 0
      BY <1>8, <1>9, <2>2
    <3>2. EquityFits(equity, worth) /\ worth # << >>
      BY <1>3, <3>1
    <3>3. equity.last = worth[Len(worth)] /\ Rising(worth, equity.count + 1)
      BY <3>2 DEF EquityFits
    <3>4. worth[Len(worth)] \in Nat \ {0} /\ worth \in Seq(Int)
      BY <1>3, <3>2
    <3>5. value >= worth[Len(worth)]
      BY <1>7, <3>1, <3>3, <3>4
    <3>6. count \in Nat /\ value \in Int /\ Rising(worth, count)
      BY <1>8, <3>1, <3>3
    <3> QED BY <3>4, <3>5, <3>6, RisingNext
  <2> QED BY <2>1, <2>2
<1>14. /\ after.day = day /\ after.last = value /\ after.overlay = overlay /\ after.count = count
  BY <1>1
<1>15. peak2 \in Nat /\ trough2 \in Nat
  BY <1>5
<1> HIDE DEF overlay, peak2, trough2, day, more
<1>16. after \in LeapsEquities
  BY <1>1, <1>4, <1>8, <1>10, <1>15 DEF LeapsEquities, LeapsFigures
<1>17. EquityFits(after, more)
  BY <1>12, <1>13, <1>14 DEF EquityFits
<1>18. ASSUME equity.day = after.day, Severity[after.overlay] < Severity[equity.overlay]
       PROVE  /\ Severity[after.overlay] = Severity[equity.overlay] - 1
              /\ Rising(more, hedge.confirm + 1)
  <2>1. before = equity.overlay
    BY <1>14, <1>18 DEF before
  <2>2. Severity[overlay] = Severity[before] - 1 /\ count >= hedge.confirm
    BY <1>11, <1>14, <1>18, <2>1
  <2>3. hedge.confirm + 1 \in Nat /\ count + 1 \in Nat /\ hedge.confirm + 1 <= count + 1
    BY <1>4, <1>8, <2>2
  <2>4. Rising(more, hedge.confirm + 1)
    <3> DEFINE k == hedge.confirm + 1
               n == count + 1
    <3>1. k \in Nat /\ n \in Nat /\ k <= n /\ Rising(more, n)
      BY <1>13, <2>3
    <3> HIDE DEF k, n
    <3>2. Rising(more, k)
      BY <1>12, <3>1, RisingLess
    <3> QED BY <3>2 DEF k
  <2> QED BY <1>14, <2>1, <2>2, <2>4
<1> QED BY <1>14, <1>16, <1>17, <1>18 DEF EquityStepped, more, day

-------------------------------------------------------------------------------
(* What the mark of a stock knows of the cuts and of the size at the first.     *)

MarkKept(mark, size, cut, moment) ==
  /\ mark \in LeapsMarks
  /\ mark.anchor \in {NoValue} \cup (Nat \ {0})
  /\ mark.status = "reduced" => mark.anchor # NoValue
  /\ size # NoValue => mark.status = "reduced" /\ size \in Nat /\ size <= mark.anchor
  /\ cut # NoValue =>
       cut \in Int /\ cut < moment /\ mark.event = cut /\ mark.cause \in {"reduced", "exited"}

\* The decision on a symbol, where there is one.
OneOn(ds, y) ==
  \/ DecisionsOn(ds, y) = {} /\ \A i \in DOMAIN ds : ds[i].symbol # y
  \/ \E i \in DOMAIN ds : /\ DecisionsOn(ds, y) = {ds[i]} /\ ds[i].symbol = y
                          /\ \A j \in DOMAIN ds : ds[j].symbol = y => j = i

LEMMA OneDecision ==
  ASSUME NEW ds, NEW granted, NEW done, NEW p, NEW marks, NEW targets,
         AnsweredBy(ds, granted, done, p, marks, targets), NEW y
  PROVE  OneOn(ds, y)
<1>1. CASE \A i \in DOMAIN ds : ds[i].symbol # y
  BY <1>1 DEF OneOn, DecisionsOn
<1>2. ASSUME NEW i \in DOMAIN ds, ds[i].symbol = y PROVE OneOn(ds, y)
  <2>1. \A j \in DOMAIN ds : ds[j].symbol = y => j = i
    BY <1>2 DEF AnsweredBy
  <2>2. {j \in DOMAIN ds : ds[j].symbol = y} = {i}
    BY <1>2, <2>1
  <2>3. DecisionsOn(ds, y) = {ds[i]}
    BY <2>2 DEF DecisionsOn
  <2> QED BY <1>2, <2>1, <2>3 DEF OneOn
<1> QED BY <1>1, <1>2

\* What was held at the first cut of a mark, after one more cycle.
SizeNext(status, size, halves, holds) ==
  IF status # "reduced" THEN NoValue
  ELSE IF size # NoValue THEN size ELSE IF halves THEN holds ELSE NoValue

LEMMA MarkNext ==
  ASSUME hedge \in HedgeSetups, NEW p \in LeapsBooks, NEW marks \in [Stocks -> LeapsMarks],
         NEW targets, NEW d, Backed(d, p, marks, targets), NEW y \in Stocks, d.symbol = y,
         NEW moment \in Nat, NEW size, NEW cut, MarkKept(marks[y], size, cut, moment),
         NEW after, after = MarkAfter(marks[y], d, moment),
         NEW halves \in BOOLEAN, halves <=> d.reason = "guard_reduce" /\ d.granted < d.current,
         NEW size2, size2 = SizeNext(after.status, size, halves, p.shares[y]),
         NEW cut2, cut2 = IF d.reason \in {"guard_exit", "guard_reduce"} THEN moment ELSE cut
  PROVE  MarkKept(after, size2, cut2, moment + 1)
<1> DEFINE mark == marks[y]
           current == p.shares[y]
           Guarded == hedge.symbolGuard /\ y \notin Safety
<1>1. /\ d \in LeapsDecisions /\ d.current = current /\ current \in Nat /\ mark \in LeapsMarks
  BY DEF Backed, LeapsBooks
<1>2. /\ mark.anchor \in LeapsFigures /\ mark.event \in LeapsFigures /\ mark.confirmed \in Int
      /\ mark.status \in {NoValue, "reduced", "exited", "recovering", "clear"}
      /\ mark.cause \in {NoValue, "reduced", "exited"}
      /\ mark = [status |-> mark.status, anchor |-> mark.anchor, confirmed |-> mark.confirmed,
                 event |-> mark.event, cause |-> mark.cause]
  BY <1>1 DEF LeapsMarks
<1>3. d.anchor \in LeapsFigures /\ d.reason \in LeapsReasons
  BY <1>1 DEF LeapsDecisions
<1>4. moment # NoValue /\ moment \in Int /\ moment < moment + 1 /\ moment \in LeapsFigures
  BY HedgeAssumption DEF LeapsFigures
<1>5. d.reason \in {"guard_exit", "guard_reduce"} => Guarded
  BY DEF Backed
<1>6. CASE d.reason = "guard_reduce"
  <2> DEFINE anchor == IF d.anchor # NoValue THEN d.anchor
                       ELSE IF mark.anchor # NoValue THEN mark.anchor ELSE d.current
  <2>1. after = [status |-> "reduced", confirmed |-> mark.confirmed, event |-> moment,
                 cause |-> "reduced", anchor |-> anchor]
    BY <1>2, <1>5, <1>6 DEF MarkAfter
  <2>2. /\ current > 0 /\ d.granted = ReducedTo(d.anchor, current)
        /\ \E wanted \in Int : d.anchor = Anchor(mark, current, wanted)
    BY <1>1, <1>6 DEF Backed
  <2>3. /\ mark.status = "reduced" /\ mark.anchor # NoValue /\ mark.anchor > 0
            => d.anchor = Most(mark.anchor, current)
        /\ mark.status # "reduced" => d.anchor \in {NoValue, current}
    BY <1>1, <2>2, AnchorTyped
  <2>4. mark.anchor \in {NoValue} \cup (Nat \ {0}) /\ (mark.status = "reduced" => mark.anchor # NoValue)
    BY DEF MarkKept
  <2>5. CASE mark.status = "reduced"
    <3>1. d.anchor = Most(mark.anchor, current) /\ mark.anchor \in Nat \ {0}
      BY <2>3, <2>4, <2>5
    <3>2. d.anchor \in Nat \ {0} /\ mark.anchor <= d.anchor /\ current <= d.anchor
      BY <1>1, <3>1 DEF Most
    <3>3. anchor = d.anchor
      BY <3>2, HedgeAssumption
    <3> HIDE DEF anchor
    <3>4. size # NoValue => size \in Nat /\ size <= mark.anchor
      BY DEF MarkKept
    <3> HIDE DEF mark
    <3>5. anchor \in Nat \ {0} /\ current <= anchor
      BY <3>2, <3>3
    <3>6. size # NoValue => size \in Nat /\ size <= anchor
      BY <3>1, <3>2, <3>3, <3>4
    <3>7. after \in LeapsMarks
      BY <1>2, <1>4, <2>1, <3>5 DEF LeapsMarks, LeapsFigures
    <3>8. size2 # NoValue => size2 \in Nat /\ size2 <= anchor
      BY <1>1, <3>5, <3>6 DEF SizeNext
    <3>9. anchor # NoValue
      BY <3>5, HedgeAssumption
    <3> QED BY <1>4, <1>6, <2>1, <3>5, <3>7, <3>8, <3>9 DEF MarkKept, SizeNext
  <2>6. CASE mark.status # "reduced"
    <3>1. size = NoValue
      BY <2>6 DEF MarkKept
    <3>2. anchor \in Nat \ {0}
      BY <1>1, <2>2, <2>3, <2>4, <2>6
    <3>3. d.anchor = NoValue => ~(d.granted < d.current)
      BY <1>1, <2>2 DEF ReducedTo
    <3>4. d.anchor # NoValue => anchor = current
      BY <2>3, <2>6
    <3> HIDE DEF anchor, mark
    <3>5. size2 # NoValue => size2 \in Nat /\ size2 <= anchor
      BY <1>1, <1>6, <3>1, <3>3, <3>4 DEF SizeNext
    <3>6. after \in LeapsMarks
      BY <1>2, <1>4, <2>1, <3>2 DEF LeapsMarks, LeapsFigures
    <3>7. anchor # NoValue
      BY <3>2, HedgeAssumption
    <3> QED BY <1>4, <1>6, <2>1, <3>2, <3>5, <3>6, <3>7 DEF MarkKept, SizeNext
  <2> QED BY <2>5, <2>6
<1>7. CASE d.reason = "guard_exit"
  <2>1. after = [status |-> "exited", confirmed |-> mark.confirmed, event |-> moment,
                 cause |-> "exited", anchor |-> mark.anchor]
    BY <1>2, <1>5, <1>7 DEF MarkAfter
  <2>2. mark.anchor \in {NoValue} \cup (Nat \ {0})
    BY DEF MarkKept
  <2> HIDE DEF mark
  <2>3. after \in LeapsMarks
    BY <1>2, <1>4, <2>1 DEF LeapsMarks
  <2> QED BY <1>4, <1>7, <2>1, <2>2, <2>3 DEF MarkKept, SizeNext
<1>8. CASE d.reason \notin {"guard_exit", "guard_reduce"}
  <2>1. cut2 = cut /\ (cut # NoValue => cut \in Int /\ cut < moment + 1)
    BY <1>4, <1>8 DEF MarkKept
  <2>2. \/ after = mark
        \/ /\ mark.status \in {"reduced", "exited", "recovering"}
           /\ after = Recovering(mark, d, moment)
    BY <1>8 DEF MarkAfter
  <2>3. CASE after = mark
    <3>1. size2 = IF mark.status # "reduced" THEN NoValue ELSE size
      BY <1>8, <2>3 DEF SizeNext
    <3> QED BY <2>1, <2>3, <3>1 DEF MarkKept
  <2>4. CASE after = Recovering(mark, d, moment)
    <3>1. /\ after.status \in {"recovering", "clear"} /\ after.anchor = NoValue
          /\ after.event = mark.event /\ after.cause = mark.cause
          /\ after.confirmed = mark.confirmed + 1
          /\ after = [status |-> after.status, anchor |-> after.anchor,
                      confirmed |-> after.confirmed, event |-> after.event, cause |-> after.cause]
      BY <1>2, <2>4 DEF Recovering
    <3>2. after \in LeapsMarks
      BY <1>2, <3>1 DEF LeapsMarks, LeapsFigures
    <3> QED BY <2>1, <3>1, <3>2 DEF MarkKept, SizeNext
  <2> QED BY <2>2, <2>3, <2>4
<1> QED BY <1>6, <1>7, <1>8

\* Every mark, after the decisions of a cycle.
LEMMA MarksNext ==
  ASSUME hedge \in HedgeSetups, NEW p \in LeapsBooks, NEW marks \in [Stocks -> LeapsMarks],
         NEW targets, NEW ds, NEW granted, NEW done,
         AnsweredBy(ds, granted, done, p, marks, targets), NEW y \in Stocks,
         NEW moment \in Nat, NEW size, NEW cut, MarkKept(marks[y], size, cut, moment),
         NEW after, after = MarksAfter(marks, ds, moment)[y],
         NEW size2, size2 = SizeNext(after.status, size, Halves(ds, y), p.shares[y]),
         NEW cut2, cut2 = IF Cuts(ds, y) THEN moment ELSE cut
  PROVE  MarkKept(after, size2, cut2, moment + 1)
<1> DEFINE mine == DecisionsOn(ds, y)
<1>1. after = IF mine = {} THEN marks[y] ELSE MarkAfter(marks[y], CHOOSE d \in mine : TRUE, moment)
  BY DEF MarksAfter
<1>2. OneOn(ds, y)
  BY OneDecision
<1>3. CASE mine = {} /\ \A i \in DOMAIN ds : ds[i].symbol # y
  <2>1. ~Cuts(ds, y)
    BY <1>3 DEF Cuts
  <2>2. after = marks[y] /\ cut2 = cut
    BY <1>1, <1>3, <2>1
  <2> HIDE DEF mine
  <2>3. ~Halves(ds, y)
    BY <1>3 DEF Halves
  <2>4. size2 = IF marks[y].status # "reduced" THEN NoValue ELSE size
    BY <2>2, <2>3 DEF SizeNext
  <2> QED BY <2>2, <2>4 DEF MarkKept
<1>4. ASSUME NEW i \in DOMAIN ds, mine = {ds[i]}, ds[i].symbol = y,
             \A j \in DOMAIN ds : ds[j].symbol = y => j = i
      PROVE  MarkKept(after, size2, cut2, moment + 1)
  <2> DEFINE d == ds[i]
  <2>1. (CHOOSE e \in mine : TRUE) = d
    BY <1>4
  <2>2. mine # {}
    BY <1>4
  <2> HIDE DEF mine
  <2>3. after = MarkAfter(marks[y], d, moment)
    BY <1>1, <2>1, <2>2
  <2>4. Cuts(ds, y) <=> d.reason \in {"guard_exit", "guard_reduce"}
    BY <1>4 DEF Cuts
  <2>5. cut2 = IF d.reason \in {"guard_exit", "guard_reduce"} THEN moment ELSE cut
    BY <2>4
  <2>6. Backed(d, p, marks, targets) /\ d.symbol = y
    BY <1>4 DEF AnsweredBy
  <2>7. /\ Halves(ds, y) \in BOOLEAN
        /\ Halves(ds, y) <=> d.reason = "guard_reduce" /\ d.granted < d.current
    BY <1>4 DEF Halves
  <2> HIDE DEF d
  <2> QED BY <2>3, <2>5, <2>6, <2>7, MarkNext
<1> QED BY <1>2, <1>3, <1>4 DEF OneOn

-------------------------------------------------------------------------------
(* The orders of a cycle.                                                      *)

LEMMA ExecTyped ==
  ASSUME hedge \in HedgeSetups, exec = ExecutionFor[hedge]
  PROVE  /\ exec.maxSlices \in Nat /\ exec.reentry \in Nat /\ exec.sliceQuantity \in Nat
         /\ exec.sliceNotional \in Nat /\ exec.sliceFloor \in Nat /\ exec.sliceCeiling \in Nat
         /\ exec.slicePercent \in Nat /\ exec.auctionBuy \in Nat /\ exec.auctionSell \in Nat
         /\ exec.extendedBuy \in Nat /\ exec.extendedSell \in Nat
         /\ exec.volumeShare \in {NoValue} \cup (Nat \ {0})
         /\ exec.volumeFloor \in {NoValue} \cup Nat /\ exec.chase \in 0..100
BY ExecutionAssumption

LEMMA PartNat ==
  ASSUME NEW quantity \in Nat, NEW percent \in Nat
  PROVE  Part(quantity, percent) \in Nat /\ Most(1, (quantity * percent) \div 100) \in Nat
<1>1. quantity * percent \in Nat /\ 100 \in Nat \ {0}
  OBVIOUS
<1>2. (quantity * percent) \div 100 \in Nat
  BY <1>1, DivNat
<1>3. Most(1, (quantity * percent) \div 100) \in Nat
  BY <1>2 DEF Most
<1> QED BY <1>3 DEF Part

LEMMA ExecutionNat ==
  ASSUME hedge \in HedgeSetups, exec = ExecutionFor[hedge], NEW quantity \in Nat, NEW side,
         NEW fact \in LeapsFacts, fact.price # 0, NEW phase
  PROVE  ExecutionQuantity(quantity, side, fact, phase) \in Nat
<1> DEFINE share == SessionPercent(side, phase)
           inSession == Part(quantity, share)
           chased == side = "buy" /\ fact.day # NoValue /\ exec.chaseAt # NoValue /\ fact.day >= exec.chaseAt
           wanted == IF chased THEN Most(1, (inSession * exec.chase) \div 100) ELSE inSession
           volumeCap == VolumeCap(fact, phase)
<1>1. share \in Nat
  BY ExecTyped DEF SessionPercent
<1>2. ExecutionQuantity(quantity, side, fact, phase)
        = IF share = 0 THEN 0
          ELSE IF volumeCap = NoValue THEN wanted ELSE Least(wanted, volumeCap)
  BY DEF ExecutionQuantity
<1> HIDE DEF share
<1>3. inSession \in Nat
  BY <1>1, PartNat
<1> HIDE DEF inSession, chased
<1>4. wanted \in Nat
  <2>1. exec.chase \in Nat
    BY ExecTyped
  <2> QED BY <1>3, <2>1, PartNat
<1>5. volumeCap \in {NoValue} \cup Nat
  <2> DEFINE a == fact.volume \div exec.volumeShare
             b == (exec.volumeFloor + fact.price - 1) \div fact.price
             none == (phase = "auction" /\ ~exec.auctionVolume) \/ exec.volumeShare = NoValue \/ fact.volume = 0
  <2>1. fact.volume \in Nat /\ fact.price \in Nat \ {0}
    BY DEF LeapsFacts
  <2>2. ~none => a \in Nat
    <3>1. ~none => exec.volumeShare \in Nat \ {0}
      BY ExecTyped
    <3> QED BY <2>1, <3>1, DivNat
  <2>3. exec.volumeFloor # NoValue => b \in Nat
    <3> SUFFICES ASSUME exec.volumeFloor # NoValue PROVE b \in Nat
      OBVIOUS
    <3>1. exec.volumeFloor \in Nat
      BY ExecTyped
    <3>2. exec.volumeFloor + fact.price - 1 \in Nat
      BY <2>1, <3>1
    <3> QED BY <2>1, <3>2, DivNat
  <2>4. volumeCap = IF none THEN NoValue
                    ELSE Most(Most(1, a), IF exec.volumeFloor = NoValue THEN 1 ELSE b)
    BY DEF VolumeCap
  <2> DEFINE floor == IF exec.volumeFloor = NoValue THEN 1 ELSE b
  <2>5. floor \in Nat
    BY <2>3
  <2> HIDE DEF none, a, floor
  <2>6. CASE none
    <3>1. volumeCap = NoValue
      BY <2>4, <2>6 DEF floor
    <3> QED BY <3>1
  <2>7. CASE ~none
    <3>1. volumeCap = Most(Most(1, a), floor)
      BY <2>4, <2>7 DEF floor
    <3>2. Most(Most(1, a), floor) \in Nat
      BY <2>2, <2>5, <2>7 DEF Most
    <3> QED BY <3>1, <3>2
  <2> QED BY <2>6, <2>7
<1> HIDE DEF wanted, volumeCap
<1> QED BY <1>2, <1>4, <1>5 DEF Least

LEMMA SubmittedNat ==
  ASSUME hedge \in HedgeSetups, exec = ExecutionFor[hedge], NEW quantity \in Nat,
         NEW equity \in Nat, NEW fact \in LeapsFacts, fact.price # 0
  PROVE  SubmittedQuantity(quantity, equity, fact) \in Nat
<1> DEFINE e == (equity * exec.slicePercent) \div 100
           byEquity == Most(exec.sliceFloor, Least(exec.sliceCeiling, e))
           liquid == IF fact.liquidity = NoValue THEN byEquity ELSE Least(byEquity, fact.liquidity)
           notional == IF exec.dynamicSlices THEN Most(liquid, fact.price) ELSE exec.sliceNotional
           slice == Most(1, Least(exec.sliceQuantity, notional \div fact.price))
<1>1. fact.price \in Nat \ {0} /\ fact.liquidity \in {NoValue} \cup Nat
  BY DEF LeapsFacts
<1>2. e \in Nat
  <2>1. equity * exec.slicePercent \in Nat /\ 100 \in Nat \ {0}
    BY ExecTyped
  <2> QED BY <2>1, DivNat
<1>3. SubmittedQuantity(quantity, equity, fact) = Least(quantity, exec.maxSlices * slice)
  BY DEF SubmittedQuantity, SliceNotional
<1> HIDE DEF e
<1>4. byEquity \in Nat
  BY <1>2, ExecTyped DEF Most, Least
<1> HIDE DEF byEquity
<1>5. liquid \in Nat
  BY <1>1, <1>4 DEF Least
<1> HIDE DEF liquid
<1>6. notional \in Nat
  BY <1>1, <1>5, ExecTyped DEF Most
<1> HIDE DEF notional
<1>7. notional \div fact.price \in Nat
  BY <1>1, <1>6, DivNat
<1>8. slice \in Nat
  BY <1>7, ExecTyped DEF Most, Least
<1> HIDE DEF slice
<1>9. exec.maxSlices * slice \in Nat
  BY <1>8, ExecTyped
<1> QED BY <1>3, <1>9 DEF Least

LEMMA OrderTyped ==
  ASSUME hedge \in HedgeSetups, exec = ExecutionFor[hedge], NEW d \in LeapsDecisions,
         NEW open \in [buy : Nat, sell : Nat], NEW fact \in LeapsFacts, NEW trace, NEW mark,
         NEW batch, NEW equity \in Nat, NEW phase, NEW moment
  PROVE  CreateOrder(d, open, fact, trace, mark, batch, equity, phase, moment).quantity \in Nat
<1> DEFINE delta == Unordered(d, open)
           side == SideOf(delta)
           amount == Amount(delta)
           quantity == ExecutionQuantity(amount, side, fact, phase)
           order == CreateOrder(d, open, fact, trace, mark, batch, equity, phase, moment)
<1>1. delta \in Int
  BY DEF Unordered, LeapsDecisions
<1>2. \/ order = NoOrder
      \/ fact.price # 0 /\ order = [side |-> side, quantity |-> SubmittedQuantity(quantity, equity, fact)]
  BY DEF CreateOrder
<1> HIDE DEF delta, order
<1>3. amount \in Nat
  BY <1>1 DEF Amount
<1> HIDE DEF amount, side
<1>4. fact.price # 0 => quantity \in Nat
  BY <1>3, ExecutionNat
<1> HIDE DEF quantity
<1>5. fact.price # 0 => SubmittedQuantity(quantity, equity, fact) \in Nat
  BY <1>4, SubmittedNat
<1>6. order.quantity \in Nat
  BY <1>2, <1>5 DEF NoOrder
<1> QED BY <1>6 DEF order

\* What the guard has cut is bought only after the cooldown, or for a tagged target.
LEMMA BuyCools ==
  ASSUME hedge \in HedgeSetups, exec = ExecutionFor[hedge], NEW p \in LeapsBooks, NEW marks,
         NEW targets, NEW d, Backed(d, p, marks, targets),
         NEW open \in [buy : Nat, sell : Nat], NEW fact, NEW trace, NEW mark,
         NEW batch, NEW equity, NEW phase, NEW moment \in Nat, NEW size, NEW cut,
         MarkKept(mark, size, cut, moment), cut # NoValue, exec.steady,
         CreateOrder(d, open, fact, trace, mark, batch, equity, phase, moment).side = "buy"
  PROVE  \/ moment - cut > exec.reentry
         \/ \E i \in DOMAIN targets : targets[i].symbol = d.symbol /\ targets[i].tags # {}
<1> DEFINE delta == Unordered(d, open)
           quantity == ExecutionQuantity(Amount(delta), SideOf(delta), fact, phase)
           order == CreateOrder(d, open, fact, trace, mark, batch, equity, phase, moment)
<1>1. d \in LeapsDecisions /\ d.granted \in Int /\ d.current \in Nat /\ d.tags \subseteq LeapsTags
  BY DEF Backed, LeapsDecisions
<1>2. delta \in Int
  BY <1>1 DEF Unordered
<1>3. order # NoOrder
  BY HedgeAssumption DEF NoOrder
<1>4. /\ SideOf(delta) = SideOf(d.granted - d.current)
      /\ ~Suppressed(d, delta, fact.price, trace, mark, batch, moment)
      /\ SideOf(delta) = "buy"
  BY <1>3 DEF CreateOrder
<1> HIDE DEF delta, order
<1>5. delta > 0 /\ d.granted > d.current
  BY <1>1, <1>2, <1>4 DEF SideOf
<1>6. ~Oscillates(d, delta, fact.price, trace, mark, batch, moment)
  BY <1>4 DEF Suppressed
<1>7. ~Bypasses(d)
  BY <1>1, <1>5 DEF Bypasses
<1>8. CASE RiskTarget(d)
  <2>1. d.tags # {}
    BY <1>8 DEF RiskTarget
  <2> QED BY <1>5, <2>1 DEF Backed
<1>9. CASE ~RiskTarget(d)
  <2>1. ~GuardCooling(mark, moment)
    BY <1>5, <1>6, <1>7, <1>9 DEF Oscillates
  <2>2. cut \in Int /\ cut < moment /\ mark.event = cut /\ mark.cause \in {"reduced", "exited"}
    BY DEF MarkKept
  <2>3. ~WithinMinutes(cut, moment, exec.reentry)
    BY <2>1, <2>2 DEF GuardCooling
  <2>4. exec.reentry \in Nat
    BY ExecTyped
  <2> QED BY <2>2, <2>3, <2>4 DEF WithinMinutes
<1> QED BY <1>8, <1>9

-------------------------------------------------------------------------------
(* A cycle and the state it leaves.                                            *)

LEMMA SessionNext ==
  ASSUME NEW m \in Nat
  PROVE  /\ Session(m) \in Int /\ Session(m + 1) \in Int
         /\ MinuteOf(m + 1) = 0 => Session(m + 1) = Session(m) + 1
         /\ MinuteOf(m + 1) # 0 => Session(m + 1) = Session(m)
<1> DEFINE r == SessionLength
           q == m \div r
           k == m % r
           n == m + 1
           s == n \div r
           j == n % r
<1>0. r \in Nat \ {0}
  BY LeapsAssumption
<1> HIDE DEF r
<1>1. /\ q \in Int /\ k \in Int /\ m = r * q + k /\ 0 <= k /\ k < r
      /\ s \in Int /\ j \in Int /\ n = r * s + j /\ 0 <= j /\ j < r
  BY <1>0
<1>2. Session(m) = q /\ Session(m + 1) = s /\ MinuteOf(m + 1) = j
  BY DEF Session, MinuteOf, r
<1> HIDE DEF q, k, s, j
<1> DEFINE t == s - q
<1>3. t \in Int /\ r * s = r * q + r * t
  BY <1>0, <1>1
<1>4. r * t = k + 1 - j /\ r * t \in Int
  <2>1. r * q \in Int /\ r * s \in Int /\ r * t \in Int
    BY <1>0, <1>1, <1>3
  <2> HIDE DEF t
  <2> QED BY <1>1, <1>3, <2>1
<1> HIDE DEF t
<1>5. t >= 0 /\ t <= 1
  <2>1. ASSUME t <= -1 PROVE FALSE
    <3>1. r * t <= r * (-1)
      BY <1>0, <1>3, <2>1
    <3> QED BY <1>0, <1>1, <1>4, <3>1
  <2>2. ASSUME t >= 2 PROVE FALSE
    <3>1. r * t >= r * 2
      BY <1>0, <1>3, <2>2
    <3> QED BY <1>0, <1>1, <1>4, <3>1
  <2> QED BY <1>3, <2>1, <2>2
<1>6. j = 0 => t = 1
  <2> SUFFICES ASSUME j = 0, t = 0 PROVE FALSE
    BY <1>3, <1>5
  <2>1. r * t = 0
    BY <1>0
  <2> QED BY <1>1, <1>4, <2>1
<1>7. j # 0 => t = 0
  <2> SUFFICES ASSUME j # 0, t = 1 PROVE FALSE
    BY <1>3, <1>5
  <2>1. r * t = r
    BY <1>0
  <2> QED BY <1>0, <1>1, <1>4, <2>1
<1> QED BY <1>1, <1>2, <1>6, <1>7 DEF t

\* What a session has seen is forgotten when the next one begins.
Turned(values, moment) == IF MinuteOf(moment) = 0 THEN << >> ELSE values

LEMMA DatedNext ==
  ASSUME NEW moment \in Nat, NEW record, NEW values, Dated(record, values, moment)
  PROVE  Dated(record, Turned(values, moment + 1), moment + 1)
<1>1. /\ Session(moment) \in Int /\ Session(moment + 1) \in Int
      /\ MinuteOf(moment + 1) = 0 => Session(moment + 1) = Session(moment) + 1
      /\ MinuteOf(moment + 1) # 0 => Session(moment + 1) = Session(moment)
  BY SessionNext
<1>2. /\ record.day \in LeapsFigures /\ (record.day # NoValue => record.day <= Session(moment))
      /\ (values # << >>) <=> (record.day = Session(moment))
  BY DEF Dated
<1>3. NoValue \notin Int
  BY HedgeAssumption
<1>4. record.day = NoValue \/ (record.day \in Int /\ record.day <= Session(moment))
  BY <1>2 DEF LeapsFigures
<1>5. CASE MinuteOf(moment + 1) = 0
  <2>1. Turned(values, moment + 1) = << >> /\ Session(moment + 1) = Session(moment) + 1
    BY <1>1, <1>5 DEF Turned
  <2>2. record.day # Session(moment + 1) /\ (record.day # NoValue => record.day <= Session(moment + 1))
    BY <1>1, <1>3, <1>4, <2>1
  <2> QED BY <1>2, <2>1, <2>2 DEF Dated
<1>6. CASE MinuteOf(moment + 1) # 0
  <2>1. Turned(values, moment + 1) = values /\ Session(moment + 1) = Session(moment)
    BY <1>1, <1>6 DEF Turned
  <2> QED BY <1>2, <2>1 DEF Dated
<1> QED BY <1>5, <1>6

\* The records after a cycle, and at the next moment.
LEMMA IndexStays ==
  ASSUME hedge \in HedgeSetups, NEW moment \in Nat, NEW index, NEW bars,
         IndexKept(index, bars, moment), NEW bar \in {NoValue} \cup LeapsBars,
         NEW after, after = IF bar # NoValue THEN IndexState(index, Session(moment), bar) ELSE index,
         NEW more, more = bars \o (IF bar = NoValue THEN << >> ELSE <<bar>>)
  PROVE  IndexKept(after, Turned(more, moment + 1), moment + 1)
<1>0. Session(moment) \in Int /\ bars \in Seq(LeapsBars)
  BY SessionNext DEF IndexKept
<1>1. IndexKept(after, more, moment)
  <2>1. CASE bar = NoValue
    <3>1. after = index /\ more = bars
      BY <1>0, <2>1
    <3> QED BY <3>1
  <2>2. CASE bar # NoValue
    <3>1. bar \in LeapsBars /\ after = IndexState(index, Session(moment), bar) /\ more = bars \o <<bar>>
      BY <2>2
    <3>2. IndexFits(after, more) /\ after.day = Session(moment)
      BY <3>1, IndexNext
    <3>3. Dated(after, more, moment) /\ more \in Seq(LeapsBars)
      BY <1>0, <3>2 DEF Dated, IndexFits, LeapsFigures
    <3> QED BY <3>2, <3>3 DEF IndexKept
  <2> QED BY <2>1, <2>2
<1> DEFINE next == Turned(more, moment + 1)
<1>2. Dated(after, next, moment + 1)
  BY <1>1, DatedNext DEF IndexKept
<1>3. next = << >> \/ next = more
  BY DEF Turned
<1> HIDE DEF next
<1>4. next \in Seq(LeapsBars) /\ (next # << >> => IndexFits(after, next))
  <2>1. << >> \in Seq(LeapsBars)
    OBVIOUS
  <2>2. more \in Seq(LeapsBars) /\ (more # << >> => IndexFits(after, more))
    BY <1>1 DEF IndexKept
  <2>3. CASE next = << >>
    BY <2>1, <2>3
  <2>4. CASE next = more
    BY ONLY <2>2, <2>4
  <2> QED BY <1>3, <2>3, <2>4
<1> QED BY <1>2, <1>4 DEF IndexKept, next

EquityLasts(equity, after, worth, moment) ==
  /\ EquityKept(after, Turned(worth, moment + 1), moment + 1)
  /\ equity.day = after.day /\ Severity[after.overlay] < Severity[equity.overlay]
     => /\ Severity[after.overlay] = Severity[equity.overlay] - 1
        /\ Rising(worth, hedge.confirm + 1)

LEMMA EquityStays ==
  ASSUME hedge \in HedgeSetups, NEW moment \in Nat, NEW equity, NEW worth,
         EquityKept(equity, worth, moment), NEW value \in Nat,
         NEW after, after = IF value > 0 THEN EquityState(equity, Session(moment), value) ELSE equity,
         NEW more, more = worth \o (IF value > 0 THEN <<value>> ELSE << >>)
  PROVE  EquityLasts(equity, after, more, moment)
<1>0. Session(moment) \in Int /\ worth \in Seq(Nat \ {0}) /\ equity \in LeapsEquities
  BY SessionNext DEF EquityKept
<1>1. /\ EquityKept(after, more, moment)
      /\ equity.day = after.day /\ Severity[after.overlay] < Severity[equity.overlay]
            => /\ Severity[after.overlay] = Severity[equity.overlay] - 1
               /\ Rising(more, hedge.confirm + 1)
  <2>1. CASE ~(value > 0)
    <3>1. after = equity /\ more = worth
      BY <1>0, <2>1
    <3>2. Severity[equity.overlay] \in Int
      BY <1>0 DEF LeapsEquities, Severity
    <3>3. ~(Severity[after.overlay] < Severity[equity.overlay])
      BY <3>1, <3>2
    <3> QED BY <3>1, <3>3
  <2>2. CASE value > 0
    <3>1. /\ value \in Nat \ {0} /\ after = EquityState(equity, Session(moment), value)
          /\ more = worth \o <<value>>
      BY <2>2
    <3>2. EquityStepped(equity, after, more, moment)
      BY <3>1, EquityNext
    <3>3. more \in Seq(Nat \ {0}) /\ more # << >>
      <4> DEFINE Sums == Nat \ {0}
      <4>1. value \in Sums /\ worth \in Seq(Sums) /\ more = worth \o <<value>>
        BY <1>0, <3>1
      <4> HIDE DEF Sums
      <4>2. more \in Seq(Sums) /\ Len(more) = Len(worth) + 1 /\ Len(worth) \in Nat
        BY <4>1
      <4>3. more # << >>
        BY <4>2
      <4> QED BY <4>2, <4>3 DEF Sums
    <3>4. Dated(after, more, moment)
      BY <1>0, <3>2, <3>3 DEF Dated, EquityStepped, LeapsFigures
    <3> QED BY <3>2, <3>3, <3>4 DEF EquityKept, EquityStepped
  <2> QED BY <2>1, <2>2
<1> DEFINE next == Turned(more, moment + 1)
<1>2. Dated(after, next, moment + 1)
  BY <1>1, DatedNext DEF EquityKept
<1>3. next = << >> \/ next = more
  BY DEF Turned
<1> HIDE DEF next
<1>4. next \in Seq(Nat \ {0}) /\ (next # << >> => EquityFits(after, next))
  <2>1. << >> \in Seq(Nat \ {0})
    OBVIOUS
  <2>2. more \in Seq(Nat \ {0}) /\ (more # << >> => EquityFits(after, more))
    BY <1>1 DEF EquityKept
  <2>3. CASE next = << >>
    BY <2>1, <2>3
  <2>4. CASE next = more
    BY ONLY <2>2, <2>4
  <2> QED BY <1>3, <2>3, <2>4
<1>5. EquityKept(after, next, moment + 1)
  BY <1>1, <1>2, <1>4 DEF EquityKept
<1> QED BY <1>1, <1>5 DEF next, EquityLasts

-------------------------------------------------------------------------------
(* What holds of the sleeve in every state, and of every cycle.                *)

LeapsInv ==
  /\ hedge \in HedgeSetups /\ exec = ExecutionFor[hedge]
  /\ lpBook \in LeapsBooks /\ lpMoment \in Nat
  /\ lpOpen \in [Stocks -> [buy : Nat, sell : Nat]] /\ lpPrices \in [Stocks -> Nat]
  /\ lpBatch.targets \in Seq(LeapsTargets) /\ NamedOnce(lpBatch.targets)
  /\ lpMarks \in [Stocks -> LeapsMarks] /\ lpEquity \in LeapsEquities
  /\ \A y \in Stocks : MarkKept(lpMarks[y], lpStory.size[y], lpStory.cut[y], lpMoment)
  /\ hedge.indexGuard => IndexKept(lpIndex, Turned(lpStory.bars, lpMoment), lpMoment)
  /\ hedge.overlay => EquityKept(lpEquity, Turned(lpStory.worth, lpMoment), lpMoment)

\* A cycle, with the pass its decisions come from.
CycleMade(scene, batch, facts, worth, limit, pass, done) ==
  /\ scene \in ScenesFor[hedge]
  /\ batch.targets \in Seq(LeapsTargets) /\ NamedOnce(batch.targets)
  /\ facts \in [Stocks -> LeapsFacts] /\ worth \in Nat
  /\ LimitFrom(limit, lpIndex') /\ (limit.released => hedge.indexGuard /\ scene.bar # NoValue)
  /\ PassSound(pass, done, lpBook, facts, lpMarks, limit, batch.targets)
  /\ OnlyLimits(pass.decisions) /\ limit.cap < 100
     => ~AboveCap(lpBook, PricesIn(facts), pass.granted, limit)
  /\ LeapsCommit(scene, batch, facts, worth, limit, pass.decisions,
                 OrdersOn(pass.decisions, facts, worth, scene, batch))

LEMMA FactsTyped ==
  ASSUME hedge \in HedgeSetups, lpBook \in LeapsBooks, NEW scene \in ScenesFor[hedge]
  PROVE  FactsIn(scene) \in [Stocks -> LeapsFacts]
<1>1. scene.facts \in [Stocks -> LeapsFacts]
  BY LeapsAssumption
<1>2. ASSUME NEW y \in Stocks
      PROVE  [scene.facts[y] EXCEPT !.gain = IF lpBook.shares[y] > 0 THEN @ ELSE NoValue] \in LeapsFacts
  <2> DEFINE fact == scene.facts[y]
             gain == IF lpBook.shares[y] > 0 THEN fact.gain ELSE NoValue
  <2>1. fact \in LeapsFacts /\ gain \in LeapsFigures
    BY <1>1 DEF LeapsFacts, LeapsFigures
  <2> HIDE DEF gain, fact
  <2>2. [fact EXCEPT !.gain = gain] \in LeapsFacts
    BY <2>1 DEF LeapsFacts
  <2> QED BY <2>2 DEF gain, fact
<1> QED BY <1>2 DEF FactsIn

\* The batch in use, or a new one.
LEMMA BatchTyped ==
  ASSUME lpBatch.targets \in Seq(LeapsTargets), NamedOnce(lpBatch.targets),
         NEW batch \in BatchChoices
  PROVE  batch.targets \in Seq(LeapsTargets) /\ NamedOnce(batch.targets)
<1>1. CASE batch = lpBatch
  BY <1>1
<1>2. CASE batch # lpBatch
  <2>1. PICK t \in LeapsBatches : batch = [id |-> lpBatch.id + 1, targets |-> t]
    BY <1>2 DEF BatchChoices
  <2>2. t \in Seq(LeapsTargets) /\ NamedOnce(t)
    BY LeapsAssumption DEF NamedOnce
  <2> QED BY <2>1, <2>2
<1> QED BY <1>1, <1>2

LEMMA CycleStarts ==
  ASSUME LeapsInv, NEW scene \in ScenesFor[hedge], NEW batch \in BatchChoices,
         LeapsCycle(scene, batch)
  PROVE  \E facts, worth, limit, pass, done : CycleMade(scene, batch, facts, worth, limit, pass, done)
<1> DEFINE facts == FactsIn(scene)
           worth == Wealth(lpBook, PricesIn(facts))
           limit == LimitOf(scene, IndexAfter(scene), EquityAfter(worth))
           ds == ManageRisk(lpBook, facts, lpMarks, limit, scene.fresh, batch.targets)
<1>1. LeapsCommit(scene, batch, facts, worth, limit, ds, OrdersOn(ds, facts, worth, scene, batch))
  BY DEF LeapsCycle, PricesIn
<1>2. lpIndex' = IndexAfter(scene) /\ lpEquity' = EquityAfter(worth)
  <2> HIDE DEF facts, limit, ds, worth
  <2> QED BY <1>1 DEF LeapsCommit
<1>3. /\ hedge \in HedgeSetups /\ lpBook \in LeapsBooks /\ lpMoment \in Nat
      /\ lpMarks \in [Stocks -> LeapsMarks]
      /\ batch.targets \in Seq(LeapsTargets) /\ NamedOnce(batch.targets)
  BY BatchTyped DEF LeapsInv
<1>4. facts \in [Stocks -> LeapsFacts]
  BY <1>3, FactsTyped
<1> HIDE DEF facts
<1>5. worth \in Nat
  BY <1>3, <1>4, PricesType, WealthType
<1> HIDE DEF worth
<1>6. hedge.indexGuard /\ scene.bar # NoValue => IndexAfter(scene) \in LeapsIndexes
  <2> SUFFICES ASSUME hedge.indexGuard, scene.bar # NoValue PROVE IndexAfter(scene) \in LeapsIndexes
    OBVIOUS
  <2>1. scene.bar \in LeapsBars
    BY <1>3, LeapsAssumption
  <2>2. IndexKept(lpIndex, Turned(lpStory.bars, lpMoment), lpMoment)
    BY DEF LeapsInv
  <2>3. IndexAfter(scene) = IndexState(lpIndex, Session(lpMoment), scene.bar)
    BY DEF IndexAfter
  <2>4. IndexFits(IndexAfter(scene), Turned(lpStory.bars, lpMoment) \o <<scene.bar>>)
    BY <1>3, <2>1, <2>2, <2>3, IndexNext
  <2> QED BY <2>4 DEF IndexFits
<1>7. hedge.overlay => EquityAfter(worth) \in LeapsEquities
  <2> SUFFICES ASSUME hedge.overlay PROVE EquityAfter(worth) \in LeapsEquities
    OBVIOUS
  <2>1. EquityKept(lpEquity, Turned(lpStory.worth, lpMoment), lpMoment)
    BY DEF LeapsInv
  <2> DEFINE after == EquityAfter(worth)
             more == Turned(lpStory.worth, lpMoment) \o (IF worth > 0 THEN <<worth>> ELSE << >>)
  <2>2. after = IF worth > 0 THEN EquityState(lpEquity, Session(lpMoment), worth) ELSE lpEquity
    BY DEF EquityAfter
  <2> HIDE DEF after
  <2>3. EquityKept(after, Turned(more, lpMoment + 1), lpMoment + 1)
    <3>1. EquityLasts(lpEquity, after, more, lpMoment)
      BY <1>3, <1>5, <2>1, <2>2, EquityStays
    <3> QED BY <3>1 DEF EquityLasts
  <2>4. after \in LeapsEquities
    BY <2>3 DEF EquityKept
  <2> QED BY <2>4 DEF after
<1>8. LimitFrom(limit, IndexAfter(scene)) /\ (limit.released => hedge.indexGuard /\ scene.bar # NoValue)
  BY <1>3, <1>6, <1>7, LimitOfTyped
<1> HIDE DEF limit
<1>9. LeapsSetting(lpBook, facts, lpMarks, limit)
  BY <1>3, <1>4, <1>8 DEF LeapsSetting, LimitFrom
<1>10. PICK pass, done :
         /\ PassSound(pass, done, lpBook, facts, lpMarks, limit, batch.targets)
         /\ pass.decisions = ds
         /\ OnlyLimits(pass.decisions) /\ limit.cap < 100
            => ~AboveCap(lpBook, PricesIn(facts), pass.granted, limit)
  BY <1>3, <1>9, Managed
<1> HIDE DEF ds
<1>11. CycleMade(scene, batch, facts, worth, limit, pass, done)
  BY <1>1, <1>2, <1>3, <1>4, <1>5, <1>8, <1>10 DEF CycleMade
<1> QED BY <1>11

\* The orders of a cycle have natural quantities.
LEMMA OrdersTyped ==
  ASSUME LeapsInv, NEW scene, NEW batch, NEW facts, NEW worth, NEW limit, NEW pass, NEW done,
         CycleMade(scene, batch, facts, worth, limit, pass, done), NEW y \in Stocks
  PROVE  OrdersOn(pass.decisions, facts, worth, scene, batch)[y].quantity \in Nat
<1> DEFINE mine == ApprovedOn(pass.decisions, y)
           d == CHOOSE e \in mine : TRUE
           order == CreateOrder(d, lpOpen[y], facts[y], lpTraces[y], lpMarks[y],
                                batch.id, worth, scene.phase, lpMoment)
<1>1. OrdersOn(pass.decisions, facts, worth, scene, batch)[y] = IF mine = {} THEN NoOrder ELSE order
  BY DEF OrdersOn
<1>2. \A e \in mine : e \in LeapsDecisions
  BY DEF CycleMade, PassSound, AnsweredBy, Backed, ApprovedOn, DecisionsOn
<1>3. mine # {} => d \in LeapsDecisions
  <2> HIDE DEF mine
  <2> QED BY <1>2
<1>4. /\ hedge \in HedgeSetups /\ exec = ExecutionFor[hedge] /\ worth \in Nat
      /\ lpOpen[y] \in [buy : Nat, sell : Nat] /\ facts[y] \in LeapsFacts
  BY DEF LeapsInv, CycleMade
<1> HIDE DEF mine, d
<1>5. mine # {} => order.quantity \in Nat
  BY <1>3, <1>4, OrderTyped
<1> HIDE DEF order
<1> QED BY <1>1, <1>5 DEF NoOrder

LEMMA LeapsStarts == LeapsInit => LeapsInv
<1> SUFFICES ASSUME LeapsInit PROVE LeapsInv
  OBVIOUS
<1>1. hedge \in HedgeSetups /\ exec = ExecutionFor[hedge] /\ lpMoment \in Nat
  BY LeapsAssumption DEF LeapsInit
<1>2. lpBook \in LeapsBooks
  BY LeapsAssumption DEF LeapsInit, LeapsBooks
<1>3. lpOpen \in [Stocks -> [buy : Nat, sell : Nat]] /\ lpPrices \in [Stocks -> Nat]
  BY DEF LeapsInit, NothingOpen
<1>4. lpBatch.targets \in Seq(LeapsTargets) /\ NamedOnce(lpBatch.targets)
  <2>1. lpBatch.targets = << >>
    BY DEF LeapsInit
  <2>2. << >> \in Seq(LeapsTargets) /\ DOMAIN << >> = {}
    OBVIOUS
  <2> QED BY <2>1, <2>2 DEF NamedOnce
<1>5. lpMarks \in [Stocks -> LeapsMarks]
  BY DEF LeapsInit, NoMark, LeapsMarks, LeapsFigures
<1>6. ASSUME NEW y \in Stocks
      PROVE  MarkKept(lpMarks[y], lpStory.size[y], lpStory.cut[y], lpMoment)
  <2>1. lpMarks[y] = NoMark /\ lpStory.cut[y] = NoValue /\ lpStory.size[y] = NoValue
    BY DEF LeapsInit, NoStory
  <2>2. NoMark.status = NoValue /\ NoMark.anchor = NoValue /\ NoValue # "reduced"
    BY HedgeAssumption DEF NoMark
  <2>3. lpMarks[y] \in LeapsMarks
    BY <1>5
  <2> QED BY <2>1, <2>2, <2>3 DEF MarkKept
<1>7. Session(lpMoment) # NoValue
  BY <1>1, SessionNext, HedgeAssumption
<1>8. /\ lpIndex.day = NoValue /\ lpStory.bars = << >>
      /\ lpEquity = NoEquity /\ lpStory.worth = << >>
  BY DEF LeapsInit, NoIndex, NoStory
<1>9. Turned(<< >>, lpMoment) = << >>
  BY DEF Turned
<1>10. Dated(lpIndex, << >>, lpMoment) /\ Dated(lpEquity, << >>, lpMoment)
  <2>1. lpEquity.day = NoValue
    BY <1>8 DEF NoEquity
  <2> QED BY <1>7, <1>8, <2>1 DEF Dated, LeapsFigures
<1>11. IndexKept(lpIndex, Turned(lpStory.bars, lpMoment), lpMoment)
  <2>1. << >> \in Seq(LeapsBars)
    OBVIOUS
  <2> QED BY <1>8, <1>9, <1>10, <2>1 DEF IndexKept
<1>12. lpEquity \in LeapsEquities /\ EquityKept(lpEquity, Turned(lpStory.worth, lpMoment), lpMoment)
  <2>1. << >> \in Seq(Nat \ {0})
    OBVIOUS
  <2>2. NoEquity \in LeapsEquities
    BY DEF NoEquity, LeapsEquities, LeapsFigures
  <2> QED BY <1>8, <1>9, <1>10, <2>1, <2>2 DEF EquityKept
<1> QED BY <1>1, <1>2, <1>3, <1>4, <1>5, <1>6, <1>11, <1>12 DEF LeapsInv

\* What is open is filled, or expires.
LEMMA BrokerKeeps == LeapsInv /\ Broker => LeapsInv'
<1> SUFFICES ASSUME LeapsInv, Broker PROVE LeapsInv'
  OBVIOUS
<1>1. /\ lpBook \in LeapsBooks /\ lpOpen \in [Stocks -> [buy : Nat, sell : Nat]]
      /\ lpPrices \in [Stocks -> Nat]
  BY DEF LeapsInv
<1>2. lpOpen' \in [Stocks -> [buy : Nat, sell : Nat]]
  BY DEF Broker, NothingOpen
<1>3. lpBook' \in LeapsBooks
  <2>1. CASE UNCHANGED lpBook
    BY <1>1, <2>1
  <2>2. CASE FillOpen
    <3> DEFINE f == [y \in Stocks |-> Filled(y) * lpPrices[y]]
               cost == SumFunctionOnSet(f, Stocks)
    <3>1. ASSUME NEW y \in Stocks
          PROVE  Filled(y) \in Int /\ lpBook.shares[y] + Filled(y) \in Nat
      <4>1. lpOpen[y].buy \in Nat /\ lpOpen[y].sell \in Nat /\ lpBook.shares[y] \in Nat
        BY <1>1 DEF LeapsBooks
      <4> QED BY <4>1 DEF Filled, Least
    <3>2. \A y \in Stocks : f[y] \in Int
      <4> SUFFICES ASSUME NEW y \in Stocks PROVE f[y] \in Int
        OBVIOUS
      <4>1. Filled(y) \in Int /\ lpPrices[y] \in Int
        BY <1>1, <3>1
      <4>2. Filled(y) * lpPrices[y] \in Int
        BY <4>1
      <4> QED BY <4>2
    <3>3. /\ lpBook.cash >= cost
          /\ lpBook' = [cash |-> lpBook.cash - cost,
                        shares |-> [y \in Stocks |-> lpBook.shares[y] + Filled(y)]]
      BY <2>2 DEF FillOpen
    <3> HIDE DEF f
    <3>4. cost \in Int
      BY <3>2, HedgeAssumption, SumType
    <3> HIDE DEF cost
    <3>5. lpBook.cash - cost \in Nat
      BY <1>1, <3>3, <3>4 DEF LeapsBooks
    <3>6. [y \in Stocks |-> lpBook.shares[y] + Filled(y)] \in [Stocks -> Nat]
      BY <3>1
    <3> QED BY <3>3, <3>5, <3>6 DEF LeapsBooks
  <2> QED BY <2>1, <2>2 DEF Broker
<1>4. /\ hedge' = hedge /\ exec' = exec /\ lpPrices' = lpPrices /\ lpMarks' = lpMarks
      /\ lpIndex' = lpIndex /\ lpEquity' = lpEquity /\ lpBatch' = lpBatch
      /\ lpMoment' = lpMoment /\ lpStory' = lpStory
  BY DEF Broker
<1>5. /\ hedge' \in HedgeSetups /\ exec' = ExecutionFor[hedge'] /\ lpMoment' \in Nat
      /\ lpBatch'.targets \in Seq(LeapsTargets) /\ NamedOnce(lpBatch'.targets)
      /\ lpMarks' \in [Stocks -> LeapsMarks] /\ lpEquity' \in LeapsEquities /\ lpPrices' \in [Stocks -> Nat]
      /\ \A y \in Stocks : MarkKept(lpMarks'[y], lpStory'.size[y], lpStory'.cut[y], lpMoment')
  BY <1>4 DEF LeapsInv
<1>6. hedge'.indexGuard => IndexKept(lpIndex', Turned(lpStory'.bars, lpMoment'), lpMoment')
  <2>1. hedge.indexGuard => IndexKept(lpIndex, Turned(lpStory.bars, lpMoment), lpMoment)
    BY DEF LeapsInv
  <2> QED BY <1>4, <2>1
<1>7. hedge'.overlay => EquityKept(lpEquity', Turned(lpStory'.worth, lpMoment'), lpMoment')
  <2>1. hedge.overlay => EquityKept(lpEquity, Turned(lpStory.worth, lpMoment), lpMoment)
    BY DEF LeapsInv
  <2> QED BY <1>4, <2>1
<1> QED BY <1>2, <1>3, <1>5, <1>6, <1>7 DEF LeapsInv

\* A cycle keeps the state in range, and its records those of its session.
LEMMA CycleTyped ==
  ASSUME LeapsInv, NEW scene, NEW batch, NEW facts, NEW worth, NEW limit, NEW pass, NEW done,
         CycleMade(scene, batch, facts, worth, limit, pass, done)
  PROVE  /\ lpOpen' \in [Stocks -> [buy : Nat, sell : Nat]] /\ lpPrices' \in [Stocks -> Nat]
         /\ lpPrices' = PricesIn(facts) /\ lpBatch' = batch /\ lpMoment' = lpMoment + 1
         /\ hedge' = hedge /\ exec' = exec /\ lpBook' = lpBook
         /\ lpCycle'.decisions = pass.decisions /\ lpCycle'.limit = limit
         /\ lpCycle'.orders = OrdersOn(pass.decisions, facts, worth, scene, batch)
         /\ lpMarks' = MarksAfter(lpMarks, pass.decisions, lpMoment)
         /\ lpStory' = StoryAfter(scene, pass.decisions, lpMarks', worth)
         /\ lpIndex' = IndexAfter(scene) /\ lpEquity' = EquityAfter(worth)
<1> DEFINE orders == OrdersOn(pass.decisions, facts, worth, scene, batch)
<1>1. \A y \in Stocks : orders[y].quantity \in Nat
  BY OrdersTyped
<1> HIDE DEF orders
<1>2. LeapsCommit(scene, batch, facts, worth, limit, pass.decisions, orders)
  BY DEF CycleMade, orders
<1>3. lpOpen' = [y \in Stocks |->
                  [buy |-> lpOpen[y].buy + (IF orders[y].side = "buy" THEN orders[y].quantity ELSE 0),
                   sell |-> lpOpen[y].sell + (IF orders[y].side = "sell" THEN orders[y].quantity ELSE 0)]]
  BY <1>2 DEF LeapsCommit
<1>4. lpOpen' \in [Stocks -> [buy : Nat, sell : Nat]]
  <2> SUFFICES ASSUME NEW y \in Stocks
               PROVE  [buy |-> lpOpen[y].buy + (IF orders[y].side = "buy" THEN orders[y].quantity ELSE 0),
                       sell |-> lpOpen[y].sell + (IF orders[y].side = "sell" THEN orders[y].quantity ELSE 0)]
                        \in [buy : Nat, sell : Nat]
    BY <1>3
  <2>1. lpOpen[y].buy \in Nat /\ lpOpen[y].sell \in Nat
    BY DEF LeapsInv
  <2>2. orders[y].quantity \in Nat
    BY <1>1
  <2> QED BY <2>1, <2>2
<1>5. facts \in [Stocks -> LeapsFacts]
  BY DEF CycleMade
<1>6. lpPrices' = PricesIn(facts)
  BY <1>2 DEF LeapsCommit, PricesIn
<1>7. lpPrices' \in [Stocks -> Nat]
  BY <1>5, <1>6, PricesType
<1>8. /\ lpBatch' = batch /\ lpMoment' = lpMoment + 1
      /\ hedge' = hedge /\ exec' = exec /\ lpBook' = lpBook
      /\ lpCycle' = [decisions |-> pass.decisions, orders |-> orders, limit |-> limit]
      /\ lpMarks' = MarksAfter(lpMarks, pass.decisions, lpMoment)
      /\ lpStory' = StoryAfter(scene, pass.decisions, lpMarks', worth)
      /\ lpIndex' = IndexAfter(scene) /\ lpEquity' = EquityAfter(worth)
  BY <1>2 DEF LeapsCommit
<1>9. /\ lpCycle'.decisions = pass.decisions /\ lpCycle'.limit = limit /\ lpCycle'.orders = orders
  BY <1>8
<1> QED BY <1>4, <1>6, <1>7, <1>8, <1>9 DEF orders

\* The marks and the records after a cycle, with what the story has come to.
LEMMA CycleRecords ==
  ASSUME LeapsInv, NEW scene, NEW batch, NEW facts, NEW worth, NEW limit, NEW pass, NEW done,
         CycleMade(scene, batch, facts, worth, limit, pass, done)
  PROVE  /\ lpMarks' \in [Stocks -> LeapsMarks] /\ lpEquity' \in LeapsEquities
         /\ \A y \in Stocks : MarkKept(lpMarks'[y], lpStory'.size[y], lpStory'.cut[y], lpMoment')
         /\ hedge.indexGuard => IndexKept(lpIndex', Turned(lpStory'.bars, lpMoment'), lpMoment')
         /\ hedge.overlay => EquityKept(lpEquity', Turned(lpStory'.worth, lpMoment'), lpMoment')
         /\ hedge.overlay => OverlayConfirmed
<1> DEFINE ds == pass.decisions
<1>1. /\ lpMarks' = MarksAfter(lpMarks, ds, lpMoment)
      /\ lpStory' = StoryAfter(scene, ds, lpMarks', worth)
      /\ lpIndex' = IndexAfter(scene) /\ lpEquity' = EquityAfter(worth) /\ lpMoment' = lpMoment + 1
  BY CycleTyped
<1>2. /\ hedge \in HedgeSetups /\ lpBook \in LeapsBooks /\ lpMarks \in [Stocks -> LeapsMarks]
      /\ lpMoment \in Nat /\ worth \in Nat /\ scene \in ScenesFor[hedge]
  BY DEF LeapsInv, CycleMade
<1>3. AnsweredBy(ds, pass.granted, done, lpBook, lpMarks, batch.targets)
  BY DEF CycleMade, PassSound
<1> DEFINE size(y) == SizeNext(lpMarks'[y].status, lpStory.size[y], Halves(ds, y), lpBook.shares[y])
           cut(y) == IF Cuts(ds, y) THEN lpMoment ELSE lpStory.cut[y]
           bars == Turned(lpStory.bars, lpMoment)
           sums == Turned(lpStory.worth, lpMoment)
           moreBars == bars \o (IF scene.bar = NoValue THEN << >> ELSE <<scene.bar>>)
           moreSums == sums \o (IF worth > 0 THEN <<worth>> ELSE << >>)
<1>4. /\ \A y \in Stocks : lpStory'.size[y] = size(y) /\ lpStory'.cut[y] = cut(y)
      /\ lpStory'.bars = moreBars /\ lpStory'.worth = moreSums
  BY <1>1 DEF StoryAfter, SoFar, Turned, SizeNext
<1> HIDE DEF ds, moreBars, moreSums
<1>5. ASSUME NEW y \in Stocks
      PROVE  MarkKept(lpMarks'[y], lpStory'.size[y], lpStory'.cut[y], lpMoment + 1)
  <2> DEFINE after == MarksAfter(lpMarks, ds, lpMoment)[y]
             size2 == SizeNext(after.status, lpStory.size[y], Halves(ds, y), lpBook.shares[y])
             cut2 == IF Cuts(ds, y) THEN lpMoment ELSE lpStory.cut[y]
  <2>1. MarkKept(lpMarks[y], lpStory.size[y], lpStory.cut[y], lpMoment)
    BY DEF LeapsInv
  <2>2. after = lpMarks'[y] /\ size2 = lpStory'.size[y] /\ cut2 = lpStory'.cut[y]
    BY <1>1, <1>4
  <2>3. /\ after = MarksAfter(lpMarks, ds, lpMoment)[y]
        /\ size2 = SizeNext(after.status, lpStory.size[y], Halves(ds, y), lpBook.shares[y])
        /\ cut2 = IF Cuts(ds, y) THEN lpMoment ELSE lpStory.cut[y]
    OBVIOUS
  <2> HIDE DEF after, size2, cut2
  <2>4. MarkKept(after, size2, cut2, lpMoment + 1)
    BY <1>2, <1>3, <2>1, <2>3, MarksNext
  <2> QED BY <2>2, <2>4
<1>6. lpMarks' \in [Stocks -> LeapsMarks]
  <2>1. \A y \in Stocks : lpMarks'[y] \in LeapsMarks
    BY <1>5 DEF MarkKept
  <2>2. lpMarks' = [y \in Stocks |-> lpMarks'[y]]
    BY <1>1 DEF MarksAfter
  <2> QED BY <2>1, <2>2
<1>7. hedge.indexGuard => IndexKept(lpIndex', Turned(lpStory'.bars, lpMoment'), lpMoment')
  <2> SUFFICES ASSUME hedge.indexGuard PROVE IndexKept(lpIndex', Turned(moreBars, lpMoment + 1), lpMoment + 1)
    BY <1>1, <1>4
  <2>1. IndexKept(lpIndex, bars, lpMoment)
    BY DEF LeapsInv
  <2>2. scene.bar \in {NoValue} \cup LeapsBars
    BY <1>2, LeapsAssumption
  <2> DEFINE after == lpIndex'
  <2>3. after = IF scene.bar # NoValue THEN IndexState(lpIndex, Session(lpMoment), scene.bar) ELSE lpIndex
    BY <1>1 DEF IndexAfter
  <2> HIDE DEF after, bars
  <2>4. IndexKept(after, Turned(moreBars, lpMoment + 1), lpMoment + 1)
    BY <1>2, <2>1, <2>2, <2>3, IndexStays DEF moreBars
  <2> QED BY <2>4 DEF after
<1>8. /\ hedge.overlay => EquityKept(lpEquity', Turned(lpStory'.worth, lpMoment'), lpMoment')
      /\ hedge.overlay => OverlayConfirmed
  <2> SUFFICES ASSUME hedge.overlay
               PROVE  /\ EquityKept(lpEquity', Turned(moreSums, lpMoment + 1), lpMoment + 1)
                      /\ OverlayConfirmed
    BY <1>1, <1>4
  <2>1. EquityKept(lpEquity, sums, lpMoment)
    BY DEF LeapsInv
  <2> DEFINE after == lpEquity'
  <2>2. after = IF worth > 0 THEN EquityState(lpEquity, Session(lpMoment), worth) ELSE lpEquity
    BY <1>1 DEF EquityAfter
  <2>5. moreSums = sums \o (IF worth > 0 THEN <<worth>> ELSE << >>)
    BY DEF moreSums
  <2> HIDE DEF after, sums
  <2>3. /\ EquityKept(after, Turned(moreSums, lpMoment + 1), lpMoment + 1)
        /\ lpEquity.day = after.day /\ Severity[after.overlay] < Severity[lpEquity.overlay]
           => /\ Severity[after.overlay] = Severity[lpEquity.overlay] - 1
              /\ Rising(moreSums, hedge.confirm + 1)
    <3>1. hedge \in HedgeSetups /\ lpMoment \in Nat /\ worth \in Nat
      BY <1>2
    <3>2. EquityLasts(lpEquity, after, moreSums, lpMoment)
      BY <3>1, <2>1, <2>2, <2>5, EquityStays
    <3> QED BY <3>2 DEF EquityLasts
  <2>4. OverlayConfirmed
    BY <1>4, <2>3 DEF OverlayConfirmed, after
  <2> QED BY <2>3, <2>4 DEF after
<1>9. \A y \in Stocks : MarkKept(lpMarks'[y], lpStory'.size[y], lpStory'.cut[y], lpMoment')
  BY <1>1, <1>5
<1>10. lpEquity' \in LeapsEquities
  <2>1. CASE hedge.overlay
    BY <1>8, <2>1 DEF EquityKept
  <2>2. CASE ~hedge.overlay
    BY <1>1, <2>2 DEF EquityAfter, LeapsInv
  <2> QED BY <2>1, <2>2
<1> QED BY <1>6, <1>7, <1>8, <1>9, <1>10

LEMMA CycleKeeps ==
  ASSUME LeapsInv, NEW scene, NEW batch, NEW facts, NEW worth, NEW limit, NEW pass, NEW done,
         CycleMade(scene, batch, facts, worth, limit, pass, done)
  PROVE  LeapsInv'
<1>1. /\ lpOpen' \in [Stocks -> [buy : Nat, sell : Nat]] /\ lpPrices' \in [Stocks -> Nat]
      /\ lpBatch' = batch /\ lpMoment' = lpMoment + 1
      /\ hedge' = hedge /\ exec' = exec /\ lpBook' = lpBook
  BY CycleTyped
<1>2. /\ hedge \in HedgeSetups /\ exec = ExecutionFor[hedge] /\ lpBook \in LeapsBooks
      /\ lpMoment + 1 \in Nat
      /\ batch.targets \in Seq(LeapsTargets) /\ NamedOnce(batch.targets)
  BY DEF LeapsInv, CycleMade
<1>3. /\ hedge' \in HedgeSetups /\ exec' = ExecutionFor[hedge'] /\ lpBook' \in LeapsBooks
      /\ lpMoment' \in Nat
      /\ lpBatch'.targets \in Seq(LeapsTargets) /\ NamedOnce(lpBatch'.targets)
  BY <1>1, <1>2
<1>4. /\ lpMarks' \in [Stocks -> LeapsMarks] /\ lpEquity' \in LeapsEquities
      /\ \A y \in Stocks : MarkKept(lpMarks'[y], lpStory'.size[y], lpStory'.cut[y], lpMoment')
      /\ hedge'.indexGuard => IndexKept(lpIndex', Turned(lpStory'.bars, lpMoment'), lpMoment')
      /\ hedge'.overlay => EquityKept(lpEquity', Turned(lpStory'.worth, lpMoment'), lpMoment')
  BY <1>1, CycleRecords
<1> QED BY <1>1, <1>3, <1>4 DEF LeapsInv

-------------------------------------------------------------------------------
(* What the guards promise of a cycle.                                         *)

LEMMA NothingBoughtBack ==
  ASSUME LeapsInv, NEW scene, NEW batch, NEW facts, NEW worth, NEW limit, NEW pass, NEW done,
         CycleMade(scene, batch, facts, worth, limit, pass, done)
  PROVE  NoBuyback
<1> DEFINE ds == pass.decisions
<1>1. /\ lpBatch' = batch /\ lpCycle'.orders = OrdersOn(ds, facts, worth, scene, batch)
  BY CycleTyped
<1>2. SUFFICES ASSUME NEW y \in Stocks, lpCycle'.orders[y].side = "buy", exec.steady,
                      lpStory.cut[y] # NoValue
               PROVE  \/ lpMoment - lpStory.cut[y] > exec.reentry
                      \/ \E i \in DOMAIN lpBatch'.targets :
                           /\ lpBatch'.targets[i].symbol = y
                           /\ lpBatch'.targets[i].tags # {}
  BY DEF NoBuyback
<1> DEFINE mine == ApprovedOn(ds, y)
           d == CHOOSE e \in mine : TRUE
           order == CreateOrder(d, lpOpen[y], facts[y], lpTraces[y], lpMarks[y],
                                batch.id, worth, scene.phase, lpMoment)
<1>3. lpCycle'.orders[y] = IF mine = {} THEN NoOrder ELSE order
  BY <1>1 DEF OrdersOn
<1>4. mine # {} /\ order.side = "buy"
  BY <1>2, <1>3, HedgeAssumption DEF NoOrder
<1>5. \A e \in mine : Backed(e, lpBook, lpMarks, batch.targets) /\ e.symbol = y
  <2>1. AnsweredBy(ds, pass.granted, done, lpBook, lpMarks, batch.targets)
    BY DEF CycleMade, PassSound
  <2> SUFFICES ASSUME NEW e \in mine PROVE Backed(e, lpBook, lpMarks, batch.targets) /\ e.symbol = y
    OBVIOUS
  <2>2. PICK i \in DOMAIN ds : e = ds[i] /\ ds[i].symbol = y
    BY DEF ApprovedOn, DecisionsOn
  <2> HIDE DEF ds
  <2> QED BY <2>1, <2>2 DEF AnsweredBy
<1>6. Backed(d, lpBook, lpMarks, batch.targets) /\ d.symbol = y
  <2> HIDE DEF mine
  <2> QED BY <1>4, <1>5
<1>7. /\ hedge \in HedgeSetups /\ exec = ExecutionFor[hedge] /\ lpBook \in LeapsBooks
      /\ lpMoment \in Nat /\ lpOpen[y] \in [buy : Nat, sell : Nat]
      /\ MarkKept(lpMarks[y], lpStory.size[y], lpStory.cut[y], lpMoment)
  BY DEF LeapsInv
<1> HIDE DEF d
<1>8. \/ lpMoment - lpStory.cut[y] > exec.reentry
      \/ \E i \in DOMAIN batch.targets : batch.targets[i].symbol = d.symbol /\ batch.targets[i].tags # {}
  BY <1>2, <1>4, <1>6, <1>7, BuyCools
<1> QED BY <1>1, <1>6, <1>8

LEMMA HalvedOnceOnly ==
  ASSUME LeapsInv, NEW scene, NEW batch, NEW facts, NEW worth, NEW limit, NEW pass, NEW done,
         CycleMade(scene, batch, facts, worth, limit, pass, done)
  PROVE  HalvedOnce
<1> DEFINE ds == pass.decisions
<1>1. lpCycle'.decisions = ds
  BY CycleTyped
<1>2. AnsweredBy(ds, pass.granted, done, lpBook, lpMarks, batch.targets)
  BY DEF CycleMade, PassSound
<1> HIDE DEF ds
<1>3. SUFFICES ASSUME NEW i \in DOMAIN ds, ds[i].reason = "guard_reduce",
                      lpStory.size[ds[i].symbol] # NoValue
               PROVE  ds[i].granted
                        >= Least(ds[i].current, (lpStory.size[ds[i].symbol] * hedge.fraction) \div 100)
  BY <1>1 DEF HalvedOnce
<1> DEFINE d == ds[i]
           y == d.symbol
           current == d.current
           anchor == lpMarks[y].anchor
           size == lpStory.size[y]
           f == hedge.fraction
<1>4. Backed(d, lpBook, lpMarks, batch.targets)
  BY <1>2 DEF AnsweredBy
<1>5. d \in LeapsDecisions /\ current \in Nat /\ y \in Stocks
  BY <1>4 DEF Backed, LeapsDecisions
<1>6. d.granted = ReducedTo(d.anchor, current) /\ \E wanted \in Int : d.anchor = Anchor(lpMarks[y], current, wanted)
  BY <1>3, <1>4 DEF Backed
<1>7. /\ hedge \in HedgeSetups /\ lpMarks[y] \in LeapsMarks
      /\ MarkKept(lpMarks[y], size, lpStory.cut[y], lpMoment)
  BY <1>5 DEF LeapsInv
<1>8. /\ lpMarks[y].status = "reduced"
      /\ anchor \in Nat \ {0} /\ size \in Nat /\ size <= anchor
  BY <1>3, <1>7 DEF MarkKept
<1>9. anchor # NoValue /\ anchor > 0 /\ f \in 0..100
  BY <1>7, <1>8, HedgeAssumption, HedgeTyped
<1>10. d.anchor = Most(anchor, current)
  <2>1. PICK wanted \in Int : d.anchor = Anchor(lpMarks[y], current, wanted)
    BY <1>6
  <2> QED BY <1>5, <1>7, <1>8, <1>9, <2>1, AnchorTyped
<1> HIDE DEF d, y, current, anchor, size, f
<1>11. d.anchor \in Nat /\ size <= d.anchor /\ d.anchor # NoValue
  <2>1. d.anchor \in Nat /\ size <= d.anchor
    BY <1>5, <1>8, <1>10 DEF Most
  <2> QED BY <2>1, HedgeAssumption
<1> DEFINE a == d.anchor * f
           s == size * f
<1>12. a \in Nat /\ s \in Nat /\ s <= a
  BY <1>8, <1>9, <1>11
<1>13. d.granted = Least(current, a \div 100)
  BY <1>6, <1>11 DEF ReducedTo, f
<1> HIDE DEF a, s
<1>14. s \div 100 \in Nat /\ s \div 100 <= a \div 100 /\ a \div 100 \in Nat
  BY <1>12, DivMonotone
<1>15. Least(current, a \div 100) >= Least(current, s \div 100)
  BY <1>5, <1>14 DEF Least
<1> QED BY <1>13, <1>15 DEF d, y, current, size, f, s

LEMMA CapKept ==
  ASSUME LeapsInv, NEW scene, NEW batch, NEW facts, NEW worth, NEW limit, NEW pass, NEW done,
         CycleMade(scene, batch, facts, worth, limit, pass, done)
  PROVE  CapHolds
<1> DEFINE ds == pass.decisions
           granted == [y \in Stocks |-> IF DecisionsOn(ds, y) = {} THEN lpBook.shares[y]
                                        ELSE (CHOOSE d \in DecisionsOn(ds, y) : TRUE).granted]
<1>1. lpCycle'.decisions = ds /\ lpCycle'.limit = limit /\ lpPrices' = PricesIn(facts)
  BY CycleTyped
<1>2. PassSound(pass, done, lpBook, facts, lpMarks, limit, batch.targets)
  BY DEF CycleMade
<1>3. AnsweredBy(ds, pass.granted, done, lpBook, lpMarks, batch.targets)
  BY <1>2 DEF PassSound
<1>4. pass.granted \in [Stocks -> Int]
  BY <1>2 DEF PassSound, LeapsPasses
<1>5. granted = pass.granted
  <2> SUFFICES ASSUME NEW y \in Stocks
               PROVE  (IF DecisionsOn(ds, y) = {} THEN lpBook.shares[y]
                       ELSE (CHOOSE d \in DecisionsOn(ds, y) : TRUE).granted) = pass.granted[y]
    BY <1>4
  <2>1. OneOn(ds, y)
    BY <1>3, OneDecision
  <2>2. CASE DecisionsOn(ds, y) = {} /\ \A i \in DOMAIN ds : ds[i].symbol # y
    <3>1. y \notin done
      BY <1>3, <2>2 DEF AnsweredBy
    <3> QED BY <1>2, <2>2, <3>1 DEF PassSound
  <2>3. ASSUME NEW i \in DOMAIN ds, DecisionsOn(ds, y) = {ds[i]}, ds[i].symbol = y
        PROVE  (IF DecisionsOn(ds, y) = {} THEN lpBook.shares[y]
                ELSE (CHOOSE d \in DecisionsOn(ds, y) : TRUE).granted) = pass.granted[y]
    <3>1. DecisionsOn(ds, y) # {} /\ (CHOOSE d \in DecisionsOn(ds, y) : TRUE) = ds[i]
      BY <2>3
    <3>2. pass.granted[y] = ds[i].granted
      BY <1>3, <2>3 DEF AnsweredBy
    <3> QED BY <3>1, <3>2
  <2> QED BY <2>1, <2>2, <2>3 DEF OneOn
<1>6. OnlyLimits(ds) /\ limit.cap < 100 => ~AboveCap(lpBook, PricesIn(facts), pass.granted, limit)
  BY DEF CycleMade
<1>7. limit.cap < 100 /\ (\A i \in DOMAIN ds : ds[i].reason = "limits")
      => ~AboveCap(lpBook, PricesIn(facts), granted, limit)
  BY <1>5, <1>6 DEF OnlyLimits
<1> QED BY <1>1, <1>7 DEF CapHolds

LEMMA LiftConfirmed ==
  ASSUME LeapsInv, NEW scene, NEW batch, NEW facts, NEW worth, NEW limit, NEW pass, NEW done,
         CycleMade(scene, batch, facts, worth, limit, pass, done)
  PROVE  ReleaseConfirmed
<1> DEFINE bars == Turned(lpStory.bars, lpMoment)
           bar == scene.bar
           more == bars \o <<bar>>
           after == lpIndex'
           n == hedge.indexConfirm
<1>1. /\ lpCycle'.limit = limit /\ after = IndexAfter(scene)
      /\ lpStory' = StoryAfter(scene, pass.decisions, lpMarks', worth)
  BY CycleTyped
<1>2. SUFFICES ASSUME limit.released
               PROVE  /\ Rising(Closes(lpStory'.bars), n)
                      /\ Bps(lpStory'.bars[Len(lpStory'.bars)].close, Min(Lows(lpStory'.bars)))
                           >= hedge.indexRecovery
  BY <1>1 DEF ReleaseConfirmed
<1>3. /\ hedge \in HedgeSetups /\ hedge.indexGuard /\ bar # NoValue /\ lpMoment \in Nat
      /\ scene \in ScenesFor[hedge] /\ after.count >= n
  BY <1>2 DEF LeapsInv, CycleMade, LimitFrom
<1>4. lpStory'.bars = more
  BY <1>1, <1>3 DEF StoryAfter, SoFar, Turned
<1>5. bar \in LeapsBars /\ after = IndexState(lpIndex, Session(lpMoment), bar)
  BY <1>1, <1>3, LeapsAssumption DEF IndexAfter
<1>6. IndexKept(lpIndex, bars, lpMoment)
  BY <1>3 DEF LeapsInv
<1> HIDE DEF bars, bar, after
<1>7. /\ IndexFits(after, more)
      /\ after.count >= hedge.indexConfirm => Bps(bar.close, after.low) >= hedge.indexRecovery
  BY <1>3, <1>5, <1>6, IndexNext
<1>8. bars \in Seq(LeapsBars)
  BY <1>6 DEF IndexKept
<1>9. more[Len(more)] = bar
  BY <1>5, <1>8
<1> HIDE DEF more
<1>10. Rising(Closes(more), n)
  <2>1. Closes(more) \in Seq(Int)
    BY <1>5, <1>8, ClosesNext, <1>7 DEF IndexFits, Closes, LeapsBars
  <2>2. after.count \in Nat /\ n \in Nat /\ Rising(Closes(more), after.count)
    BY <1>3, <1>7, HedgeTyped DEF IndexFits, LeapsIndexes
  <2> QED BY <1>3, <2>1, <2>2, RisingLess
<1>11. Min(Lows(more)) = after.low
  <2> DEFINE L == Lows(more)
  <2>1. after.low \in L /\ (\A x \in L : after.low <= x) /\ after.low \in Int
    BY <1>7 DEF IndexFits, LeapsIndexes
  <2>2. L \subseteq Int
    <3>1. \A i \in DOMAIN more : more[i] \in LeapsBars
      BY <1>7 DEF IndexFits
    <3>2. \A x \in LeapsBars : x.low \in Int /\ x.close \in Int
      BY DEF LeapsBars
    <3>3. \A i \in DOMAIN more : more[i].low \in Int /\ more[i].close \in Int
      BY <3>1, <3>2
    <3> QED BY <3>3 DEF Lows
  <2> HIDE DEF L
  <2>3. \A x \in L : x = after.low \/ ~(x <= after.low)
    BY <2>1, <2>2
  <2>4. (CHOOSE x \in L : \A z \in L : x <= z) = after.low
    BY <2>1, <2>3
  <2> QED BY <2>4 DEF Min, L
<1> QED BY <1>3, <1>4, <1>7, <1>9, <1>10, <1>11

LEMMA OverlayLifted ==
  ASSUME LeapsInv, NEW scene, NEW batch, NEW facts, NEW worth, NEW limit, NEW pass, NEW done,
         CycleMade(scene, batch, facts, worth, limit, pass, done)
  PROVE  OverlayConfirmed
<1>1. CASE hedge.overlay
  BY <1>1, CycleRecords
<1>2. CASE ~hedge.overlay
  <2>1. lpEquity' = EquityAfter(worth)
    BY CycleTyped
  <2>2. lpEquity' = lpEquity
    BY <1>2, <2>1 DEF EquityAfter
  <2>3. Severity[lpEquity.overlay] \in Int
    BY DEF LeapsInv, LeapsEquities, Severity
  <2>4. ~(Severity[lpEquity'.overlay] < Severity[lpEquity.overlay])
    BY <2>2, <2>3
  <2> QED BY <2>4 DEF OverlayConfirmed
<1> QED BY <1>1, <1>2

LEMMA LeapsStep == LeapsInv /\ [LeapsNext]_leapsVars => LeapsInv'
<1> SUFFICES ASSUME LeapsInv, [LeapsNext]_leapsVars PROVE LeapsInv'
  OBVIOUS
<1>1. ASSUME NEW scene \in ScenesFor[hedge], NEW batch \in BatchChoices, LeapsCycle(scene, batch)
      PROVE  LeapsInv'
  <2>1. PICK facts, worth, limit, pass, done : CycleMade(scene, batch, facts, worth, limit, pass, done)
    BY <1>1, CycleStarts
  <2> QED BY <2>1, CycleKeeps
<1>2. CASE Broker
  BY <1>2, BrokerKeeps
<1>3. CASE UNCHANGED leapsVars
  BY <1>3 DEF LeapsInv, leapsVars
<1> QED BY <1>1, <1>2, <1>3 DEF LeapsNext

LEMMA CycleGuarded ==
  ASSUME LeapsInv, [LeapsNext]_leapsVars, CycleStep
  PROVE  NoBuyback /\ HalvedOnce /\ CapHolds /\ ReleaseConfirmed /\ OverlayConfirmed
<1>1. ASSUME NEW scene \in ScenesFor[hedge], NEW batch \in BatchChoices, LeapsCycle(scene, batch)
      PROVE  NoBuyback /\ HalvedOnce /\ CapHolds /\ ReleaseConfirmed /\ OverlayConfirmed
  <2>1. PICK facts, worth, limit, pass, done : CycleMade(scene, batch, facts, worth, limit, pass, done)
    BY <1>1, CycleStarts
  <2> QED BY <2>1, NothingBoughtBack, HalvedOnceOnly, CapKept, LiftConfirmed, OverlayLifted
<1>2. ~Broker /\ ~(UNCHANGED leapsVars)
  BY DEF CycleStep, Broker, leapsVars
<1> QED BY <1>1, <1>2 DEF LeapsNext

(* Whatever the setups, the scenes, the batches and the broker: a stock the guard  *)
(* has sold is not bought back within the cooldown, a reduction is halved once, a  *)
(* cycle keeps within its cap, and neither the index's cap nor the equity overlay  *)
(* is lifted before what must confirm it has been seen (manage_risk, create_orders *)
(* and their records in the model state).                                          *)
THEOREM LeapsGuardsKeep == LeapsSpec => LeapsGuardsHold
<1> DEFINE Guarded == NoBuyback /\ HalvedOnce /\ CapHolds /\ ReleaseConfirmed /\ OverlayConfirmed
<1>1. LeapsInit => LeapsInv
  BY LeapsStarts
<1>2. LeapsInv /\ [LeapsNext]_leapsVars => LeapsInv'
  BY LeapsStep
<1>3. LeapsInv /\ [LeapsNext]_leapsVars => [CycleStep => Guarded]_leapsVars
  <2> SUFFICES ASSUME LeapsInv, [LeapsNext]_leapsVars, CycleStep PROVE Guarded
    OBVIOUS
  <2> QED BY CycleGuarded
<1> HIDE DEF Guarded
<1> QED BY <1>1, <1>2, <1>3, PTL DEF LeapsSpec, LeapsGuardsHold, Guarded
===============================================================================
