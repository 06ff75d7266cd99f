----------------------------- MODULE BacktestProofs ----------------------------
(* Proofs about Backtest. The sums and the filters of a cycle are recursive      *)
(* functions; each of them is shown to exist and to stay within a type, and      *)
(* what holds after every step of it follows by induction on the steps.          *)
EXTENDS Backtest, InductionLemmas

--------------------------------------------------------------------------------
(* Arithmetic.                                                                   *)

\* A quotient rounded down, times the divisor.
LEMMA DivBound ==
  ASSUME NEW a \in Int, NEW r \in Nat \ {0}
  PROVE  /\ a \div r \in Int
         /\ r * (a \div r) <= a
         /\ a < r * (a \div r) + r
  OBVIOUS

\* A quotient of natural numbers is one.
LEMMA DivNat ==
  ASSUME NEW a \in Nat, NEW r \in Nat \ {0}
  PROVE  a \div r \in Nat
  OBVIOUS

\* A later slice lies on no earlier day.
LEMMA DivMonotone ==
  ASSUME NEW a \in Nat, NEW b \in Nat, NEW m \in Nat \ {0}, a <= b
  PROVE  a \div m \in Nat /\ a \div m <= b \div m
  OBVIOUS

\* A share of at most the whole is at most the whole.
LEMMA ShareAtMost ==
  ASSUME NEW a \in Nat, NEW r \in Nat \ {0}, NEW s \in 0..r
  PROVE  (a * s) \div r \in 0..a
<1>1. a * s \in Nat /\ a * s <= a * r
  OBVIOUS
<1> DEFINE q == (a * s) \div r
<1>2. q \in Nat /\ r * q <= a * s
  BY <1>1, DivBound, DivNat
<1> HIDE DEF q
<1>3. r * q <= r * a
  BY <1>1, <1>2
<1>4. q <= a
  BY <1>2, <1>3
<1> QED BY <1>2, <1>4

--------------------------------------------------------------------------------
(* What the state and the steps of a cycle range over.                           *)

Lots == [quantity : Nat \ {0}, price : Nat]
Portfolios ==
  {p \in [cash : [Currencies -> Int], quantity : [Symbols -> Nat], average : [Symbols -> Nat]] :
     \A y \in Symbols : p.quantity[y] = 0 => p.average[y] = 0}
Trackers == [lots : [Symbols -> Seq(Lots)], traded : Nat, fees : Nat, pnl : Int]
Books == [portfolio : Portfolios, tracker : Trackers]

PriceMaps == UNION {[T -> Nat] : T \in SUBSET Symbols}
Targets == [symbol : Symbols, weight : -Full..Full, urgent : BOOLEAN]
Plans == [symbol : Symbols, weight : -Full..Full, urgent : BOOLEAN, price : Nat,
          current : Nat, desired : Int, quantity : Int]
Reasons ==
  {"short_target_rejected", "snapshot_quality", "missing_or_invalid_price", "insufficient_cash",
   "limit_exceeded", "approved"}
Grants == [symbol : Symbols, wanted : Int, granted : Int, current : Nat,
           approved : BOOLEAN, reason : Reasons]
FillRecords == [symbol : Symbols, side : {"buy", "sell"}, quantity : Nat \ {0},
                price : Nat, fee : Nat]
--------------------------------------------------------------------------------
(* The feed.                                                                     *)

FeedInv ==
  /\ feed.n \in 0..MaxSlices /\ DOMAIN feed.last \subseteq Symbols
  /\ feed.daily = {d \in 0..DayOf(MaxSlices) : feed.n > 0 /\ d < DayOf(feed.n)}

\* A bound on the price lists: their prices are natural numbers.
LEMMA PriceListsTyped == PriceLists \subseteq PriceMaps
<1> SUFFICES ASSUME NEW prices \in PriceLists PROVE prices \in PriceMaps
  OBVIOUS
<1>1. PICK bars \in SUBSET Symbols : prices \in [bars -> Nat]
  BY BacktestAssumption
<1> QED BY <1>1 DEF PriceMaps

\* One more slice is seen, and with the first slice of a day the days before it.
LEMMA AdvanceKeeps ==
  ASSUME FeedInv, NEW prices \in PriceLists, feed.n < MaxSlices, feed' = Advance(prices)
  PROVE  FeedInv'
<1> DEFINE n == feed.n
<1>1. n \in Nat /\ n + 1 \in 0..MaxSlices /\ SlicesPerDay \in Nat \ {0} /\ MaxSlices \in Nat
  BY BacktestAssumption DEF FeedInv
<1>2. feed'.n = n + 1 /\ feed'.last = Updated(feed.last, prices)
      /\ feed'.daily = feed.daily \cup DueDailyDates(n + 1, feed.daily)
  BY DEF Advance
<1>3. DOMAIN feed'.last \subseteq Symbols
  <2>1. PICK bars \in SUBSET Symbols : prices \in [bars -> Nat]
    BY BacktestAssumption
  <2> QED BY <1>2, <2>1 DEF Updated, FeedInv
<1>4. n > 0 => DayOf(n) <= DayOf(n + 1) /\ DayOf(n) \in Nat
  <2>1. SUFFICES ASSUME n > 0 PROVE DayOf(n) <= DayOf(n + 1) /\ DayOf(n) \in Nat
    OBVIOUS
  <2>2. n - 1 \in Nat /\ (n + 1) - 1 = n
    BY <1>1, <2>1
  <2> HIDE DEF n
  <2> QED BY <1>1, <2>1, <2>2, DivMonotone DEF DayOf
<1>5. DayOf(n + 1) \in Nat
  BY <1>1, DivNat DEF DayOf
<1>6. feed'.daily = {d \in 0..DayOf(MaxSlices) : n + 1 > 0 /\ d < DayOf(n + 1)}
  <2> DEFINE days == 0..DayOf(MaxSlices)
  <2>1. feed.daily = {d \in days : n > 0 /\ d < DayOf(n)}
    BY DEF FeedInv
  <2>2. feed'.daily = feed.daily \cup {d \in days : d < DayOf(n + 1) /\ d \notin feed.daily}
    BY <1>2 DEF DueDailyDates
  <2>3. \A d \in days : d \in Int
    OBVIOUS
  <2>4. \A d \in days : n > 0 /\ d < DayOf(n) => d < DayOf(n + 1)
    BY <1>4, <1>5, <2>3
  <2>5. n + 1 > 0
    BY <1>1
  <2> DEFINE early == {d \in days : n + 1 > 0 /\ d < DayOf(n + 1)}
  <2>6. ASSUME NEW d \in feed'.daily PROVE d \in early
    <3> HIDE DEF n, days
    <3> QED BY <2>1, <2>2, <2>4, <2>5
  <2>7. ASSUME NEW d \in early PROVE d \in feed'.daily
    <3> HIDE DEF n, days
    <3> QED BY <2>1, <2>2, <2>4, <2>5
  <2> HIDE DEF early
  <2>8. feed'.daily = early
    BY <2>6, <2>7
  <2> QED BY <2>8 DEF early
<1> QED BY <1>1, <1>2, <1>3, <1>6 DEF FeedInv

LEMMA FeedStep == FeedInv /\ [BacktestNext]_backtestVars => FeedInv'
<1> SUFFICES ASSUME FeedInv, [BacktestNext]_backtestVars PROVE FeedInv'
  OBVIOUS
<1>1. CASE UNCHANGED backtestVars
  BY <1>1 DEF FeedInv, backtestVars
<1>2. ASSUME NEW prices \in PriceLists, WarmUpSlice(prices) PROVE FeedInv'
  <2>1. feed.n < MaxSlices
    BY <1>2, BacktestAssumption DEF WarmUpSlice, FeedInv
  <2> QED BY <1>2, <2>1, AdvanceKeeps DEF WarmUpSlice
<1>3. ASSUME NEW prices \in PriceLists, NEW batch \in Batches,
             NEW quality \in {"valid", "stale", "invalid"}, NEW reused \in BOOLEAN,
             TradingSlice(prices, batch, quality, reused)
      PROVE  FeedInv'
  <2>1. feed.n < MaxSlices /\ feed' = Advance(prices)
    BY <1>3 DEF TradingSlice
  <2> QED BY <2>1, AdvanceKeeps
<1> QED BY <1>1, <1>2, <1>3 DEF BacktestNext

LEMMA FeedStart == BacktestInit => FeedInv
<1> SUFFICES ASSUME BacktestInit PROVE FeedInv
  OBVIOUS
<1>1. feed = [n |-> 0, last |-> <<>>, daily |-> {}]
  BY DEF BacktestInit
<1>2. MaxSlices \in Nat /\ DOMAIN << >> = {}
  BY BacktestAssumption
<1> QED BY <1>1, <1>2 DEF FeedInv

(* The daily bars of a replay (run_framework_replay) reach the indicators in the *)
(* order of the days: all days before the slice at hand, and none of its own.    *)
THEOREM DailyBarsInOrder == BacktestSpec => []NoLookAhead
<1>1. FeedInv => NoLookAhead
  BY DEF FeedInv, NoLookAhead
<1> QED BY <1>1, FeedStart, FeedStep, PTL DEF BacktestSpec
--------------------------------------------------------------------------------
(* Sizing: the plans of a cycle are one for each of some targets of its batch,   *)
(* and know what is held and the price it is marked at.                          *)

Sized(plans, p, prices) ==
  /\ plans \in Seq(Plans) /\ OneTargetEach(plans)
  /\ \A i \in DOMAIN plans : /\ plans[i].current = p.quantity[plans[i].symbol]
                             /\ plans[i].price = MarkPrice(p, prices, plans[i].symbol)

\* The mark of a symbol is a price.
LEMMA MarkTyped ==
  ASSUME NEW p \in Portfolios, NEW prices \in PriceMaps, NEW y \in Symbols
  PROVE  MarkPrice(p, prices, y) \in Nat
<1>1. PICK bars \in SUBSET Symbols : prices \in [bars -> Nat]
  BY DEF PriceMaps
<1> QED BY <1>1 DEF MarkPrice, Portfolios

LEMMA EquityTyped ==
  ASSUME NEW p \in Portfolios, NEW prices \in PriceMaps, NEW c \in Currencies
  PROVE  Equity(p, prices, c) \in Int
<1> DEFINE W == [y \in Symbols |-> PositionValue(p, prices, y)]
<1>1. IsFiniteSet(In(c)) /\ In(c) \subseteq Symbols
  BY PortfolioAssumption, FS_Subset DEF In
<1>2. \A y \in In(c) : W[y] \in Int
  <2> SUFFICES ASSUME NEW y \in In(c) PROVE W[y] \in Int
    OBVIOUS
  <2>1. MarkPrice(p, prices, y) \in Nat /\ p.quantity[y] \in Nat /\ y \in Symbols
    BY <1>1, MarkTyped DEF Portfolios
  <2>2. W[y] = p.quantity[y] * MarkPrice(p, prices, y)
    BY <2>1 DEF PositionValue
  <2> HIDE DEF W
  <2> QED BY <2>1, <2>2
<1>3. SumFunctionOnSet(W, In(c)) \in Int
  <2> HIDE DEF W
  <2> QED BY <1>1, <1>2, SumType
<1>4. p.cash[c] \in Int
  BY DEF Portfolios
<1> QED BY <1>3, <1>4 DEF Equity

LEMMA ScaleTyped == Full \in Nat \ {0} /\ Scale \in Nat \ {0}
  BY UnitAssumption DEF Scale

\* One plan.
LEMMA PlanTyped ==
  ASSUME NEW p \in Portfolios, NEW prices \in PriceMaps, NEW target \in Targets, setup \in Setups
  PROVE  /\ SizingPlan(p, prices, target) \in Plans
         /\ SizingPlan(p, prices, target).symbol = target.symbol
         /\ SizingPlan(p, prices, target).current = p.quantity[target.symbol]
         /\ SizingPlan(p, prices, target).price = MarkPrice(p, prices, target.symbol)
<1> DEFINE y == target.symbol
           price == MarkPrice(p, prices, y)
           current == p.quantity[y]
           desired == TargetValue(p, prices, CurrencyOf[y]) * target.weight
           floored == QuantityForValue(desired, price)
           entry == /\ floored = 0 /\ current = 0 /\ desired > 0
                    /\ LotsAtLeast(desired, price, setup.entryFloor)
           quantity == IF price = 0 THEN current ELSE IF entry THEN 1 ELSE floored
<1>1. y \in Symbols /\ CurrencyOf[y] \in Currencies /\ target.weight \in -Full..Full
      /\ target.urgent \in BOOLEAN
  BY PortfolioAssumption DEF Targets
<1>2. price \in Nat /\ current \in Nat
  BY <1>1, MarkTyped DEF Portfolios
<1>3. desired \in Int
  <2>1. Equity(p, prices, CurrencyOf[y]) \in Int
    BY <1>1, EquityTyped
  <2>2. setup.reserve \in Int
    BY SizingAssumption, UnitAssumption
  <2>3. target.weight \in Int
    BY <1>1, UnitAssumption
  <2> QED BY <2>1, <2>2, <2>3, UnitAssumption DEF TargetValue
<1>4. price # 0 => floored \in Int
  <2>1. SUFFICES ASSUME price # 0 PROVE QuantityForValue(desired, price) \in Int
    OBVIOUS
  <2> DEFINE unit == price * Scale
  <2>2. unit \in Nat \ {0}
    BY <1>2, <2>1, ScaleTyped
  <2>3. QuantityForValue(desired, price)
          = IF desired >= 0 THEN desired \div unit ELSE -((-desired) \div unit)
    BY DEF QuantityForValue
  <2> HIDE DEF unit, desired
  <2> QED BY <1>3, <2>2, <2>3
<1>5. quantity \in Int
  <2> HIDE DEF price, current, desired, floored, entry
  <2> QED BY <1>2, <1>4
<1>6. SizingPlan(p, prices, target)
        = [symbol |-> y, weight |-> target.weight, urgent |-> target.urgent, price |-> price,
           current |-> current, desired |-> desired, quantity |-> quantity]
  BY DEF SizingPlan
<1> HIDE DEF price, current, desired, quantity
<1>7. SizingPlan(p, prices, target) \in Plans
  BY <1>1, <1>2, <1>3, <1>5, <1>6 DEF Plans
<1> QED BY <1>6, <1>7 DEF price, current

\* The plans of the first n targets.
LEMMA RawPlansSized ==
  ASSUME NEW p \in Portfolios, NEW prices \in PriceMaps, setup \in Setups,
         NEW batch \in Seq(Targets), OneTargetEach(batch)
  PROVE  /\ Sized(RawPlans(p, prices, batch), p, prices)
         /\ Len(RawPlans(p, prices, batch)) = Len(batch)
         /\ \A i \in DOMAIN batch : RawPlans(p, prices, batch)[i] = SizingPlan(p, prices, batch[i])
<1> DEFINE m == Len(batch)
           D == Seq(Plans)
           Row(g) == [n \in 0..m |-> IF n = 0 THEN <<>>
                                     ELSE Append(g[n - 1], SizingPlan(p, prices, batch[n]))]
           step == [x \in D \X Nat |->
                      IF x[2] \in 1..m THEN Append(x[1], SizingPlan(p, prices, batch[x[2]])) ELSE x[1]]
<1>0. m \in Nat
  OBVIOUS
<1>1. \A n \in 1..m : SizingPlan(p, prices, batch[n]) \in Plans
  <2> SUFFICES ASSUME NEW n \in 1..m PROVE SizingPlan(p, prices, batch[n]) \in Plans
    OBVIOUS
  <2>1. batch[n] \in Targets
    OBVIOUS
  <2> QED BY <2>1, PlanTyped
<1>2. step \in [D \X Nat -> D]
  BY <1>1
<1>3. PICK f \in [0..m -> D] : Run(f, << >>, step, m)
  <2>1. << >> \in D
    OBVIOUS
  <2> HIDE DEF D, step
  <2>2. \A k \in Nat : \E f \in [0..k -> D] : Run(f, << >>, step, k)
    BY <1>2, <2>1, Repeated
  <2> QED BY <1>0, <2>2
<1>4. f = Row(f)
  <2>1. ASSUME NEW n \in 1..m PROVE f[n] = Append(f[n - 1], SizingPlan(p, prices, batch[n]))
    <3>1. f[n - 1] \in D /\ n \in Nat
      OBVIOUS
    <3>2. f[n] = step[<<f[n - 1], n>>]
      BY <1>3 DEF Run
    <3> QED BY <3>1, <3>2
  <2> DEFINE r == Row(f)
  <2>2. DOMAIN f = 0..m /\ DOMAIN r = 0..m
    OBVIOUS
  <2>3. ASSUME NEW n \in 0..m PROVE f[n] = r[n]
    <3>1. CASE n = 0
      BY <1>3, <3>1 DEF Run
    <3>2. CASE n # 0
      <4>1. n \in 1..m
        BY <1>0, <3>2
      <4>2. r[n] = Append(f[n - 1], SizingPlan(p, prices, batch[n]))
        BY <3>2
      <4> HIDE DEF r
      <4> QED BY <2>1, <4>1, <4>2
    <3> QED BY <3>1, <3>2
  <2>4. f = [n \in 0..m |-> f[n]] /\ r = [n \in 0..m |-> r[n]]
    OBVIOUS
  <2> HIDE DEF r
  <2>5. f = r
    BY <2>3, <2>4
  <2> QED BY <2>5 DEF r
<1> DEFINE h == CHOOSE g : g = Row(g)
<1>5. PlansFor(p, prices, batch) = h
  BY DEF PlansFor
<1>6. h = Row(h)
  <2> HIDE DEF Row
  <2> QED BY <1>4
<1> HIDE DEF h
<1>7. h[0] = << >> /\ \A n \in 1..m : h[n] = Append(h[n - 1], SizingPlan(p, prices, batch[n]))
  <2>1. ASSUME NEW n \in 0..m
        PROVE  h[n] = IF n = 0 THEN << >> ELSE Append(h[n - 1], SizingPlan(p, prices, batch[n]))
    BY <1>6
  <2>2. 0 \in 0..m /\ \A n \in 1..m : n \in 0..m /\ n # 0
    BY <1>0
  <2> QED BY <2>1, <2>2
<1> DEFINE S == {n \in 0..m : /\ h[n] \in Seq(Plans) /\ Len(h[n]) = n
                              /\ \A i \in 1..n : h[n][i] = SizingPlan(p, prices, batch[i])}
<1>8. 0 \in S
  <2>1. 0 \in 0..m /\ 1..0 = {} /\ Len(<< >>) = 0 /\ << >> \in Seq(Plans)
    BY <1>0
  <2> HIDE DEF m
  <2> QED BY <1>7, <2>1
<1>9. ASSUME NEW n \in 1..m, n - 1 \in S PROVE n \in S
  <2>1. h[n] = Append(h[n - 1], SizingPlan(p, prices, batch[n]))
    BY <1>7
  <2>2. SizingPlan(p, prices, batch[n]) \in Plans
    BY <1>1
  <2>3. h[n - 1] \in Seq(Plans) /\ Len(h[n - 1]) = n - 1
        /\ \A i \in 1..(n - 1) : h[n - 1][i] = SizingPlan(p, prices, batch[i])
    BY <1>9
  <2>4. h[n] \in Seq(Plans) /\ Len(h[n]) = n
    BY <2>1, <2>2, <2>3
  <2>5. ASSUME NEW i \in 1..n PROVE h[n][i] = SizingPlan(p, prices, batch[i])
    <3>1. CASE i = n
      BY <2>1, <2>2, <2>3, <3>1
    <3>2. CASE i # n
      <4>1. i \in 1..(n - 1)
        BY <3>2
      <4> QED BY <2>1, <2>3, <4>1
    <3> QED BY <3>1, <3>2
  <2> QED BY <2>4, <2>5
<1>10. m \in S
  <2>1. 0..m \subseteq S
    <3> HIDE DEF S, m
    <3> QED BY <1>0, <1>8, <1>9, UpTo
  <2> QED BY <1>0, <2>1
<1>11. RawPlans(p, prices, batch) = h[m]
  BY <1>5 DEF RawPlans
<1> DEFINE plans == RawPlans(p, prices, batch)
<1>12. plans \in Seq(Plans) /\ Len(plans) = m
       /\ \A i \in 1..m : plans[i] = SizingPlan(p, prices, batch[i])
  BY <1>10, <1>11
<1> HIDE DEF plans
<1>13. ASSUME NEW i \in 1..m
       PROVE  /\ plans[i].symbol = batch[i].symbol
              /\ plans[i].current = p.quantity[plans[i].symbol]
              /\ plans[i].price = MarkPrice(p, prices, plans[i].symbol)
  <2>1. batch[i] \in Targets /\ plans[i] = SizingPlan(p, prices, batch[i])
    BY <1>12
  <2> QED BY <2>1, PlanTyped
<1>14. OneTargetEach(plans)
  BY <1>12, <1>13 DEF OneTargetEach
<1>15. Sized(plans, p, prices)
  BY <1>12, <1>13, <1>14 DEF Sized
<1> QED BY <1>12, <1>15 DEF plans

\* Fractions are compared by cross-multiplication: a/p <= b/q < c/r.
LEMMA CrossTransitive ==
  ASSUME NEW a \in Int, NEW b \in Int, NEW c \in Int,
         NEW p \in Nat \ {0}, NEW q \in Nat \ {0}, NEW r \in Nat \ {0},
         a * q <= b * p, b * r < c * q
  PROVE  a * r < c * p
<1> SUFFICES ASSUME c * p <= a * r PROVE FALSE
  OBVIOUS
<1> DEFINE x == a * q
           y == b * p
           v == b * r
           w == c * q
           s == c * p
           t == a * r
<1>1. x \in Int /\ y \in Int /\ v \in Int /\ w \in Int /\ s \in Int /\ t \in Int
  OBVIOUS
<1>2. x * r = t * q /\ y * r = v * p /\ w * p = s * q
  OBVIOUS
<1>3. x <= y /\ v < w /\ s <= t
  OBVIOUS
<1> HIDE DEF x, y, v, w, s, t
<1>4. x * r <= y * r
  BY <1>1, <1>3
<1>5. v * p < w * p
  BY <1>1, <1>3
<1>6. s * q <= t * q
  BY <1>1, <1>3
<1>7. x * r \in Int /\ y * r \in Int /\ w * p \in Int /\ s * q \in Int
  BY <1>1
<1> QED BY <1>2, <1>4, <1>5, <1>6, <1>7

\* The plan that gets a share is one of those that may.
LEMMA BestOne ==
  ASSUME NEW plans \in Seq(Plans), NEW candidates \in SUBSET DOMAIN plans, candidates # {},
         \A i \in candidates : plans[i].price > 0
  PROVE  Best(plans, candidates) \in candidates
<1> DEFINE m == Len(plans)
           Score(i) == Gap(plans[i]) * plans[i].weight
           Price(i) == plans[i].price
           First(T, i) == \A j \in T : /\ ~Better(plans[j], plans[i])
                                       /\ Better(plans[i], plans[j]) \/ i <= j
           Upto(n) == {i \in candidates : i <= n}
           S == {n \in 0..m : Upto(n) = {} \/ \E i \in Upto(n) : First(Upto(n), i)}
<1>1. m \in Nat /\ candidates \subseteq 1..m
  OBVIOUS
<1>2. ASSUME NEW i \in candidates PROVE Score(i) \in Int /\ Price(i) \in Nat \ {0} /\ i \in Nat
  <2>1. plans[i] \in Plans
    OBVIOUS
  <2>2. plans[i].weight \in Int /\ plans[i].price \in Nat /\ plans[i].desired \in Int
        /\ plans[i].quantity \in Int
    <3>1. plans[i].weight \in -Full..Full /\ plans[i].price \in Nat /\ plans[i].desired \in Int
          /\ plans[i].quantity \in Int
      BY <2>1 DEF Plans
    <3> QED BY <3>1, ScaleTyped
  <2>3. Gap(plans[i]) \in Int
    BY <2>2, ScaleTyped DEF Gap, Money
  <2> QED BY <1>1, <2>2, <2>3
<1>3. \A i, j : Better(plans[i], plans[j]) <=> Score(i) * Price(j) > Score(j) * Price(i)
  BY DEF Better
<1> HIDE DEF Score, Price
<1>4. 0 \in S
  <2>1. Upto(0) = {} /\ 0 \in 0..m
    BY <1>1
  <2> HIDE DEF Upto
  <2> QED BY <2>1
<1>5. ASSUME NEW n \in 1..m, n - 1 \in S PROVE n \in S
  <2>1. n \in 0..m /\ n \in Nat
    BY <1>1
  <2>2. CASE n \notin candidates
    <3>1. Upto(n) = Upto(n - 1)
      BY <1>1, <2>1, <2>2
    <3> HIDE DEF Upto, First
    <3> QED BY <1>5, <2>1, <3>1
  <2>3. CASE n \in candidates
    <3>1. Upto(n) = Upto(n - 1) \cup {n} /\ \A j \in Upto(n - 1) : j <= n /\ j \in candidates
      BY <1>1, <2>1, <2>3
    <3>2. ~Better(plans[n], plans[n])
      <4>1. Score(n) * Price(n) \in Int
        BY <1>2, <2>3
      <4> QED BY <1>3, <4>1
    <3>3. CASE \E i \in Upto(n - 1) : First(Upto(n - 1), i) /\ ~Better(plans[n], plans[i])
      <4>1. PICK i \in Upto(n - 1) : First(Upto(n - 1), i) /\ ~Better(plans[n], plans[i])
        BY <3>3
      <4>2. First(Upto(n), i) /\ i \in Upto(n)
        <5> HIDE DEF Upto
        <5> QED BY <3>1, <4>1
      <4> HIDE DEF Upto, First
      <4> QED BY <2>1, <4>2
    <3>4. CASE ~\E i \in Upto(n - 1) : First(Upto(n - 1), i) /\ ~Better(plans[n], plans[i])
      <4>1. ASSUME NEW j \in Upto(n - 1) PROVE Better(plans[n], plans[j]) /\ ~Better(plans[j], plans[n])
        <5> HIDE DEF Upto
        <5>1. PICK i \in Upto(n - 1) : First(Upto(n - 1), i)
          <6> HIDE DEF First
          <6> QED BY <1>5
        <5>2. Better(plans[n], plans[i]) /\ ~Better(plans[j], plans[i])
          BY <3>4, <5>1
        <5> DEFINE a == Score(j)
                   b == Score(i)
                   c == Score(n)
                   p == Price(j)
                   q == Price(i)
                   r == Price(n)
        <5>3. a \in Int /\ b \in Int /\ c \in Int /\ p \in Nat \ {0} /\ q \in Nat \ {0} /\ r \in Nat \ {0}
          BY <1>2, <2>3, <3>1
        <5>4. c * q > b * r /\ ~(a * q > b * p)
          BY <1>3, <5>2
        <5>5. (Better(plans[n], plans[j]) <=> c * p > a * r) /\ (Better(plans[j], plans[n]) <=> a * r > c * p)
          BY <1>3
        <5> HIDE DEF a, b, c, p, q, r
        <5>6. a * q \in Int /\ b * p \in Int /\ c * q \in Int /\ b * r \in Int /\ a * r \in Int /\ c * p \in Int
          BY <5>3
        <5>7. a * q <= b * p /\ b * r < c * q
          BY <5>4, <5>6
        <5>8. a * r < c * p
          BY <5>3, <5>7, CrossTransitive
        <5> QED BY <5>5, <5>6, <5>8
      <4>2. First(Upto(n), n) /\ n \in Upto(n)
        <5> HIDE DEF Upto
        <5> QED BY <2>1, <3>1, <3>2, <4>1
      <4> HIDE DEF Upto, First
      <4> QED BY <2>1, <4>2
    <3> QED BY <3>3, <3>4
  <2> QED BY <2>2, <2>3
<1>6. m \in S
  <2>1. 0..m \subseteq S
    <3> HIDE DEF S, m
    <3> QED BY <1>1, <1>4, <1>5, UpTo
  <2> HIDE DEF S
  <2> QED BY <1>1, <2>1
<1>7. Upto(m) = candidates
  BY <1>1
<1>8. \E i \in candidates : First(candidates, i)
  <2> HIDE DEF Upto, First
  <2> QED BY <1>6, <1>7
<1>9. Best(plans, candidates) = CHOOSE i \in candidates : First(candidates, i)
  BY DEF Best
<1> HIDE DEF First
<1> QED BY <1>8, <1>9

\* A plan that may take a share is one that the optimizer looks at.
LEMMA FittingTyped ==
  ASSUME NEW p, NEW prices, NEW plans, Sized(plans, p, prices), NEW c,
         NEW k \in Fitting(plans, p, prices, c)
  PROVE  /\ k \in IndexesIn(plans, c) /\ k \in DOMAIN plans /\ Optimized(plans[k])
         /\ plans[k].price * Scale <= Available(plans, p, prices, c)
         /\ Gap(plans[k]) > 0
  BY DEF Fitting, Candidates, IndexesIn

\* One share more for a plan that fits, or none for none does.
LEMMA OneMoreFits ==
  ASSUME NEW p, NEW prices, NEW plans, Sized(plans, p, prices)
  PROVE  \/ /\ OneMore(plans, p, prices) = plans
            /\ \A c \in Currencies : Fitting(plans, p, prices, c) = {}
         \/ \E c \in Currencies : \E k \in Fitting(plans, p, prices, c) :
              OneMore(plans, p, prices) = [plans EXCEPT ![k].quantity = @ + 1]
<1> DEFINE open == {c \in Currencies : Fitting(plans, p, prices, c) # {}}
           cur == CHOOSE c \in open : TRUE
           k == Best(plans, Fitting(plans, p, prices, cur))
<1>1. OneMore(plans, p, prices) = IF open = {} THEN plans ELSE [plans EXCEPT ![k].quantity = @ + 1]
  BY DEF OneMore
<1>2. CASE open = {}
  BY <1>1, <1>2
<1>3. CASE open # {}
  <2>1. cur \in open
    BY <1>3
  <2> HIDE DEF cur
  <2>2. k \in Fitting(plans, p, prices, cur)
    <3>1. Fitting(plans, p, prices, cur) # {}
      BY <2>1
    <3>2. Fitting(plans, p, prices, cur) \in SUBSET DOMAIN plans
      BY FittingTyped
    <3>3. \A i \in Fitting(plans, p, prices, cur) : plans[i].price > 0
      BY FittingTyped DEF Optimized
    <3> QED BY <3>1, <3>2, <3>3, BestOne DEF Sized
  <2> QED BY <1>1, <1>3, <2>1, <2>2
<1> QED BY <1>2, <1>3

\* Of each plan only the quantity may differ, and only where the optimizer looks.
Alike(old, new) ==
  /\ Len(new) = Len(old)
  /\ \A i \in DOMAIN old :
       /\ new[i].symbol = old[i].symbol /\ new[i].weight = old[i].weight
       /\ new[i].urgent = old[i].urgent /\ new[i].price = old[i].price
       /\ new[i].current = old[i].current /\ new[i].desired = old[i].desired
       /\ Optimized(new[i]) = Optimized(old[i])
       /\ ~Optimized(old[i]) => new[i] = old[i]

\* One share more changes no plan but in its quantity.
LEMMA OneMoreSized ==
  ASSUME NEW p, NEW prices, NEW plans, Sized(plans, p, prices)
  PROVE  /\ Sized(OneMore(plans, p, prices), p, prices)
         /\ Alike(plans, OneMore(plans, p, prices))
<1>1. CASE OneMore(plans, p, prices) = plans
  BY <1>1 DEF Alike
<1>2. CASE \E c \in Currencies : \E k \in Fitting(plans, p, prices, c) :
             OneMore(plans, p, prices) = [plans EXCEPT ![k].quantity = @ + 1]
  <2>0. PICK c \in Currencies : \E k \in Fitting(plans, p, prices, c) :
          OneMore(plans, p, prices) = [plans EXCEPT ![k].quantity = @ + 1]
    BY <1>2
  <2>1. PICK k \in Fitting(plans, p, prices, c) :
          OneMore(plans, p, prices) = [plans EXCEPT ![k].quantity = @ + 1]
    BY <2>0
  <2>2. k \in DOMAIN plans /\ Optimized(plans[k])
    BY FittingTyped
  <2> DEFINE more == [plans EXCEPT ![k].quantity = @ + 1]
  <2>3. plans \in Seq(Plans)
    BY DEF Sized
  <2>4. DOMAIN more = DOMAIN plans /\ DOMAIN plans = 1..Len(plans)
        /\ \A i \in DOMAIN plans :
             more[i] = IF i = k THEN [plans[i] EXCEPT !.quantity = @ + 1] ELSE plans[i]
    BY <2>3
  <2>5. more = [i \in 1..Len(plans) |-> more[i]]
    BY <2>3
  <2> HIDE DEF more
  <2>6. ASSUME NEW i \in DOMAIN plans
        PROVE  /\ more[i] \in Plans
               /\ more[i].symbol = plans[i].symbol /\ more[i].weight = plans[i].weight
               /\ more[i].urgent = plans[i].urgent /\ more[i].price = plans[i].price
               /\ more[i].current = plans[i].current /\ more[i].desired = plans[i].desired
    <3>1. plans[i] \in Plans
      BY <2>3
    <3> QED BY <2>4, <3>1 DEF Plans
  <2>7. more \in [1..Len(plans) -> Plans]
    BY <2>4, <2>5, <2>6
  <2>8. more \in Seq(Plans) /\ Len(more) = Len(plans)
    BY <2>3, <2>7
  <2>9. OneTargetEach(more)
    BY <2>4, <2>6 DEF Sized, OneTargetEach
  <2>10. Sized(more, p, prices)
    BY <2>4, <2>6, <2>8, <2>9 DEF Sized
  <2>11. \A i \in DOMAIN plans : /\ Optimized(more[i]) = Optimized(plans[i])
                                 /\ ~Optimized(plans[i]) => more[i] = plans[i]
    BY <2>2, <2>4, <2>6 DEF Optimized
  <2>12. Alike(plans, more)
    BY <2>6, <2>8, <2>11 DEF Alike
  <2> QED BY <2>1, <2>10, <2>12 DEF more
<1> QED BY <1>1, <1>2, OneMoreFits

\* The run of the optimizer: the plans after each of its rounds.
LotsRun(h, plans, p, prices) ==
  /\ h[0] = plans
  /\ \A n \in 1..Len(plans) : h[n] = OneMore(h[n - 1], p, prices)
  /\ \A n \in 0..Len(plans) : Sized(h[n], p, prices) /\ Alike(plans, h[n])
  /\ h[Len(plans)] = OptimizeLots(plans, p, prices)

LEMMA OptimizedSized ==
  ASSUME NEW p, NEW prices, NEW plans, Sized(plans, p, prices)
  PROVE  /\ \E h : LotsRun(h, plans, p, prices)
         /\ Sized(OptimizeLots(plans, p, prices), p, prices)
         /\ Alike(plans, OptimizeLots(plans, p, prices))
<1> DEFINE m == Len(plans)
           D == {q \in Seq(Plans) : Sized(q, p, prices) /\ Alike(plans, q)}
           Row(g) == [n \in 0..m |-> IF n = 0 THEN plans ELSE OneMore(g[n - 1], p, prices)]
           step == [x \in D \X Nat |-> OneMore(x[1], p, prices)]
<1>0. m \in Nat /\ plans \in D
  BY DEF Sized, Alike
<1>1. \A q \in D : OneMore(q, p, prices) \in D
  <2> SUFFICES ASSUME NEW q \in D PROVE OneMore(q, p, prices) \in D
    OBVIOUS
  <2> DEFINE more == OneMore(q, p, prices)
  <2>1. Sized(more, p, prices) /\ Alike(q, more)
    BY OneMoreSized
  <2> HIDE DEF more
  <2>2. DOMAIN q = DOMAIN plans
    <3>1. q \in Seq(Plans) /\ plans \in Seq(Plans) /\ Len(q) = Len(plans)
      BY DEF Alike, Sized
    <3> QED BY <3>1
  <2>3. Alike(plans, more)
    BY <2>1, <2>2 DEF Alike
  <2>4. more \in Seq(Plans)
    BY <2>1 DEF Sized
  <2> QED BY <2>1, <2>3, <2>4 DEF more
<1>2. step \in [D \X Nat -> D]
  BY <1>1
<1>3. PICK f \in [0..m -> D] : Run(f, plans, step, m)
  <2> HIDE DEF D, step
  <2>1. \A k \in Nat : \E f \in [0..k -> D] : Run(f, plans, step, k)
    BY <1>0, <1>2, Repeated
  <2> QED BY <1>0, <2>1
<1>4. f = Row(f)
  <2>1. ASSUME NEW n \in 0..m
        PROVE  f[n] = IF n = 0 THEN plans ELSE OneMore(f[n - 1], p, prices)
    <3>1. CASE n = 0
      BY <1>3, <3>1 DEF Run
    <3>2. CASE n # 0
      <4>1. n \in 1..m /\ n \in Nat /\ n - 1 \in 0..m
        BY <1>0, <3>2
      <4>0. f[n - 1] \in D
        <5> HIDE DEF D, m, step
        <5> QED BY <1>3, <4>1
      <4>2. f[n] = step[<<f[n - 1], n>>]
        BY <1>3, <4>1 DEF Run
      <4>3. step[<<f[n - 1], n>>] = OneMore(f[n - 1], p, prices)
        BY <4>0, <4>1
      <4> HIDE DEF step
      <4> QED BY <3>2, <4>2, <4>3
    <3> QED BY <3>1, <3>2
  <2>2. f = [n \in 0..m |-> f[n]]
    OBVIOUS
  <2> QED BY <2>1, <2>2
<1> DEFINE h == CHOOSE g : g = Row(g)
<1>5. LotsAfter(plans, p, prices) = h
  BY DEF LotsAfter
<1>6. h = Row(h)
  <2> HIDE DEF Row
  <2> QED BY <1>4
<1> HIDE DEF h
<1>7. ASSUME NEW n \in 0..m
      PROVE  h[n] = IF n = 0 THEN plans ELSE OneMore(h[n - 1], p, prices)
  BY <1>6
<1> DEFINE S == {n \in 0..m : h[n] \in D}
<1>8. 0 \in S
  <2>1. 0 \in 0..m
    BY <1>0
  <2> HIDE DEF D
  <2> QED BY <1>0, <1>7, <2>1
<1>9. ASSUME NEW n \in 1..m, n - 1 \in S PROVE n \in S
  <2>1. n \in 0..m /\ n # 0 /\ h[n - 1] \in D
    BY <1>0, <1>9
  <2> HIDE DEF D
  <2> QED BY <1>1, <1>7, <2>1
<1>10. \A n \in 0..m : h[n] \in D
  <2>1. 0..m \subseteq S
    <3> HIDE DEF S, m
    <3> QED BY <1>0, <1>8, <1>9, UpTo
  <2> QED BY <2>1
<1>11. h[0] = plans /\ \A n \in 1..m : h[n] = OneMore(h[n - 1], p, prices)
  <2>1. 0 \in 0..m /\ \A n \in 1..m : n \in 0..m /\ n # 0
    BY <1>0
  <2> HIDE DEF m
  <2> QED BY <1>7, <2>1
<1>12. h[m] = OptimizeLots(plans, p, prices)
  BY <1>5 DEF OptimizeLots
<1>13. LotsRun(h, plans, p, prices)
  BY <1>10, <1>11, <1>12 DEF LotsRun
<1>14. m \in 0..m
  BY <1>0
<1> QED BY <1>10, <1>12, <1>13, <1>14

\* A plan of another symbol joins.
LEMMA PlanJoins ==
  ASSUME NEW p, NEW prices, NEW kept, Sized(kept, p, prices), NEW plan \in Plans,
         plan.current = p.quantity[plan.symbol], plan.price = MarkPrice(p, prices, plan.symbol),
         \A j \in DOMAIN kept : kept[j].symbol # plan.symbol
  PROVE  Sized(Append(kept, plan), p, prices)
<1> DEFINE s == Append(kept, plan)
           k == Len(kept)
<1>1. kept \in Seq(Plans) /\ k \in Nat /\ DOMAIN kept = 1..k
  BY DEF Sized
<1>2. s \in Seq(Plans) /\ DOMAIN s = 1..(k + 1) /\ s[k + 1] = plan
      /\ \A i \in 1..k : s[i] = kept[i]
  BY <1>1
<1> HIDE DEF s, k
<1>3. \A i \in 1..(k + 1) : i \in 1..k \/ i = k + 1
  BY <1>1
<1>4. OneTargetEach(s)
  <2> SUFFICES ASSUME NEW i \in 1..(k + 1), NEW j \in 1..(k + 1), s[i].symbol = s[j].symbol
               PROVE  i = j
    BY <1>2 DEF OneTargetEach
  <2>1. CASE i \in 1..k /\ j \in 1..k
    BY <1>1, <1>2, <2>1 DEF Sized, OneTargetEach
  <2>2. CASE i \in 1..k /\ j = k + 1
    BY <1>1, <1>2, <2>2
  <2>3. CASE i = k + 1 /\ j \in 1..k
    BY <1>1, <1>2, <2>3
  <2> QED BY <1>3, <2>1, <2>2, <2>3
<1>5. \A i \in 1..(k + 1) : /\ s[i].current = p.quantity[s[i].symbol]
                            /\ s[i].price = MarkPrice(p, prices, s[i].symbol)
  BY <1>1, <1>2, <1>3 DEF Sized
<1>6. Sized(s, p, prices)
  BY <1>2, <1>4, <1>5 DEF Sized
<1> QED BY <1>6 DEF s

\* The filter keeps the plans that are no noise, and none else.
LEMMA KeptSized ==
  ASSUME NEW p, NEW prices, NEW plans, Sized(plans, p, prices), NEW reused
  PROVE  /\ Sized(KeptOf(plans, reused)[Len(plans)], p, prices)
         /\ \A j \in DOMAIN KeptOf(plans, reused)[Len(plans)] :
              \E i \in DOMAIN plans : /\ KeptOf(plans, reused)[Len(plans)][j] = plans[i]
                                      /\ ~Noise(plans[i], reused)
         /\ \A i \in DOMAIN plans : ~Noise(plans[i], reused) =>
              \E j \in DOMAIN KeptOf(plans, reused)[Len(plans)] :
                KeptOf(plans, reused)[Len(plans)][j] = plans[i]
<1> DEFINE m == Len(plans)
           D == Seq(Plans)
           Longer(kept, n) == IF Noise(plans[n], reused) THEN kept ELSE Append(kept, plans[n])
           Row(g) == [n \in 0..m |-> IF n = 0 THEN <<>> ELSE Longer(g[n - 1], n)]
           step == [x \in D \X Nat |-> IF x[2] \in 1..m THEN Longer(x[1], x[2]) ELSE x[1]]
<1>0. m \in Nat /\ plans \in Seq(Plans) /\ DOMAIN plans = 1..m /\ << >> \in D
  BY DEF Sized
<1>1. \A q \in D, n \in 1..m : Longer(q, n) \in D
  BY <1>0
<1>2. step \in [D \X Nat -> D]
  <2> HIDE DEF Longer
  <2> QED BY <1>1
<1>3. PICK f \in [0..m -> D] : Run(f, << >>, step, m)
  <2> HIDE DEF D, step
  <2>1. \A k \in Nat : \E f \in [0..k -> D] : Run(f, << >>, step, k)
    BY <1>0, <1>2, Repeated
  <2> QED BY <1>0, <2>1
<1>4. f = Row(f)
  <2>1. ASSUME NEW n \in 0..m
        PROVE  f[n] = IF n = 0 THEN << >> ELSE Longer(f[n - 1], n)
    <3>1. CASE n = 0
      BY <1>3, <3>1 DEF Run
    <3>2. CASE n # 0
      <4>1. n \in 1..m /\ n \in Nat /\ f[n - 1] \in D
        BY <1>0, <3>2
      <4>2. f[n] = step[<<f[n - 1], n>>]
        BY <1>3, <4>1 DEF Run
      <4> HIDE DEF Longer
      <4>3. step[<<f[n - 1], n>>] = Longer(f[n - 1], n)
        BY <4>1
      <4> HIDE DEF step
      <4> QED BY <3>2, <4>2, <4>3
    <3> QED BY <3>1, <3>2
  <2>2. f = [n \in 0..m |-> f[n]]
    OBVIOUS
  <2> HIDE DEF Longer
  <2> QED BY <2>1, <2>2
<1> DEFINE h == CHOOSE g : g = Row(g)
<1>5. KeptOf(plans, reused) = h
  BY DEF KeptOf
<1>6. h = Row(h)
  <2> HIDE DEF Row
  <2> QED BY <1>4
<1> HIDE DEF h
<1>7. ASSUME NEW n \in 0..m
      PROVE  h[n] = IF n = 0 THEN << >> ELSE Longer(h[n - 1], n)
  <2> HIDE DEF Longer
  <2> QED BY <1>6
<1> DEFINE Holds(n) == /\ Sized(h[n], p, prices)
                       /\ \A j \in DOMAIN h[n] : \E i \in 1..n : /\ h[n][j] = plans[i]
                                                              /\ ~Noise(plans[i], reused)
                       /\ \A i \in 1..n : ~Noise(plans[i], reused) =>
                            \E j \in DOMAIN h[n] : h[n][j] = plans[i]
           S == {n \in 0..m : Holds(n)}
<1>8. 0 \in S
  <2>1. 0 \in 0..m /\ h[0] = << >>
    BY <1>0, <1>7
  <2>2. Sized(<< >>, p, prices) /\ DOMAIN << >> = {} /\ 1..0 = {}
    BY DEF Sized, OneTargetEach
  <2> QED BY <2>1, <2>2
<1>9. ASSUME NEW n \in 1..m, n - 1 \in S PROVE n \in S
  <2>1. n \in 0..m /\ n # 0 /\ Holds(n - 1) /\ 1..n = 1..(n - 1) \cup {n} /\ n \notin 1..(n - 1)
    <3> HIDE DEF Holds
    <3> QED BY <1>0, <1>9
  <2>2. h[n] = Longer(h[n - 1], n)
    <3> HIDE DEF Longer
    <3> QED BY <1>7, <2>1
  <2> DEFINE kept == h[n - 1]
  <2>3. /\ Sized(kept, p, prices)
        /\ \A j \in DOMAIN kept : \E i \in 1..(n - 1) : kept[j] = plans[i] /\ ~Noise(plans[i], reused)
        /\ \A i \in 1..(n - 1) : ~Noise(plans[i], reused) => \E j \in DOMAIN kept : kept[j] = plans[i]
    BY <2>1
  <2>4. ASSUME Noise(plans[n], reused) PROVE Holds(n)
    <3>1. h[n] = kept
      BY <2>2, <2>4
    <3> HIDE DEF kept
    <3>2. \A j \in DOMAIN h[n] : \E i \in 1..n : h[n][j] = plans[i] /\ ~Noise(plans[i], reused)
      BY <2>1, <2>3, <3>1
    <3>3. \A i \in 1..n : ~Noise(plans[i], reused) => \E j \in DOMAIN h[n] : h[n][j] = plans[i]
      BY <2>1, <2>3, <2>4, <3>1
    <3> QED BY <2>3, <3>1, <3>2, <3>3
  <2>5. ASSUME ~Noise(plans[n], reused) PROVE Holds(n)
    <3>1. h[n] = Append(kept, plans[n])
      BY <2>2, <2>5
    <3> HIDE DEF kept, h
    <3>2. plans[n] \in Plans /\ n \in DOMAIN plans
      BY <1>0
    <3>3. \A j \in DOMAIN kept : kept[j].symbol # plans[n].symbol
      <4> SUFFICES ASSUME NEW j \in DOMAIN kept, kept[j].symbol = plans[n].symbol PROVE FALSE
        OBVIOUS
      <4>1. PICK i \in 1..(n - 1) : kept[j] = plans[i]
        BY <2>3
      <4>2. i \in DOMAIN plans /\ i # n
        BY <1>0, <4>1
      <4> QED BY <3>2, <4>1, <4>2 DEF Sized, OneTargetEach
    <3>4. Sized(h[n], p, prices)
      <4>1. plans[n].current = p.quantity[plans[n].symbol]
            /\ plans[n].price = MarkPrice(p, prices, plans[n].symbol)
        BY <3>2 DEF Sized
      <4> QED BY <2>3, <3>1, <3>2, <3>3, <4>1, PlanJoins
    <3>5. ASSUME NEW j \in DOMAIN h[n]
          PROVE  \E i \in 1..n : h[n][j] = plans[i] /\ ~Noise(plans[i], reused)
      <4>1. kept \in Seq(Plans)
        BY <2>3 DEF Sized
      <4>2. j \in DOMAIN kept \/ j = Len(kept) + 1
        BY <3>1, <4>1
      <4>3. CASE j \in DOMAIN kept
        <5>1. h[n][j] = kept[j]
          BY <3>1, <4>1, <4>3
        <5> QED BY <2>1, <2>3, <4>3, <5>1
      <4>4. CASE j = Len(kept) + 1
        <5>1. h[n][j] = plans[n]
          BY <3>1, <4>1, <4>4
        <5> QED BY <2>1, <2>5, <5>1
      <4> QED BY <4>2, <4>3, <4>4
    <3>6. ASSUME NEW i \in 1..n, ~Noise(plans[i], reused)
          PROVE  \E j \in DOMAIN h[n] : h[n][j] = plans[i]
      <4>1. kept \in Seq(Plans)
        BY <2>3 DEF Sized
      <4>2. DOMAIN h[n] = 1..(Len(kept) + 1) /\ Len(kept) \in Nat /\ DOMAIN kept = 1..Len(kept)
            /\ h[n][Len(kept) + 1] = plans[n] /\ \A j \in DOMAIN kept : h[n][j] = kept[j]
        BY <3>1, <3>2, <4>1
      <4>3. CASE i = n
        BY <4>2, <4>3
      <4>4. CASE i # n
        <5>1. PICK j \in DOMAIN kept : kept[j] = plans[i]
          BY <2>1, <2>3, <3>6, <4>4
        <5>2. j \in DOMAIN h[n]
          BY <4>2
        <5> QED BY <4>2, <5>1, <5>2
      <4> QED BY <4>3, <4>4
    <3> QED BY <3>4, <3>5, <3>6
  <2>6. Holds(n)
    BY <2>4, <2>5
  <2> HIDE DEF Holds
  <2> QED BY <2>1, <2>6
<1>10. Holds(m)
  <2>1. 0..m \subseteq S
    <3> HIDE DEF S, m
    <3> QED BY <1>0, <1>8, <1>9, UpTo
  <2>2. m \in 0..m
    BY <1>0
  <2> HIDE DEF Holds
  <2> QED BY <2>1, <2>2
<1> QED BY <1>0, <1>5, <1>10

(* What is left of a batch after sizing: plans for some of its targets, one each. *)
LEMMA SizeSized ==
  ASSUME NEW p \in Portfolios, NEW prices \in PriceMaps, setup \in Setups,
         NEW batch \in Seq(Targets), OneTargetEach(batch), NEW reused
  PROVE  Sized(Size(p, prices, batch, reused), p, prices)
<1> DEFINE raw == RawPlans(p, prices, batch)
           lots == OptimizeLots(raw, p, prices)
<1>1. Sized(raw, p, prices) /\ Len(raw) = Len(batch)
  BY RawPlansSized
<1> HIDE DEF raw
<1>2. Sized(lots, p, prices) /\ Len(lots) = Len(raw)
  BY <1>1, OptimizedSized DEF Alike
<1> HIDE DEF lots
<1>3. Sized(KeptOf(lots, reused)[Len(batch)], p, prices)
  BY <1>1, <1>2, KeptSized
<1> QED BY <1>3 DEF Size, raw, lots

\* The plans the filter keeps are plans of the batch, as the optimizer leaves them.
LEMMA SizeOfBatch ==
  ASSUME NEW p \in Portfolios, NEW prices \in PriceMaps, setup \in Setups,
         NEW batch \in Seq(Targets), OneTargetEach(batch), NEW reused,
         NEW raw, raw = RawPlans(p, prices, batch), NEW lots, lots = OptimizeLots(raw, p, prices),
         NEW sized, sized = Size(p, prices, batch, reused)
  PROVE  /\ Sized(raw, p, prices) /\ Sized(lots, p, prices) /\ Alike(raw, lots)
         /\ DOMAIN raw = DOMAIN batch /\ DOMAIN lots = DOMAIN batch
         /\ \A i \in DOMAIN batch : raw[i] = SizingPlan(p, prices, batch[i])
         /\ \A j \in DOMAIN sized : \E i \in DOMAIN batch :
              sized[j] = lots[i] /\ sized[j].symbol = batch[i].symbol /\ ~Noise(lots[i], reused)
         /\ \A i \in DOMAIN batch : ~Noise(lots[i], reused) =>
              \E j \in DOMAIN sized : sized[j] = lots[i]
<1>1. Sized(raw, p, prices) /\ Len(raw) = Len(batch)
      /\ \A i \in DOMAIN batch : raw[i] = SizingPlan(p, prices, batch[i])
  BY RawPlansSized
<1>2. Sized(lots, p, prices) /\ Alike(raw, lots)
  BY <1>1, OptimizedSized
<1>3. DOMAIN raw = DOMAIN batch /\ DOMAIN lots = DOMAIN batch /\ Len(lots) = Len(batch)
  BY <1>1, <1>2 DEF Sized, Alike
<1>4. sized = KeptOf(lots, reused)[Len(lots)]
  BY <1>3 DEF Size
<1>5. /\ \A j \in DOMAIN sized : \E i \in DOMAIN lots : sized[j] = lots[i] /\ ~Noise(lots[i], reused)
      /\ \A i \in DOMAIN lots : ~Noise(lots[i], reused) => \E j \in DOMAIN sized : sized[j] = lots[i]
  BY <1>2, <1>4, KeptSized
<1>6. \A i \in DOMAIN batch : lots[i].symbol = batch[i].symbol
  <2> SUFFICES ASSUME NEW i \in DOMAIN batch PROVE lots[i].symbol = batch[i].symbol
    OBVIOUS
  <2>1. lots[i].symbol = raw[i].symbol
    BY <1>2, <1>3 DEF Alike
  <2>2. batch[i] \in Targets /\ raw[i] = SizingPlan(p, prices, batch[i])
    BY <1>1
  <2>3. raw[i].symbol = batch[i].symbol
    BY <2>2, PlanTyped
  <2> QED BY <2>1, <2>3
<1> QED BY <1>1, <1>2, <1>3, <1>5, <1>6

\* A target of zero of a held symbol with a price is a plan to sell it whole; one of a
\* symbol that is not held is no plan.
LEMMA ExitSized ==
  ASSUME NEW p \in Portfolios, NEW prices \in PriceMaps, setup \in Setups,
         NEW batch \in Seq(Targets), OneTargetEach(batch), NEW reused,
         setup.minQuantity <= 1, setup.exitBelowMin,
         NEW k \in DOMAIN batch, batch[k].weight = 0, NEW y, y = batch[k].symbol,
         MarkPrice(p, prices, y) > 0, NEW sized, sized = Size(p, prices, batch, reused)
  PROVE  IF p.quantity[y] = 0 THEN \A j \in DOMAIN sized : sized[j].symbol # y
         ELSE \E j \in DOMAIN sized : sized[j].symbol = y /\ sized[j].quantity = 0
<1> DEFINE raw == RawPlans(p, prices, batch)
           lots == OptimizeLots(raw, p, prices)
           plan == SizingPlan(p, prices, batch[k])
           price == MarkPrice(p, prices, y)
<1>1. /\ Alike(raw, lots)
      /\ DOMAIN raw = DOMAIN batch
      /\ \A i \in DOMAIN batch : raw[i] = SizingPlan(p, prices, batch[i])
      /\ \A j \in DOMAIN sized : \E i \in DOMAIN batch :
           sized[j] = lots[i] /\ sized[j].symbol = batch[i].symbol /\ ~Noise(lots[i], reused)
      /\ \A i \in DOMAIN batch : ~Noise(lots[i], reused) =>
           \E j \in DOMAIN sized : sized[j] = lots[i]
  BY SizeOfBatch
<1> HIDE DEF raw, lots
<1>2. y \in Symbols /\ price \in Nat /\ price # 0 /\ p.quantity[y] \in Nat
  <2>1. batch[k] \in Targets
    OBVIOUS
  <2>2. y \in Symbols
    BY <2>1 DEF Targets
  <2>3. price \in Nat
    BY <2>2, MarkTyped
  <2>4. p.quantity[y] \in Nat
    BY <2>2 DEF Portfolios
  <2> HIDE DEF price
  <2>5. price # 0
    BY DEF price
  <2> QED BY <2>2, <2>3, <2>4, <2>5
<1>3. /\ plan.symbol = y /\ plan.weight = 0 /\ plan.price = price /\ plan.current = p.quantity[y]
      /\ plan.quantity = 0
  <2> DEFINE value == TargetValue(p, prices, CurrencyOf[y])
             desired == value * batch[k].weight
             unit == price * Scale
  <2>1. value \in Int
    <3>1. Equity(p, prices, CurrencyOf[y]) \in Int
      BY <1>2, EquityTyped, PortfolioAssumption
    <3>2. setup.reserve \in Int
      BY SizingAssumption, UnitAssumption
    <3> QED BY <3>1, <3>2, UnitAssumption DEF TargetValue
  <2>2. desired = 0
    <3> HIDE DEF value
    <3> QED BY <2>1
  <2>3. unit \in Nat \ {0}
    BY <1>2, ScaleTyped
  <2>4. QuantityForValue(desired, price) = 0
    <3>1. QuantityForValue(desired, price)
            = IF desired >= 0 THEN desired \div unit ELSE -((-desired) \div unit)
      BY DEF QuantityForValue
    <3> HIDE DEF desired, unit
    <3>2. 0 \div unit = 0
      BY <2>3
    <3> QED BY <2>2, <3>1, <3>2
  <2>5. ~(desired > 0)
    BY <2>2
  <2>6. plan = [symbol |-> y, weight |-> batch[k].weight, urgent |-> batch[k].urgent, price |-> price,
                current |-> p.quantity[y], desired |-> desired,
                quantity |-> IF price = 0 THEN p.quantity[y]
                             ELSE IF /\ QuantityForValue(desired, price) = 0 /\ p.quantity[y] = 0
                                     /\ desired > 0 /\ LotsAtLeast(desired, price, setup.entryFloor)
                                  THEN 1 ELSE QuantityForValue(desired, price)]
    BY DEF SizingPlan
  <2> HIDE DEF plan, desired, price
  <2> QED BY <1>2, <2>4, <2>5, <2>6
<1>4. lots[k] = plan
  <2>1. raw[k] = plan /\ k \in DOMAIN raw
    BY <1>1
  <2> HIDE DEF plan
  <2>2. ~Optimized(raw[k])
    BY <1>3, <2>1 DEF Optimized
  <2> QED BY <1>1, <2>1, <2>2 DEF Alike
<1> HIDE DEF plan, price
<1>5. \A i \in DOMAIN batch : batch[i].symbol = y => i = k
  BY DEF OneTargetEach
<1>6. ASSUME p.quantity[y] = 0 PROVE \A j \in DOMAIN sized : sized[j].symbol # y
  <2>1. Noise(plan, reused)
    BY <1>3, <1>6 DEF Noise, Delta
  <2> QED BY <1>1, <1>4, <1>5, <2>1
<1>7. ASSUME p.quantity[y] # 0
      PROVE  \E j \in DOMAIN sized : sized[j].symbol = y /\ sized[j].quantity = 0
  <2>1. Delta(plan) \in Int /\ Delta(plan) # 0 /\ Abs(Delta(plan)) >= 1
    BY <1>2, <1>3, <1>7 DEF Delta, Abs
  <2>2. Abs(Delta(plan)) \in Nat /\ setup.minQuantity \in Nat
    BY <2>1, SizingAssumption DEF Abs
  <2>3. ~(Abs(Delta(plan)) < setup.minQuantity)
    BY <2>1, <2>2
  <2>4. ~BelowMinNotional(plan)
    BY <1>3, <1>7 DEF BelowMinNotional
  <2>5. ~RoundingChurn(plan)
    BY <1>3 DEF RoundingChurn
  <2>6. \A a, b : ~SmallStep(plan, a, b)
    BY <1>3 DEF SmallStep
  <2>7. ~Noise(plan, reused)
    BY <2>1, <2>3, <2>4, <2>5, <2>6 DEF Noise
  <2>8. PICK j \in DOMAIN sized : sized[j] = lots[k]
    BY <1>1, <1>4, <2>7
  <2> QED BY <1>3, <1>4, <2>8
<1> QED BY <1>6, <1>7

--------------------------------------------------------------------------------
(* The lot optimizer: each round spends what is there on one share, and as a     *)
(* plan lacks less than a share at first it gets one at most, so that the rounds *)
(* end with nothing left to do.                                                  *)

\* A plan that still lacks something, and one that lacks less than a share.
Lacking(plans) == {i \in DOMAIN plans : Optimized(plans[i]) /\ Gap(plans[i]) > 0}
LackLessThanOne(plans) ==
  \A i \in DOMAIN plans : Optimized(plans[i]) => Gap(plans[i]) < plans[i].price * Scale

\* In each currency the money is kept together, or nothing is spent.
WithinBudget(old, new, p, prices) ==
  \A c \in Currencies : \/ Available(new, p, prices, c) >= 0
                        \/ Available(new, p, prices, c) = Available(old, p, prices, c)

\* What is over after whole shares is less than a share.
LEMMA DivRest ==
  ASSUME NEW n \in Nat, NEW u \in Nat \ {0}
  PROVE  n \div u \in Nat /\ n - (n \div u) * u < u /\ n >= (n \div u) * u
OBVIOUS

\* The plans of a batch lack less than a share each.
LEMMA RawLacks ==
  ASSUME NEW p \in Portfolios, NEW prices \in PriceMaps, setup \in Setups,
         NEW batch \in Seq(Targets), OneTargetEach(batch)
  PROVE  LackLessThanOne(RawPlans(p, prices, batch))
<1> DEFINE raw == RawPlans(p, prices, batch)
<1>1. DOMAIN raw = DOMAIN batch /\ \A i \in DOMAIN batch : raw[i] = SizingPlan(p, prices, batch[i])
  <2>1. Sized(raw, p, prices) /\ Len(raw) = Len(batch)
        /\ \A i \in DOMAIN batch : raw[i] = SizingPlan(p, prices, batch[i])
    BY RawPlansSized
  <2> HIDE DEF raw
  <2> QED BY <2>1 DEF Sized
<1> HIDE DEF raw
<1>2. ASSUME NEW i \in DOMAIN batch, Optimized(raw[i])
      PROVE  Gap(raw[i]) < raw[i].price * Scale
  <2> DEFINE plan == SizingPlan(p, prices, batch[i])
             y == batch[i].symbol
             price == MarkPrice(p, prices, y)
             desired == TargetValue(p, prices, CurrencyOf[y]) * batch[i].weight
             floored == QuantityForValue(desired, price)
             entry == /\ floored = 0 /\ p.quantity[y] = 0 /\ desired > 0
                      /\ LotsAtLeast(desired, price, setup.entryFloor)
             unit == price * Scale
  <2>1. batch[i] \in Targets /\ raw[i] = plan
    BY <1>1
  <2>2. plan \in Plans /\ plan.price = price
    BY <2>1, PlanTyped
  <2>3. plan.desired = desired
        /\ plan.quantity = IF price = 0 THEN p.quantity[y] ELSE IF entry THEN 1 ELSE floored
    BY DEF SizingPlan
  <2>4. floored = IF desired >= 0 THEN desired \div unit ELSE -((-desired) \div unit)
    BY DEF QuantityForValue
  <2> HIDE DEF plan, price, desired, floored, entry
  <2>5. price \in Nat \ {0} /\ desired \in Int /\ desired > 0
    BY <1>2, <2>1, <2>2, <2>3 DEF Plans, Optimized
  <2>6. unit \in Nat \ {0}
    BY <2>5, ScaleTyped
  <2> HIDE DEF unit
  <2>7. desired \in Nat /\ floored = desired \div unit
    BY <2>4, <2>5
  <2>8. floored \in Nat /\ desired - floored * unit < unit
    BY <2>6, <2>7, DivRest
  <2>9. Gap(plan) = desired - plan.quantity * unit
    <3>1. Gap(plan) = desired - plan.quantity * price * Scale
      BY <2>2, <2>3 DEF Gap, Money
    <3>2. plan.quantity \in Int
      BY <2>2 DEF Plans
    <3>3. plan.quantity * price * Scale = plan.quantity * unit
      BY <2>5, <3>2, ScaleTyped DEF unit
    <3> QED BY <3>1, <3>3
  <2>10. plan.quantity = floored \/ (plan.quantity = 1 /\ floored = 0)
    BY <2>3, <2>5 DEF entry
  <2>11. Gap(plan) < unit
    <3>1. CASE plan.quantity = floored
      BY <2>8, <2>9, <3>1
    <3>2. CASE plan.quantity = 1 /\ floored = 0
      BY <2>5, <2>6, <2>8, <2>9, <3>2
    <3> QED BY <2>10, <3>1, <3>2
  <2> QED BY <2>1, <2>2, <2>11 DEF unit
<1>3. LackLessThanOne(raw)
  BY <1>1, <1>2 DEF LackLessThanOne
<1> QED BY <1>3 DEF raw

\* The money of a currency is an integer.
LEMMA AvailableTyped ==
  ASSUME NEW p \in Portfolios, NEW prices \in PriceMaps, setup \in Setups,
         NEW plans, Sized(plans, p, prices), NEW c \in Currencies
  PROVE  /\ Budget(plans, c, TargetValue(p, prices, c) * Full) \in Int
         /\ Spent(plans, c) \in Int /\ IsFiniteSet(IndexesIn(plans, c))
         /\ \A i \in DOMAIN plans : Money(plans[i]) \in Int /\ plans[i].desired \in Int
<1> DEFINE I == IndexesIn(plans, c)
           desires == [i \in DOMAIN plans |-> plans[i].desired]
           monies == [i \in DOMAIN plans |-> Money(plans[i])]
           value == TargetValue(p, prices, c) * Full
<1>1. plans \in Seq(Plans) /\ DOMAIN plans = 1..Len(plans) /\ Len(plans) \in Nat
  BY DEF Sized
<1>2. \A i \in DOMAIN plans : Money(plans[i]) \in Int /\ plans[i].desired \in Int
  <2> SUFFICES ASSUME NEW i \in DOMAIN plans PROVE Money(plans[i]) \in Int /\ plans[i].desired \in Int
    OBVIOUS
  <2>1. plans[i] \in Plans
    BY <1>1
  <2>2. plans[i].quantity \in Int /\ plans[i].price \in Nat /\ plans[i].desired \in Int
    BY <2>1 DEF Plans
  <2> QED BY <2>2, ScaleTyped DEF Money
<1>3. IsFiniteSet(I) /\ I \subseteq DOMAIN plans
  <2>1. I \subseteq DOMAIN plans
    BY DEF IndexesIn
  <2>2. IsFiniteSet(DOMAIN plans)
    BY <1>1, FS_Interval
  <2> HIDE DEF I
  <2> QED BY <2>1, <2>2, FS_Subset
<1>4. SumFunctionOnSet(desires, I) \in Int
  <2>1. \A i \in I : desires[i] \in Int
    BY <1>2, <1>3
  <2> HIDE DEF desires, I
  <2> QED BY <1>3, <2>1, SumType
<1>5. SumFunctionOnSet(monies, I) \in Int
  <2>1. \A i \in I : monies[i] \in Int
    BY <1>2, <1>3
  <2> HIDE DEF monies, I
  <2> QED BY <1>3, <2>1, SumType
<1>6. value \in Int
  <2>1. Equity(p, prices, c) \in Int
    BY EquityTyped
  <2>2. setup.reserve \in Int
    BY SizingAssumption, UnitAssumption
  <2> QED BY <2>1, <2>2, UnitAssumption DEF TargetValue
<1> HIDE DEF value
<1>7. Budget(plans, c, value) \in Int
  BY <1>4, <1>6 DEF Budget, Lower
<1> QED BY <1>2, <1>3, <1>5, <1>7 DEF value, Spent

\* One share for a plan that may have it.
OneShare(old, new, k) == new = [old EXCEPT ![k].quantity = @ + 1]

LEMMA ShareSpent ==
  ASSUME NEW p \in Portfolios, NEW prices \in PriceMaps, setup \in Setups,
         NEW plans, Sized(plans, p, prices), NEW c \in Currencies,
         NEW k \in Fitting(plans, p, prices, c),
         NEW more, OneShare(plans, more, k), Sized(more, p, prices), Alike(plans, more)
  PROVE  /\ Available(more, p, prices, c) >= 0
         /\ \A d \in Currencies \ {c} : Available(more, p, prices, d) = Available(plans, p, prices, d)
         /\ k \in Lacking(plans)
         /\ LackLessThanOne(plans) => LackLessThanOne(more) /\ Lacking(more) = Lacking(plans) \ {k}
<1> DEFINE unit == plans[k].price * Scale
           Left(q, d) == Available(q, p, prices, d)
           value(d) == TargetValue(p, prices, d) * Full
           M(q) == [i \in DOMAIN q |-> Money(q[i])]
<1>1. /\ k \in IndexesIn(plans, c) /\ k \in DOMAIN plans /\ Optimized(plans[k])
      /\ unit <= Left(plans, c) /\ Gap(plans[k]) > 0
  BY FittingTyped
<1>2. plans \in Seq(Plans) /\ more \in Seq(Plans) /\ DOMAIN more = DOMAIN plans
  BY DEF Sized, Alike
<1>3. ASSUME NEW i \in DOMAIN plans
      PROVE  /\ plans[i] \in Plans /\ more[i].symbol = plans[i].symbol
             /\ more[i].desired = plans[i].desired /\ more[i].price = plans[i].price
             /\ Optimized(more[i]) = Optimized(plans[i])
             /\ more[i] = IF i = k THEN [plans[i] EXCEPT !.quantity = @ + 1] ELSE plans[i]
  BY <1>2 DEF Alike, OneShare
<1>4. plans[k].price \in Nat /\ plans[k].quantity \in Int /\ plans[k].desired \in Int /\ unit \in Nat
  <2>1. plans[k].price \in Nat /\ plans[k].quantity \in Int /\ plans[k].desired \in Int
    BY <1>1, <1>3 DEF Plans
  <2> QED BY <2>1, ScaleTyped
<1>5. Money(more[k]) = Money(plans[k]) + unit /\ \A i \in DOMAIN plans \ {k} : Money(more[i]) = Money(plans[i])
  <2>1. more[k].quantity = plans[k].quantity + 1 /\ more[k].price = plans[k].price
    BY <1>1, <1>3 DEF Plans
  <2>2. (plans[k].quantity + 1) * plans[k].price * Scale = plans[k].quantity * plans[k].price * Scale + unit
    <3>1. \A a \in Int, b \in Nat, s \in Nat : (a + 1) * b * s = a * b * s + b * s
      OBVIOUS
    <3> QED BY <1>4, <3>1, ScaleTyped
  <2> HIDE DEF unit
  <2>3. \A i \in DOMAIN plans \ {k} : Money(more[i]) = Money(plans[i])
    BY <1>3
  <2> QED BY <2>1, <2>2, <2>3 DEF Money
<1>6. ASSUME NEW d \in Currencies PROVE IndexesIn(more, d) = IndexesIn(plans, d)
  BY <1>2, <1>3 DEF IndexesIn
<1>7. ASSUME NEW d \in Currencies PROVE Budget(more, d, value(d)) = Budget(plans, d, value(d))
  <2>1. [i \in DOMAIN more |-> more[i].desired] = [i \in DOMAIN plans |-> plans[i].desired]
    BY <1>2, <1>3
  <2> QED BY <1>6, <2>1 DEF Budget
<1>8. ASSUME NEW d \in Currencies
      PROVE  /\ Budget(plans, d, value(d)) \in Int /\ Spent(plans, d) \in Int
             /\ IsFiniteSet(IndexesIn(plans, d)) /\ IndexesIn(plans, d) \subseteq DOMAIN plans
             /\ \A i \in DOMAIN plans : Money(plans[i]) \in Int /\ Money(more[i]) \in Int
  <2>1. /\ Budget(plans, d, value(d)) \in Int /\ Spent(plans, d) \in Int
        /\ IsFiniteSet(IndexesIn(plans, d)) /\ \A i \in DOMAIN plans : Money(plans[i]) \in Int
    BY AvailableTyped
  <2>2. \A i \in DOMAIN more : Money(more[i]) \in Int
    BY AvailableTyped
  <2>3. IndexesIn(plans, d) \subseteq DOMAIN plans
    BY DEF IndexesIn
  <2> QED BY <1>2, <2>1, <2>2, <2>3
<1> HIDE DEF value, unit
<1>9. ASSUME NEW d \in Currencies
      PROVE  Left(more, d) = IF d = c THEN Left(plans, d) - unit ELSE Left(plans, d)
  <2> DEFINE I == IndexesIn(plans, d)
             W == M(plans)
             V == M(more)
  <2>1. \A i \in I : W[i] = Money(plans[i]) /\ V[i] = Money(more[i]) /\ W[i] \in Int /\ V[i] \in Int
    BY <1>2, <1>8
  <2>2. Spent(plans, d) = SumFunctionOnSet(W, I) /\ Spent(more, d) = SumFunctionOnSet(V, I)
    BY <1>6 DEF Spent
  <2>3. k \in I <=> d = c
    BY <1>1 DEF IndexesIn
  <2>4. IsFiniteSet(I) /\ I \subseteq DOMAIN plans
    BY <1>8
  <2>5. Left(plans, d) = Budget(plans, d, value(d)) - Spent(plans, d)
        /\ Left(more, d) = Budget(plans, d, value(d)) - Spent(more, d)
    BY <1>7 DEF Available, value
  <2> HIDE DEF I, W, V, Left
  <2>6. CASE d = c
    <3>1. \A i \in I \ {k} : V[i] = W[i]
      BY <1>5, <2>1, <2>4
    <3>2. SumFunctionOnSet(V, I) = SumFunctionOnSet(W, I) + (V[k] - W[k])
      <4>1. IsFiniteSet(I) /\ k \in I /\ (\A i \in I : W[i] \in Int /\ V[i] \in Int)
        BY <2>1, <2>3, <2>4, <2>6
      <4> QED BY ONLY <3>1, <4>1, SumMoved
    <3>3. V[k] - W[k] = unit
      <4>1. V[k] = Money(plans[k]) + unit /\ W[k] = Money(plans[k]) /\ Money(plans[k]) \in Int
        BY <1>5, <2>1, <2>3, <2>6
      <4> QED BY <1>4, <4>1
    <3>4. Spent(more, d) = Spent(plans, d) + unit
      BY <2>2, <3>2, <3>3
    <3> QED BY <1>4, <1>8, <2>5, <2>6, <3>4
  <2>7. CASE d # c
    <3>1. \A i \in I : V[i] = W[i]
      BY <1>5, <2>1, <2>3, <2>4, <2>7
    <3>2. SumFunctionOnSet(V, I) = SumFunctionOnSet(W, I)
      BY <2>4, <3>1, SumSame
    <3> QED BY <2>2, <2>5, <2>7, <3>2
  <2> QED BY <2>6, <2>7
<1>10. Left(more, c) >= 0
  <2>1. Left(plans, c) \in Int
    BY <1>8 DEF Available, value
  <2>2. Left(more, c) = Left(plans, c) - unit
    BY <1>9
  <2> HIDE DEF Left
  <2> QED BY <1>1, <1>4, <2>1, <2>2
<1>11. k \in Lacking(plans)
  BY <1>1 DEF Lacking
<1>12. ASSUME LackLessThanOne(plans)
       PROVE  LackLessThanOne(more) /\ Lacking(more) = Lacking(plans) \ {k}
  <2>1. Gap(plans[k]) \in Int /\ Gap(plans[k]) < unit /\ Gap(more[k]) = Gap(plans[k]) - unit
    <3>1. Money(plans[k]) \in Int /\ Gap(plans[k]) = plans[k].desired - Money(plans[k])
          /\ Gap(more[k]) = plans[k].desired - (Money(plans[k]) + unit)
      BY <1>1, <1>3, <1>5, <1>8 DEF Gap
    <3>2. Gap(plans[k]) < unit
      BY <1>1, <1>12 DEF LackLessThanOne, unit
    <3> QED BY <1>4, <3>1, <3>2
  <2>2. \A i \in DOMAIN plans \ {k} : more[i] = plans[i]
    BY <1>3
  <2>3. Gap(more[k]) < unit /\ ~(Gap(more[k]) > 0) /\ more[k].price = plans[k].price
    <3>1. more[k].price = plans[k].price /\ Gap(plans[k]) > 0
      BY <1>1, <1>3
    <3>2. \A g \in Int, u \in Nat : g > 0 /\ g < u => g - u < u /\ ~(g - u > 0)
      OBVIOUS
    <3> QED BY <1>4, <2>1, <3>1, <3>2
  <2>4. LackLessThanOne(more)
    BY <1>2, <1>12, <2>2, <2>3 DEF LackLessThanOne, unit
  <2>5. Lacking(more) = Lacking(plans) \ {k}
    BY <1>2, <2>2, <2>3 DEF Lacking
  <2> QED BY <2>4, <2>5
<1> QED BY <1>9, <1>10, <1>11, <1>12

\* After as many rounds as there are plans nothing fits, and no round spent what was not there.
LEMMA OptimizerEnds ==
  ASSUME NEW p \in Portfolios, NEW prices \in PriceMaps, setup \in Setups,
         NEW plans, Sized(plans, p, prices), LackLessThanOne(plans)
  PROVE  /\ WithinBudget(plans, OptimizeLots(plans, p, prices), p, prices)
         /\ \A c \in Currencies : Fitting(OptimizeLots(plans, p, prices), p, prices, c) = {}
<1> DEFINE m == Len(plans)
<1>1. PICK h : LotsRun(h, plans, p, prices)
  BY OptimizedSized
<1>2. /\ m \in Nat /\ DOMAIN plans = 1..m /\ h[0] = plans /\ h[m] = OptimizeLots(plans, p, prices)
      /\ \A n \in 1..m : h[n] = OneMore(h[n - 1], p, prices)
      /\ \A n \in 0..m : Sized(h[n], p, prices) /\ Alike(plans, h[n])
  BY <1>1 DEF LotsRun, Sized
<1> DEFINE Done(n) == \A c \in Currencies : Fitting(h[n], p, prices, c) = {}
           Few(n) == Cardinality(Lacking(h[n])) <= m - n
           Holds(n) == /\ LackLessThanOne(h[n]) /\ WithinBudget(plans, h[n], p, prices)
                       /\ Done(n) \/ Few(n)
           S == {n \in 0..m : Holds(n)}
<1>3. ASSUME NEW n \in 0..m
      PROVE  /\ IsFiniteSet(Lacking(h[n])) /\ Cardinality(Lacking(h[n])) \in Nat
             /\ Cardinality(Lacking(h[n])) <= m
  <2>1. DOMAIN h[n] = 1..m
    BY <1>2 DEF Sized, Alike
  <2>2. Lacking(h[n]) \subseteq 1..m
    BY <2>1 DEF Lacking
  <2>3. IsFiniteSet(1..m) /\ Cardinality(1..m) = m
    <3>1. 1 \in Int /\ m \in Int /\ (IF 1 > m THEN 0 ELSE m - 1 + 1) = m
      BY <1>2
    <3> HIDE DEF m
    <3> QED BY <3>1, FS_Interval
  <2> HIDE DEF m
  <2> QED BY <2>2, <2>3, FS_Subset, FS_CardinalityType
<1>4. 0 \in S
  <2>1. 0 \in 0..m /\ m - 0 = m
    BY <1>2
  <2>2. WithinBudget(plans, h[0], p, prices)
    BY <1>2 DEF WithinBudget
  <2>3. Few(0)
    BY <1>3, <2>1
  <2>4. Holds(0)
    BY <1>2, <2>2, <2>3
  <2> HIDE DEF Holds
  <2> QED BY <2>1, <2>4
<1>5. ASSUME NEW n \in 1..m, n - 1 \in S PROVE n \in S
  <2>1. n \in 0..m /\ n - 1 \in 0..m /\ n \in Nat /\ Holds(n - 1)
    <3> HIDE DEF Holds
    <3> QED BY <1>2, <1>5
  <2> DEFINE old == h[n - 1]
             new == h[n]
  <2>2. new = OneMore(old, p, prices) /\ Sized(old, p, prices) /\ Sized(new, p, prices) /\ Alike(old, new)
    <3>1. new = OneMore(old, p, prices) /\ Sized(old, p, prices)
      BY <1>2, <2>1
    <3> HIDE DEF old, new
    <3> QED BY <3>1, OneMoreSized
  <2>3. LackLessThanOne(old) /\ WithinBudget(plans, old, p, prices)
    BY <2>1
  <2>4. ASSUME new = old, \A c \in Currencies : Fitting(old, p, prices, c) = {} PROVE Holds(n)
    <3>1. Done(n)
      BY <2>4
    <3> QED BY <2>3, <2>4, <3>1
  <2>5. ASSUME NEW c \in Currencies, NEW k \in Fitting(old, p, prices, c),
               new = [old EXCEPT ![k].quantity = @ + 1]
        PROVE  Holds(n)
    <3>0. OneShare(old, new, k)
      BY <2>5 DEF OneShare
    <3>1. /\ Available(new, p, prices, c) >= 0
          /\ \A d \in Currencies \ {c} : Available(new, p, prices, d) = Available(old, p, prices, d)
          /\ k \in Lacking(old) /\ LackLessThanOne(new) /\ Lacking(new) = Lacking(old) \ {k}
      <4> HIDE DEF old, new
      <4>1. Sized(old, p, prices) /\ Sized(new, p, prices) /\ Alike(old, new) /\ LackLessThanOne(old)
        BY <2>2, <2>3
      <4> QED BY <3>0, <4>1, ShareSpent
    <3>2. WithinBudget(plans, new, p, prices)
      <4> HIDE DEF old, new
      <4> QED BY <2>3, <3>1 DEF WithinBudget
    <3>3. ~Done(n - 1)
      BY <2>5
    <3>4. Few(n - 1)
      BY <2>1, <3>3
    <3>5. Cardinality(Lacking(new)) = Cardinality(Lacking(old)) - 1
      <4> HIDE DEF old, new
      <4>1. IsFiniteSet(Lacking(old))
        BY <1>3, <2>1 DEF old
      <4> QED BY <3>1, <4>1, FS_RemoveElement
    <3>6. Few(n)
      <4> DEFINE a == Cardinality(Lacking(new))
                 b == Cardinality(Lacking(old))
      <4>1. a \in Nat /\ b \in Nat /\ a = b - 1 /\ b <= m - (n - 1)
        BY <1>3, <2>1, <3>4, <3>5
      <4>2. Few(n) <=> a <= m - n
        OBVIOUS
      <4> HIDE DEF a, b, m
      <4>3. a <= m - n
        BY <1>2, <2>1, <4>1
      <4> QED BY <4>2, <4>3
    <3> QED BY <3>1, <3>2, <3>6
  <2>6. Holds(n)
    <3> HIDE DEF Holds
    <3> QED BY <2>2, <2>4, <2>5, OneMoreFits
  <2> HIDE DEF Holds
  <2> QED BY <2>1, <2>6
<1>6. Holds(m)
  <2>1. 0..m \subseteq S
    <3> HIDE DEF S, m
    <3> QED BY <1>2, <1>4, <1>5, UpTo
  <2>2. m \in 0..m
    BY <1>2
  <2> HIDE DEF Holds
  <2> QED BY <2>1, <2>2
<1>7. Done(m)
  <2>1. SUFFICES ASSUME Few(m) PROVE Done(m)
    BY <1>6
  <2>2. m \in 0..m /\ m - m = 0
    BY <1>2
  <2>3. Lacking(h[m]) = {}
    <3>1. Cardinality(Lacking(h[m])) = 0
      BY <1>3, <2>1, <2>2
    <3> QED BY <1>3, <2>2, <3>1, FS_EmptySet
  <2>4. \A c \in Currencies : \A k \in Fitting(h[m], p, prices, c) : k \in Lacking(h[m])
    BY <1>2, <2>2, FittingTyped DEF Lacking
  <2> QED BY <2>3, <2>4
<1> QED BY <1>2, <1>6, <1>7

--------------------------------------------------------------------------------
(* Risk: each plan is answered by one grant of at least nothing, and the cash    *)
(* that the pass counts on is never below zero.                                  *)

Passes == [cash : [Currencies -> Nat], granted : [Symbols -> Int], decisions : Seq(Grants)]

PlanOf(plan, p, prices) ==
  /\ plan \in Plans
  /\ plan.current = p.quantity[plan.symbol] /\ plan.price = MarkPrice(p, prices, plan.symbol)

\* What a grant takes of the cash of a currency.
Taken(plan, grant, c) ==
  IF c = CurrencyOf[plan.symbol] THEN Floor0(grant.granted - grant.current) * (plan.price * Full) ELSE 0

Answers(grant, plan) ==
  /\ grant \in Grants
  /\ grant.symbol = plan.symbol /\ grant.current = plan.current
  /\ grant.wanted = plan.quantity

Answered(old, new, plan, grant) ==
  /\ Answers(grant, plan) /\ grant.granted \in Nat
  /\ new.decisions = Append(old.decisions, grant)
  /\ \A c \in Currencies : new.cash[c] <= old.cash[c] - Taken(plan, grant, c)

\* A limit leaves at most what was asked for, and never turns a position around.
LEMMA BoundedNat ==
  ASSUME NEW quantity \in Nat, NEW bound \in Nat
  PROVE  Bounded(quantity, bound) \in 0..quantity /\ Bounded(quantity, bound) <= bound
  BY DEF Bounded, Toward, Abs

LEMMA PositionLimitNat ==
  ASSUME NEW p \in Portfolios, NEW prices \in PriceMaps, setup \in Setups,
         NEW plan \in Plans, plan.price # 0, NEW quantity \in Nat
  PROVE  PositionLimited(p, prices, plan, quantity) \in 0..quantity
<1> DEFINE equity == Equity(p, prices, CurrencyOf[plan.symbol])
           bound == (equity * setup.maxPosition) \div (plan.price * Full)
<1>1. equity \in Int
  BY EquityTyped, PortfolioAssumption DEF Plans
<1>2. setup.maxPosition \in Nat /\ plan.price \in Nat \ {0} /\ plan.price * Full \in Nat \ {0}
  BY RiskAssumption, UnitAssumption DEF Plans
<1> HIDE DEF equity
<1>3. equity > 0 => bound \in Nat
  <2>1. SUFFICES ASSUME equity > 0 PROVE bound \in Nat
    OBVIOUS
  <2>2. equity * setup.maxPosition \in Nat
    BY <1>1, <1>2, <2>1
  <2> QED BY <1>2, <2>2, DivNat
<1>4. PositionLimited(p, prices, plan, quantity)
        = IF setup.maxPosition >= Full THEN quantity
          ELSE IF equity <= 0 THEN 0 ELSE Bounded(quantity, bound)
  BY DEF PositionLimited, equity
<1> HIDE DEF bound
<1> QED BY <1>1, <1>3, <1>4, BoundedNat

LEMMA ExposureLimitNat ==
  ASSUME NEW p \in Portfolios, NEW prices \in PriceMaps, setup \in Setups,
         NEW plan \in Plans, plan.price # 0, NEW quantity \in Nat, NEW granted \in [Symbols -> Int]
  PROVE  ExposureLimited(p, prices, plan, quantity, granted) \in 0..quantity
<1> DEFINE y == plan.symbol
           equity == Equity(p, prices, CurrencyOf[y])
           W == [x \in Symbols |-> Abs(granted[x]) * MarkPrice(p, prices, x)]
           others == {x \in In(CurrencyOf[y]) \ {y} : p.quantity[x] # 0}
           other == OtherExposure(p, prices, y, granted)
           rest == equity * setup.maxExposure - other * Full
           bound == Floor0(rest) \div (plan.price * Full)
<1>1. equity \in Int
  BY EquityTyped, PortfolioAssumption DEF Plans
<1>2. setup.maxExposure \in Nat /\ plan.price * Full \in Nat \ {0} /\ Full \in Nat
  BY RiskAssumption, UnitAssumption DEF Plans
<1>3. other \in Int
  <2>1. IsFiniteSet(others) /\ others \subseteq Symbols
    BY PortfolioAssumption, FS_Subset DEF In
  <2>2. \A x \in others : W[x] \in Int
    <3> SUFFICES ASSUME NEW x \in others PROVE W[x] \in Int
      OBVIOUS
    <3>1. x \in Symbols /\ granted[x] \in Int /\ MarkPrice(p, prices, x) \in Nat
      BY <2>1, MarkTyped
    <3>2. Abs(granted[x]) \in Int
      BY <3>1 DEF Abs
    <3>3. W[x] = Abs(granted[x]) * MarkPrice(p, prices, x)
      BY <3>1
    <3> HIDE DEF W
    <3> QED BY <3>1, <3>2, <3>3
  <2>3. other = SumFunctionOnSet(W, others)
    BY DEF OtherExposure
  <2> HIDE DEF W, others, other
  <2> QED BY <2>1, <2>2, <2>3, SumType
<1> HIDE DEF equity, other, W, others
<1>4. Floor0(rest) \in Nat
  <2>1. rest \in Int
    BY <1>1, <1>2, <1>3
  <2> HIDE DEF rest
  <2> QED BY <2>1 DEF Floor0
<1>5. bound \in Nat
  <2> HIDE DEF rest
  <2> QED BY <1>2, <1>4, DivNat
<1>6. ExposureLimited(p, prices, plan, quantity, granted)
        = IF setup.maxExposure >= Full THEN quantity
          ELSE IF equity <= 0 THEN 0 ELSE Bounded(quantity, bound)
  BY DEF ExposureLimited, equity, other
<1> HIDE DEF bound
<1> QED BY <1>1, <1>5, <1>6, BoundedNat

\* The cash limit leaves what the cash at hand can pay.
LEMMA CashLimitCovered ==
  ASSUME NEW plan \in Plans, plan.price # 0, NEW quantity \in Nat, NEW cash \in Nat
  PROVE  /\ CashLimited(plan, quantity, cash) \in 0..quantity
         /\ CashAfter(plan, CashLimited(plan, quantity, cash), cash) \in Nat
         /\ CashAfter(plan, CashLimited(plan, quantity, cash), cash)
              = cash - Floor0(CashLimited(plan, quantity, cash) - plan.current) * (plan.price * Full)
<1> DEFINE unit == plan.price * Full
           affordable == cash \div unit
           more == quantity - plan.current
           limited == CashLimited(plan, quantity, cash)
           bought == Floor0(limited - plan.current)
<1>1. unit \in Nat \ {0} /\ plan.current \in Nat /\ plan.price \in Nat /\ Full \in Nat
  BY UnitAssumption DEF Plans
<1>2. affordable \in Nat /\ unit * affordable <= cash
  <2> HIDE DEF unit
  <2> QED BY <1>1, DivBound, DivNat
<1>3. limited = IF more <= 0 \/ affordable >= more THEN quantity ELSE plan.current + affordable
  BY DEF CashLimited
<1> HIDE DEF affordable, limited, unit
<1>4. limited \in 0..quantity /\ bought \in Nat /\ bought <= affordable
  BY <1>1, <1>2, <1>3 DEF Floor0
<1> HIDE DEF bought
<1>5. unit * bought <= unit * affordable
  BY <1>1, <1>2, <1>4
<1>6. unit * bought \in Nat /\ unit * bought = bought * unit
  BY <1>1, <1>4
<1>7. CashAfter(plan, limited, cash) = cash - bought * plan.price * Full
  BY DEF CashAfter, bought
<1>8. bought * plan.price * Full = bought * unit
  BY <1>1, <1>4 DEF unit
<1>9. CashAfter(plan, limited, cash) = cash - bought * unit /\ cash - bought * unit \in Nat
  <2> DEFINE paid == bought * unit
  <2>1. paid \in Nat /\ paid <= unit * affordable /\ unit * affordable \in Int
    BY <1>1, <1>2, <1>5, <1>6
  <2>2. CashAfter(plan, limited, cash) = cash - paid
    BY <1>7, <1>8
  <2> HIDE DEF paid
  <2>3. paid <= cash
    BY <1>2, <2>1
  <2>4. cash - paid \in Nat
    BY <2>1, <2>3
  <2> QED BY <2>2, <2>4 DEF paid
<1> QED BY <1>4, <1>9 DEF limited, unit, bought

\* What Evaluate does with one plan.
LEMMA EvaluateAnswers ==
  ASSUME NEW p \in Portfolios, NEW prices \in PriceMaps, setup \in Setups, NEW quality,
         NEW pass \in Passes, NEW plan, PlanOf(plan, p, prices)
  PROVE  /\ Evaluate(p, prices, quality, pass, plan) \in Passes
         /\ \E grant \in Grants :
              Answered(pass, Evaluate(p, prices, quality, pass, plan), plan, grant)
<1> DEFINE currency == CurrencyOf[plan.symbol]
           cash == pass.cash[currency]
           limited == ExposureLimited(p, prices, plan,
                        PositionLimited(p, prices, plan, plan.quantity), pass.granted)
           quantity == CashLimited(plan, limited, cash)
           left == CashAfter(plan, quantity, cash)
           decide(grant) == [pass EXCEPT !.decisions = Append(@, grant)]
           new == Evaluate(p, prices, quality, pass, plan)
<1>1. plan \in Plans /\ plan.symbol \in Symbols /\ currency \in Currencies
      /\ plan.current \in Nat /\ plan.price \in Nat /\ plan.quantity \in Int
  BY PortfolioAssumption DEF PlanOf, Plans
<1>2. cash \in Nat /\ pass.granted \in [Symbols -> Int] /\ pass.cash \in [Currencies -> Nat]
      /\ pass.decisions \in Seq(Grants)
  BY <1>1 DEF Passes
<1> HIDE DEF currency
<1>3. \A reason \in Reasons : Rejected(plan, reason) \in Grants /\ Answers(Rejected(plan, reason), plan)
                              /\ Rejected(plan, reason).granted = plan.current
  BY <1>1 DEF Rejected, Grants, Answers
<1>0. /\ "short_target_rejected" \in Reasons /\ "snapshot_quality" \in Reasons
      /\ "missing_or_invalid_price" \in Reasons /\ "insufficient_cash" \in Reasons
      /\ "approved" \in Reasons
  BY DEF Reasons
<1>4. \A n \in Int : Approved(plan, n) \in Grants /\ Answers(Approved(plan, n), plan)
                      /\ Approved(plan, n).granted = n
  BY <1>0, <1>1 DEF Approved, Grants, Answers
<1>11. ASSUME NEW grant \in Grants
       PROVE  decide(grant) = [cash |-> pass.cash, granted |-> pass.granted,
                               decisions |-> Append(pass.decisions, grant)]
  <2>1. pass = [cash |-> pass.cash, granted |-> pass.granted, decisions |-> pass.decisions]
    BY DEF Passes
  <2> QED BY <2>1
<1>5. ASSUME NEW grant \in Grants, Answers(grant, plan), grant.granted = plan.current,
             new = decide(grant)
      PROVE  new \in Passes /\ Answered(pass, new, plan, grant)
  <2>1. new.cash = pass.cash /\ new.granted = pass.granted
        /\ new.decisions = Append(pass.decisions, grant) /\ new \in Passes
    <3>1. new = [cash |-> pass.cash, granted |-> pass.granted,
                 decisions |-> Append(pass.decisions, grant)]
      BY <1>5, <1>11
    <3>2. Append(pass.decisions, grant) \in Seq(Grants)
      BY <1>2
    <3> HIDE DEF new
    <3> QED BY <1>2, <3>1, <3>2 DEF Passes
  <2>2. \A c \in Currencies : Taken(plan, grant, c) = 0
    <3>1. grant.granted - grant.current = 0
      BY <1>1, <1>5 DEF Answers
    <3>2. Floor0(grant.granted - grant.current) = 0
      BY <3>1 DEF Floor0
    <3>3. plan.price * Full \in Int /\ 0 * (plan.price * Full) = 0
      BY <1>1, UnitAssumption
    <3> QED BY <3>2, <3>3 DEF Taken
  <2>3. \A c \in Currencies : pass.cash[c] \in Nat
    BY <1>2
  <2> HIDE DEF new
  <2> QED BY <1>1, <1>5, <2>1, <2>2, <2>3 DEF Answered
<1>6. CASE plan.quantity < 0
  <2>1. new = decide(Rejected(plan, "short_target_rejected"))
    BY <1>1, <1>6 DEF Evaluate
  <2> DEFINE grant == Rejected(plan, "short_target_rejected")
  <2>2. grant \in Grants /\ Answers(grant, plan) /\ grant.granted = plan.current
    BY <1>0, <1>3
  <2> HIDE DEF grant
  <2>3. new \in Passes /\ Answered(pass, new, plan, grant)
    <3>1. new = decide(grant)
      BY <2>1 DEF grant
    <3> HIDE DEF new, decide
    <3> QED BY <1>5, <2>2, <3>1
  <2> QED BY <2>2, <2>3
<1>7. CASE plan.quantity >= 0 /\ BlockedByQuality(plan, quality)
  <2>1. new = decide(Rejected(plan, "snapshot_quality"))
    BY <1>1, <1>7 DEF Evaluate
  <2> DEFINE grant == Rejected(plan, "snapshot_quality")
  <2>2. grant \in Grants /\ Answers(grant, plan) /\ grant.granted = plan.current
    BY <1>0, <1>3
  <2> HIDE DEF grant
  <2>3. new \in Passes /\ Answered(pass, new, plan, grant)
    <3>1. new = decide(grant)
      BY <2>1 DEF grant
    <3> HIDE DEF new, decide
    <3> QED BY <1>5, <2>2, <3>1
  <2> QED BY <2>2, <2>3
<1>8. CASE plan.quantity >= 0 /\ ~BlockedByQuality(plan, quality) /\ plan.price = 0
  <2>1. new = decide(Rejected(plan, "missing_or_invalid_price"))
    BY <1>1, <1>8 DEF Evaluate
  <2> DEFINE grant == Rejected(plan, "missing_or_invalid_price")
  <2>2. grant \in Grants /\ Answers(grant, plan) /\ grant.granted = plan.current
    BY <1>0, <1>3
  <2> HIDE DEF grant
  <2>3. new \in Passes /\ Answered(pass, new, plan, grant)
    <3>1. new = decide(grant)
      BY <2>1 DEF grant
    <3> HIDE DEF new, decide
    <3> QED BY <1>5, <2>2, <3>1
  <2> QED BY <2>2, <2>3
<1>9. CASE plan.quantity >= 0 /\ ~BlockedByQuality(plan, quality) /\ plan.price # 0
  <2>1. limited \in Nat
    <3>1. plan.quantity \in Nat
      BY <1>1, <1>9
    <3>2. PositionLimited(p, prices, plan, plan.quantity) \in 0..plan.quantity
      BY <1>1, <1>9, <3>1, PositionLimitNat
    <3> QED BY <1>1, <1>2, <1>9, <3>2, ExposureLimitNat
  <2> HIDE DEF limited
  <2>2. quantity \in Nat /\ left \in Nat
        /\ left = cash - Floor0(quantity - plan.current) * (plan.price * Full)
    <3>1. quantity \in 0..limited /\ left \in Nat
          /\ left = cash - Floor0(quantity - plan.current) * (plan.price * Full)
      BY <1>1, <1>2, <1>9, <2>1, CashLimitCovered
    <3> HIDE DEF quantity, left
    <3> QED BY <2>1, <3>1
  <2>3. new = IF quantity = plan.current /\ plan.quantity # plan.current
              THEN [decide(Rejected(plan, "insufficient_cash")) EXCEPT !.cash[currency] = left]
              ELSE [decide(Approved(plan, quantity)) EXCEPT !.cash[currency] = left,
                                                            !.granted[plan.symbol] = quantity]
    BY <1>1, <1>9 DEF Evaluate, currency, limited
  <2> HIDE DEF quantity, left, new
  <2>4. ASSUME NEW grant \in Grants, Answers(grant, plan), grant.granted = quantity,
               new.decisions = Append(pass.decisions, grant),
               new.cash = [pass.cash EXCEPT ![currency] = left]
        PROVE  Answered(pass, new, plan, grant)
    <3>1. ASSUME NEW c \in Currencies PROVE new.cash[c] <= pass.cash[c] - Taken(plan, grant, c)
      <4>1. CASE c = currency
        <5>1. new.cash[c] = left
          BY <1>2, <2>4, <4>1
        <5>2. Taken(plan, grant, c) = Floor0(quantity - plan.current) * (plan.price * Full)
          BY <2>4, <4>1 DEF Taken, Answers, currency
        <5>3. Floor0(quantity - plan.current) * (plan.price * Full) \in Int
          BY <1>1, <2>2, UnitAssumption DEF Floor0
        <5> HIDE DEF cash
        <5> QED BY <1>2, <2>2, <4>1, <5>1, <5>2, <5>3 DEF cash
      <4>2. CASE c # currency
        <5>1. new.cash[c] = pass.cash[c] /\ Taken(plan, grant, c) = 0 /\ pass.cash[c] \in Nat
          BY <1>2, <2>4, <4>2 DEF Taken, currency
        <5> QED BY <5>1
      <4> QED BY <4>1, <4>2
    <3> QED BY <2>2, <2>4, <3>1 DEF Answered
  <2>5. CASE quantity = plan.current /\ plan.quantity # plan.current
    <3> DEFINE grant == Rejected(plan, "insufficient_cash")
    <3>1. new = [decide(grant) EXCEPT !.cash[currency] = left]
      BY <2>3, <2>5
    <3>2. grant \in Grants /\ Answers(grant, plan) /\ grant.granted = quantity
      BY <1>0, <1>3, <2>5
    <3> HIDE DEF grant
    <3>3. new.decisions = Append(pass.decisions, grant) /\ new \in Passes
          /\ new.cash = [pass.cash EXCEPT ![currency] = left]
      <4>1. new = [cash |-> [pass.cash EXCEPT ![currency] = left], granted |-> pass.granted,
                   decisions |-> Append(pass.decisions, grant)]
        BY <1>11, <3>1, <3>2
      <4>2. Append(pass.decisions, grant) \in Seq(Grants)
            /\ [pass.cash EXCEPT ![currency] = left] \in [Currencies -> Nat]
        BY <1>1, <1>2, <2>2, <3>2
      <4> QED BY <1>2, <4>1, <4>2 DEF Passes
    <3>4. Answered(pass, new, plan, grant)
      BY <2>4, <3>2, <3>3
    <3> QED BY <3>2, <3>3, <3>4 DEF new
  <2>6. CASE ~(quantity = plan.current /\ plan.quantity # plan.current)
    <3> DEFINE grant == Approved(plan, quantity)
    <3>1. new = [decide(grant) EXCEPT !.cash[currency] = left, !.granted[plan.symbol] = quantity]
      BY <2>3, <2>6
    <3>2. grant \in Grants /\ Answers(grant, plan) /\ grant.granted = quantity
      BY <1>4, <2>2
    <3> HIDE DEF grant
    <3>3. new.decisions = Append(pass.decisions, grant) /\ new \in Passes
          /\ new.cash = [pass.cash EXCEPT ![currency] = left]
      <4>1. new = [cash |-> [pass.cash EXCEPT ![currency] = left],
                   granted |-> [pass.granted EXCEPT ![plan.symbol] = quantity],
                   decisions |-> Append(pass.decisions, grant)]
        BY <1>11, <3>1, <3>2
      <4>2. /\ Append(pass.decisions, grant) \in Seq(Grants)
            /\ [pass.cash EXCEPT ![currency] = left] \in [Currencies -> Nat]
            /\ [pass.granted EXCEPT ![plan.symbol] = quantity] \in [Symbols -> Int]
        BY <1>1, <1>2, <2>2, <3>2
      <4> QED BY <4>1, <4>2 DEF Passes
    <3>4. Answered(pass, new, plan, grant)
      BY <2>4, <3>2, <3>3
    <3> QED BY <3>2, <3>3, <3>4 DEF new
  <2> QED BY <2>5, <2>6
<1>10. plan.quantity < 0 \/ plan.quantity >= 0
  BY <1>1
<1> QED BY <1>6, <1>7, <1>8, <1>9, <1>10

\* No limit keeps a plan from giving up a position that has a price.
LEMMA EvaluateExit ==
  ASSUME NEW p \in Portfolios, NEW prices \in PriceMaps, setup \in Setups, NEW quality,
         NEW pass \in Passes, NEW plan, PlanOf(plan, p, prices),
         plan.quantity = 0, plan.price # 0, quality # "invalid"
  PROVE  Evaluate(p, prices, quality, pass, plan).decisions
           = Append(pass.decisions, Approved(plan, 0))
<1> DEFINE currency == CurrencyOf[plan.symbol]
           cash == pass.cash[currency]
           limited == ExposureLimited(p, prices, plan,
                        PositionLimited(p, prices, plan, plan.quantity), pass.granted)
           quantity == CashLimited(plan, limited, cash)
           left == CashAfter(plan, quantity, cash)
           decide(grant) == [pass EXCEPT !.decisions = Append(@, grant)]
           new == Evaluate(p, prices, quality, pass, plan)
<1>1. plan \in Plans /\ plan.symbol \in Symbols /\ currency \in Currencies /\ plan.current \in Nat
      /\ cash \in Nat /\ pass.granted \in [Symbols -> Int]
  BY PortfolioAssumption DEF PlanOf, Plans, Passes
<1>2. ~BlockedByQuality(plan, quality) /\ ~(plan.quantity < 0) /\ plan.quantity >= 0
  BY <1>1 DEF BlockedByQuality
<1>3. limited = 0
  <2>1. PositionLimited(p, prices, plan, plan.quantity) = 0
    <3>1. PositionLimited(p, prices, plan, 0) \in 0..0
      BY <1>1, PositionLimitNat
    <3> QED BY <3>1
  <2>2. ExposureLimited(p, prices, plan, 0, pass.granted) \in 0..0
    BY <1>1, ExposureLimitNat
  <2> QED BY <2>1, <2>2
<1> HIDE DEF limited
<1>4. quantity = 0
  <2>1. CashLimited(plan, 0, cash) \in 0..0
    <3> HIDE DEF cash
    <3> QED BY <1>1, CashLimitCovered
  <2> QED BY <1>3, <2>1
<1>5. new = IF quantity = plan.current /\ plan.quantity # plan.current
            THEN [decide(Rejected(plan, "insufficient_cash")) EXCEPT !.cash[currency] = left]
            ELSE [decide(Approved(plan, quantity)) EXCEPT !.cash[currency] = left,
                                                          !.granted[plan.symbol] = quantity]
  BY <1>2 DEF Evaluate, limited
<1>6. new = [decide(Approved(plan, 0)) EXCEPT !.cash[currency] = left, !.granted[plan.symbol] = 0]
  <2> HIDE DEF new, quantity, left, decide
  <2> QED BY <1>4, <1>5
<1>7. decide(Approved(plan, 0)) = [cash |-> pass.cash, granted |-> pass.granted,
                                   decisions |-> Append(pass.decisions, Approved(plan, 0))]
  <2>1. pass = [cash |-> pass.cash, granted |-> pass.granted, decisions |-> pass.decisions]
    BY DEF Passes
  <2> QED BY <2>1
<1> HIDE DEF decide, left, new
<1>8. new.decisions = decide(Approved(plan, 0)).decisions
  BY <1>6, <1>7
<1> QED BY <1>7, <1>8 DEF new

\* What the cash of a pass tells of its decisions: the first of them, and the i-th.
GrantedAt(h, decisions, plans, i) ==
  /\ Answers(decisions[i], plans[i]) /\ decisions[i].granted \in Nat
  /\ h[i].decisions = Append(h[i - 1].decisions, decisions[i])
  /\ \A c \in Currencies : h[i].cash[c] <= h[i - 1].cash[c] - Taken(plans[i], decisions[i], c)
GrantedOver(h, decisions, plans, n) ==
  /\ decisions \in Seq(Grants) /\ Len(decisions) = n
  /\ \A i \in 1..n : GrantedAt(h, decisions, plans, i)

LEMMA StartPassTyped ==
  ASSUME NEW p \in Portfolios, setup \in Setups
  PROVE  StartPass(p) \in Passes
<1>1. \A c \in Currencies : Floor0(p.cash[c] * (Full - setup.cashBuffer)) \in Nat
  <2> SUFFICES ASSUME NEW c \in Currencies
               PROVE  Floor0(p.cash[c] * (Full - setup.cashBuffer)) \in Nat
    OBVIOUS
  <2>1. p.cash[c] \in Int /\ Full - setup.cashBuffer \in Int
    BY RiskAssumption, UnitAssumption DEF Portfolios
  <2>2. p.cash[c] * (Full - setup.cashBuffer) \in Int
    BY <2>1
  <2> QED BY <2>2 DEF Floor0
<1>2. p.quantity \in [Symbols -> Int] /\ << >> \in Seq(Grants)
  BY DEF Portfolios
<1> QED BY <1>1, <1>2 DEF StartPass, Passes

LEMMA BasicGranted ==
  ASSUME NEW p \in Portfolios, NEW prices \in PriceMaps, setup \in Setups, NEW quality,
         NEW plans, Sized(plans, p, prices)
  PROVE  \E h \in [0..Len(plans) -> Passes] :
           /\ h[0] = StartPass(p)
           /\ \A n \in 1..Len(plans) : h[n] = Evaluate(p, prices, quality, h[n - 1], plans[n])
           /\ GrantedOver(h, BasicDecisions(p, prices, quality, plans), plans, Len(plans))
<1> DEFINE m == Len(plans)
           D == Passes
           Next1(pass, n) == Evaluate(p, prices, quality, pass, plans[n])
           Row(g) == [n \in 0..m |-> IF n = 0 THEN StartPass(p) ELSE Next1(g[n - 1], n)]
           step == [x \in D \X Nat |-> IF x[2] \in 1..m THEN Next1(x[1], x[2]) ELSE x[1]]
<1>0. m \in Nat /\ plans \in Seq(Plans) /\ DOMAIN plans = 1..m /\ StartPass(p) \in D
  BY StartPassTyped DEF Sized
<1>1. ASSUME NEW q \in D, NEW n \in 1..m
      PROVE  /\ Next1(q, n) \in D
             /\ \E grant \in Grants : Answered(q, Next1(q, n), plans[n], grant)
  <2>1. PlanOf(plans[n], p, prices)
    BY <1>0 DEF Sized, PlanOf
  <2> QED BY <2>1, EvaluateAnswers
<1> HIDE DEF Next1
<1>2. step \in [D \X Nat -> D]
  BY <1>1
<1>3. PICK f \in [0..m -> D] : Run(f, StartPass(p), step, m)
  <2> HIDE DEF D, step
  <2>1. \A k \in Nat : \E f \in [0..k -> D] : Run(f, StartPass(p), step, k)
    BY <1>0, <1>2, Repeated
  <2> QED BY <1>0, <2>1
<1>4. f = Row(f)
  <2>1. ASSUME NEW n \in 0..m
        PROVE  f[n] = IF n = 0 THEN StartPass(p) ELSE Next1(f[n - 1], n)
    <3>1. CASE n = 0
      BY <1>3, <3>1 DEF Run
    <3>2. CASE n # 0
      <4>1. n \in 1..m /\ n \in Nat /\ f[n - 1] \in D
        BY <1>0, <3>2
      <4>2. f[n] = step[<<f[n - 1], n>>]
        BY <1>3, <4>1 DEF Run
      <4>3. step[<<f[n - 1], n>>] = Next1(f[n - 1], n)
        BY <4>1
      <4> HIDE DEF step
      <4> QED BY <3>2, <4>2, <4>3
    <3> QED BY <3>1, <3>2
  <2>2. f = [n \in 0..m |-> f[n]]
    OBVIOUS
  <2> QED BY <2>1, <2>2
<1> DEFINE h == CHOOSE g : g = Row(g)
<1>5. PassOver(p, prices, quality, plans) = h
  BY DEF PassOver, Next1
<1>6. h = Row(h)
  <2> HIDE DEF Row
  <2> QED BY <1>4
<1> HIDE DEF h
<1>7. ASSUME NEW n \in 0..m
      PROVE  h[n] = IF n = 0 THEN StartPass(p) ELSE Next1(h[n - 1], n)
  BY <1>6
<1> DEFINE Holds(n) == h[n] \in D /\ GrantedOver(h, h[n].decisions, plans, n)
           S == {n \in 0..m : Holds(n)}
<1>8. 0 \in S
  <2>1. 0 \in 0..m /\ h[0] = StartPass(p) /\ 1..0 = {}
    BY <1>0, <1>7
  <2>2. h[0].decisions = << >> /\ << >> \in Seq(Grants) /\ Len(<< >>) = 0
    BY <2>1 DEF StartPass
  <2> HIDE DEF D
  <2> QED BY <1>0, <2>1, <2>2 DEF GrantedOver
<1>9. ASSUME NEW n \in 1..m, n - 1 \in S PROVE n \in S
  <2>1. n \in 0..m /\ n # 0 /\ Holds(n - 1)
    BY <1>0, <1>9
  <2>2. h[n] = Next1(h[n - 1], n)
    BY <1>7, <2>1
  <2>3. h[n - 1] \in D
    BY <2>1
  <2>4. PICK grant \in Grants : Answered(h[n - 1], h[n], plans[n], grant)
    BY <1>1, <2>2, <2>3
  <2>5. h[n] \in D
    BY <1>1, <2>2, <2>3
  <2> DEFINE old == h[n - 1].decisions
             new == h[n].decisions
  <2>6. GrantedOver(h, old, plans, n - 1)
    BY <2>1
  <2>7. new = Append(old, grant)
    BY <2>4 DEF Answered
  <2> HIDE DEF old, new
  <2>8. old \in Seq(Grants) /\ Len(old) = n - 1
    BY <2>6 DEF GrantedOver
  <2>9. new \in Seq(Grants) /\ Len(new) = n /\ new[n] = grant
        /\ \A i \in 1..(n - 1) : new[i] = old[i]
    BY <2>7, <2>8
  <2>10. ASSUME NEW i \in 1..n PROVE GrantedAt(h, new, plans, i)
    <3>1. CASE i = n
      <4>1. h[i].decisions = Append(h[i - 1].decisions, new[i])
        BY <2>7, <2>9, <3>1 DEF old, new
      <4> QED BY <2>4, <2>9, <3>1, <4>1 DEF Answered, GrantedAt
    <3>2. CASE i # n
      <4>1. i \in 1..(n - 1)
        BY <3>2
      <4>2. GrantedAt(h, old, plans, i) /\ new[i] = old[i]
        BY <2>6, <2>9, <4>1 DEF GrantedOver
      <4> QED BY <4>2 DEF GrantedAt
    <3> QED BY <3>1, <3>2
  <2>11. GrantedOver(h, new, plans, n)
    BY <2>9, <2>10 DEF GrantedOver
  <2> QED BY <2>1, <2>5, <2>11 DEF new
<1>10. 0..m \subseteq S
  <2> HIDE DEF S, m
  <2> QED BY <1>0, <1>8, <1>9, UpTo
<1>11. m \in 0..m /\ 0 \in 0..m
  BY <1>0
<1>12. Holds(m)
  <2> HIDE DEF Holds
  <2> QED BY <1>10, <1>11
<1>13. h \in [0..m -> D]
  <2>1. h = [n \in 0..m |-> h[n]]
    BY <1>6
  <2>2. \A n \in 0..m : h[n] \in D
    BY <1>10
  <2> HIDE DEF D
  <2> QED BY <2>1, <2>2
<1>14. h[0] = StartPass(p)
  BY <1>7, <1>11
<1>15. BasicDecisions(p, prices, quality, plans) = h[m].decisions
  BY <1>5 DEF BasicDecisions
<1>16. \A n \in 1..m : h[n] = Evaluate(p, prices, quality, h[n - 1], plans[n])
  <2> SUFFICES ASSUME NEW n \in 1..m
               PROVE  h[n] = Evaluate(p, prices, quality, h[n - 1], plans[n])
    OBVIOUS
  <2>1. n \in 0..m /\ n # 0
    BY <1>0
  <2> QED BY <1>7, <2>1 DEF Next1
<1> QED BY <1>12, <1>13, <1>14, <1>15, <1>16

\* The circuit breakers answer each plan as well.
LEMMA BreakerAnswers ==
  ASSUME NEW tripped \in BOOLEAN, NEW plans \in Seq(Plans)
  PROVE  /\ BreakerDecisions(tripped, plans) \in Seq(Grants)
         /\ Len(BreakerDecisions(tripped, plans)) = Len(plans)
<1> DEFINE grant(i) == IF tripped /\ plans[i].quantity > plans[i].current
                       THEN Rejected(plans[i], "limit_exceeded")
                       ELSE Approved(plans[i], plans[i].quantity)
           decisions == [i \in 1..Len(plans) |-> grant(i)]
<1>1. ASSUME NEW i \in 1..Len(plans) PROVE grant(i) \in Grants
  <2>1. plans[i] \in Plans
    OBVIOUS
  <2>2. "limit_exceeded" \in Reasons /\ "approved" \in Reasons
    BY DEF Reasons
  <2>3. Rejected(plans[i], "limit_exceeded") \in Grants
    BY <2>1, <2>2 DEF Rejected, Grants, Plans
  <2>4. Approved(plans[i], plans[i].quantity) \in Grants
    BY <2>1, <2>2 DEF Approved, Grants, Plans
  <2> QED BY <2>3, <2>4
<1>2. BreakerDecisions(tripped, plans) = decisions
  BY DEF BreakerDecisions
<1> HIDE DEF grant
<1>3. decisions \in [1..Len(plans) -> Grants] /\ Len(plans) \in Nat
  BY <1>1
<1> HIDE DEF decisions
<1>4. decisions \in Seq(Grants) /\ Len(decisions) = Len(plans)
  BY <1>3
<1> QED BY <1>2, <1>4

\* Decisions on some holdings of a portfolio, one of each.
OnHoldings(decisions, p) ==
  /\ decisions \in Seq(Grants) /\ OneTargetEach(decisions)
  /\ \A i \in DOMAIN decisions : decisions[i].current = p.quantity[decisions[i].symbol]

\* Each plan of a cycle is answered in its place.
LEMMA DecisionsAnswer ==
  ASSUME NEW p \in Portfolios, NEW prices \in PriceMaps, setup \in Setups, NEW quality,
         NEW plans, Sized(plans, p, prices), NEW record,
         NEW decisions, decisions = Decisions(p, prices, quality, plans, record)
  PROVE  /\ OnHoldings(decisions, p) /\ Len(decisions) = Len(plans)
         /\ \A i \in DOMAIN plans : Answers(decisions[i], plans[i])
<1> DEFINE m == Len(plans)
<1>1. m \in Nat /\ plans \in Seq(Plans) /\ DOMAIN plans = 1..m
  BY DEF Sized
<1>2. decisions \in Seq(Grants) /\ Len(decisions) = m
      /\ \A i \in 1..m : Answers(decisions[i], plans[i])
  <2>1. CASE setup.risk = "basic"
    <3>1. PICK h \in [0..m -> Passes] :
            GrantedOver(h, BasicDecisions(p, prices, quality, plans), plans, m)
      BY BasicGranted
    <3> QED BY <2>1, <3>1 DEF GrantedOver, GrantedAt, Decisions
  <2>2. CASE setup.risk # "basic"
    <3> DEFINE tripped == Tripped(record, NativeSum(p, prices))
    <3>1. decisions = BreakerDecisions(tripped, plans) /\ tripped \in BOOLEAN
      BY <2>2 DEF Decisions, Tripped
    <3> HIDE DEF tripped
    <3>2. decisions \in Seq(Grants) /\ Len(decisions) = m
      BY <1>1, <3>1, BreakerAnswers
    <3>3. ASSUME NEW i \in 1..m PROVE Answers(decisions[i], plans[i])
      <4>1. decisions[i] = IF tripped /\ plans[i].quantity > plans[i].current
                           THEN Rejected(plans[i], "limit_exceeded")
                           ELSE Approved(plans[i], plans[i].quantity)
        BY <1>1, <3>1 DEF BreakerDecisions
      <4>2. decisions[i] \in Grants
        BY <3>2
      <4> QED BY <4>1, <4>2 DEF Answers, Rejected, Approved
    <3> QED BY <3>2, <3>3
  <2> QED BY <2>1, <2>2
<1>3. ASSUME NEW i \in 1..m
      PROVE  decisions[i].symbol = plans[i].symbol /\ decisions[i].current = p.quantity[plans[i].symbol]
  BY <1>1, <1>2 DEF Answers, Sized
<1>4. DOMAIN decisions = 1..m
  BY <1>2
<1>5. OneTargetEach(decisions)
  <2> SUFFICES ASSUME NEW i \in 1..m, NEW j \in 1..m, decisions[i].symbol = decisions[j].symbol
               PROVE  i = j
    BY <1>4 DEF OneTargetEach
  <2>1. plans[i].symbol = plans[j].symbol
    BY <1>3
  <2> QED BY <1>1, <2>1 DEF Sized, OneTargetEach
<1> QED BY <1>1, <1>2, <1>3, <1>4, <1>5 DEF OnHoldings

\* Every risk model lets a plan give up a position that has a price.
LEMMA DecisionsExit ==
  ASSUME NEW p \in Portfolios, NEW prices \in PriceMaps, setup \in Setups, NEW quality,
         quality # "invalid", NEW plans, Sized(plans, p, prices), NEW record,
         NEW i \in DOMAIN plans, plans[i].quantity = 0, plans[i].price # 0
  PROVE  Decisions(p, prices, quality, plans, record)[i] = Approved(plans[i], 0)
<1> DEFINE m == Len(plans)
           decisions == Decisions(p, prices, quality, plans, record)
<1>1. m \in Nat /\ plans \in Seq(Plans) /\ i \in 1..m /\ plans[i] \in Plans
      /\ PlanOf(plans[i], p, prices)
  BY DEF Sized, PlanOf
<1>2. CASE setup.risk = "basic"
  <2> DEFINE basic == BasicDecisions(p, prices, quality, plans)
  <2>1. PICK h \in [0..m -> Passes] :
          /\ \A n \in 1..m : h[n] = Evaluate(p, prices, quality, h[n - 1], plans[n])
          /\ GrantedOver(h, basic, plans, m)
    BY BasicGranted
  <2> HIDE DEF basic
  <2> DEFINE old == h[i - 1].decisions
             new == h[i].decisions
  <2>2. h[i - 1] \in Passes /\ old \in Seq(Grants)
    BY <1>1, <2>1 DEF Passes
  <2>3. new = Append(old, Approved(plans[i], 0))
    <3>1. h[i] = Evaluate(p, prices, quality, h[i - 1], plans[i])
      BY <1>1, <2>1
    <3> QED BY <1>1, <2>2, <3>1, EvaluateExit
  <2>4. new = Append(old, basic[i])
    BY <1>1, <2>1 DEF GrantedOver, GrantedAt
  <2> HIDE DEF old, new
  <2>5. basic[i] = Approved(plans[i], 0)
    BY <2>2, <2>3, <2>4
  <2> QED BY <1>2, <2>5 DEF Decisions, basic
<1>3. CASE setup.risk # "basic"
  <2> DEFINE tripped == Tripped(record, NativeSum(p, prices))
  <2>1. decisions = BreakerDecisions(tripped, plans)
    BY <1>3 DEF Decisions
  <2>2. ~(plans[i].quantity > plans[i].current)
    BY <1>1 DEF Plans
  <2> HIDE DEF tripped
  <2> QED BY <1>1, <2>1, <2>2 DEF BreakerDecisions
<1> QED BY <1>2, <1>3

--------------------------------------------------------------------------------
(* Orders and fills: the slices of an order are positive and add up to it.       *)

\* How much of an order its first n slices are.
FilledBy(total, n) == IF n < Len(Chunks(total)) THEN n * ChunkSize(total) ELSE total

LEMMA ChunksAddUp ==
  ASSUME setup \in Setups, NEW total \in Nat \ {0}
  PROVE  /\ Chunks(total) \in Seq(Nat \ {0})
         /\ Len(Chunks(total)) \in Nat \ {0}
         /\ FilledBy(total, 0) = 0 /\ FilledBy(total, Len(Chunks(total))) = total
         /\ \A n \in 1..Len(Chunks(total)) :
              /\ Chunks(total)[n] = FilledBy(total, n) - FilledBy(total, n - 1)
              /\ FilledBy(total, n) \in 0..total /\ FilledBy(total, n - 1) \in 0..total
<1> DEFINE cap == ChunkSize(total)
           all == (total + cap - 1) \div cap
           slices == Lower(setup.maxSlices, all)
           chunk(i) == IF i < slices THEN cap ELSE total - cap * (slices - 1)
           chunks == [i \in 1..slices |-> chunk(i)]
<1>1. setup.maxSliceQuantity \in Nat \ {0} /\ setup.maxSlices \in Nat \ {0}
  BY BacktestAssumption
<1>2. cap \in 1..total
  BY <1>1 DEF ChunkSize, Lower
<1>3. all \in Nat /\ cap * all <= total + cap - 1 /\ total + cap - 1 < cap * all + cap
  <2>1. total + cap - 1 \in Nat /\ cap \in Nat \ {0}
    BY <1>2
  <2> HIDE DEF cap
  <2> QED BY <2>1, DivBound, DivNat
<1> HIDE DEF cap, all
<1>4. all # 0
  <2>1. SUFFICES ASSUME all = 0 PROVE FALSE
    OBVIOUS
  <2>2. cap * all = 0
    BY <1>2, <2>1
  <2> QED BY <1>2, <1>3, <2>2
<1>5. slices \in Nat \ {0} /\ slices <= all
  BY <1>1, <1>3, <1>4 DEF Lower
<1> HIDE DEF slices
<1>6. cap * slices <= cap * all
  BY <1>2, <1>3, <1>5
<1>7. cap * (slices - 1) = cap * slices - cap /\ cap * slices \in Nat
  BY <1>2, <1>5
<1>8. cap * (slices - 1) <= total - 1 /\ cap * (slices - 1) \in Int
  <2>1. cap * all \in Nat /\ cap \in Nat
    BY <1>2, <1>3
  <2> QED BY <1>2, <1>3, <1>6, <1>7, <2>1
<1>9. Chunks(total) = chunks
  BY DEF Chunks, slices, all, cap
<1>10. \A i \in 1..slices : chunk(i) \in Nat \ {0}
  BY <1>2, <1>5, <1>8
<1>11. Len(chunks) = slices /\ chunks \in Seq(Nat \ {0}) /\ \A i \in 1..slices : chunks[i] = chunk(i)
  <2> HIDE DEF chunk
  <2> QED BY <1>5, <1>10
<1> HIDE DEF chunks
<1> DEFINE F(n) == IF n < slices THEN n * cap ELSE total
<1>12. \A n : FilledBy(total, n) = F(n)
  BY <1>9, <1>11 DEF FilledBy, cap
<1>13. F(0) = 0 /\ F(slices) = total
  BY <1>2, <1>5
<1>14. ASSUME NEW n \in 0..slices PROVE F(n) \in 0..total
  <2>1. CASE n < slices
    <3>1. n \in Nat /\ n <= slices - 1 /\ slices - 1 \in Nat /\ cap \in Nat
      BY <1>2, <1>5, <2>1
    <3>2. n * cap <= (slices - 1) * cap /\ n * cap \in Nat
      BY <3>1
    <3>3. (slices - 1) * cap = cap * (slices - 1)
      BY <3>1
    <3> QED BY <1>8, <2>1, <3>2, <3>3
  <2>2. CASE ~(n < slices)
    BY <2>2
  <2> QED BY <2>1, <2>2
<1>15. ASSUME NEW n \in 1..slices PROVE chunk(n) = F(n) - F(n - 1)
  <2>1. n \in Nat /\ n - 1 \in Nat /\ n - 1 < slices /\ cap \in Nat
    BY <1>2, <1>5
  <2>2. F(n - 1) = (n - 1) * cap /\ (n - 1) * cap = n * cap - cap /\ n * cap \in Nat
    BY <2>1
  <2>3. CASE n < slices
    <3>1. F(n) = n * cap /\ chunk(n) = cap
      BY <2>3
    <3> HIDE DEF F, chunk
    <3> QED BY <2>1, <2>2, <3>1
  <2>4. CASE ~(n < slices)
    <3>1. n = slices
      BY <1>5, <2>4
    <3>2. F(n) = total /\ chunk(n) = total - cap * (n - 1)
      BY <2>4, <3>1
    <3>3. cap * (n - 1) = (n - 1) * cap
      BY <2>1
    <3> HIDE DEF F, chunk
    <3> QED BY <2>1, <2>2, <3>2, <3>3
  <2> QED BY <2>3, <2>4
<1>16. \A n \in 1..slices : n \in 0..slices /\ n - 1 \in 0..slices
  BY <1>5
<1> HIDE DEF F, chunk
<1> QED BY <1>5, <1>9, <1>11, <1>12, <1>13, <1>14, <1>15, <1>16

\* The fills of a decision, if there are any.
Filling(decision, prices, fills) ==
  LET delta == decision.granted - decision.current
  IN /\ decision.approved /\ delta # 0 /\ decision.symbol \in DOMAIN prices
     /\ Len(fills) = Len(Chunks(Abs(delta)))
     /\ \A n \in 1..Len(fills) :
          /\ fills[n].symbol = decision.symbol
          /\ fills[n].side = (IF delta > 0 THEN "buy" ELSE "sell")
          /\ fills[n].quantity = FilledBy(Abs(delta), n) - FilledBy(Abs(delta), n - 1)
          /\ fills[n].fee <= Notional(fills[n])
          /\ setup.slippage = 0 /\ setup.fee = 0
               => fills[n].price = prices[decision.symbol] /\ fills[n].fee = 0

\* The price and the fee of a fill.
LEMMA FillTyped ==
  ASSUME setup \in Setups,
         NEW order \in [symbol : Symbols, side : {"buy", "sell"}, quantity : Nat \ {0}, price : Nat]
  PROVE  /\ Fill(order) \in FillRecords
         /\ Fill(order).symbol = order.symbol /\ Fill(order).side = order.side
         /\ Fill(order).quantity = order.quantity
         /\ Fill(order).fee <= Notional(Fill(order))
         /\ setup.slippage = 0 /\ setup.fee = 0 => Fill(order).price = order.price /\ Fill(order).fee = 0
<1> DEFINE price == FillPrice(order)
           worth == order.quantity * price
           fee == (order.quantity * price * setup.fee) \div CostUnit
<1>1. CostUnit \in Nat \ {0} /\ setup.slippage \in 0..CostUnit /\ setup.fee \in 0..CostUnit
  BY BacktestAssumption
<1>2. Slippage(order.price) \in 0..order.price
  BY <1>1, ShareAtMost DEF Slippage
<1>3. price \in Nat
  BY <1>2 DEF FillPrice
<1>4. worth \in Nat
  <2> HIDE DEF price
  <2> QED BY <1>3
<1>5. fee \in 0..worth
  <2> HIDE DEF price
  <2>1. fee = (worth * setup.fee) \div CostUnit
    OBVIOUS
  <2> HIDE DEF fee, worth
  <2> QED BY <1>1, <1>4, <2>1, ShareAtMost
<1>6. Fill(order) = [symbol |-> order.symbol, side |-> order.side, quantity |-> order.quantity,
                     price |-> price, fee |-> fee]
  BY DEF Fill
<1>7. setup.slippage = 0 /\ setup.fee = 0 => price = order.price /\ fee = 0
  <2>1. SUFFICES ASSUME setup.slippage = 0, setup.fee = 0 PROVE price = order.price /\ fee = 0
    OBVIOUS
  <2>2. 0 \div CostUnit = 0
    BY <1>1
  <2>3. order.price * 0 = 0
    OBVIOUS
  <2>4. Slippage(order.price) = 0
    BY <2>1, <2>2, <2>3 DEF Slippage
  <2>5. price = order.price
    BY <2>4 DEF FillPrice
  <2>6. fee = (worth * 0) \div CostUnit
    BY <2>1
  <2> HIDE DEF worth, fee
  <2>7. worth * 0 = 0
    BY <1>4
  <2> QED BY <2>2, <2>5, <2>6, <2>7
<1> HIDE DEF price, fee
<1>8. Fill(order) \in FillRecords
  BY <1>3, <1>4, <1>5, <1>6 DEF FillRecords
<1>9. Notional(Fill(order)) = worth
  BY <1>6 DEF Notional
<1> HIDE DEF worth
<1> QED BY <1>4, <1>5, <1>6, <1>7, <1>8, <1>9

LEMMA FillsAddUp ==
  ASSUME setup \in Setups, NEW prices \in PriceMaps, NEW decision \in Grants
  PROVE  /\ FillsOf(decision, prices) \in Seq(FillRecords)
         /\ \/ /\ FillsOf(decision, prices) = << >>
               /\ \/ ~decision.approved \/ decision.granted = decision.current
                  \/ decision.symbol \notin DOMAIN prices
            \/ Filling(decision, prices, FillsOf(decision, prices))
<1> DEFINE y == decision.symbol
           delta == decision.granted - decision.current
           side == IF delta > 0 THEN "buy" ELSE "sell"
           chunks == Chunks(Abs(delta))
           order(i) == [symbol |-> y, side |-> side, quantity |-> chunks[i], price |-> prices[y]]
           orders == OrdersFor(decision, prices)
           fills == FillsOf(decision, prices)
           none == ~decision.approved \/ delta = 0 \/ y \notin DOMAIN prices
<1>1. orders = IF none THEN << >> ELSE [i \in DOMAIN chunks |-> order(i)]
  BY DEF OrdersFor
<1>2. fills = [i \in DOMAIN orders |-> Fill(orders[i])]
  BY DEF FillsOf
<1>3. CASE none
  <2>1. orders = << >> /\ DOMAIN << >> = {}
    BY <1>1, <1>3
  <2> HIDE DEF orders, fills
  <2>2. fills = << >>
    BY <1>2, <2>1
  <2>3. ~decision.approved \/ decision.granted = decision.current \/ y \notin DOMAIN prices
    BY <1>3 DEF Grants
  <2> QED BY <2>2, <2>3 DEF fills
<1>4. CASE ~none
  <2>1. delta \in Int /\ delta # 0 /\ Abs(delta) \in Nat \ {0} /\ y \in Symbols
        /\ decision.approved /\ y \in DOMAIN prices
    BY <1>4 DEF Grants, Abs
  <2>2. prices[y] \in Nat
    BY <2>1 DEF PriceMaps
  <2>3. side \in {"buy", "sell"}
    OBVIOUS
  <2> DEFINE m == Len(chunks)
  <2>4. chunks \in Seq(Nat \ {0}) /\ m \in Nat \ {0} /\ DOMAIN chunks = 1..m
    BY <2>1, ChunksAddUp
  <2>5. \A n \in 1..m : chunks[n] = FilledBy(Abs(delta), n) - FilledBy(Abs(delta), n - 1)
    BY <2>1, ChunksAddUp
  <2>6. DOMAIN orders = 1..m /\ \A i \in 1..m : orders[i] = order(i)
    <3> HIDE DEF none, chunks, orders, order
    <3> QED BY <1>1, <1>4, <2>4
  <2>7. fills = [i \in 1..m |-> Fill(order(i))]
    <3> HIDE DEF none, chunks, orders, order, fills
    <3> QED BY <1>2, <2>6
  <2>8. ASSUME NEW i \in 1..m
        PROVE  /\ fills[i] = Fill(order(i))
               /\ order(i) \in [symbol : Symbols, side : {"buy", "sell"}, quantity : Nat \ {0}, price : Nat]
               /\ order(i).symbol = y /\ order(i).side = side
               /\ order(i).quantity = chunks[i] /\ order(i).price = prices[y]
    <3>1. fills[i] = Fill(order(i))
      <4> HIDE DEF fills, order
      <4> QED BY <2>7
    <3>2. chunks[i] \in Nat \ {0}
      <4> HIDE DEF chunks
      <4> QED BY <2>4
    <3> HIDE DEF side, chunks, fills
    <3> QED BY <2>1, <2>2, <2>3, <3>1, <3>2
  <2> HIDE DEF order, orders, chunks, fills, m, side
  <2>9. ASSUME NEW i \in 1..m
        PROVE  /\ fills[i] \in FillRecords
               /\ fills[i].symbol = y /\ fills[i].side = side /\ fills[i].quantity = chunks[i]
               /\ fills[i].fee <= Notional(fills[i])
               /\ setup.slippage = 0 /\ setup.fee = 0 => fills[i].price = prices[y] /\ fills[i].fee = 0
    BY <2>8, FillTyped
  <2>10. fills = [i \in 1..m |-> fills[i]]
    BY <2>7
  <2>11. fills \in Seq(FillRecords) /\ Len(fills) = m
    <3>1. fills \in [1..m -> FillRecords]
      BY <2>9, <2>10
    <3> QED BY <2>4, <3>1
  <2>12. Filling(decision, prices, fills)
    BY <2>1, <2>5, <2>9, <2>11 DEF Filling, m, chunks, side
  <2> QED BY <2>11, <2>12 DEF fills
<1> QED BY <1>3, <1>4

--------------------------------------------------------------------------------
(* The lots of the tracker, and their sums.                                      *)

Quantities(lots) == [i \in DOMAIN lots |-> lots[i].quantity]
Costs(lots) == [i \in DOMAIN lots |-> lots[i].quantity * lots[i].price]

LEMMA SumAppend ==
  ASSUME NEW V \in Seq(Int), NEW v \in Int
  PROVE  SumFunction(Append(V, v)) = SumFunction(V) + v /\ SumFunction(V) \in Int
<1> DEFINE n == Len(V)
           W == Append(V, v)
<1>1. n \in Nat /\ DOMAIN V = 1..n /\ DOMAIN W = (1..n) \cup {n + 1} /\ n + 1 \notin 1..n
  BY DEF n
<1>2. IsFiniteSet(1..n)
  BY <1>1, FS_Interval
<1>3. W[n + 1] = v /\ \A i \in 1..n : W[i] = V[i] /\ V[i] \in Int
  OBVIOUS
<1> HIDE DEF W
<1>4. SumFunctionOnSet(W, (1..n) \cup {n + 1}) = SumFunctionOnSet(V, 1..n) + W[n + 1]
      /\ SumFunctionOnSet(V, 1..n) \in Int
  <2> DEFINE T == 1..n
             x == n + 1
  <2>1. IsFiniteSet(T) /\ x \notin T /\ W[x] \in Int /\ \A i \in T : W[i] = V[i] /\ V[i] \in Int
    BY <1>1, <1>2, <1>3
  <2> HIDE DEF T, x
  <2>2. SumFunctionOnSet(W, T \cup {x}) = SumFunctionOnSet(V, T) + W[x]
        /\ SumFunctionOnSet(V, T) \in Int
    BY <2>1, SumAdd
  <2> QED BY <2>2 DEF T, x
<1>5. SumFunction(W) = SumFunction(V) + v /\ SumFunction(V) \in Int
  BY <1>1, <1>3, <1>4 DEF SumFunction
<1> QED BY <1>5 DEF W

LEMMA LotSums ==
  ASSUME NEW lots \in Seq(Lots)
  PROVE  /\ Shares(lots) \in Nat /\ Cost(lots) \in Nat
         /\ Quantities(lots) \in Seq(Int) /\ Costs(lots) \in Seq(Int)
         /\ Shares(lots) = SumFunction(Quantities(lots)) /\ Cost(lots) = SumFunction(Costs(lots))
<1> DEFINE n == Len(lots)
<1>1. n \in Nat /\ DOMAIN lots = 1..n /\ IsFiniteSet(1..n)
  BY FS_Interval
<1>2. \A i \in 1..n : lots[i].quantity \in Nat /\ lots[i].price \in Nat
  <2> SUFFICES ASSUME NEW i \in 1..n PROVE lots[i].quantity \in Nat /\ lots[i].price \in Nat
    OBVIOUS
  <2>1. lots[i] \in Lots
    OBVIOUS
  <2> QED BY <2>1 DEF Lots
<1>3. \A i \in 1..n : lots[i].quantity * lots[i].price \in Nat
  BY <1>2
<1> DEFINE Q == Quantities(lots)
           C == Costs(lots)
<1>4. DOMAIN Q = 1..n /\ DOMAIN C = 1..n /\ (\A i \in 1..n : Q[i] \in Nat) /\ (\A i \in 1..n : C[i] \in Nat)
      /\ Q \in [1..n -> Int] /\ C \in [1..n -> Int]
  BY <1>1, <1>2, <1>3 DEF Quantities, Costs
<1> HIDE DEF Q, C, n
<1>5. SumFunction(Q) \in Nat /\ SumFunction(C) \in Nat
  BY <1>1, <1>4, SumNat
<1>6. Q \in Seq(Int) /\ C \in Seq(Int)
  BY <1>1, <1>4
<1>7. Shares(lots) = SumFunction(Q) /\ Cost(lots) = SumFunction(C)
  BY DEF Shares, Cost, Q, C, Quantities, Costs
<1> QED BY <1>5, <1>6, <1>7 DEF Q, C

\* A lot more.
LEMMA LotAdded ==
  ASSUME NEW lots \in Seq(Lots), NEW lot \in Lots
  PROVE  /\ Shares(Append(lots, lot)) = Shares(lots) + lot.quantity
         /\ Cost(Append(lots, lot)) = Cost(lots) + lot.quantity * lot.price
<1> DEFINE n == Len(lots)
           more == Append(lots, lot)
           q == lot.quantity
           c == lot.quantity * lot.price
<1>1. more \in Seq(Lots) /\ DOMAIN more = 1..(n + 1) /\ more[n + 1] = lot /\ n \in Nat
      /\ DOMAIN lots = 1..n /\ \A i \in 1..n : more[i] = lots[i]
  OBVIOUS
<1>2. q \in Int /\ c \in Int
  BY DEF Lots
<1>3. Quantities(lots) \in Seq(Int) /\ Costs(lots) \in Seq(Int)
      /\ Shares(lots) = SumFunction(Quantities(lots)) /\ Cost(lots) = SumFunction(Costs(lots))
      /\ Shares(more) = SumFunction(Quantities(more)) /\ Cost(more) = SumFunction(Costs(more))
  BY <1>1, LotSums
<1>4. Len(Quantities(lots)) = n /\ Len(Costs(lots)) = n
  BY <1>1 DEF Quantities, Costs
<1> HIDE DEF more, n
<1>5. Quantities(more) = Append(Quantities(lots), q)
  <2> DEFINE A == Quantities(more)
             B == Append(Quantities(lots), q)
  <2>1. DOMAIN A = 1..(n + 1) /\ DOMAIN B = 1..(n + 1)
    BY <1>1, <1>2, <1>3, <1>4 DEF Quantities
  <2>2. ASSUME NEW i \in 1..(n + 1) PROVE A[i] = B[i]
    <3>1. CASE i = n + 1
      BY <1>1, <1>2, <1>3, <1>4, <3>1 DEF Quantities
    <3>2. CASE i # n + 1
      <4>1. i \in 1..n
        BY <1>1, <3>2
      <4>2. B[i] = Quantities(lots)[i]
        BY <1>2, <1>3, <1>4, <4>1
      <4> QED BY <1>1, <4>1, <4>2 DEF Quantities
    <3> QED BY <3>1, <3>2
  <2>3. A = [i \in 1..(n + 1) |-> A[i]] /\ B = [i \in 1..(n + 1) |-> B[i]]
    <3>1. A = [i \in DOMAIN A |-> A[i]]
      BY DEF Quantities
    <3>2. B = [i \in DOMAIN B |-> B[i]]
      BY <1>2, <1>3
    <3> HIDE DEF A, B
    <3> QED BY <2>1, <3>1, <3>2
  <2> HIDE DEF A, B
  <2>4. A = B
    BY <2>2, <2>3
  <2> QED BY <2>4 DEF A, B
<1>6. Costs(more) = Append(Costs(lots), c)
  <2> DEFINE A == Costs(more)
             B == Append(Costs(lots), c)
  <2>1. DOMAIN A = 1..(n + 1) /\ DOMAIN B = 1..(n + 1)
    BY <1>1, <1>2, <1>3, <1>4 DEF Costs
  <2>2. ASSUME NEW i \in 1..(n + 1) PROVE A[i] = B[i]
    <3>1. CASE i = n + 1
      <4>1. A[i] = c
        BY <1>1, <3>1 DEF Costs
      <4> HIDE DEF c, A
      <4>2. B[i] = c
        BY <1>2, <1>3, <1>4, <3>1
      <4> QED BY <4>1, <4>2
    <3>2. CASE i # n + 1
      <4>1. i \in 1..n
        BY <1>1, <3>2
      <4>2. B[i] = Costs(lots)[i]
        <5> HIDE DEF c
        <5> QED BY <1>2, <1>3, <1>4, <4>1
      <4> QED BY <1>1, <4>1, <4>2 DEF Costs
    <3> QED BY <3>1, <3>2
  <2>3. A = [i \in 1..(n + 1) |-> A[i]] /\ B = [i \in 1..(n + 1) |-> B[i]]
    <3>1. A = [i \in DOMAIN A |-> A[i]]
      BY DEF Costs
    <3>2. B = [i \in DOMAIN B |-> B[i]]
      <4>1. B \in Seq(Int)
        <5> HIDE DEF c
        <5> QED BY <1>2, <1>3
      <4> HIDE DEF B
      <4> QED BY <4>1
    <3> HIDE DEF A, B
    <3> QED BY <2>1, <3>1, <3>2
  <2> HIDE DEF A, B
  <2>4. A = B
    BY <2>2, <2>3
  <2> QED BY <2>4 DEF A, B
<1> HIDE DEF q, c
<1>7. Shares(more) = Shares(lots) + q /\ Cost(more) = Cost(lots) + c
  BY <1>2, <1>3, <1>5, <1>6, SumAppend
<1> QED BY <1>7 DEF more, q, c

(* _close_lots: what is closed and what stays are the lots that were there.      *)

Closings == [remaining : Nat, cost : Nat, closed : Nat, lots : Seq(Lots)]

LEMMA CloseLotKeeps ==
  ASSUME NEW state \in Closings, NEW lot \in Lots
  PROVE  LET new == CloseLot(state, lot) IN
         /\ new \in Closings
         /\ new.remaining + new.closed = state.remaining + state.closed
         /\ Shares(new.lots) + new.closed = Shares(state.lots) + state.closed + lot.quantity
         /\ Cost(new.lots) + new.cost = Cost(state.lots) + state.cost + lot.quantity * lot.price
         /\ (state.remaining > 0 => state.lots = << >>) => (new.remaining > 0 => new.lots = << >>)
<1> DEFINE new == CloseLot(state, lot)
           q == lot.quantity
           v == lot.price
           matched == Lower(state.remaining, q)
           rest == [lot EXCEPT !.quantity = @ - matched]
<1>1. q \in Nat \ {0} /\ v \in Nat /\ state.remaining \in Nat /\ state.cost \in Nat
      /\ state.closed \in Nat /\ state.lots \in Seq(Lots)
  BY DEF Lots, Closings
<1>2. matched \in 0..q /\ matched <= state.remaining /\ (matched = q \/ matched = state.remaining)
  BY <1>1 DEF Lower
<1>3. new = [remaining |-> state.remaining - matched, cost |-> state.cost + matched * v,
             closed |-> state.closed + matched,
             lots |-> IF matched = q THEN state.lots ELSE Append(state.lots, rest)]
  BY DEF CloseLot
<1>4. rest = [quantity |-> q - matched, price |-> v]
  BY DEF Lots
<1> HIDE DEF new, matched, rest
<1>5. matched * v \in Nat
  BY <1>1, <1>2
<1>6. new.remaining = state.remaining - matched /\ new.cost = state.cost + matched * v
      /\ new.closed = state.closed + matched
      /\ new.lots = IF matched = q THEN state.lots ELSE Append(state.lots, rest)
  BY <1>3
<1>7. Shares(state.lots) \in Nat /\ Cost(state.lots) \in Nat
  BY <1>1, LotSums
<1>8. CASE matched = q
  <2>1. new.lots = state.lots
    BY <1>6, <1>8
  <2>2. new \in Closings
    <3> DEFINE paid == matched * v
    <3>1. new = [remaining |-> state.remaining - matched, cost |-> state.cost + paid,
                 closed |-> state.closed + matched, lots |-> state.lots]
      BY <1>3, <1>8
    <3>2. paid \in Nat
      BY <1>5
    <3> HIDE DEF paid
    <3>3. state.remaining - matched \in Nat /\ state.cost + paid \in Nat /\ state.closed + matched \in Nat
      BY <1>1, <1>2, <3>2
    <3> QED BY <1>1, <3>1, <3>3 DEF Closings
  <2>3. new.remaining + new.closed = state.remaining + state.closed
    BY <1>1, <1>2, <1>6
  <2>4. Shares(new.lots) + new.closed = Shares(state.lots) + state.closed + q
    BY <1>1, <1>2, <1>6, <1>7, <1>8, <2>1
  <2>5. Cost(new.lots) + new.cost = Cost(state.lots) + state.cost + q * v
    <3> DEFINE paid == q * v
    <3>1. new.cost = state.cost + paid /\ paid \in Nat
      BY <1>5, <1>6, <1>8
    <3> HIDE DEF paid
    <3>2. Cost(new.lots) + new.cost = Cost(state.lots) + state.cost + paid
      BY <1>1, <1>7, <2>1, <3>1
    <3> QED BY <3>2 DEF paid
  <2>6. new.remaining > 0 => state.remaining > 0
    BY <1>1, <1>2, <1>6
  <2> QED BY <2>1, <2>2, <2>3, <2>4, <2>5, <2>6 DEF new, q, v
<1>9. CASE matched # q
  <2>1. new.lots = Append(state.lots, rest)
    BY <1>6, <1>9
  <2>2. rest \in Lots /\ rest.quantity = q - matched /\ rest.price = v
    BY <1>1, <1>2, <1>4, <1>9 DEF Lots
  <2>3. new \in Closings
    <3> DEFINE paid == matched * v
    <3>1. Append(state.lots, rest) \in Seq(Lots)
      BY <1>1, <2>2
    <3>2. new = [remaining |-> state.remaining - matched, cost |-> state.cost + paid,
                 closed |-> state.closed + matched, lots |-> Append(state.lots, rest)]
      BY <1>3, <1>9
    <3>3. paid \in Nat
      BY <1>5
    <3> HIDE DEF paid
    <3>4. state.remaining - matched \in Nat /\ state.cost + paid \in Nat /\ state.closed + matched \in Nat
      BY <1>1, <1>2, <3>3
    <3> QED BY <3>1, <3>2, <3>4 DEF Closings
  <2>4. new.remaining + new.closed = state.remaining + state.closed /\ ~(new.remaining > 0)
    BY <1>1, <1>2, <1>6, <1>9
  <2>5. Shares(new.lots) = Shares(state.lots) + (q - matched)
        /\ Cost(new.lots) = Cost(state.lots) + (q - matched) * v
    BY <1>1, <2>1, <2>2, LotAdded
  <2>6. Shares(new.lots) + new.closed = Shares(state.lots) + state.closed + q
    BY <1>1, <1>2, <1>6, <1>7, <2>5
  <2>7. Cost(new.lots) + new.cost = Cost(state.lots) + state.cost + q * v
    <3> DEFINE worth == q * v
               paid == matched * v
    <3>1. (q - matched) * v = worth - paid /\ worth \in Nat /\ paid \in Nat
      BY <1>1, <1>2
    <3>2. new.cost = state.cost + paid /\ Cost(new.lots) = Cost(state.lots) + (worth - paid)
      BY <1>6, <2>5, <3>1
    <3> HIDE DEF worth, paid
    <3>3. Cost(new.lots) + new.cost = Cost(state.lots) + state.cost + worth
      BY <1>1, <1>7, <3>1, <3>2
    <3> QED BY <3>3 DEF worth
  <2> QED BY <2>3, <2>4, <2>6, <2>7 DEF new, q, v
<1> QED BY <1>8, <1>9

\* The sum of the first entries of a sequence, one by one.
LEMMA SumNext ==
  ASSUME NEW V \in Seq(Int), NEW n \in 1..Len(V)
  PROVE  /\ SumFunctionOnSet(V, 1..n) = SumFunctionOnSet(V, 1..(n - 1)) + V[n]
         /\ SumFunctionOnSet(V, 1..(n - 1)) \in Int
<1> DEFINE T == 1..(n - 1)
<1>1. IsFiniteSet(T) /\ n \notin T /\ T \cup {n} = 1..n /\ T \subseteq 1..Len(V) /\ n - 1 \in Int
  BY FS_Interval
<1>2. V[n] \in Int /\ \A i \in T : V[i] \in Int
  BY <1>1
<1> HIDE DEF T
<1>3. SumFunctionOnSet(V, T) \in Int
  BY <1>1, <1>2, SumType
<1>4. SumFunctionOnSet(V, T \cup {n}) = SumFunctionOnSet(V, T) + V[n]
  BY <1>1, <1>2, SumJoin
<1> QED BY <1>1, <1>3, <1>4 DEF T

LEMMA LotsClosed ==
  ASSUME NEW lots \in Seq(Lots), NEW quantity \in Nat
  PROVE  LET end == CloseLots(lots, quantity) IN
         /\ end \in Closings
         /\ end.remaining + end.closed = quantity
         /\ Shares(end.lots) + end.closed = Shares(lots)
         /\ Cost(end.lots) + end.cost = Cost(lots)
         /\ end.remaining > 0 => end.lots = << >>
<1> DEFINE m == Len(lots)
           D == Closings
           start == NothingClosed(quantity)
           Row(g) == [n \in 0..m |-> IF n = 0 THEN start ELSE CloseLot(g[n - 1], lots[n])]
           step == [x \in D \X Nat |-> IF x[2] \in 1..m THEN CloseLot(x[1], lots[x[2]]) ELSE x[1]]
<1>0. m \in Nat /\ \A n \in 1..m : lots[n] \in Lots
  OBVIOUS
<1>1. start \in D
  BY DEF NothingClosed, Closings
<1>2. step \in [D \X Nat -> D]
  <2>1. \A q \in D, n \in 1..m : CloseLot(q, lots[n]) \in D
    BY <1>0, CloseLotKeeps
  <2> HIDE DEF m, D
  <2> QED BY <2>1
<1>3. PICK f \in [0..m -> D] : Run(f, start, step, m)
  <2> HIDE DEF D, step, start
  <2>1. \A k \in Nat : \E f \in [0..k -> D] : Run(f, start, step, k)
    BY <1>1, <1>2, Repeated
  <2> QED BY <1>0, <2>1
<1> HIDE DEF start
<1>4. f = Row(f)
  <2>1. ASSUME NEW n \in 0..m
        PROVE  f[n] = IF n = 0 THEN start ELSE CloseLot(f[n - 1], lots[n])
    <3>1. CASE n = 0
      BY <1>3, <3>1 DEF Run
    <3>2. CASE n # 0
      <4>1. n \in 1..m /\ n \in Nat /\ f[n - 1] \in D
        BY <1>0, <3>2
      <4>2. f[n] = step[<<f[n - 1], n>>]
        BY <1>3, <4>1 DEF Run
      <4> HIDE DEF D
      <4>3. step[<<f[n - 1], n>>] = CloseLot(f[n - 1], lots[n])
        BY <4>1
      <4> HIDE DEF step
      <4> QED BY <3>2, <4>2, <4>3
    <3> QED BY <3>1, <3>2
  <2>2. f = [n \in 0..m |-> f[n]]
    OBVIOUS
  <2> QED BY <2>1, <2>2
<1> DEFINE h == CHOOSE g : g = Row(g)
<1>5. ClosedOver(lots, quantity) = h
  BY DEF ClosedOver, start
<1>6. h = Row(h)
  <2> HIDE DEF Row
  <2> QED BY <1>4
<1> HIDE DEF h
<1>7. ASSUME NEW n \in 0..m
      PROVE  h[n] = IF n = 0 THEN start ELSE CloseLot(h[n - 1], lots[n])
  BY <1>6
<1> DEFINE Q == Quantities(lots)
           C == Costs(lots)
           Holds(n) == /\ h[n] \in D
                       /\ h[n].remaining + h[n].closed = quantity
                       /\ Shares(h[n].lots) + h[n].closed = SumFunctionOnSet(Q, 1..n)
                       /\ Cost(h[n].lots) + h[n].cost = SumFunctionOnSet(C, 1..n)
                       /\ h[n].remaining > 0 => h[n].lots = << >>
           S == {n \in 0..m : Holds(n)}
<1>8. Q \in Seq(Int) /\ C \in Seq(Int) /\ Len(Q) = m /\ Len(C) = m /\ DOMAIN Q = 1..m /\ DOMAIN C = 1..m
      /\ (\A n \in 1..m : Q[n] = lots[n].quantity /\ C[n] = lots[n].quantity * lots[n].price)
      /\ Shares(lots) = SumFunction(Q) /\ Cost(lots) = SumFunction(C)
  <2>1. Q \in Seq(Int) /\ C \in Seq(Int) /\ Shares(lots) = SumFunction(Q) /\ Cost(lots) = SumFunction(C)
    BY LotSums
  <2>2. DOMAIN Q = 1..m /\ DOMAIN C = 1..m
    BY DEF Quantities, Costs
  <2>3. \A n \in 1..m : Q[n] = lots[n].quantity /\ C[n] = lots[n].quantity * lots[n].price
    BY DEF Quantities, Costs
  <2> HIDE DEF Q, C, m
  <2> QED BY <1>0, <2>1, <2>2, <2>3
<1> HIDE DEF Q, C, D
<1>9. 0 \in S
  <2>1. 0 \in 0..m /\ h[0] = start /\ 1..0 = {}
    BY <1>0, <1>7
  <2>2. start.remaining = quantity /\ start.closed = 0 /\ start.cost = 0 /\ start.lots = << >>
    BY DEF start, NothingClosed
  <2>3. SumFunctionOnSet(Q, {}) = 0 /\ SumFunctionOnSet(C, {}) = 0
    BY SumEmpty
  <2>4. Shares(<< >>) = 0 /\ Cost(<< >>) = 0
    <3>1. << >> \in Seq(Lots) /\ DOMAIN << >> = {}
      OBVIOUS
    <3>2. DOMAIN Quantities(<< >>) = {} /\ DOMAIN Costs(<< >>) = {}
      BY <3>1 DEF Quantities, Costs
    <3>3. SumFunction(Quantities(<< >>)) = 0 /\ SumFunction(Costs(<< >>)) = 0
      BY <3>2, SumEmpty DEF SumFunction
    <3> QED BY <3>1, <3>3, LotSums
  <2> QED BY <1>1, <2>1, <2>2, <2>3, <2>4
<1>10. ASSUME NEW n \in 1..m, n - 1 \in S PROVE n \in S
  <2>1. n \in 0..m /\ n # 0 /\ Holds(n - 1)
    BY <1>0, <1>10
  <2> DEFINE old == h[n - 1]
             new == h[n]
  <2>2. new = CloseLot(old, lots[n])
    BY <1>7, <2>1
  <2>3. old \in Closings /\ lots[n] \in Lots
    BY <1>0, <2>1 DEF D
  <2>4. /\ old.remaining + old.closed = quantity
        /\ Shares(old.lots) + old.closed = SumFunctionOnSet(Q, 1..(n - 1))
        /\ Cost(old.lots) + old.cost = SumFunctionOnSet(C, 1..(n - 1))
        /\ old.remaining > 0 => old.lots = << >>
    BY <2>1
  <2> HIDE DEF old, new
  <2>5. /\ new \in Closings
        /\ new.remaining + new.closed = old.remaining + old.closed
        /\ Shares(new.lots) + new.closed = Shares(old.lots) + old.closed + lots[n].quantity
        /\ Cost(new.lots) + new.cost = Cost(old.lots) + old.cost + lots[n].quantity * lots[n].price
        /\ (old.remaining > 0 => old.lots = << >>) => (new.remaining > 0 => new.lots = << >>)
    BY <2>2, <2>3, CloseLotKeeps
  <2>6. SumFunctionOnSet(Q, 1..n) = SumFunctionOnSet(Q, 1..(n - 1)) + lots[n].quantity
        /\ SumFunctionOnSet(C, 1..n) = SumFunctionOnSet(C, 1..(n - 1)) + lots[n].quantity * lots[n].price
    BY <1>8, SumNext
  <2>7. new.remaining + new.closed = quantity
    BY <2>4, <2>5
  <2>8. Shares(new.lots) + new.closed = SumFunctionOnSet(Q, 1..n)
    BY <2>4, <2>5, <2>6
  <2>9. Cost(new.lots) + new.cost = SumFunctionOnSet(C, 1..n)
    BY <2>4, <2>5, <2>6
  <2>10. new.remaining > 0 => new.lots = << >>
    BY <2>4, <2>5
  <2>11. new \in D
    BY <2>5 DEF D
  <2> QED BY <2>1, <2>7, <2>8, <2>9, <2>10, <2>11 DEF new
<1>11. Holds(m)
  <2>1. 0..m \subseteq S
    <3> HIDE DEF S, m
    <3> QED BY <1>0, <1>9, <1>10, UpTo
  <2>2. m \in 0..m
    BY <1>0
  <2> HIDE DEF Holds
  <2> QED BY <2>1, <2>2
<1>12. CloseLots(lots, quantity) = h[m]
  BY <1>5 DEF CloseLots
<1>13. SumFunctionOnSet(Q, 1..m) = Shares(lots) /\ SumFunctionOnSet(C, 1..m) = Cost(lots)
  BY <1>8 DEF SumFunction
<1> QED BY <1>11, <1>12, <1>13 DEF D

--------------------------------------------------------------------------------
(* One fill in both books.                                                       *)

LotsMatch(books) ==
  \A y \in Symbols : Shares(books.tracker.lots[y]) = books.portfolio.quantity[y]

Earned(p) == [c \in Currencies |-> p.cash[c] - InitialCash[c]]
Invested(t) == [y \in Symbols |-> Cost(t.lots[y])]
Conserved(books) ==
  SumFunction(Earned(books.portfolio))
    = books.tracker.pnl - books.tracker.fees - SumFunction(Invested(books.tracker))

\* What is held of the symbol of a fill afterwards.
HeldAfter(held, fill) ==
  LET q == IF fill.side = "buy" THEN held + fill.quantity ELSE held - fill.quantity
  IN IF q <= 0 THEN 0 ELSE q

LEMMA ApplyTyped ==
  ASSUME NEW p \in Portfolios, NEW fill \in FillRecords
  PROVE  LET new == ApplyOrderEvent(p, fill) IN
         /\ new \in Portfolios
         /\ new.cash = [p.cash EXCEPT ![CurrencyOf[fill.symbol]] = @ + CashDelta(fill)]
         /\ new.quantity = [p.quantity EXCEPT ![fill.symbol] = HeldAfter(p.quantity[fill.symbol], fill)]
         /\ CashDelta(fill) \in Int
<1> DEFINE y == fill.symbol
           held == p.quantity[y]
           q == IF fill.side = "buy" THEN held + fill.quantity ELSE held - fill.quantity
           cost == (held * p.average[y] + Notional(fill)) \div q
           average == IF q <= 0 THEN 0 ELSE IF fill.side = "buy" THEN cost ELSE p.average[y]
           new == ApplyOrderEvent(p, fill)
<1>1. y \in Symbols /\ CurrencyOf[y] \in Currencies /\ fill.quantity \in Nat \ {0} /\ fill.price \in Nat
      /\ fill.fee \in Nat /\ fill.side \in {"buy", "sell"}
  BY PortfolioAssumption DEF FillRecords
<1>2. held \in Nat /\ p.average[y] \in Nat /\ p.cash \in [Currencies -> Int]
      /\ p.quantity \in [Symbols -> Nat] /\ p.average \in [Symbols -> Nat]
  BY <1>1 DEF Portfolios
<1>3. Notional(fill) \in Nat
  BY <1>1 DEF Notional
<1>4. CashDelta(fill) \in Int
  BY <1>1, <1>3 DEF CashDelta
<1>5. q \in Int
  BY <1>1, <1>2
<1>6. average \in Nat
  <2>1. CASE q <= 0
    BY <2>1
  <2>2. CASE ~(q <= 0) /\ fill.side # "buy"
    BY <1>2, <2>2
  <2>3. CASE ~(q <= 0) /\ fill.side = "buy"
    <3>1. held * p.average[y] + Notional(fill) \in Nat
      BY <1>2, <1>3
    <3>2. q \in Nat \ {0}
      BY <1>5, <2>3
    <3> HIDE DEF q, held
    <3>3. cost \in Nat
      BY <3>1, <3>2, DivNat
    <3> HIDE DEF cost
    <3> QED BY <2>3, <3>3
  <2> QED BY <2>1, <2>2, <2>3
<1>7. new = [cash |-> [p.cash EXCEPT ![CurrencyOf[y]] = @ + CashDelta(fill)],
             quantity |-> [p.quantity EXCEPT ![y] = IF q <= 0 THEN 0 ELSE q],
             average |-> [p.average EXCEPT ![y] = average]]
  <2>1. [p.average EXCEPT ![y] = IF q <= 0 THEN 0 ELSE IF fill.side = "buy" THEN cost ELSE @]
          = [p.average EXCEPT ![y] = average]
    OBVIOUS
  <2>2. new = [cash |-> [p.cash EXCEPT ![CurrencyOf[y]] = @ + CashDelta(fill)],
               quantity |-> [p.quantity EXCEPT ![y] = IF q <= 0 THEN 0 ELSE q],
               average |-> [p.average EXCEPT ![y] = IF q <= 0 THEN 0
                                                    ELSE IF fill.side = "buy" THEN cost ELSE @]]
    BY DEF ApplyOrderEvent
  <2> HIDE DEF new, average, q, cost
  <2> QED BY <2>1, <2>2
<1>8. HeldAfter(held, fill) = IF q <= 0 THEN 0 ELSE q
  BY DEF HeldAfter
<1>9. (IF q <= 0 THEN 0 ELSE q) \in Nat /\ (q <= 0 => average = 0)
  BY <1>5
<1> HIDE DEF new, average, q, cost
<1>10. new.cash = [p.cash EXCEPT ![CurrencyOf[y]] = @ + CashDelta(fill)]
       /\ new.quantity = [p.quantity EXCEPT ![y] = IF q <= 0 THEN 0 ELSE q]
       /\ new.average = [p.average EXCEPT ![y] = average]
  BY <1>7
<1>11. /\ new.cash \in [Currencies -> Int] /\ new.quantity \in [Symbols -> Nat]
       /\ new.average \in [Symbols -> Nat]
       /\ new \in [cash : [Currencies -> Int], quantity : [Symbols -> Nat], average : [Symbols -> Nat]]
  <2>1. new.cash \in [Currencies -> Int]
    BY <1>1, <1>2, <1>4, <1>10
  <2>2. new.quantity \in [Symbols -> Nat]
    BY <1>1, <1>2, <1>9, <1>10
  <2>3. new.average \in [Symbols -> Nat]
    BY <1>1, <1>2, <1>6, <1>10
  <2> QED BY <1>7, <1>10, <2>1, <2>2, <2>3
<1>12. ASSUME NEW x \in Symbols, new.quantity[x] = 0 PROVE new.average[x] = 0
  <2>1. CASE x = y
    <3>1. new.quantity[x] = (IF q <= 0 THEN 0 ELSE q) /\ new.average[x] = average
      BY <1>1, <1>2, <1>10, <2>1
    <3> QED BY <1>5, <1>9, <1>12, <3>1
  <2>2. CASE x # y
    <3>1. new.quantity[x] = p.quantity[x] /\ new.average[x] = p.average[x]
      BY <1>2, <1>10, <2>2
    <3> QED BY <1>12, <3>1 DEF Portfolios
  <2> QED BY <2>1, <2>2
<1>13. new \in Portfolios
  BY <1>11, <1>12 DEF Portfolios
<1> QED BY <1>4, <1>8, <1>10, <1>13 DEF new

LEMMA RecordTyped ==
  ASSUME NEW t \in Trackers, NEW fill \in FillRecords
  PROVE  LET new == RecordFill(t, fill)
             y == fill.symbol
             end == CloseLots(t.lots[y], fill.quantity)
             lot == [quantity |-> fill.quantity, price |-> fill.price]
         IN /\ new \in Trackers
            /\ new.fees = t.fees + fill.fee
            /\ end \in Closings /\ lot \in Lots
            /\ fill.side = "buy" => /\ new.lots = [t.lots EXCEPT ![y] = Append(@, lot)]
                                    /\ new.pnl = t.pnl
            /\ fill.side # "buy" => /\ new.lots = [t.lots EXCEPT ![y] = end.lots]
                                    /\ new.pnl = t.pnl + (fill.price * end.closed - end.cost)
<1> DEFINE y == fill.symbol
           end == CloseLots(t.lots[y], fill.quantity)
           lot == [quantity |-> fill.quantity, price |-> fill.price]
           new == RecordFill(t, fill)
           traded == t.traded + Notional(fill)
           fees == t.fees + fill.fee
           gain == fill.price * end.closed - end.cost
<1>1. y \in Symbols /\ fill.quantity \in Nat \ {0} /\ fill.price \in Nat /\ fill.fee \in Nat
  BY DEF FillRecords
<1>2. t.lots \in [Symbols -> Seq(Lots)] /\ t.traded \in Nat /\ t.fees \in Nat /\ t.pnl \in Int
  BY DEF Trackers
<1>3. Notional(fill) \in Nat /\ traded \in Nat /\ fees \in Nat
  <2>1. Notional(fill) \in Nat
    BY <1>1 DEF Notional
  <2> QED BY <1>1, <1>2, <2>1
<1>4. lot \in Lots /\ Append(t.lots[y], lot) \in Seq(Lots)
  BY <1>1, <1>2 DEF Lots
<1>5. end \in Closings
  BY <1>1, <1>2, LotsClosed
<1> HIDE DEF lot, end, traded, fees
<1>6. end.lots \in Seq(Lots) /\ end.closed \in Nat /\ end.cost \in Nat /\ gain \in Int
  BY <1>1, <1>5 DEF Closings
<1>7. t = [lots |-> t.lots, traded |-> t.traded, fees |-> t.fees, pnl |-> t.pnl]
  BY DEF Trackers
<1>8. new = IF fill.side = "buy"
            THEN [[t EXCEPT !.traded = traded, !.fees = fees] EXCEPT !.lots[y] = Append(@, lot)]
            ELSE [[t EXCEPT !.traded = traded, !.fees = fees]
                    EXCEPT !.lots[y] = end.lots, !.pnl = @ + fill.price * end.closed - end.cost]
  BY DEF RecordFill, lot, end, traded, fees
<1>9. CASE fill.side = "buy"
  <2>1. new = [lots |-> [t.lots EXCEPT ![y] = Append(@, lot)], traded |-> traded, fees |-> fees, pnl |-> t.pnl]
    <3> HIDE DEF new
    <3> QED BY <1>7, <1>8, <1>9
  <2> HIDE DEF new
  <2>2. [t.lots EXCEPT ![y] = Append(@, lot)] \in [Symbols -> Seq(Lots)]
    BY <1>1, <1>2, <1>4
  <2>3. new \in Trackers
    BY <1>2, <1>3, <2>1, <2>2 DEF Trackers
  <2> QED BY <1>4, <1>5, <1>9, <2>1, <2>3 DEF new, lot, end, fees
<1>10. CASE fill.side # "buy"
  <2>1. new = [lots |-> [t.lots EXCEPT ![y] = end.lots], traded |-> traded, fees |-> fees,
               pnl |-> t.pnl + fill.price * end.closed - end.cost]
    <3> HIDE DEF new
    <3> QED BY <1>7, <1>8, <1>10
  <2> HIDE DEF new
  <2>2. [t.lots EXCEPT ![y] = end.lots] \in [Symbols -> Seq(Lots)]
    BY <1>1, <1>2, <1>6
  <2>3. t.pnl + fill.price * end.closed - end.cost = t.pnl + gain
    <3> DEFINE worth == fill.price * end.closed
    <3>1. worth \in Int
      BY <1>1, <1>6
    <3> HIDE DEF worth
    <3>2. t.pnl + worth - end.cost = t.pnl + (worth - end.cost)
      BY <1>2, <1>6, <3>1
    <3> QED BY <3>2 DEF worth
  <2> HIDE DEF gain
  <2>4. t.pnl + gain \in Int
    BY <1>2, <1>6
  <2>5. new \in Trackers
    BY <1>2, <1>3, <2>1, <2>2, <2>3, <2>4 DEF Trackers
  <2> QED BY <1>4, <1>5, <1>10, <2>1, <2>3, <2>5 DEF new, lot, end, fees, gain
<1> QED BY <1>9, <1>10

\* Money earned by currency, and what a fill adds to it.
LEMMA EarnedMoves ==
  ASSUME NEW p \in Portfolios, NEW new \in Portfolios, NEW c \in Currencies, NEW delta \in Int,
         new.cash = [p.cash EXCEPT ![c] = @ + delta]
  PROVE  SumFunction(Earned(new)) = SumFunction(Earned(p)) + delta /\ SumFunction(Earned(p)) \in Int
<1> DEFINE W == Earned(p)
           V == Earned(new)
<1>1. DOMAIN W = Currencies /\ DOMAIN V = Currencies /\ IsFiniteSet(Currencies)
  BY PortfolioAssumption DEF Earned
<1>2. \A d \in Currencies : InitialCash[d] \in Int
  BY BacktestAssumption
<1>3. \A d \in Currencies : p.cash[d] \in Int /\ new.cash[d] = IF d = c THEN p.cash[d] + delta ELSE p.cash[d]
  BY DEF Portfolios
<1>4. \A d \in Currencies : W[d] = p.cash[d] - InitialCash[d] /\ V[d] = new.cash[d] - InitialCash[d]
  BY DEF Earned
<1> HIDE DEF W, V
<1>5. (\A d \in Currencies : W[d] \in Int /\ V[d] \in Int)
      /\ (\A d \in Currencies \ {c} : V[d] = W[d]) /\ V[c] - W[c] = delta
  BY <1>2, <1>3, <1>4
<1>6. SumFunctionOnSet(V, Currencies) = SumFunctionOnSet(W, Currencies) + (V[c] - W[c])
      /\ SumFunctionOnSet(W, Currencies) \in Int
  BY <1>1, <1>5, SumMoved
<1> QED BY <1>1, <1>5, <1>6 DEF SumFunction, W, V

LEMMA InvestedMoves ==
  ASSUME NEW t \in Trackers, NEW new \in Trackers, NEW y \in Symbols, NEW lots \in Seq(Lots),
         new.lots = [t.lots EXCEPT ![y] = lots]
  PROVE  /\ SumFunction(Invested(new)) = SumFunction(Invested(t)) + (Cost(lots) - Cost(t.lots[y]))
         /\ SumFunction(Invested(t)) \in Int
<1> DEFINE W == Invested(t)
           V == Invested(new)
<1>1. DOMAIN W = Symbols /\ DOMAIN V = Symbols /\ IsFiniteSet(Symbols)
  BY PortfolioAssumption DEF Invested
<1>2. \A x \in Symbols : t.lots[x] \in Seq(Lots) /\ new.lots[x] = IF x = y THEN lots ELSE t.lots[x]
  BY DEF Trackers
<1>3. \A x \in Symbols : W[x] = Cost(t.lots[x]) /\ V[x] = Cost(new.lots[x])
  BY DEF Invested
<1> HIDE DEF W, V
<1>4. \A x \in Symbols : Cost(t.lots[x]) \in Int
  <2> SUFFICES ASSUME NEW x \in Symbols PROVE Cost(t.lots[x]) \in Int
    OBVIOUS
  <2>1. Cost(t.lots[x]) \in Nat
    BY <1>2, LotSums
  <2> QED BY <2>1
<1>5. Cost(lots) \in Int
  BY LotSums
<1>6. (\A x \in Symbols : W[x] \in Int /\ V[x] \in Int)
      /\ (\A x \in Symbols \ {y} : V[x] = W[x]) /\ V[y] = Cost(lots) /\ W[y] = Cost(t.lots[y])
  BY <1>2, <1>3, <1>4, <1>5
<1>7. SumFunctionOnSet(V, Symbols) = SumFunctionOnSet(W, Symbols) + (V[y] - W[y])
      /\ SumFunctionOnSet(W, Symbols) \in Int
  BY <1>1, <1>6, SumMoved
<1> QED BY <1>1, <1>6, <1>7 DEF SumFunction, W, V

\* A fill enters both books alike.
LEMMA BookedAlike ==
  ASSUME NEW books \in Books, LotsMatch(books), NEW fill \in FillRecords
  PROVE  /\ Booked(books, fill) \in Books /\ LotsMatch(Booked(books, fill))
         /\ Booked(books, fill).portfolio.quantity
              = [books.portfolio.quantity EXCEPT
                   ![fill.symbol] = HeldAfter(books.portfolio.quantity[fill.symbol], fill)]
         /\ Booked(books, fill).portfolio.cash
              = [books.portfolio.cash EXCEPT ![CurrencyOf[fill.symbol]] = @ + CashDelta(fill)]
<1> DEFINE p == books.portfolio
           t == books.tracker
           y == fill.symbol
           q == p.quantity[y]
           p1 == ApplyOrderEvent(p, fill)
           t1 == RecordFill(t, fill)
           end == CloseLots(t.lots[y], fill.quantity)
           lot == [quantity |-> fill.quantity, price |-> fill.price]
<1>1. p \in Portfolios /\ t \in Trackers /\ y \in Symbols /\ fill.quantity \in Nat \ {0}
  BY DEF Books, FillRecords
<1>2. Booked(books, fill) = [portfolio |-> p1, tracker |-> t1]
  BY DEF Booked
<1>3. p1 \in Portfolios
      /\ p1.cash = [p.cash EXCEPT ![CurrencyOf[y]] = @ + CashDelta(fill)]
      /\ p1.quantity = [p.quantity EXCEPT ![y] = HeldAfter(q, fill)]
  BY <1>1, ApplyTyped
<1>4. /\ t1 \in Trackers /\ end \in Closings /\ lot \in Lots
      /\ fill.side = "buy" => t1.lots = [t.lots EXCEPT ![y] = Append(@, lot)]
      /\ fill.side # "buy" => t1.lots = [t.lots EXCEPT ![y] = end.lots]
  BY <1>1, RecordTyped
<1>5. t.lots \in [Symbols -> Seq(Lots)] /\ p.quantity \in [Symbols -> Nat] /\ q \in Nat
  BY <1>1 DEF Trackers, Portfolios
<1>6. \A x \in Symbols : Shares(t.lots[x]) = p.quantity[x]
  BY DEF LotsMatch
<1>7. /\ end.remaining + end.closed = fill.quantity
      /\ Shares(end.lots) + end.closed = Shares(t.lots[y])
      /\ end.remaining > 0 => end.lots = << >>
  BY <1>1, <1>5, LotsClosed
<1>8. Shares(Append(t.lots[y], lot)) = Shares(t.lots[y]) + lot.quantity
  BY <1>1, <1>4, <1>5, LotAdded
<1>9. lot.quantity = fill.quantity
  OBVIOUS
<1> HIDE DEF p, t, y, q, p1, t1, end, lot
<1>10. Shares(t1.lots[y]) = HeldAfter(q, fill)
  <2>1. CASE fill.side = "buy"
    <3>1. t1.lots[y] = Append(t.lots[y], lot)
      BY <1>1, <1>4, <1>5, <2>1
    <3>2. Shares(t1.lots[y]) = q + fill.quantity
      BY <1>1, <1>6, <1>8, <1>9, <3>1 DEF q
    <3> QED BY <1>1, <1>5, <2>1, <3>2 DEF HeldAfter
  <2>2. CASE fill.side # "buy"
    <3>1. t1.lots[y] = end.lots
      BY <1>1, <1>4, <1>5, <2>2
    <3>2. Shares(end.lots) + end.closed = q /\ end.closed \in Nat /\ end.remaining \in Nat
          /\ end.lots \in Seq(Lots)
      BY <1>1, <1>4, <1>6, <1>7 DEF q, Closings
    <3>3. Shares(end.lots) \in Nat
      BY <3>2, LotSums
    <3>4. end.remaining > 0 => Shares(end.lots) = 0
      <4>1. Shares(<< >>) = 0
        <5>1. DOMAIN << >> = {}
          OBVIOUS
        <5>2. DOMAIN [i \in DOMAIN << >> |-> << >>[i].quantity] = {}
          BY <5>1
        <5> QED BY <5>2, SumEmpty DEF Shares, SumFunction
      <4> QED BY <1>7, <4>1
    <3>5. HeldAfter(q, fill) = IF q - fill.quantity <= 0 THEN 0 ELSE q - fill.quantity
      BY <2>2 DEF HeldAfter
    <3>6. CASE end.remaining > 0
      <4>1. end.closed = q /\ q - fill.quantity <= 0
        BY <1>1, <1>5, <1>7, <3>2, <3>3, <3>4, <3>6
      <4> QED BY <3>1, <3>4, <3>5, <3>6, <4>1
    <3>7. CASE ~(end.remaining > 0)
      <4>1. end.remaining = 0
        BY <3>2, <3>7
      <4>2. end.closed = fill.quantity
        BY <1>1, <1>7, <3>2, <4>1
      <4>3. Shares(end.lots) = q - fill.quantity
        BY <1>1, <1>5, <3>2, <3>3, <4>2
      <4> QED BY <1>1, <1>5, <3>1, <3>3, <3>5, <4>3
    <3> QED BY <3>6, <3>7
  <2> QED BY <2>1, <2>2
<1>11. \A x \in Symbols \ {y} : t1.lots[x] = t.lots[x]
  BY <1>4, <1>5
<1>12. ASSUME NEW x \in Symbols PROVE Shares(t1.lots[x]) = p1.quantity[x]
  <2>1. CASE x = y
    BY <1>1, <1>3, <1>5, <1>10, <2>1
  <2>2. CASE x # y
    BY <1>3, <1>5, <1>6, <1>11, <2>2
  <2> QED BY <2>1, <2>2
<1>13. Booked(books, fill) \in Books /\ LotsMatch(Booked(books, fill))
  <2>1. p1 \in Portfolios /\ t1 \in Trackers
    BY <1>3, <1>4
  <2>2. Booked(books, fill) \in Books
    BY <1>2, <2>1 DEF Books
  <2>3. Booked(books, fill).portfolio = p1 /\ Booked(books, fill).tracker = t1
    BY <1>2
  <2> QED BY <1>12, <2>2, <2>3 DEF LotsMatch
<1> QED BY <1>2, <1>3, <1>13 DEF p, y, q

\* What both sides of the balance gain is the same.
LEMMA Balanced ==
  ASSUME NEW earned \in Int, NEW pnl \in Int, NEW fees \in Int, NEW invested \in Int,
         earned = pnl - fees - invested, NEW worth \in Int, NEW fee \in Int, NEW cost \in Int
  PROVE  /\ earned - worth - fee = pnl - (fees + fee) - (invested + worth)
         /\ earned + worth - fee = (pnl + (worth - cost)) - (fees + fee) - (invested - cost)
  OBVIOUS

\* No money is lost or made by booking a fill that does not sell more than is held.
LEMMA BookedConserves ==
  ASSUME NEW books \in Books, LotsMatch(books), Conserved(books), NEW fill \in FillRecords,
         fill.fee <= Notional(fill),
         fill.side = "sell" => fill.quantity <= books.portfolio.quantity[fill.symbol]
  PROVE  Conserved(Booked(books, fill))
<1> DEFINE p == books.portfolio
           t == books.tracker
           y == fill.symbol
           p1 == ApplyOrderEvent(p, fill)
           t1 == RecordFill(t, fill)
           end == CloseLots(t.lots[y], fill.quantity)
           lot == [quantity |-> fill.quantity, price |-> fill.price]
           worth == Notional(fill)
           earned == SumFunction(Earned(p))
           invested == SumFunction(Invested(t))
<1>1. /\ p \in Portfolios /\ t \in Trackers /\ y \in Symbols /\ CurrencyOf[y] \in Currencies
      /\ fill.quantity \in Nat \ {0} /\ fill.fee \in Nat /\ fill.price \in Nat
      /\ fill.side \in {"buy", "sell"}
  BY PortfolioAssumption DEF Books, FillRecords
<1>2. Booked(books, fill).portfolio = p1 /\ Booked(books, fill).tracker = t1
  BY DEF Booked
<1>3. p1 \in Portfolios /\ p1.cash = [p.cash EXCEPT ![CurrencyOf[y]] = @ + CashDelta(fill)]
      /\ CashDelta(fill) \in Int
  BY <1>1, ApplyTyped
<1>4. /\ t1 \in Trackers /\ t1.fees = t.fees + fill.fee /\ end \in Closings /\ lot \in Lots
      /\ fill.side = "buy" => /\ t1.lots = [t.lots EXCEPT ![y] = Append(@, lot)]
                              /\ t1.pnl = t.pnl
      /\ fill.side # "buy" => /\ t1.lots = [t.lots EXCEPT ![y] = end.lots]
                              /\ t1.pnl = t.pnl + (fill.price * end.closed - end.cost)
  BY <1>1, RecordTyped
<1>5. t.lots[y] \in Seq(Lots) /\ t.lots \in [Symbols -> Seq(Lots)]
      /\ t.fees \in Int /\ t.pnl \in Int
  BY <1>1 DEF Trackers
<1>6. earned = t.pnl - t.fees - invested
  BY DEF Conserved
<1>7. lot.quantity = fill.quantity /\ lot.price = fill.price
  OBVIOUS
<1>8. worth = fill.quantity * fill.price /\ worth \in Nat
  BY <1>1 DEF Notional
<1>9. SumFunction(Earned(p1)) = earned + CashDelta(fill) /\ earned \in Int
  BY <1>1, <1>3, EarnedMoves
<1>10. Cost(t.lots[y]) \in Int
  BY <1>5, LotSums
<1>11. books.tracker.lots[y] = t.lots[y] /\ Shares(t.lots[y]) = books.portfolio.quantity[y]
  BY <1>1 DEF LotsMatch
<1> HIDE DEF p, t, y, p1, t1, end, lot, earned, invested
<1>12. CASE fill.side = "buy"
  <2>1. Append(t.lots[y], lot) \in Seq(Lots) /\ Cost(Append(t.lots[y], lot)) = Cost(t.lots[y]) + worth
    BY <1>4, <1>5, <1>7, <1>8, LotAdded
  <2>2. t1.lots = [t.lots EXCEPT ![y] = Append(t.lots[y], lot)]
    BY <1>4, <1>12
  <2>3. SumFunction(Invested(t1)) = invested + (Cost(Append(t.lots[y], lot)) - Cost(t.lots[y]))
        /\ invested \in Int
    BY <1>1, <1>4, <2>1, <2>2, InvestedMoves DEF invested
  <2>4. CashDelta(fill) = -(worth + fill.fee)
    BY <1>12 DEF CashDelta
  <2>5. t1.pnl = t.pnl /\ t1.fees = t.fees + fill.fee
    BY <1>4, <1>12
  <2> HIDE DEF worth
  <2>6. SumFunction(Earned(p1)) = t1.pnl - t1.fees - SumFunction(Invested(t1))
    <3>1. SumFunction(Invested(t1)) = invested + worth
      BY <1>8, <1>10, <2>1, <2>3
    <3>2. SumFunction(Earned(p1)) = earned - worth - fill.fee
      BY <1>1, <1>8, <1>9, <2>4
    <3>3. earned - worth - fill.fee = t.pnl - (t.fees + fill.fee) - (invested + worth)
      <4>1. /\ earned \in Int /\ t.pnl \in Int /\ t.fees \in Int /\ invested \in Int /\ worth \in Int
            /\ fill.fee \in Int
        BY <1>1, <1>5, <1>8, <1>9, <2>3
      <4> QED BY <1>6, <4>1, Balanced
    <3> QED BY <2>5, <3>1, <3>2, <3>3
  <2> QED BY <1>2, <2>6 DEF Conserved
<1>13. CASE fill.side = "sell"
  <2>1. /\ end.remaining + end.closed = fill.quantity
        /\ Shares(end.lots) + end.closed = Shares(t.lots[y])
        /\ Cost(end.lots) + end.cost = Cost(t.lots[y])
        /\ end.remaining > 0 => end.lots = << >>
    BY <1>1, <1>5, LotsClosed DEF end
  <2>2. end.lots \in Seq(Lots) /\ end.closed \in Nat /\ end.remaining \in Nat /\ end.cost \in Nat
    BY <1>4 DEF Closings
  <2>3. Shares(end.lots) \in Nat /\ Cost(end.lots) \in Nat
    BY <2>2, LotSums
  <2>4. fill.quantity <= Shares(t.lots[y])
    BY <1>11, <1>13 DEF y
  <2>5. end.closed = fill.quantity
    <3>1. SUFFICES ASSUME end.remaining > 0 PROVE FALSE
      BY <1>1, <2>1, <2>2
    <3>2. Shares(end.lots) = 0
      <4>1. DOMAIN << >> = {} /\ end.lots = << >>
        BY <2>1, <3>1
      <4>2. DOMAIN [i \in DOMAIN << >> |-> << >>[i].quantity] = {}
        BY <4>1
      <4> QED BY <4>1, <4>2, SumEmpty DEF Shares, SumFunction
    <3> QED BY <1>1, <2>1, <2>2, <2>4, <3>1, <3>2
  <2>6. SumFunction(Invested(t1)) = invested + (Cost(end.lots) - Cost(t.lots[y])) /\ invested \in Int
    <3>1. t1.lots = [t.lots EXCEPT ![y] = end.lots]
      BY <1>4, <1>13
    <3> QED BY <1>1, <1>4, <2>2, <3>1, InvestedMoves DEF invested
  <2>7. CashDelta(fill) = worth - fill.fee
    <3>1. worth - fill.fee >= 0
      BY <1>1, <1>8
    <3>2. CashDelta(fill) = IF worth - fill.fee > 0 THEN worth - fill.fee ELSE 0
      BY <1>13 DEF CashDelta
    <3> HIDE DEF worth
    <3> QED BY <1>1, <1>8, <3>1, <3>2
  <2>8. t1.pnl = t.pnl + (worth - end.cost) /\ t1.fees = t.fees + fill.fee
    <3>1. fill.price * end.closed = worth
      BY <1>1, <1>8, <2>5
    <3> QED BY <1>4, <1>13, <3>1
  <2> HIDE DEF worth
  <2>9. SumFunction(Earned(p1)) = t1.pnl - t1.fees - SumFunction(Invested(t1))
    <3>1. SumFunction(Invested(t1)) = invested - end.cost
      BY <1>10, <2>1, <2>2, <2>3, <2>6
    <3>2. SumFunction(Earned(p1)) = earned + worth - fill.fee
      BY <1>1, <1>8, <1>9, <2>7
    <3>3. earned + worth - fill.fee
            = (t.pnl + (worth - end.cost)) - (t.fees + fill.fee) - (invested - end.cost)
      <4>1. /\ earned \in Int /\ t.pnl \in Int /\ t.fees \in Int /\ invested \in Int /\ worth \in Int
            /\ fill.fee \in Int /\ end.cost \in Int
        BY <1>1, <1>5, <1>8, <1>9, <2>2, <2>6
      <4> QED BY <1>6, <4>1, Balanced
    <3> QED BY <2>8, <3>1, <3>2, <3>3
  <2> QED BY <1>2, <2>9 DEF Conserved
<1> QED BY <1>1, <1>12, <1>13

--------------------------------------------------------------------------------
(* The fills of one decision.                                                    *)

Matched == {books \in Books : LotsMatch(books)}

BookedRun(h, books, fills) ==
  /\ h[0] = books
  /\ \A n \in 1..Len(fills) : h[n] = Booked(h[n - 1], fills[n])
  /\ \A n \in 0..Len(fills) : h[n] \in Matched

LEMMA BookedOverRuns ==
  ASSUME NEW books \in Matched, NEW fills \in Seq(FillRecords)
  PROVE  BookedRun(BookedOver(books, fills), books, fills)
<1> DEFINE m == Len(fills)
           D == Matched
           Row(g) == [n \in 0..m |-> IF n = 0 THEN books ELSE Booked(g[n - 1], fills[n])]
           step == [x \in D \X Nat |-> IF x[2] \in 1..m THEN Booked(x[1], fills[x[2]]) ELSE x[1]]
<1>0. m \in Nat /\ \A n \in 1..m : fills[n] \in FillRecords
  OBVIOUS
<1>1. \A q \in D, n \in 1..m : Booked(q, fills[n]) \in D
  BY <1>0, BookedAlike DEF Matched
<1> HIDE DEF D
<1>2. step \in [D \X Nat -> D]
  BY <1>1
<1>3. PICK f \in [0..m -> D] : Run(f, books, step, m)
  <2> HIDE DEF step
  <2>1. books \in D
    BY DEF D
  <2>2. \A k \in Nat : \E f \in [0..k -> D] : Run(f, books, step, k)
    BY <1>2, <2>1, Repeated
  <2> QED BY <1>0, <2>2
<1>4. f = Row(f)
  <2>1. ASSUME NEW n \in 0..m
        PROVE  f[n] = IF n = 0 THEN books ELSE Booked(f[n - 1], fills[n])
    <3>1. CASE n = 0
      BY <1>3, <3>1 DEF Run
    <3>2. CASE n # 0
      <4>1. n \in 1..m /\ n \in Nat /\ f[n - 1] \in D
        BY <1>0, <3>2
      <4>2. f[n] = step[<<f[n - 1], n>>]
        BY <1>3, <4>1 DEF Run
      <4>3. step[<<f[n - 1], n>>] = Booked(f[n - 1], fills[n])
        BY <4>1
      <4> HIDE DEF step
      <4> QED BY <3>2, <4>2, <4>3
    <3> QED BY <3>1, <3>2
  <2>2. f = [n \in 0..m |-> f[n]]
    OBVIOUS
  <2> QED BY <2>1, <2>2
<1> DEFINE h == CHOOSE g : g = Row(g)
<1>5. BookedOver(books, fills) = h
  BY DEF BookedOver
<1>6. h = Row(h)
  <2> HIDE DEF Row
  <2> QED BY <1>4
<1> HIDE DEF h
<1>7. ASSUME NEW n \in 0..m
      PROVE  h[n] = IF n = 0 THEN books ELSE Booked(h[n - 1], fills[n])
  BY <1>6
<1> DEFINE S == {n \in 0..m : h[n] \in D}
<1>8. 0 \in S
  BY <1>0, <1>7 DEF D
<1>9. ASSUME NEW n \in 1..m, n - 1 \in S PROVE n \in S
  <2>1. n \in 0..m /\ n # 0 /\ h[n - 1] \in D
    BY <1>0, <1>9
  <2> QED BY <1>1, <1>7, <2>1
<1>10. 0..m \subseteq S
  <2> HIDE DEF S, m
  <2> QED BY <1>0, <1>8, <1>9, UpTo
<1>11. h[0] = books /\ \A n \in 1..m : h[n] = Booked(h[n - 1], fills[n])
  <2>1. 0 \in 0..m /\ \A n \in 1..m : n \in 0..m /\ n # 0
    BY <1>0
  <2> QED BY <1>7, <2>1
<1> QED BY <1>5, <1>10, <1>11 DEF BookedRun, D

\* A fill changes the average of no other symbol.
LEMMA AverageKept ==
  ASSUME NEW books \in Books, NEW fill \in FillRecords, NEW x \in Symbols \ {fill.symbol}
  PROVE  Booked(books, fill).portfolio.average[x] = books.portfolio.average[x]
<1> DEFINE p == books.portfolio
           y == fill.symbol
<1>1. p.average \in [Symbols -> Nat]
  BY DEF Books, Portfolios
<1>2. Booked(books, fill).portfolio = ApplyOrderEvent(p, fill)
  BY DEF Booked
<1> HIDE DEF p
<1>3. PICK v : ApplyOrderEvent(p, fill).average = [p.average EXCEPT ![y] = v]
  BY Zenon DEF ApplyOrderEvent
<1> QED BY <1>1, <1>2, <1>3 DEF p

\* Fills of one symbol leave what is held of the others at what cost, and the cash of
\* other currencies.
LEMMA OthersKept ==
  ASSUME NEW books \in Matched, NEW fills \in Seq(FillRecords), NEW y \in Symbols,
         \A n \in 1..Len(fills) : fills[n].symbol = y, NEW h, BookedRun(h, books, fills)
  PROVE  \A n \in 0..Len(fills) :
           /\ \A x \in Symbols \ {y} : h[n].portfolio.quantity[x] = books.portfolio.quantity[x]
           /\ \A x \in Symbols \ {y} : h[n].portfolio.average[x] = books.portfolio.average[x]
           /\ \A c \in Currencies \ {CurrencyOf[y]} : h[n].portfolio.cash[c] = books.portfolio.cash[c]
<1> DEFINE m == Len(fills)
           Holds(n) ==
             /\ \A x \in Symbols \ {y} : h[n].portfolio.quantity[x] = books.portfolio.quantity[x]
             /\ \A x \in Symbols \ {y} : h[n].portfolio.average[x] = books.portfolio.average[x]
             /\ \A c \in Currencies \ {CurrencyOf[y]} : h[n].portfolio.cash[c] = books.portfolio.cash[c]
           S == {n \in 0..m : Holds(n)}
<1>0. m \in Nat /\ \A n \in 1..m : fills[n] \in FillRecords
  OBVIOUS
<1>1. 0 \in S
  BY <1>0 DEF BookedRun
<1>2. ASSUME NEW n \in 1..m, n - 1 \in S PROVE n \in S
  <2> DEFINE old == h[n - 1]
             new == h[n]
  <2>1. n \in 0..m /\ n - 1 \in 0..m /\ Holds(n - 1)
    BY <1>0, <1>2
  <2>2. old \in Books /\ LotsMatch(old) /\ new = Booked(old, fills[n]) /\ fills[n] \in FillRecords
        /\ fills[n].symbol = y
    BY <1>0, <2>1 DEF BookedRun, Matched
  <2> HIDE DEF old, new
  <2>3. new.portfolio.quantity
          = [old.portfolio.quantity EXCEPT ![y] = HeldAfter(old.portfolio.quantity[y], fills[n])]
        /\ new.portfolio.cash = [old.portfolio.cash EXCEPT ![CurrencyOf[y]] = @ + CashDelta(fills[n])]
    BY <2>2, BookedAlike
  <2>4. old.portfolio.quantity \in [Symbols -> Nat] /\ old.portfolio.cash \in [Currencies -> Int]
    BY <2>2 DEF Books, Portfolios
  <2>5. \A x \in Symbols \ {y} : new.portfolio.quantity[x] = old.portfolio.quantity[x]
    BY <2>3, <2>4
  <2>6. \A c \in Currencies \ {CurrencyOf[y]} : new.portfolio.cash[c] = old.portfolio.cash[c]
    BY <2>3, <2>4
  <2>8. \A x \in Symbols \ {y} : new.portfolio.average[x] = old.portfolio.average[x]
    BY <2>2, AverageKept
  <2>7. Holds(n)
    BY <2>1, <2>5, <2>6, <2>8 DEF old, new
  <2> QED BY <2>1, <2>7
<1>3. 0..m \subseteq S
  <2> HIDE DEF S, m
  <2> QED BY <1>0, <1>1, <1>2, UpTo
<1> QED BY <1>3

\* What is held after the first fills of a decision.
HeldBy(decision, n) ==
  LET filled == FilledBy(Abs(decision.granted - decision.current), n)
  IN IF decision.granted > decision.current THEN decision.current + filled
     ELSE Floor0(decision.current - filled)

\* A step from f to g filled.
LEMMA HeldStep ==
  ASSUME NEW held \in Nat, NEW f \in Nat, NEW g \in Nat, f <= g
  PROVE  /\ Floor0((held + f) + (g - f)) = held + g
         /\ Floor0(Floor0(held - f) - (g - f)) = Floor0(held - g)
  BY DEF Floor0

LEMMA FillingHolds ==
  ASSUME setup \in Setups, NEW books \in Matched, NEW prices \in PriceMaps, NEW decision \in Grants,
         NEW fills \in Seq(FillRecords), Filling(decision, prices, fills),
         NEW h, BookedRun(h, books, fills),
         decision.current = books.portfolio.quantity[decision.symbol]
  PROVE  /\ \A n \in 0..Len(fills) : h[n].portfolio.quantity[decision.symbol] = HeldBy(decision, n)
         /\ HeldBy(decision, Len(fills)) = Floor0(decision.granted)
<1> DEFINE m == Len(fills)
           y == decision.symbol
           total == Abs(decision.granted - decision.current)
           up == decision.granted > decision.current
           F(n) == FilledBy(total, n)
           S == {n \in 0..m : h[n].portfolio.quantity[y] = HeldBy(decision, n)}
<1>0. m \in Nat /\ (\A n \in 1..m : fills[n] \in FillRecords) /\ y \in Symbols
  BY DEF Grants
<1>1. total \in Nat \ {0} /\ m = Len(Chunks(total)) /\ decision.current \in Nat
      /\ decision.granted \in Int /\ (decision.granted - decision.current > 0 <=> up)
  BY DEF Filling, Abs, Grants
<1>2. \A n \in 1..m : /\ fills[n].symbol = y
                      /\ fills[n].side = (IF up THEN "buy" ELSE "sell")
                      /\ fills[n].quantity = F(n) - F(n - 1)
  BY <1>1 DEF Filling
<1>3. F(0) = 0 /\ F(m) = total /\ \A n \in 1..m : F(n) \in Nat /\ F(n - 1) \in Nat
  <2>1. F(0) = 0 /\ F(m) = total /\ \A n \in 1..m : F(n) \in 0..total /\ F(n - 1) \in 0..total
    BY <1>1, ChunksAddUp
  <2> HIDE DEF F, total
  <2> QED BY <1>1, <2>1
<1>4. \A n : HeldBy(decision, n) = IF up THEN decision.current + F(n) ELSE Floor0(decision.current - F(n))
  BY DEF HeldBy
<1>5. HeldBy(decision, m) = Floor0(decision.granted)
  <2>1. HeldBy(decision, m) = IF up THEN decision.current + total ELSE Floor0(decision.current - total)
    BY <1>3, <1>4
  <2>2. CASE up
    <3>1. decision.current + total = decision.granted /\ decision.granted > 0
      BY <1>1, <2>2 DEF Abs
    <3> QED BY <2>1, <2>2, <3>1 DEF Floor0
  <2>3. CASE ~up
    <3>1. decision.current - total = decision.granted
      BY <1>1, <2>3 DEF Abs
    <3> QED BY <2>1, <2>3, <3>1
  <2> QED BY <2>2, <2>3
<1> HIDE DEF F, total, up
<1>6. 0 \in S
  <2>1. 0 \in 0..m /\ h[0] = books
    BY <1>0 DEF BookedRun
  <2>2. HeldBy(decision, 0) = decision.current
    BY <1>1, <1>3, <1>4 DEF Floor0
  <2> QED BY <2>1, <2>2
<1>7. ASSUME NEW n \in 1..m, n - 1 \in S PROVE n \in S
  <2> DEFINE old == h[n - 1]
             new == h[n]
             fill == fills[n]
             q == old.portfolio.quantity[y]
             f == F(n - 1)
             g == F(n)
  <2>1. n \in 0..m /\ n - 1 \in 0..m /\ q = HeldBy(decision, n - 1)
    BY <1>0, <1>7
  <2>2. old \in Books /\ LotsMatch(old) /\ new = Booked(old, fill) /\ fill \in FillRecords
    BY <1>0, <2>1 DEF BookedRun, Matched
  <2>3. fill.symbol = y /\ fill.side = (IF up THEN "buy" ELSE "sell") /\ fill.quantity = g - f
    BY <1>2
  <2>4. f \in Nat /\ g \in Nat
    BY <1>3
  <2>5. fill.quantity \in Nat
    BY <2>2 DEF FillRecords
  <2> HIDE DEF old, new, fill, q, f, g
  <2>6. f <= g
    BY <2>3, <2>4, <2>5
  <2>7. new.portfolio.quantity[y] = HeldAfter(q, fill)
    <3>1. new.portfolio.quantity
            = [old.portfolio.quantity EXCEPT ![fill.symbol] = HeldAfter(old.portfolio.quantity[fill.symbol], fill)]
      BY <2>2, BookedAlike
    <3>2. old.portfolio.quantity \in [Symbols -> Nat]
      BY <2>2 DEF Books, Portfolios
    <3> QED BY <1>0, <2>3, <3>1, <3>2 DEF q
  <2>8. q \in Nat
    <3>1. old.portfolio.quantity \in [Symbols -> Nat]
      BY <2>2 DEF Books, Portfolios
    <3> QED BY <1>0, <3>1 DEF q
  <2>9. HeldAfter(q, fill) = Floor0(IF up THEN q + (g - f) ELSE q - (g - f))
    <3>1. q + (g - f) \in Int /\ q - (g - f) \in Int
      BY <2>4, <2>8
    <3> QED BY <2>3, <2>4, <2>8, <3>1 DEF HeldAfter, Floor0
  <2>10. q = IF up THEN decision.current + f ELSE Floor0(decision.current - f)
    BY <1>4, <2>1 DEF f
  <2>11. HeldBy(decision, n) = IF up THEN decision.current + g ELSE Floor0(decision.current - g)
    BY <1>4 DEF g
  <2>12. HeldAfter(q, fill) = HeldBy(decision, n)
    BY <1>1, <2>4, <2>6, <2>9, <2>10, <2>11, HeldStep
  <2> QED BY <2>1, <2>7, <2>12 DEF new
<1>8. 0..m \subseteq S
  <2> HIDE DEF S, m
  <2> QED BY <1>0, <1>6, <1>7, UpTo
<1> QED BY <1>5, <1>8

\* Fills up to what is held conserve the money.
LEMMA FillingConserves ==
  ASSUME setup \in Setups, NEW books \in Matched, NEW prices \in PriceMaps, NEW decision \in Grants,
         NEW fills \in Seq(FillRecords), Filling(decision, prices, fills),
         NEW h, BookedRun(h, books, fills),
         Conserved(books), decision.granted \in Nat,
         decision.current = books.portfolio.quantity[decision.symbol]
  PROVE  Conserved(h[Len(fills)])
<1> DEFINE m == Len(fills)
           y == decision.symbol
           total == Abs(decision.granted - decision.current)
           up == decision.granted > decision.current
           F(n) == FilledBy(total, n)
           S == {n \in 0..m : Conserved(h[n])}
<1>0. m \in Nat /\ \A n \in 1..m : fills[n] \in FillRecords
  OBVIOUS
<1>1. total \in Nat \ {0} /\ m = Len(Chunks(total)) /\ decision.current \in Nat
      /\ (decision.granted - decision.current > 0 <=> up) /\ (~up => total <= decision.current)
  BY DEF Filling, Abs, Grants
<1>2. \A n \in 1..m : /\ fills[n].symbol = y
                      /\ fills[n].side = (IF up THEN "buy" ELSE "sell")
                      /\ fills[n].quantity = F(n) - F(n - 1)
                      /\ fills[n].fee <= Notional(fills[n])
  BY <1>1 DEF Filling
<1>3. \A n \in 1..m : F(n) \in 0..total /\ F(n - 1) \in 0..total
  BY <1>1, ChunksAddUp
<1>4. \A n \in 0..m : h[n].portfolio.quantity[y] = HeldBy(decision, n)
  BY FillingHolds
<1>5. \A n : ~up => HeldBy(decision, n) = Floor0(decision.current - F(n))
  BY DEF HeldBy
<1> HIDE DEF F, total, up
<1>6. 0 \in S
  BY <1>0 DEF BookedRun
<1>7. ASSUME NEW n \in 1..m, n - 1 \in S PROVE n \in S
  <2> DEFINE old == h[n - 1]
             fill == fills[n]
             q == old.portfolio.quantity[fill.symbol]
             f == F(n - 1)
             g == F(n)
  <2>1. n \in 0..m /\ n - 1 \in 0..m /\ Conserved(old)
    BY <1>0, <1>7
  <2>2. old \in Books /\ LotsMatch(old) /\ h[n] = Booked(old, fill) /\ fill \in FillRecords
    BY <1>0, <2>1 DEF BookedRun, Matched
  <2>3. fill.side = (IF up THEN "buy" ELSE "sell") /\ fill.quantity = g - f
        /\ fill.fee <= Notional(fill)
    BY <1>2
  <2>4. f \in 0..total /\ g \in 0..total
    BY <1>3
  <2>5. ~up => q = Floor0(decision.current - f)
    BY <1>2, <1>4, <1>5, <2>1
  <2> HIDE DEF old, fill, q, f, g
  <2>6. fill.side = "sell" => fill.quantity <= q
    <3>1. SUFFICES ASSUME fill.side = "sell" PROVE fill.quantity <= q
      OBVIOUS
    <3>2. ~up
      BY <2>3, <3>1
    <3>3. decision.current - f \in Nat
      BY <1>1, <2>4, <3>2
    <3>4. q = decision.current - f
      BY <2>5, <3>2, <3>3 DEF Floor0
    <3> QED BY <1>1, <2>3, <2>4, <3>2, <3>4
  <2>7. Conserved(Booked(old, fill))
    BY <2>1, <2>2, <2>3, <2>6, BookedConserves DEF q
  <2> QED BY <2>1, <2>2, <2>7
<1>8. 0..m \subseteq S
  <2> HIDE DEF S, m
  <2> QED BY <1>0, <1>6, <1>7, UpTo
<1> QED BY <1>0, <1>8

\* Without slippage and fees, buying costs the price of the bar, and selling nothing.
LEMMA FillingPaid ==
  ASSUME setup \in Setups, NEW books \in Matched, NEW prices \in PriceMaps, NEW decision \in Grants,
         NEW fills \in Seq(FillRecords), Filling(decision, prices, fills),
         NEW h, BookedRun(h, books, fills),
         setup.slippage = 0, setup.fee = 0, NEW price \in Nat, price = prices[decision.symbol]
  PROVE  LET c == CurrencyOf[decision.symbol]
         IN h[Len(fills)].portfolio.cash[c]
              = books.portfolio.cash[c] - (decision.granted - decision.current) * price
<1> DEFINE m == Len(fills)
           y == decision.symbol
           c == CurrencyOf[y]
           delta == decision.granted - decision.current
           total == Abs(delta)
           F(n) == FilledBy(total, n)
           Paid(n) == IF delta > 0 THEN F(n) ELSE -F(n)
           cash == books.portfolio.cash[c]
           Holds(n) == h[n].portfolio.cash[c] = cash - Paid(n) * price
           S == {n \in 0..m : Holds(n)}
<1>0. m \in Nat /\ (\A n \in 1..m : fills[n] \in FillRecords) /\ y \in Symbols /\ c \in Currencies
  BY PortfolioAssumption DEF Grants
<1>1. delta \in Int /\ delta # 0 /\ total \in Nat \ {0} /\ m = Len(Chunks(total))
      /\ (delta > 0 => total = delta) /\ (~(delta > 0) => total = -delta)
  BY DEF Filling, Abs, Grants
<1>2. \A n \in 1..m : /\ fills[n].symbol = y
                      /\ fills[n].side = (IF delta > 0 THEN "buy" ELSE "sell")
                      /\ fills[n].quantity = F(n) - F(n - 1)
                      /\ fills[n].price = price /\ fills[n].fee = 0
  BY DEF Filling
<1>3. F(0) = 0 /\ F(m) = total /\ \A n \in 1..m : F(n) \in 0..total /\ F(n - 1) \in 0..total
  BY <1>1, ChunksAddUp
<1>4. cash \in Int
  BY <1>0 DEF Matched, Books, Portfolios
<1> HIDE DEF F, delta, total
<1>5. 0 \in S
  <2>1. 0 \in 0..m /\ h[0] = books
    BY <1>0 DEF BookedRun
  <2>2. Paid(0) = 0 /\ 0 * price = 0
    BY <1>3
  <2>3. h[0].portfolio.cash[c] = cash
    BY <2>1
  <2> HIDE DEF Paid, cash
  <2> QED BY <1>4, <2>1, <2>2, <2>3
<1> HIDE DEF cash
<1>6. ASSUME NEW n \in 1..m, n - 1 \in S PROVE n \in S
  <2> DEFINE old == h[n - 1]
             new == h[n]
             fill == fills[n]
             before == old.portfolio.cash[c]
  <2>1. n \in 0..m /\ n - 1 \in 0..m /\ Holds(n - 1)
    BY <1>0, <1>6
  <2>2. old \in Books /\ LotsMatch(old) /\ new = Booked(old, fill) /\ fill \in FillRecords
    BY <1>0, <2>1 DEF BookedRun, Matched
  <2>3. before = cash - Paid(n - 1) * price
    BY <2>1
  <2>4. fill.symbol = y /\ fill.side = (IF delta > 0 THEN "buy" ELSE "sell")
        /\ fill.quantity = F(n) - F(n - 1) /\ fill.price = price /\ fill.fee = 0
    BY <1>2
  <2>5. F(n) \in Nat /\ F(n - 1) \in Nat
    BY <1>1, <1>3
  <2> HIDE DEF old, new, fill
  <2>6. new.portfolio.cash[c] = before + CashDelta(fill) /\ before \in Int
    <3>1. new.portfolio.cash = [old.portfolio.cash EXCEPT ![c] = @ + CashDelta(fill)]
      BY <2>2, <2>4, BookedAlike
    <3>2. old.portfolio.cash \in [Currencies -> Int]
      BY <2>2 DEF Books, Portfolios
    <3> QED BY <1>0, <3>1, <3>2
  <2> HIDE DEF before
  <2> DEFINE now == F(n) * price
             then == F(n - 1) * price
  <2>7. Notional(fill) = now - then /\ now \in Nat /\ then \in Nat /\ fill.quantity \in Nat
        /\ Notional(fill) \in Nat
    <3>1. Notional(fill) = (F(n) - F(n - 1)) * price
      BY <2>4 DEF Notional
    <3>2. fill.quantity \in Nat
      BY <2>2 DEF FillRecords
    <3>3. (F(n) - F(n - 1)) * price = now - then /\ now \in Nat /\ then \in Nat
      BY <2>5
    <3>4. Notional(fill) \in Nat
      <4>1. Notional(fill) = fill.quantity * price
        BY <2>4 DEF Notional
      <4> QED BY <3>2, <4>1
    <3> HIDE DEF now, then
    <3> QED BY <3>1, <3>2, <3>3, <3>4
  <2>8. CASE delta > 0
    <3>1. CashDelta(fill) = -Notional(fill)
      BY <2>4, <2>7, <2>8 DEF CashDelta
    <3>2. Paid(n) * price = now /\ Paid(n - 1) * price = then
      BY <2>8
    <3> HIDE DEF now, then, Paid
    <3>3. new.portfolio.cash[c] = cash - Paid(n) * price
      BY <1>4, <2>3, <2>6, <2>7, <3>1, <3>2
    <3>4. Holds(n)
      BY <3>3 DEF new
    <3> QED BY <2>1, <3>4
  <2>9. CASE ~(delta > 0)
    <3>1. CashDelta(fill) = Notional(fill)
      <4>1. CashDelta(fill) = IF Notional(fill) - 0 > 0 THEN Notional(fill) - 0 ELSE 0
        BY <2>4, <2>9 DEF CashDelta
      <4> QED BY <2>7, <4>1
    <3>2. Paid(n) * price = -now /\ Paid(n - 1) * price = -then
      <4>1. Paid(n) = -F(n) /\ Paid(n - 1) = -F(n - 1)
        BY <2>9
      <4>2. (-F(n)) * price = -(F(n) * price) /\ (-F(n - 1)) * price = -(F(n - 1) * price)
        BY <2>5
      <4> QED BY <4>1, <4>2
    <3> HIDE DEF now, then, Paid
    <3>3. new.portfolio.cash[c] = cash - Paid(n) * price
      BY <1>4, <2>3, <2>6, <2>7, <3>1, <3>2
    <3>4. Holds(n)
      BY <3>3 DEF new
    <3> QED BY <2>1, <3>4
  <2> QED BY <2>8, <2>9
<1>7. 0..m \subseteq S
  <2> HIDE DEF S, m
  <2> QED BY <1>0, <1>5, <1>6, UpTo
<1>8. Holds(m)
  <2>1. m \in 0..m
    BY <1>0
  <2> HIDE DEF Holds
  <2> QED BY <1>7, <2>1
<1>9. Paid(m) = delta
  BY <1>1, <1>3
<1> HIDE DEF Paid
<1> QED BY <1>8, <1>9 DEF delta, cash

\* What the fills of one decision do to the books.
After(books, decision, prices) ==
  LET fills == FillsOf(decision, prices) IN BookedOver(books, fills)[Len(fills)]

\* What is held of the symbol of a decision when its orders are filled.
TradedTo(decision, prices) ==
  IF decision.approved /\ decision.symbol \in DOMAIN prices THEN Floor0(decision.granted)
  ELSE decision.current

\* And what they move.
Moved(decision, prices) ==
  IF decision.approved /\ decision.symbol \in DOMAIN prices THEN decision.granted - decision.current
  ELSE 0

LEMMA DecisionBooked ==
  ASSUME setup \in Setups, NEW books \in Matched, NEW prices \in PriceMaps, NEW decision \in Grants
  PROVE  LET y == decision.symbol
             c == CurrencyOf[y]
             end == After(books, decision, prices)
         IN /\ end \in Matched
            /\ \A x \in Symbols \ {y} : end.portfolio.quantity[x] = books.portfolio.quantity[x]
            /\ \A x \in Symbols \ {y} : end.portfolio.average[x] = books.portfolio.average[x]
            /\ y \notin DOMAIN prices => end.portfolio = books.portfolio
            /\ decision.current = books.portfolio.quantity[y] =>
                 end.portfolio.quantity[y] = TradedTo(decision, prices)
            /\ \A d \in Currencies \ {c} : end.portfolio.cash[d] = books.portfolio.cash[d]
            /\ Conserved(books) /\ decision.granted \in Nat
               /\ decision.current = books.portfolio.quantity[y] => Conserved(end)
            /\ setup.slippage = 0 /\ setup.fee = 0 =>
                 \A price \in Nat : (y \in DOMAIN prices => price = prices[y]) =>
                   end.portfolio.cash[c]
                     = books.portfolio.cash[c] - Moved(decision, prices) * price
<1> DEFINE y == decision.symbol
           c == CurrencyOf[y]
           fills == FillsOf(decision, prices)
           h == BookedOver(books, fills)
           end == h[Len(fills)]
           none == ~decision.approved \/ decision.granted = decision.current \/ y \notin DOMAIN prices
<1>1. fills \in Seq(FillRecords) /\ ((fills = << >> /\ none) \/ Filling(decision, prices, fills))
  BY FillsAddUp
<1>2. y \in Symbols /\ c \in Currencies /\ decision.granted \in Int /\ decision.current \in Nat
  BY PortfolioAssumption DEF Grants
<1> HIDE DEF fills
<1>3. BookedRun(h, books, fills)
  BY <1>1, BookedOverRuns
<1> HIDE DEF h
<1>4. Len(fills) \in 0..Len(fills) /\ \A n \in 1..Len(fills) : fills[n].symbol = y
  <2>1. CASE fills = << >>
    BY <2>1
  <2>2. CASE Filling(decision, prices, fills)
    BY <1>1, <2>2 DEF Filling
  <2> QED BY <1>1, <2>1, <2>2
<1> HIDE DEF none
<1>5. end \in Matched
  BY <1>3, <1>4 DEF BookedRun
<1>6. /\ \A x \in Symbols \ {y} : end.portfolio.quantity[x] = books.portfolio.quantity[x]
      /\ \A x \in Symbols \ {y} : end.portfolio.average[x] = books.portfolio.average[x]
      /\ \A d \in Currencies \ {c} : end.portfolio.cash[d] = books.portfolio.cash[d]
  BY <1>1, <1>2, <1>3, <1>4, OthersKept
<1>7. CASE fills = << >> /\ none
  <2>1. end = books
    BY <1>3, <1>7 DEF BookedRun
  <2>2. ASSUME NEW price \in Nat
        PROVE  end.portfolio.cash[c] = books.portfolio.cash[c] - Moved(decision, prices) * price
    <3>1. Moved(decision, prices) = 0
      BY <1>2, <1>7 DEF Moved, none
    <3>2. books.portfolio.cash[c] \in Int
      BY <1>2 DEF Matched, Books, Portfolios
    <3> QED BY <2>1, <3>1, <3>2
  <2>3. decision.current = books.portfolio.quantity[y] =>
          end.portfolio.quantity[y] = TradedTo(decision, prices)
    BY <1>2, <1>7, <2>1 DEF TradedTo, Floor0, none
  <2> HIDE DEF end
  <2> QED BY <1>5, <1>6, <2>1, <2>2, <2>3 DEF After, end, h, fills
<1>8. CASE Filling(decision, prices, fills)
  <2>1. Conserved(books) /\ decision.granted \in Nat /\ decision.current = books.portfolio.quantity[y]
          => Conserved(end)
    BY <1>1, <1>3, <1>8, FillingConserves
  <2>2. y \in DOMAIN prices
    BY <1>8 DEF Filling
  <2>3. ASSUME setup.slippage = 0, setup.fee = 0, NEW price \in Nat, price = prices[y]
        PROVE  end.portfolio.cash[c] = books.portfolio.cash[c] - Moved(decision, prices) * price
    <3>1. end.portfolio.cash[c]
            = books.portfolio.cash[c] - (decision.granted - decision.current) * price
      BY <1>1, <1>3, <1>8, <2>3, FillingPaid
    <3>2. Moved(decision, prices) = decision.granted - decision.current
      BY <1>8 DEF Filling, Moved
    <3> QED BY <3>1, <3>2
  <2>4. decision.current = books.portfolio.quantity[y] =>
          end.portfolio.quantity[y] = TradedTo(decision, prices)
    <3>1. SUFFICES ASSUME decision.current = books.portfolio.quantity[y]
                   PROVE  end.portfolio.quantity[y] = Floor0(decision.granted)
      BY <1>8 DEF Filling, TradedTo
    <3> QED BY <1>1, <1>3, <1>4, <1>8, <3>1, FillingHolds
  <2> HIDE DEF end
  <2> QED BY <1>5, <1>6, <2>1, <2>2, <2>3, <2>4 DEF After, end, h, fills
<1> QED BY <1>1, <1>7, <1>8

--------------------------------------------------------------------------------
(* The decisions of one cycle.                                                   *)

SettledRun(h, books, decisions, prices) ==
  /\ h[0] = books
  /\ \A n \in 1..Len(decisions) : h[n] = After(h[n - 1], decisions[n], prices)
  /\ \A n \in 0..Len(decisions) : h[n] \in Matched

LEMMA SettledOverRuns ==
  ASSUME setup \in Setups, NEW books \in Matched, NEW prices \in PriceMaps,
         NEW decisions \in Seq(Grants)
  PROVE  SettledRun(SettledOver(books, decisions, prices), books, decisions, prices)
<1> DEFINE m == Len(decisions)
           D == Matched
           Row(g) == [n \in 0..m |-> IF n = 0 THEN books ELSE After(g[n - 1], decisions[n], prices)]
           step == [x \in D \X Nat |->
                      IF x[2] \in 1..m THEN After(x[1], decisions[x[2]], prices) ELSE x[1]]
<1>0. m \in Nat /\ \A n \in 1..m : decisions[n] \in Grants
  OBVIOUS
<1>1. \A q \in D, n \in 1..m : After(q, decisions[n], prices) \in D
  BY <1>0, DecisionBooked
<1> HIDE DEF D
<1>2. step \in [D \X Nat -> D]
  BY <1>1
<1>3. PICK f \in [0..m -> D] : Run(f, books, step, m)
  <2> HIDE DEF step
  <2>1. books \in D
    BY DEF D
  <2>2. \A k \in Nat : \E f \in [0..k -> D] : Run(f, books, step, k)
    BY <1>2, <2>1, Repeated
  <2> QED BY <1>0, <2>2
<1>4. f = Row(f)
  <2>1. ASSUME NEW n \in 0..m
        PROVE  f[n] = IF n = 0 THEN books ELSE After(f[n - 1], decisions[n], prices)
    <3>1. CASE n = 0
      BY <1>3, <3>1 DEF Run
    <3>2. CASE n # 0
      <4>1. n \in 1..m /\ n \in Nat /\ f[n - 1] \in D
        BY <1>0, <3>2
      <4>2. f[n] = step[<<f[n - 1], n>>]
        BY <1>3, <4>1 DEF Run
      <4>3. step[<<f[n - 1], n>>] = After(f[n - 1], decisions[n], prices)
        BY <4>1
      <4> HIDE DEF step
      <4> QED BY <3>2, <4>2, <4>3
    <3> QED BY <3>1, <3>2
  <2>2. f = [n \in 0..m |-> f[n]]
    OBVIOUS
  <2> QED BY <2>1, <2>2
<1> DEFINE h == CHOOSE g : g = Row(g)
<1>5. SettledOver(books, decisions, prices) = h
  BY DEF SettledOver, After
<1>6. h = Row(h)
  <2> HIDE DEF Row
  <2> QED BY <1>4
<1> HIDE DEF h
<1>7. ASSUME NEW n \in 0..m
      PROVE  h[n] = IF n = 0 THEN books ELSE After(h[n - 1], decisions[n], prices)
  BY <1>6
<1> DEFINE S == {n \in 0..m : h[n] \in D}
<1>8. 0 \in S
  BY <1>0, <1>7 DEF D
<1>9. ASSUME NEW n \in 1..m, n - 1 \in S PROVE n \in S
  <2>1. n \in 0..m /\ n # 0 /\ h[n - 1] \in D
    BY <1>0, <1>9
  <2> QED BY <1>1, <1>7, <2>1
<1>10. 0..m \subseteq S
  <2> HIDE DEF S, m
  <2> QED BY <1>0, <1>8, <1>9, UpTo
<1>11. h[0] = books /\ \A n \in 1..m : h[n] = After(h[n - 1], decisions[n], prices)
  <2>1. 0 \in 0..m /\ \A n \in 1..m : n \in 0..m /\ n # 0
    BY <1>0
  <2> QED BY <1>7, <2>1
<1> QED BY <1>5, <1>10, <1>11 DEF SettledRun, D

LEMMA SettledMatched ==
  ASSUME setup \in Setups, NEW books \in Matched, NEW prices \in PriceMaps,
         NEW decisions \in Seq(Grants)
  PROVE  Settled(books, decisions, prices) \in Matched
<1>1. SettledRun(SettledOver(books, decisions, prices), books, decisions, prices)
  BY SettledOverRuns
<1>2. Len(decisions) \in 0..Len(decisions)
  OBVIOUS
<1> QED BY <1>1, <1>2 DEF SettledRun, Settled

(* What a cycle makes of the holdings: each decision is carried out, and nothing *)
(* else moves.                                                                   *)
LEMMA CycleTrades ==
  ASSUME setup \in Setups, NEW books \in Matched, NEW prices \in PriceMaps, NEW decisions,
         OnHoldings(decisions, books.portfolio),
         NEW end, end = Settled(books, decisions, prices).portfolio
  PROVE  /\ \A i \in DOMAIN decisions :
              end.quantity[decisions[i].symbol] = TradedTo(decisions[i], prices)
         /\ \A x \in Symbols : (\A i \in DOMAIN decisions : decisions[i].symbol # x)
                                 => end.quantity[x] = books.portfolio.quantity[x]
         /\ \A x \in Symbols \ DOMAIN prices : end.average[x] = books.portfolio.average[x]
<1> DEFINE m == Len(decisions)
           p == books.portfolio
           h == SettledOver(books, decisions, prices)
           Y(i) == decisions[i].symbol
           Done(n) == \A i \in 1..n : h[n].portfolio.quantity[Y(i)] = TradedTo(decisions[i], prices)
           Left(n) == \A x \in Symbols : (\A i \in 1..n : Y(i) # x)
                                            => h[n].portfolio.quantity[x] = p.quantity[x]
           CostsSame(n) == \A x \in Symbols \ DOMAIN prices : h[n].portfolio.average[x] = p.average[x]
           S == {n \in 0..m : Done(n) /\ Left(n) /\ CostsSame(n)}
<1>1. m \in Nat /\ DOMAIN decisions = 1..m /\ decisions \in Seq(Grants)
      /\ \A n \in 1..m : decisions[n] \in Grants /\ Y(n) \in Symbols
                         /\ decisions[n].current = p.quantity[Y(n)]
  <2>1. decisions \in Seq(Grants) /\ m \in Nat /\ DOMAIN decisions = 1..m
    BY DEF OnHoldings
  <2>2. ASSUME NEW n \in 1..m
        PROVE  decisions[n] \in Grants /\ Y(n) \in Symbols /\ decisions[n].current = p.quantity[Y(n)]
    <3>1. decisions[n] \in Grants
      BY <2>1
    <3>2. decisions[n].current = p.quantity[Y(n)]
      BY <2>1 DEF OnHoldings
    <3> QED BY <3>1, <3>2 DEF Grants
  <2> QED BY <2>1, <2>2
<1>2. \A i, j \in 1..m : Y(i) = Y(j) => i = j
  BY <1>1 DEF OnHoldings, OneTargetEach
<1>3. SettledRun(h, books, decisions, prices)
  BY <1>1, SettledOverRuns
<1> HIDE DEF h, Y
<1>4. 0 \in S
  <2>1. 0 \in 0..m /\ h[0] = books /\ 1..0 = {}
    BY <1>1, <1>3 DEF SettledRun
  <2> QED BY <2>1
<1>5. ASSUME NEW n \in 1..m, n - 1 \in S PROVE n \in S
  <2> DEFINE old == h[n - 1]
             new == h[n]
             d == decisions[n]
             y == Y(n)
  <2>1. n \in 0..m /\ n - 1 \in 0..m /\ Done(n - 1) /\ Left(n - 1) /\ CostsSame(n - 1)
        /\ 1..n = 1..(n - 1) \cup {n} /\ n \notin 1..(n - 1) /\ 1..(n - 1) \subseteq 1..m
    BY <1>1, <1>5
  <2>2. old \in Matched /\ new = After(old, d, prices) /\ d \in Grants /\ y \in Symbols
        /\ d.symbol = y /\ d.current = p.quantity[y]
    BY <1>1, <1>3, <2>1 DEF SettledRun, Y
  <2>3. old.portfolio.quantity[y] = p.quantity[y]
    <3>1. \A i \in 1..(n - 1) : Y(i) # y
      BY <1>2, <2>1
    <3> QED BY <2>1, <2>2, <3>1
  <2>4. /\ \A x \in Symbols \ {y} : new.portfolio.quantity[x] = old.portfolio.quantity[x]
        /\ \A x \in Symbols \ {y} : new.portfolio.average[x] = old.portfolio.average[x]
        /\ y \notin DOMAIN prices => new.portfolio = old.portfolio
        /\ new.portfolio.quantity[y] = TradedTo(d, prices)
    <3> HIDE DEF old, new, d, y
    <3> QED BY <2>2, <2>3, DecisionBooked
  <2>5. Done(n)
    <3> SUFFICES ASSUME NEW i \in 1..n
                 PROVE  new.portfolio.quantity[Y(i)] = TradedTo(decisions[i], prices)
      OBVIOUS
    <3>1. CASE i = n
      BY <2>4, <3>1
    <3>2. CASE i # n
      <4>1. i \in 1..(n - 1) /\ i \in 1..m
        BY <2>1, <3>2
      <4>2. Y(i) \in Symbols \ {y}
        BY <1>1, <1>2, <3>2, <4>1 DEF Y
      <4> QED BY <2>1, <2>4, <4>1, <4>2
    <3> QED BY <3>1, <3>2
  <2>6. Left(n)
    <3> SUFFICES ASSUME NEW x \in Symbols, \A i \in 1..n : Y(i) # x
                 PROVE  new.portfolio.quantity[x] = p.quantity[x]
      OBVIOUS
    <3>1. x \in Symbols \ {y} /\ \A i \in 1..(n - 1) : Y(i) # x
      BY <2>1
    <3> QED BY <2>1, <2>4, <3>1
  <2>7. CostsSame(n)
    <3> SUFFICES ASSUME NEW x \in Symbols \ DOMAIN prices
                 PROVE  new.portfolio.average[x] = p.average[x]
      OBVIOUS
    <3>1. new.portfolio.average[x] = old.portfolio.average[x]
      BY <2>4
    <3> QED BY <2>1, <3>1
  <2> HIDE DEF Done, Left, CostsSame
  <2> QED BY <2>1, <2>5, <2>6, <2>7
<1>6. m \in S
  <2>1. 0..m \subseteq S
    <3> HIDE DEF S, m
    <3> QED BY <1>1, <1>4, <1>5, UpTo
  <2> QED BY <1>1, <2>1
<1>7. end = h[m].portfolio
  BY DEF Settled, h
<1> QED BY <1>1, <1>6, <1>7 DEF Y

\* The cash is at least what the pass counts on.
Covers(books, pass) == \A c \in Currencies : books.portfolio.cash[c] * Full >= pass.cash[c]
Solvent(books) == \A c \in Currencies : books.portfolio.cash[c] >= 0
CostFree == setup.slippage = 0 /\ setup.fee = 0

\* The cash of a pass starts with at most the cash there is.
LEMMA StartCovered ==
  ASSUME setup \in Setups, NEW books \in Matched, Solvent(books)
  PROVE  Covers(books, StartPass(books.portfolio))
<1> SUFFICES ASSUME NEW c \in Currencies
             PROVE  books.portfolio.cash[c] * Full >= StartPass(books.portfolio).cash[c]
  BY DEF Covers
<1> DEFINE cash == books.portfolio.cash[c]
           share == Full - setup.cashBuffer
<1>1. cash \in Int /\ cash >= 0 /\ share \in Nat /\ share <= Full /\ Full \in Nat
  BY RiskAssumption, UnitAssumption DEF Solvent, Matched, Books, Portfolios
<1>2. StartPass(books.portfolio).cash[c] = Floor0(cash * share)
  BY DEF StartPass
<1> HIDE DEF cash, share
<1>3. cash * share \in Nat /\ cash * share <= cash * Full
  BY <1>1
<1>4. Floor0(cash * share) = cash * share
  BY <1>3 DEF Floor0
<1>5. cash * Full \in Int
  BY <1>1
<1> QED BY <1>2, <1>3, <1>4, <1>5 DEF cash

\* What one decision pays, the pass has set aside.
LEMMA DecisionCovered ==
  ASSUME setup \in Setups, CostFree, NEW books \in Matched, NEW prices \in PriceMaps,
         NEW plan, PlanOf(plan, books.portfolio, prices), NEW decision, Answers(decision, plan),
         NEW before \in Matched, NEW old \in Passes, NEW new \in Passes, Covers(before, old),
         \A c \in Currencies : new.cash[c] <= old.cash[c] - Taken(plan, decision, c)
  PROVE  Covers(After(before, decision, prices), new)
<1> DEFINE y == decision.symbol
           cur == CurrencyOf[y]
           after == After(before, decision, prices)
           bought == Floor0(decision.granted - decision.current)
           moved == Moved(decision, prices)
           price == plan.price
<1>1. decision \in Grants /\ y = plan.symbol /\ y \in Symbols /\ cur \in Currencies
      /\ price \in Nat /\ bought \in Nat /\ Full \in Nat
  BY PortfolioAssumption, UnitAssumption DEF Answers, PlanOf, Plans, Grants, Floor0
<1>2. y \in DOMAIN prices => price = prices[y]
  BY <1>1 DEF PlanOf, MarkPrice
<1>3. /\ after \in Matched
      /\ \A d \in Currencies \ {cur} : after.portfolio.cash[d] = before.portfolio.cash[d]
      /\ \A v \in Nat : (y \in DOMAIN prices => v = prices[y]) =>
           after.portfolio.cash[cur] = before.portfolio.cash[cur] - moved * v
  BY <1>1, DecisionBooked DEF CostFree
<1>4. \A d \in Currencies : /\ after.portfolio.cash[d] \in Int /\ before.portfolio.cash[d] \in Int
                            /\ old.cash[d] \in Nat /\ new.cash[d] \in Nat
  BY <1>3 DEF Matched, Books, Portfolios, Passes
<1>5. \A d \in Currencies :
        Taken(plan, decision, d) = IF d = cur THEN bought * (price * Full) ELSE 0
  BY <1>1 DEF Taken
<1>6. after.portfolio.cash[cur] >= before.portfolio.cash[cur] - bought * price
  <2>1. after.portfolio.cash[cur] = before.portfolio.cash[cur] - moved * price
    BY <1>1, <1>2, <1>3
  <2>2. moved \in Int /\ moved <= bought
    BY <1>1 DEF Moved, Floor0, Grants
  <2> HIDE DEF moved, bought, after, price
  <2>3. moved * price <= bought * price /\ moved * price \in Int /\ bought * price \in Int
    BY <1>1, <2>2
  <2> QED BY <1>1, <1>4, <2>1, <2>3
<1> HIDE DEF y, cur, after, bought, moved, price
<1>7. ASSUME NEW d \in Currencies PROVE after.portfolio.cash[d] * Full >= new.cash[d]
  <2>1. new.cash[d] <= old.cash[d] - Taken(plan, decision, d)
        /\ before.portfolio.cash[d] * Full >= old.cash[d]
    BY DEF Covers
  <2>2. CASE d # cur
    <3>1. after.portfolio.cash[d] = before.portfolio.cash[d] /\ Taken(plan, decision, d) = 0
      BY <1>3, <1>5, <2>2
    <3>2. before.portfolio.cash[d] * Full \in Int
      BY <1>1, <1>4
    <3> QED BY <1>4, <2>1, <3>1, <3>2
  <2>3. CASE d = cur
    <3> DEFINE a == after.portfolio.cash[d]
               b == before.portfolio.cash[d]
               paid == bought * price
    <3>1. a \in Int /\ b \in Int /\ paid \in Nat /\ a >= b - paid
      BY <1>1, <1>4, <1>6, <2>3
    <3>2. Taken(plan, decision, d) = paid * Full
      <4>1. bought * (price * Full) = (bought * price) * Full
        BY <1>1
      <4> QED BY <1>5, <2>3, <4>1
    <3> HIDE DEF a, b, paid
    <3>3. a * Full >= (b - paid) * Full /\ (b - paid) * Full = b * Full - paid * Full
          /\ a * Full \in Int /\ b * Full \in Int /\ paid * Full \in Int
      BY <1>1, <3>1
    <3>4. b * Full >= old.cash[d] /\ new.cash[d] <= old.cash[d] - paid * Full
      BY <2>1, <3>2 DEF b
    <3>5. a * Full >= new.cash[d]
      BY <1>4, <3>3, <3>4
    <3> QED BY <3>5 DEF a
  <2> QED BY <2>2, <2>3
<1> QED BY <1>7 DEF Covers, after

\* A cycle of the basic risk model keeps the balance, and without costs the cash covered.
LEMMA BasicSettled ==
  ASSUME setup \in Setups, NEW books \in Matched, Conserved(books), NEW prices \in PriceMaps,
         NEW quality, NEW plans, Sized(plans, books.portfolio, prices)
  PROVE  LET end == Settled(books, BasicDecisions(books.portfolio, prices, quality, plans), prices)
         IN Conserved(end) /\ (CostFree /\ Solvent(books) => Solvent(end))
<1> DEFINE p == books.portfolio
           m == Len(plans)
           decisions == BasicDecisions(p, prices, quality, plans)
           h == SettledOver(books, decisions, prices)
           covered == CostFree /\ Solvent(books)
<1>1. p \in Portfolios /\ m \in Nat /\ plans \in Seq(Plans) /\ OneTargetEach(plans)
      /\ \A n \in 1..m : PlanOf(plans[n], p, prices)
  BY DEF Matched, Books, Sized, PlanOf
<1>2. PICK g \in [0..m -> Passes] :
        g[0] = StartPass(p) /\ GrantedOver(g, decisions, plans, m)
  BY <1>1, BasicGranted
<1> HIDE DEF decisions
<1>3. decisions \in Seq(Grants) /\ Len(decisions) = m
      /\ \A n \in 1..m : GrantedAt(g, decisions, plans, n)
  BY <1>2 DEF GrantedOver
<1>4. SettledRun(h, books, decisions, prices)
  BY <1>3, SettledOverRuns
<1> HIDE DEF h
<1> DEFINE Holds(n) ==
             /\ Conserved(h[n])
             /\ \A i \in (n + 1)..m :
                  h[n].portfolio.quantity[plans[i].symbol] = p.quantity[plans[i].symbol]
             /\ covered => Covers(h[n], g[n])
           S == {n \in 0..m : Holds(n)}
<1>5. 0 \in S
  <2>1. 0 \in 0..m /\ h[0] = books
    BY <1>1, <1>4 DEF SettledRun
  <2>2. covered => Covers(h[0], g[0])
    BY <1>2, <2>1, StartCovered
  <2> HIDE DEF covered
  <2> QED BY <2>1, <2>2
<1>6. ASSUME NEW n \in 1..m, n - 1 \in S PROVE n \in S
  <2> DEFINE old == h[n - 1]
             new == h[n]
             d == decisions[n]
             y == d.symbol
  <2>1. n \in 0..m /\ n - 1 \in 0..m /\ Holds(n - 1) /\ (n - 1) + 1 = n
    BY <1>1, <1>6
  <2>2. old \in Matched /\ new = After(old, d, prices) /\ d \in Grants
    BY <1>3, <1>4, <2>1 DEF SettledRun
  <2>3. Answers(d, plans[n]) /\ d.granted \in Nat
        /\ \A c \in Currencies : g[n].cash[c] <= g[n - 1].cash[c] - Taken(plans[n], d, c)
    BY <1>3 DEF GrantedAt
  <2>4. y = plans[n].symbol /\ d.current = p.quantity[y] /\ y \in Symbols
        /\ PlanOf(plans[n], p, prices)
    BY <1>1, <2>2, <2>3 DEF Answers, PlanOf, Grants
  <2>5. old.portfolio.quantity[y] = p.quantity[y]
    <3>1. n \in ((n - 1) + 1)..m
      BY <2>1
    <3> QED BY <2>1, <2>4, <3>1
  <2>6. Conserved(old)
    BY <2>1
  <2> HIDE DEF old, new, d
  <2>7. Conserved(new)
    BY <2>2, <2>3, <2>4, <2>5, <2>6, DecisionBooked
  <2>8. ASSUME NEW i \in (n + 1)..m
        PROVE  new.portfolio.quantity[plans[i].symbol] = p.quantity[plans[i].symbol]
    <3>1. i \in 1..m /\ i # n /\ i \in ((n - 1) + 1)..m
      BY <1>1, <2>1
    <3>2. plans[i].symbol # y
      BY <1>1, <2>4, <3>1 DEF OneTargetEach
    <3>3. plans[i].symbol \in Symbols
      BY <1>1, <3>1 DEF PlanOf, Plans
    <3>4. new.portfolio.quantity[plans[i].symbol] = old.portfolio.quantity[plans[i].symbol]
      BY <2>2, <3>2, <3>3, DecisionBooked
    <3>5. old.portfolio.quantity[plans[i].symbol] = p.quantity[plans[i].symbol]
      BY <2>1, <3>1 DEF old
    <3> QED BY <3>4, <3>5
  <2>9. covered => Covers(new, g[n])
    <3>1. SUFFICES ASSUME covered PROVE Covers(new, g[n])
      OBVIOUS
    <3>2. Covers(old, g[n - 1]) /\ CostFree
      BY <2>1, <3>1 DEF old
    <3>3. g[n] \in Passes /\ g[n - 1] \in Passes
      BY <2>1
    <3> HIDE DEF covered
    <3> QED BY <2>2, <2>3, <2>4, <3>2, <3>3, DecisionCovered
  <2> QED BY <2>1, <2>7, <2>8, <2>9 DEF new
<1>7. 0..m \subseteq S
  <2> HIDE DEF S, m
  <2> QED BY <1>1, <1>5, <1>6, UpTo
<1>8. Holds(m) /\ m \in 0..m
  <2>1. m \in 0..m
    BY <1>1
  <2> HIDE DEF Holds
  <2> QED BY <1>7, <2>1
<1> DEFINE end == h[m]
<1>9. end \in Matched /\ g[m] \in Passes
  BY <1>2, <1>3, <1>4, <1>8 DEF SettledRun
<1>10. Settled(books, decisions, prices) = end
  BY <1>3 DEF Settled, h
<1>11. covered => Solvent(end)
  <2>1. SUFFICES ASSUME covered, NEW c \in Currencies PROVE end.portfolio.cash[c] >= 0
    BY DEF Solvent
  <2>2. end.portfolio.cash[c] * Full >= g[m].cash[c]
    BY <1>8, <2>1 DEF Covers
  <2> DEFINE cash == end.portfolio.cash[c]
  <2>3. cash \in Int /\ g[m].cash[c] \in Nat /\ Full \in Nat \ {0}
    BY <1>9, UnitAssumption DEF Matched, Books, Portfolios, Passes
  <2> HIDE DEF cash
  <2>4. cash * Full >= 0
    <3>1. cash * Full \in Int
      BY <2>3
    <3> QED BY <2>2, <2>3, <3>1 DEF cash
  <2>5. cash >= 0
    <3>1. SUFFICES ASSUME cash < 0 PROVE FALSE
      BY <2>3
    <3>2. cash * Full <= -1 * Full
      BY <2>3, <3>1
    <3> QED BY <2>3, <2>4, <3>2
  <2> QED BY <2>5 DEF cash
<1> QED BY <1>8, <1>10, <1>11 DEF decisions

--------------------------------------------------------------------------------
(* The books of a replay.                                                        *)

TheBooks == [portfolio |-> portfolio, tracker |-> tracker]

BooksInv ==
  /\ setup \in Setups
  /\ TheBooks \in Matched
  /\ setup.risk = "basic" => Conserved(TheBooks)
  /\ setup.risk = "basic" /\ CostFree => Solvent(TheBooks)

BacktestInv == FeedInv /\ BooksInv

LEMMA BooksStart == BacktestInit => BooksInv
<1> SUFFICES ASSUME BacktestInit PROVE BooksInv
  OBVIOUS
<1> DEFINE empty == << >>
<1>1. setup \in Setups /\ portfolio = EmptyPortfolio(InitialCash)
      /\ tracker = [lots |-> [y \in Symbols |-> <<>>], traded |-> 0, fees |-> 0, pnl |-> 0]
  BY DEF BacktestInit
<1>2. portfolio = [cash |-> InitialCash, quantity |-> [y \in Symbols |-> 0],
                   average |-> [y \in Symbols |-> 0]]
  BY <1>1 DEF EmptyPortfolio
<1>3. InitialCash \in [Currencies -> Nat] /\ InitialCash \in [Currencies -> Int]
  BY BacktestAssumption
<1>4. portfolio \in Portfolios
  BY <1>2, <1>3 DEF Portfolios
<1>5. tracker \in Trackers
  BY <1>1 DEF Trackers
<1>6. Shares(<< >>) = 0 /\ Cost(<< >>) = 0
  <2>1. DOMAIN << >> = {}
    OBVIOUS
  <2>2. DOMAIN [i \in DOMAIN << >> |-> << >>[i].quantity] = {}
        /\ DOMAIN [i \in DOMAIN << >> |-> << >>[i].quantity * << >>[i].price] = {}
    BY <2>1
  <2> QED BY <2>2, SumEmpty DEF Shares, Cost, SumFunction
<1>7. \A y \in Symbols : Shares(tracker.lots[y]) = 0 /\ Cost(tracker.lots[y]) = 0
                        /\ portfolio.quantity[y] = 0
  <2> SUFFICES ASSUME NEW y \in Symbols
               PROVE  Shares(tracker.lots[y]) = 0 /\ Cost(tracker.lots[y]) = 0
                      /\ portfolio.quantity[y] = 0
    OBVIOUS
  <2>1. tracker.lots[y] = << >>
    BY <1>1
  <2>2. portfolio.quantity[y] = 0
    BY <1>2
  <2> QED BY <1>6, <2>1, <2>2
<1>8. TheBooks \in Matched
  BY <1>4, <1>5, <1>7 DEF TheBooks, Matched, Books, LotsMatch
<1>9. Conserved(TheBooks)
  <2> DEFINE E == Earned(portfolio)
             I == Invested(tracker)
  <2>1. DOMAIN E = Currencies /\ DOMAIN I = Symbols
    BY DEF Earned, Invested
  <2>2. \A c \in Currencies : E[c] = 0
    BY <1>2, <1>3 DEF Earned
  <2>3. \A y \in Symbols : I[y] = 0
    BY <1>7 DEF Invested
  <2> HIDE DEF E, I
  <2>4. SumFunction(E) = 0 /\ SumFunction(I) = 0
    BY <2>1, <2>2, <2>3, SumZero, PortfolioAssumption DEF SumFunction
  <2>5. tracker.pnl = 0 /\ tracker.fees = 0
    BY <1>1
  <2> QED BY <2>4, <2>5 DEF Conserved, TheBooks, E, I
<1>10. Solvent(TheBooks)
  BY <1>2, <1>3 DEF Solvent, TheBooks
<1> QED BY <1>1, <1>8, <1>9, <1>10 DEF BooksInv

\* What a cycle aims at is a batch with one target of a symbol.
LEMMA BatchTyped ==
  ASSUME NEW batch \in Batches, NEW quality
  PROVE  LET aims == IF quality = "invalid" THEN <<>> ELSE batch
         IN aims \in Seq(Targets) /\ OneTargetEach(aims)
<1>1. batch \in Seq(Targets) /\ OneTargetEach(batch)
  BY BacktestAssumption DEF Targets
<1>2. << >> \in Seq(Targets) /\ OneTargetEach(<< >>)
  BY DEF OneTargetEach
<1> QED BY <1>1, <1>2

LEMMA TradingKeepsBooks ==
  ASSUME BooksInv, UNCHANGED setup, NEW prices \in PriceLists, NEW batch \in Batches, NEW quality, NEW reused,
         TradingSlice(prices, batch, quality, reused)
  PROVE  BooksInv'
<1> DEFINE aims == IF quality = "invalid" THEN <<>> ELSE batch
           plans == Size(portfolio, prices, aims, reused)
           equity == NativeSum(portfolio, prices)
           record == Breaker(breaker, DayOf(feed.n + 1), equity)
           decisions == Decisions(portfolio, prices, quality, plans, record)
           end == Settled(TheBooks, decisions, prices)
<1>1. setup \in Setups /\ TheBooks \in Matched /\ TheBooks.portfolio = portfolio
      /\ portfolio \in Portfolios
  BY DEF BooksInv, TheBooks, Matched, Books
<1>2. prices \in PriceMaps
  BY PriceListsTyped
<1>3. aims \in Seq(Targets) /\ OneTargetEach(aims)
  BY BatchTyped
<1>4. portfolio' = end.portfolio /\ tracker' = end.tracker
  BY DEF TradingSlice, TheBooks
<1> HIDE DEF aims
<1>5. Sized(plans, portfolio, prices)
  BY <1>1, <1>2, <1>3, SizeSized
<1> HIDE DEF plans, record, equity
<1>6. setup.risk = "basic" => decisions = BasicDecisions(portfolio, prices, quality, plans)
  BY DEF Decisions
<1>7. decisions \in Seq(Grants)
  <2>1. CASE setup.risk = "basic"
    <3>1. PICK h \in [0..Len(plans) -> Passes] :
            GrantedOver(h, BasicDecisions(portfolio, prices, quality, plans), plans, Len(plans))
      BY <1>1, <1>2, <1>5, BasicGranted
    <3> QED BY <1>6, <2>1, <3>1 DEF GrantedOver
  <2>2. CASE setup.risk # "basic"
    <3> DEFINE tripped == Tripped(record, NativeSum(portfolio, prices))
    <3>1. decisions = BreakerDecisions(tripped, plans)
      BY <2>2 DEF Decisions
    <3>2. tripped \in BOOLEAN
      BY DEF Tripped
    <3> HIDE DEF tripped, decisions
    <3>3. plans \in Seq(Plans)
      BY <1>5 DEF Sized
    <3> QED BY <3>1, <3>2, <3>3, BreakerAnswers
  <2> QED BY <2>1, <2>2
<1> HIDE DEF decisions
<1>8. end \in Matched
  BY <1>1, <1>2, <1>7, SettledMatched
<1>9. setup.risk = "basic" => Conserved(end) /\ (CostFree => Solvent(end))
  <2>1. SUFFICES ASSUME setup.risk = "basic" PROVE Conserved(end) /\ (CostFree => Solvent(end))
    OBVIOUS
  <2>2. Conserved(TheBooks) /\ (CostFree => Solvent(TheBooks))
    BY <2>1 DEF BooksInv
  <2>3. Sized(plans, TheBooks.portfolio, prices)
        /\ decisions = BasicDecisions(TheBooks.portfolio, prices, quality, plans)
    BY <1>1, <1>5, <1>6, <2>1
  <2> QED BY <1>1, <1>2, <2>2, <2>3, BasicSettled
<1> HIDE DEF end
<1>10. TheBooks' = end
  <2>1. end = [portfolio |-> end.portfolio, tracker |-> end.tracker]
    BY <1>8 DEF Matched, Books
  <2> QED BY <1>4, <2>1 DEF TheBooks
<1>11. setup' = setup /\ CostFree' = CostFree
  BY DEF CostFree
<1>12. BooksInv' = (/\ setup' \in Setups /\ TheBooks' \in Matched
                    /\ setup'.risk = "basic" => Conserved(TheBooks')
                    /\ setup'.risk = "basic" /\ CostFree' => Solvent(TheBooks'))
  BY DEF BooksInv, Conserved, Solvent, Earned, Invested
<1> QED BY <1>1, <1>8, <1>9, <1>10, <1>11, <1>12

LEMMA BooksStep == BooksInv /\ [BacktestNext]_backtestVars => BooksInv'
<1> SUFFICES ASSUME BooksInv, [BacktestNext]_backtestVars PROVE BooksInv'
  OBVIOUS
<1>1. CASE UNCHANGED <<setup, portfolio, tracker>>
  <2>1. TheBooks' = TheBooks /\ CostFree' = CostFree
    BY <1>1 DEF TheBooks, CostFree
  <2> QED BY <1>1, <2>1 DEF BooksInv, Conserved, Solvent
<1>2. CASE UNCHANGED backtestVars
  BY <1>1, <1>2 DEF backtestVars
<1>3. ASSUME NEW prices \in PriceLists, WarmUpSlice(prices), UNCHANGED setup PROVE BooksInv'
  BY <1>1, <1>3 DEF WarmUpSlice
<1>4. ASSUME NEW prices \in PriceLists, NEW batch \in Batches,
             NEW quality \in {"valid", "stale", "invalid"}, NEW reused \in BOOLEAN,
             TradingSlice(prices, batch, quality, reused), UNCHANGED setup
      PROVE  BooksInv'
  BY <1>4, TradingKeepsBooks
<1> QED BY <1>2, <1>3, <1>4 DEF BacktestNext

(* The state of a replay keeps its types, and the open lots that the report is   *)
(* made of (_SleeveBacktestTracker) are the holdings of the portfolio, under each *)
(* risk model, for each batch and each price list.                               *)
THEOREM BooksTyped == BacktestSpec => [](BacktestTypeOK /\ LotsMatchHoldings)
<1>1. BacktestInv => BacktestTypeOK /\ LotsMatchHoldings
  BY DEF BacktestInv, FeedInv, BooksInv, TheBooks, Matched, Books, Portfolios, Trackers, Lots,
         LotsMatch, BacktestTypeOK, LotsMatchHoldings
<1>2. BacktestInit => BacktestInv
  BY FeedStart, BooksStart DEF BacktestInv
<1>3. BacktestInv /\ [BacktestNext]_backtestVars => BacktestInv'
  BY FeedStep, BooksStep DEF BacktestInv
<1> QED BY <1>1, <1>2, <1>3, PTL DEF BacktestSpec

(* The books of a replay with the basic risk model balance after each slice: the *)
(* lots are the holdings, the cash is what was there and what closed trades gained *)
(* less what the lots cost and the fees, and without costs no cash is spent that  *)
(* is not there.                                                                 *)
THEOREM BooksAlwaysBalance == BacktestSpec => [](setup.risk = "basic" => BooksBalance)
<1>1. BacktestInv => BacktestTypeOK /\ LotsMatchHoldings
  BY DEF BacktestInv, FeedInv, BooksInv, TheBooks, Matched, Books, Portfolios, Trackers, Lots,
         LotsMatch, BacktestTypeOK, LotsMatchHoldings
<1>2. BooksInv /\ setup.risk = "basic" => MoneyConserved
  BY DEF BooksInv, Conserved, Earned, Invested, TheBooks, MoneyConserved
<1>3. BooksInv /\ setup.risk = "basic" => CashCovered
  BY DEF BooksInv, CostFree, Solvent, TheBooks, CashCovered
<1>4. BacktestInv => (setup.risk = "basic" => BooksBalance)
  BY <1>1, <1>2, <1>3 DEF BacktestInv, BooksBalance
<1>5. BacktestInit => BacktestInv
  BY FeedStart, BooksStart DEF BacktestInv
<1>6. BacktestInv /\ [BacktestNext]_backtestVars => BacktestInv'
  BY FeedStep, BooksStep DEF BacktestInv
<1> QED BY <1>4, <1>5, <1>6, PTL DEF BacktestSpec

(* A trading slice answers every plan with a decision and carries the decisions  *)
(* out, and nothing else moves.                                                  *)
Traded(plans, decisions, prices, old, new) ==
  /\ Sized(plans, old, prices) /\ OnHoldings(decisions, old) /\ Len(decisions) = Len(plans)
  /\ \A i \in DOMAIN plans : Answers(decisions[i], plans[i])
  /\ \A i \in DOMAIN plans : new.quantity[plans[i].symbol] = TradedTo(decisions[i], prices)
  /\ \A x \in Symbols : (\A i \in DOMAIN plans : plans[i].symbol # x)
                          => new.quantity[x] = old.quantity[x]
  /\ \A x \in Symbols \ DOMAIN prices : new.average[x] = old.average[x]

LEMMA SliceTrades ==
  ASSUME BooksInv, NEW prices \in PriceLists, NEW batch \in Batches, NEW quality, NEW reused,
         TradingSlice(prices, batch, quality, reused),
         NEW aims, aims = IF quality = "invalid" THEN <<>> ELSE batch,
         NEW plans, plans = Size(portfolio, prices, aims, reused)
  PROVE  /\ Traded(plans, slice'.decisions, prices, portfolio, portfolio')
         /\ slice'.decisions = Decisions(portfolio, prices, quality, plans, breaker')
         /\ breaker' = Breaker(breaker, DayOf(feed.n + 1), NativeSum(portfolio, prices))
         /\ portfolio \in Portfolios /\ prices \in PriceMaps /\ setup \in Setups
         /\ aims \in Seq(Targets) /\ OneTargetEach(aims)
<1> DEFINE record == Breaker(breaker, DayOf(feed.n + 1), NativeSum(portfolio, prices))
           decisions == Decisions(portfolio, prices, quality, plans, record)
           end == Settled(TheBooks, decisions, prices)
<1>1. setup \in Setups /\ TheBooks \in Matched /\ TheBooks.portfolio = portfolio
      /\ portfolio \in Portfolios
  BY DEF BooksInv, TheBooks, Matched, Books
<1>2. prices \in PriceMaps
  BY PriceListsTyped
<1>3. aims \in Seq(Targets) /\ OneTargetEach(aims)
  BY BatchTyped
<1>4. portfolio' = end.portfolio /\ slice'.decisions = decisions /\ breaker' = record
  BY DEF TradingSlice, TheBooks
<1>5. Sized(plans, portfolio, prices)
  BY <1>1, <1>2, <1>3, SizeSized
<1> HIDE DEF record
<1>6. OnHoldings(decisions, portfolio) /\ Len(decisions) = Len(plans)
      /\ \A i \in DOMAIN plans : Answers(decisions[i], plans[i])
  BY <1>1, <1>2, <1>5, DecisionsAnswer
<1>7. decisions \in Seq(Grants) /\ plans \in Seq(Plans)
  BY <1>5, <1>6 DEF OnHoldings, Sized
<1>8. DOMAIN decisions = DOMAIN plans /\ \A i \in DOMAIN plans : decisions[i].symbol = plans[i].symbol
  BY <1>6, <1>7 DEF Answers
<1> HIDE DEF decisions
<1>9. OnHoldings(decisions, TheBooks.portfolio) /\ portfolio' = Settled(TheBooks, decisions, prices).portfolio
  BY <1>1, <1>4, <1>6
<1> HIDE DEF end
<1>10. /\ \A i \in DOMAIN decisions :
            portfolio'.quantity[decisions[i].symbol] = TradedTo(decisions[i], prices)
       /\ \A x \in Symbols : (\A i \in DOMAIN decisions : decisions[i].symbol # x)
                               => portfolio'.quantity[x] = portfolio.quantity[x]
       /\ \A x \in Symbols \ DOMAIN prices : portfolio'.average[x] = portfolio.average[x]
  BY <1>1, <1>2, <1>9, CycleTrades
<1>11. Traded(plans, decisions, prices, portfolio, portfolio')
  BY <1>5, <1>6, <1>8, <1>10 DEF Traded
<1> QED BY <1>1, <1>2, <1>3, <1>4, <1>11 DEF record, decisions

LEMMA ExitSettled ==
  ASSUME BooksInv, NEW prices \in PriceLists, NEW batch \in Batches, NEW quality, NEW reused,
         TradingSlice(prices, batch, quality, reused), quality # "invalid",
         setup.minQuantity <= 1, setup.exitBelowMin,
         NEW k \in DOMAIN batch, batch[k].weight = 0, NEW y, y = batch[k].symbol,
         y \in DOMAIN prices, prices[y] > 0
  PROVE  portfolio'.quantity[y] = 0
<1> DEFINE plans == Size(portfolio, prices, batch, reused)
           decisions == slice'.decisions
<1>1. /\ Traded(plans, decisions, prices, portfolio, portfolio')
      /\ decisions = Decisions(portfolio, prices, quality, plans, breaker')
      /\ portfolio \in Portfolios /\ prices \in PriceMaps /\ setup \in Setups
      /\ batch \in Seq(Targets) /\ OneTargetEach(batch)
  BY SliceTrades
<1>2. MarkPrice(portfolio, prices, y) = prices[y] /\ y \in Symbols
  <2>1. batch[k] \in Targets
    BY <1>1
  <2> QED BY <2>1 DEF MarkPrice, Targets
<1>3. IF portfolio.quantity[y] = 0 THEN \A j \in DOMAIN plans : plans[j].symbol # y
      ELSE \E j \in DOMAIN plans : plans[j].symbol = y /\ plans[j].quantity = 0
  BY <1>1, <1>2, ExitSized
<1> HIDE DEF plans
<1>4. CASE portfolio.quantity[y] = 0
  BY <1>1, <1>2, <1>3, <1>4 DEF Traded
<1>5. CASE portfolio.quantity[y] # 0
  <2>1. PICK j \in DOMAIN plans : plans[j].symbol = y /\ plans[j].quantity = 0
    BY <1>3, <1>5
  <2>2. Sized(plans, portfolio, prices)
    BY <1>1 DEF Traded
  <2>3. plans[j].price # 0
    BY <1>2, <2>1, <2>2 DEF Sized
  <2>4. decisions[j] = Approved(plans[j], 0)
    BY <1>1, <2>1, <2>2, <2>3, DecisionsExit
  <2>5. TradedTo(decisions[j], prices) = 0
    BY <2>1, <2>4 DEF TradedTo, Approved, Floor0
  <2> QED BY <1>1, <2>1, <2>5 DEF Traded
<1> QED BY <1>4, <1>5

(* An exit goes through: a target of zero of a symbol with a bar leaves nothing  *)
(* of it after the cycle (_filter_rebalance_noise, the risk models and           *)
(* _split_quantity with the simulated fills), whatever the rest of the batch,    *)
(* the limits and the size of the slices.                                        *)
THEOREM ExitsGoThrough == BacktestSpec => ExitGoesThrough
<1> DEFINE Exits ==
      feed'.n > WarmUp /\ slice'.quality # "invalid" /\ setup.minQuantity <= 1 /\ setup.exitBelowMin
      => \A i \in DOMAIN slice'.batch :
           slice'.batch[i].weight = 0 /\ slice'.batch[i].symbol \in DOMAIN slice'.prices
           /\ slice'.prices[slice'.batch[i].symbol] > 0
           => portfolio'.quantity[slice'.batch[i].symbol] = 0
<1>1. FeedInv /\ BooksInv /\ [BacktestNext]_backtestVars => [Exits]_feed
  <2> SUFFICES ASSUME FeedInv, BooksInv, [BacktestNext]_backtestVars, feed' # feed PROVE Exits
    OBVIOUS
  <2>1. ASSUME NEW prices \in PriceLists, WarmUpSlice(prices) PROVE Exits
    <3>1. feed.n \in Nat /\ feed.n < WarmUp /\ feed'.n = feed.n + 1 /\ WarmUp \in Nat
      BY <2>1, BacktestAssumption DEF WarmUpSlice, Advance, FeedInv
    <3> QED BY <3>1
  <2>2. ASSUME NEW prices \in PriceLists, NEW batch \in Batches,
               NEW quality \in {"valid", "stale", "invalid"}, NEW reused \in BOOLEAN,
               TradingSlice(prices, batch, quality, reused)
        PROVE  Exits
    <3>1. slice'.prices = prices /\ slice'.batch = batch /\ slice'.quality = quality
      BY <2>2 DEF TradingSlice
    <3> SUFFICES ASSUME quality # "invalid", setup.minQuantity <= 1, setup.exitBelowMin,
                        NEW i \in DOMAIN batch, batch[i].weight = 0, batch[i].symbol \in DOMAIN prices,
                        prices[batch[i].symbol] > 0
                 PROVE  portfolio'.quantity[batch[i].symbol] = 0
      BY <3>1
    <3> QED BY <2>2, ExitSettled
  <2> HIDE DEF Exits
  <2> QED BY <2>1, <2>2 DEF BacktestNext, backtestVars
<1>2. BacktestInit => FeedInv /\ BooksInv
  BY FeedStart, BooksStart
<1>3. FeedInv /\ BooksInv /\ [BacktestNext]_backtestVars => FeedInv' /\ BooksInv'
  BY FeedStep, BooksStep
<1>4. [Exits]_feed => [ /\ feed'.n > WarmUp /\ slice'.quality # "invalid"
      /\ setup.minQuantity <= 1 /\ setup.exitBelowMin
      => \A i \in DOMAIN slice'.batch :
           LET target == slice'.batch[i]
           IN /\ target.weight = 0 /\ target.symbol \in DOMAIN slice'.prices
              /\ slice'.prices[target.symbol] > 0
              => portfolio'.quantity[target.symbol] = 0 ]_feed
  OBVIOUS
<1> HIDE DEF Exits
<1> QED BY <1>1, <1>2, <1>3, <1>4, PTL DEF BacktestSpec, ExitGoesThrough

\* What the last slice met is a batch and a price list.
SliceInv ==
  /\ slice.prices \in PriceMaps
  /\ slice.batch \in Seq(Targets) /\ OneTargetEach(slice.batch)

LEMMA SliceStart == BacktestInit => SliceInv
<1> SUFFICES ASSUME BacktestInit PROVE SliceInv
  OBVIOUS
<1>1. slice.prices = << >> /\ slice.batch = << >>
  BY DEF BacktestInit, NoSlice
<1>2. << >> \in PriceMaps
  <2>1. << >> \in [{} -> Nat] /\ {} \in SUBSET Symbols
    OBVIOUS
  <2> QED BY <2>1 DEF PriceMaps
<1>3. << >> \in Seq(Targets) /\ OneTargetEach(<< >>)
  BY DEF OneTargetEach
<1> QED BY <1>1, <1>2, <1>3 DEF SliceInv

LEMMA SliceStep == SliceInv /\ [BacktestNext]_backtestVars => SliceInv'
<1> SUFFICES ASSUME SliceInv, [BacktestNext]_backtestVars PROVE SliceInv'
  OBVIOUS
<1>1. CASE slice' = slice
  BY <1>1 DEF SliceInv, OneTargetEach
<1>2. ASSUME NEW prices \in PriceLists, NEW batch \in Batches,
             slice'.prices = prices, slice'.batch = batch
      PROVE  SliceInv'
  <2>1. prices \in PriceMaps /\ batch \in Seq(Targets) /\ OneTargetEach(batch)
    BY PriceListsTyped, BacktestAssumption DEF Targets
  <2> QED BY <1>2, <2>1 DEF SliceInv, OneTargetEach
<1> QED BY <1>1, <1>2 DEF BacktestNext, backtestVars, WarmUpSlice, TradingSlice

(* What rounding leaves is spent: for each batch and each price list the lot      *)
(* optimizer (_optimize_lots) stays within the budget of a currency, which every *)
(* plan of that currency draws on, and when its rounds are over no share it may  *)
(* add fits any more.                                                            *)
THEOREM BudgetSpentToItsEnd == BacktestSpec => []BudgetUsedUp
<1>1. BooksInv /\ SliceInv => BudgetUsedUp
  <2> SUFFICES ASSUME BooksInv, SliceInv PROVE BudgetUsedUp
    OBVIOUS
  <2> DEFINE raw == RawPlans(portfolio, slice.prices, slice.batch)
             sized == OptimizeLots(raw, portfolio, slice.prices)
  <2>1. portfolio \in Portfolios /\ setup \in Setups
    BY DEF BooksInv, TheBooks, Matched, Books
  <2>2. slice.prices \in PriceMaps /\ slice.batch \in Seq(Targets) /\ OneTargetEach(slice.batch)
    BY DEF SliceInv
  <2>3. Sized(raw, portfolio, slice.prices) /\ LackLessThanOne(raw)
    BY <2>1, <2>2, RawPlansSized, RawLacks
  <2> HIDE DEF raw
  <2>4. /\ WithinBudget(raw, sized, portfolio, slice.prices)
        /\ \A c \in Currencies : Fitting(sized, portfolio, slice.prices, c) = {}
    BY <2>1, <2>2, <2>3, OptimizerEnds
  <2> HIDE DEF sized
  <2> QED BY <2>4 DEF BudgetUsedUp, WithinBudget, Fitting, raw, sized
<1>2. BacktestInit => BooksInv /\ SliceInv
  BY BooksStart, SliceStart
<1>3. BooksInv /\ SliceInv /\ [BacktestNext]_backtestVars => BooksInv' /\ SliceInv'
  BY BooksStep, SliceStep
<1> QED BY <1>1, <1>2, <1>3, PTL DEF BacktestSpec
--------------------------------------------------------------------------------
(* The drawdown limit. The record of the breaker is the highest equity of all    *)
(* cycles; while it is zero there is no money, and nothing is aimed at.          *)

LEMMA NativeTyped ==
  ASSUME NEW p \in Portfolios, NEW prices \in PriceMaps
  PROVE  NativeSum(p, prices) \in Int
<1> DEFINE W == [c \in Currencies |-> Equity(p, prices, c)]
<1>1. DOMAIN W = Currencies /\ \A c \in Currencies : W[c] = Equity(p, prices, c)
  OBVIOUS
<1> HIDE DEF W
<1>2. \A c \in Currencies : W[c] \in Int
  BY <1>1, EquityTyped
<1>3. SumFunctionOnSet(W, Currencies) \in Int
  BY <1>2, SumType, PortfolioAssumption
<1> QED BY <1>1, <1>3 DEF NativeSum, SumFunction, W

NothingHeld(p) == \A y \in Symbols : p.quantity[y] = 0
NoDebts(p) == \A c \in Currencies : p.cash[c] >= 0

\* Without holdings the equity of a currency is its cash.
LEMMA EquityIsCash ==
  ASSUME NEW p \in Portfolios, NEW prices \in PriceMaps, NothingHeld(p), NEW c \in Currencies
  PROVE  Equity(p, prices, c) = p.cash[c]
<1> DEFINE W == [y \in Symbols |-> PositionValue(p, prices, y)]
<1>1. IsFiniteSet(In(c)) /\ In(c) \subseteq Symbols
  BY PortfolioAssumption, FS_Subset DEF In
<1>2. \A y \in In(c) : W[y] = 0
  <2> SUFFICES ASSUME NEW y \in In(c) PROVE W[y] = 0
    OBVIOUS
  <2>1. MarkPrice(p, prices, y) \in Nat /\ p.quantity[y] = 0 /\ y \in Symbols
    BY <1>1, MarkTyped DEF NothingHeld
  <2>2. W[y] = p.quantity[y] * MarkPrice(p, prices, y)
    BY <2>1 DEF PositionValue
  <2> HIDE DEF W
  <2> QED BY <2>1, <2>2
<1>3. SumFunctionOnSet(W, In(c)) = 0
  <2> HIDE DEF W
  <2> QED BY <1>1, <1>2, SumZero
<1>4. p.cash[c] \in Int
  BY DEF Portfolios
<1> QED BY <1>3, <1>4 DEF Equity

\* With nothing held and no money no plan is left to be filtered.
LEMMA BrokeIsIdle ==
  ASSUME NEW p \in Portfolios, NEW prices \in PriceMaps, setup \in Setups,
         NothingHeld(p), NoDebts(p), NativeSum(p, prices) <= 0,
         NEW batch \in Seq(Targets), OneTargetEach(batch), NEW reused,
         NEW sized, sized = Size(p, prices, batch, reused)
  PROVE  DOMAIN sized = {}
<1> DEFINE W == [c \in Currencies |-> Equity(p, prices, c)]
           raw == RawPlans(p, prices, batch)
           lots == OptimizeLots(raw, p, prices)
<1>1. \A c \in Currencies : Equity(p, prices, c) \in Nat
  BY EquityIsCash, EquityTyped DEF NoDebts
<1>2. \A c \in Currencies : Equity(p, prices, c) = 0
  <2> SUFFICES ASSUME NEW c \in Currencies PROVE Equity(p, prices, c) = 0
    OBVIOUS
  <2>1. DOMAIN W = Currencies /\ \A d \in Currencies : W[d] = Equity(p, prices, d)
    OBVIOUS
  <2> HIDE DEF W
  <2>2. IsFiniteSet(Currencies) /\ \A d \in Currencies : W[d] \in Nat /\ W[d] \in Int
    BY <1>1, <2>1, PortfolioAssumption
  <2>3. NativeSum(p, prices) = SumFunctionOnSet(W, Currencies)
    BY <2>1 DEF NativeSum, SumFunction, W
  <2>4. SumFunctionOnSet(W, Currencies) = W[c] + SumFunctionOnSet(W, Currencies \ {c})
    BY <2>2, SumWithout
  <2>5. SumFunctionOnSet(W, Currencies \ {c}) \in Nat
    BY <2>2, SumNatOn
  <2>6. W[c] \in Nat /\ W[c] + SumFunctionOnSet(W, Currencies \ {c}) <= 0
    BY <2>2, <2>3, <2>4
  <2>7. W[c] = 0
    BY <2>5, <2>6
  <2> QED BY <2>1, <2>7
<1>3. ASSUME NEW i \in DOMAIN batch
      PROVE  LET plan == SizingPlan(p, prices, batch[i])
             IN plan.quantity = 0 /\ plan.current = 0 /\ plan.desired = 0
  <2> DEFINE y == batch[i].symbol
             value == TargetValue(p, prices, CurrencyOf[y])
             desired == value * batch[i].weight
             price == MarkPrice(p, prices, y)
             unit == price * Scale
  <2>1. y \in Symbols /\ CurrencyOf[y] \in Currencies /\ batch[i].weight \in -Full..Full
    <3>1. batch[i] \in Targets
      OBVIOUS
    <3> QED BY <3>1, PortfolioAssumption DEF Targets
  <2>2. value = 0
    <3>1. value = 0 * (Full - setup.reserve) /\ Full - setup.reserve \in Int
      BY <1>2, <2>1, SizingAssumption, UnitAssumption DEF TargetValue
    <3> HIDE DEF value
    <3> QED BY <3>1
  <2>3. desired = 0
    <3>1. batch[i].weight \in Int
      BY <2>1, UnitAssumption
    <3> HIDE DEF value
    <3> QED BY <2>2, <3>1
  <2>4. price \in Nat /\ p.quantity[y] = 0
    BY <2>1, MarkTyped DEF NothingHeld
  <2>5. price # 0 => QuantityForValue(desired, price) = 0
    <3> SUFFICES ASSUME price # 0 PROVE QuantityForValue(desired, price) = 0
      OBVIOUS
    <3>1. QuantityForValue(desired, price)
            = IF desired >= 0 THEN desired \div unit ELSE -((-desired) \div unit)
      BY DEF QuantityForValue
    <3>2. unit \in Nat \ {0}
      BY <2>4, ScaleTyped
    <3> HIDE DEF desired, unit
    <3>3. 0 \div unit = 0
      BY <3>2
    <3> QED BY <2>3, <3>1, <3>3
  <2>6. ~(desired > 0)
    BY <2>3
  <2>7. SizingPlan(p, prices, batch[i])
          = [symbol |-> y, weight |-> batch[i].weight, urgent |-> batch[i].urgent, price |-> price,
             current |-> p.quantity[y], desired |-> desired,
             quantity |-> IF price = 0 THEN p.quantity[y]
                          ELSE IF /\ QuantityForValue(desired, price) = 0 /\ p.quantity[y] = 0
                                  /\ desired > 0 /\ LotsAtLeast(desired, price, setup.entryFloor)
                               THEN 1 ELSE QuantityForValue(desired, price)]
    BY DEF SizingPlan
  <2> HIDE DEF desired, price
  <2> QED BY <2>3, <2>4, <2>5, <2>6, <2>7
<1>4. /\ Alike(raw, lots) /\ DOMAIN raw = DOMAIN batch
      /\ \A i \in DOMAIN batch : raw[i] = SizingPlan(p, prices, batch[i])
      /\ \A j \in DOMAIN sized : \E i \in DOMAIN batch : ~Noise(lots[i], reused)
  BY SizeOfBatch
<1> HIDE DEF raw, lots
<1>5. ASSUME NEW i \in DOMAIN batch PROVE Noise(lots[i], reused)
  <2>1. raw[i].quantity = 0 /\ raw[i].current = 0 /\ raw[i].desired = 0
    BY <1>3, <1>4
  <2>2. lots[i] = raw[i]
    BY <1>4, <2>1 DEF Alike, Optimized
  <2>3. Delta(lots[i]) = 0
    BY <2>1, <2>2 DEF Delta
  <2> QED BY <2>3 DEF Noise
<1> QED BY <1>4, <1>5

PeakInv ==
  setup.risk = "drawdown" =>
    /\ breaker.equity = slice.highest /\ slice.highest \in Nat
    /\ slice.highest = 0 => NothingHeld(portfolio) /\ NoDebts(portfolio)

LEMMA PeakStart == BacktestInit => PeakInv
<1> SUFFICES ASSUME BacktestInit PROVE PeakInv
  OBVIOUS
<1>1. breaker.equity = 0 /\ slice.highest = 0
      /\ portfolio = [cash |-> InitialCash, quantity |-> [y \in Symbols |-> 0],
                      average |-> [y \in Symbols |-> 0]]
  BY DEF BacktestInit, NoSlice, EmptyPortfolio
<1>2. NothingHeld(portfolio) /\ NoDebts(portfolio)
  BY <1>1, BacktestAssumption DEF NothingHeld, NoDebts
<1> QED BY <1>1, <1>2 DEF PeakInv

\* A cycle of the drawdown model: the record moves up, a portfolio without money stays as
\* it is, and nothing grows far enough below the record.
LEMMA PeakTrades ==
  ASSUME BooksInv, PeakInv, UNCHANGED setup, setup.risk = "drawdown",
         NEW prices \in PriceLists, NEW batch \in Batches, NEW quality, NEW reused,
         TradingSlice(prices, batch, quality, reused)
  PROVE  /\ PeakInv'
         /\ (slice'.highest - slice'.equity) * Full >= setup.maxLoss * slice'.highest =>
              \A y \in Symbols : portfolio'.quantity[y] <= portfolio.quantity[y]
<1> DEFINE aims == IF quality = "invalid" THEN <<>> ELSE batch
           plans == Size(portfolio, prices, aims, reused)
           equity == NativeSum(portfolio, prices)
           decisions == slice'.decisions
           high == slice'.highest
<1>1. /\ Traded(plans, decisions, prices, portfolio, portfolio')
      /\ decisions = Decisions(portfolio, prices, quality, plans, breaker')
      /\ breaker' = Breaker(breaker, DayOf(feed.n + 1), equity)
      /\ portfolio \in Portfolios /\ prices \in PriceMaps /\ setup \in Setups
      /\ aims \in Seq(Targets) /\ OneTargetEach(aims)
  BY SliceTrades
<1>2. slice'.equity = equity /\ high = IF equity > slice.highest THEN equity ELSE slice.highest
  BY DEF TradingSlice
<1>3. portfolio' = Settled(TheBooks, decisions, prices).portfolio
  BY DEF TradingSlice, TheBooks
<1>4. equity \in Int /\ Full \in Nat \ {0}
  BY <1>1, NativeTyped, UnitAssumption
<1>5. ASSUME equity <= 0, NothingHeld(portfolio), NoDebts(portfolio)
      PROVE  portfolio' = portfolio
  <2>1. DOMAIN plans = {}
    BY <1>1, <1>5, BrokeIsIdle
  <2> HIDE DEF plans, decisions
  <2>2. Len(plans) = 0 /\ decisions \in Seq(Grants) /\ Len(decisions) = 0
    BY <1>1, <2>1 DEF Traded, Sized, OnHoldings
  <2>3. TheBooks \in Matched /\ TheBooks.portfolio = portfolio
    BY DEF BooksInv, TheBooks
  <2>4. SettledRun(SettledOver(TheBooks, decisions, prices), TheBooks, decisions, prices)
    BY <1>1, <2>2, <2>3, SettledOverRuns
  <2>5. Settled(TheBooks, decisions, prices) = TheBooks
    BY <2>2, <2>4 DEF SettledRun, Settled
  <2> QED BY <1>3, <2>3, <2>5
<1> HIDE DEF aims, plans, decisions, high
<1>6. slice.highest \in Nat /\ breaker.equity = slice.highest
      /\ (slice.highest = 0 => NothingHeld(portfolio) /\ NoDebts(portfolio))
  BY DEF PeakInv
<1>7. breaker'.equity = IF breaker.equity > equity THEN breaker.equity ELSE equity
  <2>1. setup.risk # "daily_loss"
    BY DEF PeakInv
  <2> QED BY <1>1, <2>1 DEF Breaker, PeakRecord
<1> HIDE DEF equity
<1>8. breaker'.equity = high /\ high \in Nat /\ (high = 0 => slice.highest = 0 /\ equity <= 0)
  BY <1>2, <1>4, <1>6, <1>7
<1>9. high = 0 => NothingHeld(portfolio) /\ NoDebts(portfolio) /\ portfolio' = portfolio
  BY <1>5, <1>6, <1>8
<1>10. PeakInv'
  BY <1>8, <1>9 DEF PeakInv, NothingHeld, NoDebts, high
<1>11. ASSUME (high - equity) * Full >= setup.maxLoss * high, high # 0, NEW y \in Symbols
       PROVE  portfolio'.quantity[y] <= portfolio.quantity[y]
  <2>0. portfolio.quantity[y] \in Nat
    BY <1>1 DEF Portfolios
  <2>1. high > 0
    BY <1>8, <1>11
  <2>2. Tripped(breaker', equity)
    BY <1>8, <1>11, <2>1 DEF Tripped
  <2>3. decisions = BreakerDecisions(Tripped(breaker', equity), plans)
    BY <1>1 DEF Decisions, equity
  <2>4. CASE \A i \in DOMAIN plans : plans[i].symbol # y
    BY <1>1, <2>0, <2>4 DEF Traded
  <2>5. ASSUME NEW i \in DOMAIN plans, plans[i].symbol = y
        PROVE  portfolio'.quantity[y] <= portfolio.quantity[y]
    <3> DEFINE plan == plans[i]
    <3>1. plan \in Plans /\ plan.current = portfolio.quantity[y]
      BY <1>1, <2>5 DEF Traded, Sized
    <3>2. portfolio'.quantity[y] = TradedTo(decisions[i], prices)
      BY <1>1, <2>5 DEF Traded
    <3>3. decisions[i] = IF plan.quantity > plan.current THEN Rejected(plan, "limit_exceeded")
                         ELSE Approved(plan, plan.quantity)
      BY <2>2, <2>3 DEF BreakerDecisions
    <3> HIDE DEF plan
    <3>4. plan.quantity \in Int /\ plan.current \in Nat
      BY <3>1 DEF Plans
    <3>5. CASE plan.quantity > plan.current
      BY <2>0, <3>1, <3>2, <3>3, <3>4, <3>5 DEF TradedTo, Rejected
    <3>6. CASE ~(plan.quantity > plan.current)
      <4>1. TradedTo(decisions[i], prices) = plan.current
            \/ TradedTo(decisions[i], prices) = Floor0(plan.quantity)
        BY <3>3, <3>6 DEF TradedTo, Approved
      <4>2. Floor0(plan.quantity) <= plan.current
        BY <3>4, <3>6 DEF Floor0
      <4> QED BY <3>1, <3>2, <3>4, <4>1, <4>2
    <3> QED BY <3>5, <3>6
  <2> QED BY <2>4, <2>5
<1>12. ASSUME high = 0, NEW y \in Symbols PROVE portfolio'.quantity[y] <= portfolio.quantity[y]
  BY <1>1, <1>9, <1>12 DEF Portfolios
<1> QED BY <1>2, <1>10, <1>11, <1>12 DEF high

LEMMA PeakStep == BooksInv /\ PeakInv /\ [BacktestNext]_backtestVars => PeakInv'
<1> SUFFICES ASSUME BooksInv, PeakInv, [BacktestNext]_backtestVars PROVE PeakInv'
  OBVIOUS
<1>1. CASE UNCHANGED <<setup, portfolio, breaker, slice>>
  BY <1>1 DEF PeakInv, NothingHeld, NoDebts
<1>2. CASE UNCHANGED backtestVars
  BY <1>1, <1>2 DEF backtestVars
<1>3. ASSUME NEW prices \in PriceLists, WarmUpSlice(prices), UNCHANGED setup PROVE PeakInv'
  BY <1>1, <1>3 DEF WarmUpSlice
<1>4. ASSUME NEW prices \in PriceLists, NEW batch \in Batches,
             NEW quality \in {"valid", "stale", "invalid"}, NEW reused \in BOOLEAN,
             TradingSlice(prices, batch, quality, reused), UNCHANGED setup
      PROVE  PeakInv'
  <2>1. CASE setup.risk = "drawdown"
    BY <1>4, <2>1, PeakTrades
  <2>2. CASE setup.risk # "drawdown"
    BY <1>4, <2>2 DEF PeakInv
  <2> QED BY <2>1, <2>2
<1> QED BY <1>2, <1>3, <1>4 DEF BacktestNext

(* The drawdown limit stops growth (DrawdownRiskManagementModel): below the limit *)
(* from the highest equity that any cycle has seen no position grows, whatever    *)
(* the batch, also when the equity falls to nothing.                              *)
THEOREM DrawdownHolds == BacktestSpec => DrawdownStops
<1> DEFINE Stops ==
      setup.risk = "drawdown" /\ feed'.n > WarmUp
      /\ (slice'.highest - slice'.equity) * Full >= setup.maxLoss * slice'.highest
      => \A y \in Symbols : portfolio'.quantity[y] <= portfolio.quantity[y]
<1>1. FeedInv /\ BooksInv /\ PeakInv /\ [BacktestNext]_backtestVars => [Stops]_feed
  <2> SUFFICES ASSUME FeedInv, BooksInv, PeakInv, [BacktestNext]_backtestVars, feed' # feed
               PROVE  Stops
    OBVIOUS
  <2>1. ASSUME NEW prices \in PriceLists, WarmUpSlice(prices) PROVE Stops
    <3>1. feed.n \in Nat /\ feed.n < WarmUp /\ feed'.n = feed.n + 1 /\ WarmUp \in Nat
      BY <2>1, BacktestAssumption DEF WarmUpSlice, Advance, FeedInv
    <3> QED BY <3>1
  <2>2. ASSUME NEW prices \in PriceLists, NEW batch \in Batches,
               NEW quality \in {"valid", "stale", "invalid"}, NEW reused \in BOOLEAN,
               TradingSlice(prices, batch, quality, reused), UNCHANGED setup
        PROVE  Stops
    BY <2>2, PeakTrades
  <2> HIDE DEF Stops
  <2> QED BY <2>1, <2>2 DEF BacktestNext, backtestVars
<1>2. BacktestInit => FeedInv /\ BooksInv /\ PeakInv
  BY FeedStart, BooksStart, PeakStart
<1>3. FeedInv /\ BooksInv /\ PeakInv /\ [BacktestNext]_backtestVars
        => FeedInv' /\ BooksInv' /\ PeakInv'
  BY FeedStep, BooksStep, PeakStep
<1>4. [Stops]_feed =>
        [ setup.risk = "drawdown" /\ feed'.n > WarmUp
          /\ (slice'.highest - slice'.equity) * Full >= setup.maxLoss * slice'.highest
          => \A y \in Symbols : portfolio'.quantity[y] <= portfolio.quantity[y] ]_feed
  OBVIOUS
<1> HIDE DEF Stops
<1> QED BY <1>1, <1>2, <1>3, <1>4, PTL DEF BacktestSpec, DrawdownStops
--------------------------------------------------------------------------------
(* The exposure limit of a batch: the last symbol that is bought knows what all  *)
(* the others were granted.                                                      *)

\* What the other holdings of a currency weigh is an integer.
LEMMA OtherTyped ==
  ASSUME NEW p \in Portfolios, NEW prices \in PriceMaps, NEW y \in Symbols,
         NEW granted \in [Symbols -> Int]
  PROVE  OtherExposure(p, prices, y, granted) \in Int
<1> DEFINE W == [x \in Symbols |-> Abs(granted[x]) * MarkPrice(p, prices, x)]
           others == {x \in In(CurrencyOf[y]) \ {y} : p.quantity[x] # 0}
<1>1. IsFiniteSet(others) /\ others \subseteq Symbols
  BY PortfolioAssumption, FS_Subset DEF In
<1>2. \A x \in others : W[x] \in Int
  <2> SUFFICES ASSUME NEW x \in others PROVE W[x] \in Int
    OBVIOUS
  <2>1. x \in Symbols /\ granted[x] \in Int /\ MarkPrice(p, prices, x) \in Nat
    BY <1>1, MarkTyped
  <2>2. Abs(granted[x]) \in Int
    BY <2>1 DEF Abs
  <2>3. W[x] = Abs(granted[x]) * MarkPrice(p, prices, x)
    BY <2>1
  <2> HIDE DEF W
  <2> QED BY <2>1, <2>2, <2>3
<1>3. OtherExposure(p, prices, y, granted) = SumFunctionOnSet(W, others)
  BY DEF OtherExposure
<1> HIDE DEF W, others
<1> QED BY <1>1, <1>2, <1>3, SumType

\* What the pass keeps of one answer, and what a grant that buys is bounded by.
Remembers(old, new, plan, grant) ==
  /\ \A x \in Symbols \ {plan.symbol} : new.granted[x] = old.granted[x]
  /\ grant.approved => new.granted[plan.symbol] = grant.granted
  /\ ~grant.approved => /\ new.granted[plan.symbol] = old.granted[plan.symbol]
                        /\ grant.granted = plan.current
WithinExposure(p, prices, old, plan, grant) ==
  setup.maxExposure < Full /\ grant.granted > plan.current =>
    grant.granted * (plan.price * Full)
      <= Equity(p, prices, CurrencyOf[plan.symbol]) * setup.maxExposure
           - OtherExposure(p, prices, plan.symbol, old.granted) * Full

LEMMA EvaluateGrants ==
  ASSUME NEW p \in Portfolios, NEW prices \in PriceMaps, setup \in Setups, NEW quality,
         NEW pass \in Passes, NEW plan, PlanOf(plan, p, prices),
         NEW grant \in Grants, NEW new, new = Evaluate(p, prices, quality, pass, plan),
         new.decisions = Append(pass.decisions, grant)
  PROVE  Remembers(pass, new, plan, grant) /\ WithinExposure(p, prices, pass, plan, grant)
<1> DEFINE y == plan.symbol
           currency == CurrencyOf[y]
           cash == pass.cash[currency]
           first == PositionLimited(p, prices, plan, plan.quantity)
           limited == ExposureLimited(p, prices, plan, first, pass.granted)
           quantity == CashLimited(plan, limited, cash)
           left == CashAfter(plan, quantity, cash)
           decide(decision) == [pass EXCEPT !.decisions = Append(@, decision)]
<1>1. plan \in Plans /\ y \in Symbols /\ currency \in Currencies
      /\ plan.current \in Nat /\ plan.price \in Nat /\ plan.quantity \in Int
  BY PortfolioAssumption DEF PlanOf, Plans
<1>2. cash \in Nat /\ pass.granted \in [Symbols -> Int] /\ pass.cash \in [Currencies -> Nat]
      /\ pass.decisions \in Seq(Grants)
      /\ pass = [cash |-> pass.cash, granted |-> pass.granted, decisions |-> pass.decisions]
  BY <1>1 DEF Passes
<1>3. \A decision : decide(decision) = [cash |-> pass.cash, granted |-> pass.granted,
                                        decisions |-> Append(pass.decisions, decision)]
  <2> SUFFICES ASSUME NEW decision
               PROVE  decide(decision) = [cash |-> pass.cash, granted |-> pass.granted,
                                          decisions |-> Append(pass.decisions, decision)]
    OBVIOUS
  <2>1. pass = [cash |-> pass.cash, granted |-> pass.granted, decisions |-> pass.decisions]
    BY <1>2
  <2> QED BY <2>1
<1>4. \A decision : Append(pass.decisions, decision) = Append(pass.decisions, grant) => decision = grant
  <2> SUFFICES ASSUME NEW decision, Append(pass.decisions, decision) = Append(pass.decisions, grant)
               PROVE  decision = grant
    OBVIOUS
  <2> DEFINE n == Len(pass.decisions) + 1
  <2>1. Append(pass.decisions, decision)[n] = decision /\ Append(pass.decisions, grant)[n] = grant
    BY <1>2
  <2> QED BY <2>1
<1> DEFINE Rests(reason) == new.granted = pass.granted /\ grant = Rejected(plan, reason)
           Grows == /\ new.granted = [pass.granted EXCEPT ![y] = quantity]
                    /\ grant = Approved(plan, quantity)
           open == ~(plan.quantity < 0) /\ ~BlockedByQuality(plan, quality) /\ plan.price # 0
<1>5. (\E reason : Rests(reason)) \/ (Grows /\ open)
  <2>1. CASE plan.quantity < 0
    <3>1. new = decide(Rejected(plan, "short_target_rejected"))
      BY <1>1, <2>1 DEF Evaluate
    <3> HIDE DEF decide
    <3>2. Rests("short_target_rejected")
      BY <1>3, <1>4, <3>1
    <3> QED BY <3>2
  <2>2. CASE plan.quantity >= 0 /\ BlockedByQuality(plan, quality)
    <3>1. new = decide(Rejected(plan, "snapshot_quality"))
      BY <1>1, <2>2 DEF Evaluate
    <3> HIDE DEF decide
    <3>2. Rests("snapshot_quality")
      BY <1>3, <1>4, <3>1
    <3> QED BY <3>2
  <2>3. CASE plan.quantity >= 0 /\ ~BlockedByQuality(plan, quality) /\ plan.price = 0
    <3>1. new = decide(Rejected(plan, "missing_or_invalid_price"))
      BY <1>1, <2>3 DEF Evaluate
    <3> HIDE DEF decide
    <3>2. Rests("missing_or_invalid_price")
      BY <1>3, <1>4, <3>1
    <3> QED BY <3>2
  <2>4. CASE open
    <3>1. new = IF quantity = plan.current /\ plan.quantity # plan.current
                THEN [decide(Rejected(plan, "insufficient_cash")) EXCEPT !.cash[currency] = left]
                ELSE [decide(Approved(plan, quantity)) EXCEPT !.cash[currency] = left,
                                                              !.granted[plan.symbol] = quantity]
      BY <1>1, <2>4 DEF Evaluate
    <3> HIDE DEF quantity, left, decide
    <3>2. CASE quantity = plan.current /\ plan.quantity # plan.current
      <4>1. new = [decide(Rejected(plan, "insufficient_cash")) EXCEPT !.cash[currency] = left]
        BY <3>1, <3>2
      <4>2. Rests("insufficient_cash")
        BY <1>3, <1>4, <4>1
      <4> QED BY <4>2
    <3>3. CASE ~(quantity = plan.current /\ plan.quantity # plan.current)
      <4>1. new = [decide(Approved(plan, quantity)) EXCEPT !.cash[currency] = left,
                                                           !.granted[plan.symbol] = quantity]
        BY <3>1, <3>3
      <4>2. Grows
        BY <1>3, <1>4, <4>1
      <4> QED BY <2>4, <4>2
    <3> QED BY <3>2, <3>3
  <2> HIDE DEF Rests, Grows
  <2> QED BY <1>1, <2>1, <2>2, <2>3, <2>4
<1>6. ASSUME NEW reason, Rests(reason)
      PROVE  /\ new.granted = pass.granted /\ ~grant.approved /\ grant.granted = plan.current
             /\ ~(grant.granted > plan.current)
  BY <1>1, <1>6 DEF Rejected
<1>7. ASSUME Grows, open
      PROVE  /\ \A x \in Symbols \ {y} : new.granted[x] = pass.granted[x]
             /\ grant.approved /\ new.granted[y] = grant.granted
             /\ setup.maxExposure < Full /\ grant.granted > plan.current =>
                  grant.granted * (plan.price * Full)
                    <= Equity(p, prices, CurrencyOf[y]) * setup.maxExposure
                         - OtherExposure(p, prices, y, pass.granted) * Full
  <2>1. grant.approved /\ grant.granted = quantity
    BY <1>7 DEF Approved
  <2>2. new.granted[y] = quantity /\ \A x \in Symbols \ {y} : new.granted[x] = pass.granted[x]
    BY <1>1, <1>2, <1>7
  <2>3. ASSUME setup.maxExposure < Full, quantity > plan.current
        PROVE  quantity * (plan.price * Full)
                 <= Equity(p, prices, CurrencyOf[y]) * setup.maxExposure
                      - OtherExposure(p, prices, y, pass.granted) * Full
    <3> DEFINE equity == Equity(p, prices, currency)
               other == OtherExposure(p, prices, y, pass.granted)
               rest == equity * setup.maxExposure - other * Full
               unit == plan.price * Full
               bound == Floor0(rest) \div unit
    <3>1. first \in Nat
      <4>1. plan.quantity \in Nat /\ plan.price # 0
        BY <1>1, <1>7
      <4>2. first \in 0..plan.quantity
        BY <1>1, <4>1, PositionLimitNat
      <4> HIDE DEF first
      <4> QED BY <4>1, <4>2
    <3>2. equity \in Int /\ unit \in Nat \ {0} /\ setup.maxExposure \in Nat /\ Full \in Nat \ {0}
      <4>1. equity \in Int
        BY <1>1, EquityTyped
      <4> QED BY <1>1, <1>7, <4>1, RiskAssumption, UnitAssumption
    <3>3. other \in Int
      BY <1>1, <1>2, OtherTyped
    <3>4. limited \in Nat /\ quantity \in 0..limited
      <4>1. limited \in 0..first
        BY <1>1, <1>2, <1>7, <3>1, ExposureLimitNat
      <4> HIDE DEF limited, first
      <4>2. limited \in Nat
        BY <3>1, <4>1
      <4> QED BY <1>1, <1>2, <1>7, <4>2, CashLimitCovered
    <3>5. limited = IF setup.maxExposure >= Full THEN first
                    ELSE IF equity <= 0 THEN 0 ELSE Bounded(first, bound)
      BY DEF ExposureLimited
    <3> HIDE DEF first, limited, quantity, equity, other, bound, unit
    <3>6. rest \in Int
      BY <3>2, <3>3
    <3> HIDE DEF rest
    <3>7. Floor0(rest) \in Nat
      BY <3>6 DEF Floor0
    <3>8. bound \in Nat /\ unit * bound <= Floor0(rest)
      <4> DEFINE f == Floor0(rest)
      <4>1. f \in Nat /\ f \in Int /\ bound = f \div unit
        BY <3>7 DEF bound
      <4> HIDE DEF f
      <4>2. unit * (f \div unit) <= f /\ f \div unit \in Nat
        BY <3>2, <4>1, DivBound, DivNat
      <4> QED BY <4>1, <4>2 DEF f
    <3>9. limited <= bound /\ quantity <= bound
      <4>1. limited = 0 \/ limited = Bounded(first, bound)
        BY <2>3, <3>2, <3>5
      <4>3. Bounded(first, bound) <= bound
        BY <3>1, <3>8, BoundedNat
      <4>2. limited <= bound
        BY <3>8, <4>1, <4>3
      <4> QED BY <3>4, <3>8, <4>2
    <3>10. quantity \in Nat /\ quantity > 0
      BY <1>1, <2>3, <3>4
    <3>11. quantity * unit <= unit * bound /\ quantity * unit > 0
           /\ quantity * unit \in Nat /\ unit * bound \in Nat
      BY <3>2, <3>8, <3>9, <3>10
    <3>12. quantity * unit <= rest
      BY <3>6, <3>7, <3>8, <3>11 DEF Floor0
    <3> QED BY <3>12 DEF rest, unit, equity, other
  <2> HIDE DEF quantity
  <2> QED BY <2>1, <2>2, <2>3
<1> HIDE DEF Grows, Rests, open
<1>8. /\ \A x \in Symbols \ {y} : new.granted[x] = pass.granted[x]
      /\ grant.approved => new.granted[y] = grant.granted
      /\ ~grant.approved => new.granted[y] = pass.granted[y] /\ grant.granted = plan.current
      /\ setup.maxExposure < Full /\ grant.granted > plan.current =>
           grant.granted * (plan.price * Full)
             <= Equity(p, prices, CurrencyOf[y]) * setup.maxExposure
                  - OtherExposure(p, prices, y, pass.granted) * Full
  BY <1>5, <1>6, <1>7
<1> QED BY <1>8 DEF Remembers, WithinExposure

\* The pass of a cycle: what is granted of a symbol is what is held until its plan comes.
PassRun(h, decisions, plans, p, prices, quality) ==
  /\ h \in [0..Len(plans) -> Passes] /\ h[0] = StartPass(p)
  /\ \A n \in 1..Len(plans) : h[n] = Evaluate(p, prices, quality, h[n - 1], plans[n])
  /\ GrantedOver(h, decisions, plans, Len(plans))

Known(h, decisions, plans, p, n, x) ==
  /\ (\A i \in 1..n : plans[i].symbol # x) => h[n].granted[x] = p.quantity[x]
  /\ \A i \in 1..n : plans[i].symbol = x =>
       h[n].granted[x] = IF decisions[i].approved THEN decisions[i].granted ELSE p.quantity[x]

LEMMA PassKnows ==
  ASSUME NEW p \in Portfolios, NEW prices \in PriceMaps, setup \in Setups, NEW quality,
         NEW plans, Sized(plans, p, prices), NEW decisions, NEW h,
         PassRun(h, decisions, plans, p, prices, quality),
         NEW n \in 0..Len(plans), NEW x \in Symbols
  PROVE  Known(h, decisions, plans, p, n, x)
<1> DEFINE m == Len(plans)
           Y(i) == plans[i].symbol
           None(k) == (\A i \in 1..k : Y(i) # x) => h[k].granted[x] = p.quantity[x]
           One(k) == \A i \in 1..k : Y(i) = x =>
                       h[k].granted[x]
                         = IF decisions[i].approved THEN decisions[i].granted ELSE p.quantity[x]
           S == {k \in 0..m : None(k) /\ One(k)}
<1>1. m \in Nat /\ plans \in Seq(Plans) /\ DOMAIN plans = 1..m
      /\ \A i, j \in 1..m : Y(i) = Y(j) => i = j
  BY DEF Sized, OneTargetEach
<1>2. 0 \in S
  <2>1. h[0].granted[x] = p.quantity[x] /\ 1..0 = {} /\ 0 \in 0..m
    BY <1>1 DEF PassRun, StartPass
  <2> QED BY <2>1
<1>3. ASSUME NEW k \in 1..m, k - 1 \in S PROVE k \in S
  <2>1. k \in 0..m /\ k - 1 \in 0..m /\ None(k - 1) /\ One(k - 1)
        /\ 1..k = 1..(k - 1) \cup {k} /\ k \notin 1..(k - 1) /\ 1..(k - 1) \subseteq 1..m
    BY <1>1, <1>3
  <2>2. h[k] = Evaluate(p, prices, quality, h[k - 1], plans[k]) /\ h[k - 1] \in Passes
        /\ GrantedAt(h, decisions, plans, k) /\ decisions \in Seq(Grants) /\ Len(decisions) = m
    BY <2>1 DEF PassRun, GrantedOver
  <2>3. PlanOf(plans[k], p, prices) /\ decisions[k] \in Grants
    BY <1>1, <2>2 DEF Sized, PlanOf
  <2>4. h[k].decisions = Append(h[k - 1].decisions, decisions[k])
    BY <2>2 DEF GrantedAt
  <2>5. /\ x # Y(k) => h[k].granted[x] = h[k - 1].granted[x]
        /\ x = Y(k) /\ decisions[k].approved => h[k].granted[x] = decisions[k].granted
        /\ x = Y(k) /\ ~decisions[k].approved => h[k].granted[x] = h[k - 1].granted[x]
    <3> DEFINE pass == h[k - 1]
               end == h[k]
               plan == plans[k]
               grant == decisions[k]
    <3> HIDE DEF pass, end, plan, grant
    <3>1. pass \in Passes /\ end = Evaluate(p, prices, quality, pass, plan) /\ grant \in Grants
          /\ end.decisions = Append(pass.decisions, grant) /\ PlanOf(plan, p, prices)
      BY <2>2, <2>3, <2>4 DEF pass, end, plan, grant
    <3>2. Remembers(pass, end, plan, grant)
      BY <3>1, EvaluateGrants
    <3> QED BY <3>2 DEF pass, end, plan, grant, Remembers
  <2>6. ASSUME x # Y(k) PROVE None(k) /\ One(k)
    <3>1. None(k)
      BY <2>1, <2>5, <2>6
    <3>2. One(k)
      BY <2>1, <2>5, <2>6
    <3> QED BY <3>1, <3>2
  <2>7. ASSUME x = Y(k) PROVE None(k) /\ One(k)
    <3>1. \A i \in 1..(k - 1) : Y(i) # x
      BY <1>1, <2>1, <2>7
    <3>2. h[k - 1].granted[x] = p.quantity[x]
      BY <2>1, <3>1
    <3>3. \A i \in 1..k : Y(i) = x => i = k
      BY <2>1, <3>1
    <3>4. One(k)
      BY <2>5, <2>7, <3>2, <3>3
    <3>5. None(k)
      BY <2>1, <2>7
    <3> QED BY <3>4, <3>5
  <2> HIDE DEF None, One
  <2> QED BY <2>1, <2>6, <2>7
<1>4. 0..m \subseteq S
  <2> HIDE DEF S, m
  <2> QED BY <1>1, <1>2, <1>3, UpTo
<1>5. None(n) /\ One(n)
  <2> HIDE DEF None, One
  <2> QED BY <1>4
<1> QED BY <1>5 DEF Known

Bought(c, old, new) == {y \in In(c) : new.quantity[y] > old.quantity[y]}
Stuck(c, decisions, prices) ==
  {i \in DOMAIN decisions : /\ decisions[i].symbol \in In(c) \ DOMAIN prices
                            /\ decisions[i].granted < decisions[i].current}

\* The last one of the bought symbols, when the others were held before, and what the rest
\* of the currency holds after the cycle: no more than the pass counted.
LEMMA LastBought ==
  ASSUME NEW p \in Portfolios, NEW new \in Portfolios, NEW prices \in PriceMaps, setup \in Setups,
         NEW quality, NEW plans, NEW decisions, Traded(plans, decisions, prices, p, new),
         NEW h, PassRun(h, decisions, plans, p, prices, quality), NEW c \in Currencies,
         Bought(c, p, new) # {}, Stuck(c, decisions, prices) = {}
  PROVE  \E k \in DOMAIN plans :
           /\ plans[k].symbol \in Bought(c, p, new) /\ plans[k].symbol \in DOMAIN prices
           /\ decisions[k].granted = new.quantity[plans[k].symbol]
           /\ decisions[k].granted > plans[k].current
           /\ \A x \in In(c) \ {plans[k].symbol} :
                (x \in Bought(c, p, new) /\ p.quantity[x] = 0)
                \/ new.quantity[x] <= h[k - 1].granted[x]
<1> DEFINE m == Len(plans)
           Y(i) == plans[i].symbol
           bought == Bought(c, p, new)
           I == {i \in 1..m : Y(i) \in bought}
<1>1. m \in Nat /\ plans \in Seq(Plans) /\ DOMAIN plans = 1..m
      /\ \A i, j \in 1..m : Y(i) = Y(j) => i = j
  BY DEF Traded, Sized, OneTargetEach
<1>2. \A x \in Symbols : new.quantity[x] \in Nat /\ p.quantity[x] \in Nat
  BY DEF Portfolios
<1>3. In(c) \subseteq Symbols
  BY DEF In
<1>4. ASSUME NEW i \in 1..m
      PROVE  /\ Y(i) \in Symbols /\ plans[i].current = p.quantity[Y(i)]
             /\ decisions[i].symbol = Y(i) /\ decisions[i].current = p.quantity[Y(i)]
             /\ decisions[i].granted \in Nat /\ i \in DOMAIN decisions
             /\ new.quantity[Y(i)] = IF decisions[i].approved /\ Y(i) \in DOMAIN prices
                                     THEN decisions[i].granted ELSE p.quantity[Y(i)]
  <2>1. plans[i] \in Plans /\ plans[i].current = p.quantity[Y(i)]
    BY <1>1 DEF Traded, Sized
  <2>2. decisions[i].symbol = Y(i) /\ decisions[i].current = p.quantity[Y(i)]
    BY <1>1, <2>1 DEF Traded, Answers
  <2>3. decisions[i].granted \in Nat
    BY DEF PassRun, GrantedOver, GrantedAt
  <2>4. new.quantity[Y(i)] = TradedTo(decisions[i], prices)
    BY <1>1 DEF Traded
  <2>5. Floor0(decisions[i].granted) = decisions[i].granted
    BY <2>3 DEF Floor0
  <2>6. i \in DOMAIN decisions
    BY DEF PassRun, GrantedOver
  <2> QED BY <2>1, <2>2, <2>3, <2>4, <2>5, <2>6 DEF TradedTo, Plans
<1>5. \A y \in bought : \E i \in 1..m : Y(i) = y
  <2> SUFFICES ASSUME NEW y \in bought, \A i \in 1..m : Y(i) # y PROVE FALSE
    OBVIOUS
  <2>1. y \in Symbols /\ new.quantity[y] > p.quantity[y]
    BY <1>3 DEF Bought
  <2>2. new.quantity[y] = p.quantity[y]
    BY <1>1, <2>1 DEF Traded
  <2> QED BY <1>2, <2>1, <2>2
<1>6. PICK k \in I : \A i \in I : k >= i
  <2>1. I \subseteq 0..m /\ I # {}
    BY <1>1, <1>5
  <2> HIDE DEF I, m
  <2> QED BY <1>1, <2>1, GreatestNumber
<1>7. k \in 1..m /\ Y(k) \in bought /\ k - 1 \in 0..m /\ k \in Int
  BY <1>1, <1>6
<1>8. new.quantity[Y(k)] > p.quantity[Y(k)]
  BY <1>7 DEF Bought
<1>9. decisions[k].approved /\ Y(k) \in DOMAIN prices /\ new.quantity[Y(k)] = decisions[k].granted
  BY <1>2, <1>4, <1>7, <1>8
<1>10. ASSUME NEW x \in In(c) \ {Y(k)}, ~(x \in bought /\ p.quantity[x] = 0)
       PROVE  new.quantity[x] <= h[k - 1].granted[x]
  <2>1. x \in Symbols
    BY <1>3
  <2>2. /\ (\A i \in 1..(k - 1) : Y(i) # x) => h[k - 1].granted[x] = p.quantity[x]
        /\ \A i \in 1..(k - 1) : Y(i) = x =>
             h[k - 1].granted[x]
               = IF decisions[i].approved THEN decisions[i].granted ELSE p.quantity[x]
    <3>1. Sized(plans, p, prices)
      BY DEF Traded
    <3> DEFINE n == k - 1
    <3>2. n \in 0..Len(plans)
      BY <1>7
    <3> HIDE DEF n
    <3>3. Known(h, decisions, plans, p, n, x)
      BY <2>1, <3>1, <3>2, PassKnows
    <3> QED BY <3>3 DEF n, Known
  <2>3. ASSUME \A i \in 1..(k - 1) : Y(i) # x PROVE new.quantity[x] <= h[k - 1].granted[x]
    <3>1. ~(new.quantity[x] > p.quantity[x])
      <4>1. SUFFICES ASSUME x \in bought PROVE FALSE
        BY DEF Bought
      <4>2. PICK i \in 1..m : Y(i) = x
        BY <1>5, <4>1
      <4>3. i \in I /\ i # k /\ i <= k
        BY <1>6, <4>1, <4>2
      <4>4. i \in 1..(k - 1)
        BY <1>1, <1>7, <4>3
      <4> QED BY <2>3, <4>2, <4>4
    <3> QED BY <1>2, <2>1, <2>2, <2>3, <3>1
  <2>4. ASSUME NEW i \in 1..(k - 1), Y(i) = x PROVE new.quantity[x] <= h[k - 1].granted[x]
    <3>1. i \in 1..m
      BY <1>1, <1>7
    <3>2. h[k - 1].granted[x]
            = IF decisions[i].approved THEN decisions[i].granted ELSE p.quantity[x]
      BY <2>2, <2>4
    <3>3. x \notin DOMAIN prices => ~(decisions[i].granted < decisions[i].current)
      BY <1>4, <2>4, <3>1 DEF Stuck
    <3> QED BY <1>2, <1>4, <2>1, <2>4, <3>1, <3>2, <3>3
  <2> QED BY <2>3, <2>4
<1>11. decisions[k].granted > plans[k].current
  BY <1>4, <1>7, <1>8, <1>9
<1> QED BY <1>1, <1>7, <1>9, <1>10, <1>11

ExposureOf(p, prices, c) ==
  SumFunctionOnSet([y \in Symbols |-> p.quantity[y] * MarkPrice(p, prices, y)], In(c))

\* The exposure limit of one batch.
LEMMA BatchLimited ==
  ASSUME NEW p \in Portfolios, NEW new \in Portfolios, NEW prices \in PriceMaps, setup \in Setups,
         setup.maxExposure < Full,
         NEW quality, NEW plans, NEW decisions, Traded(plans, decisions, prices, p, new),
         NEW h, PassRun(h, decisions, plans, p, prices, quality), NEW c \in Currencies,
         Bought(c, p, new) # {}, Stuck(c, decisions, prices) = {},
         ~(Cardinality(Bought(c, p, new)) > 1 /\ \E y \in Bought(c, p, new) : p.quantity[y] = 0)
  PROVE  ExposureOf(new, prices, c) * Full <= Equity(p, prices, c) * setup.maxExposure
<1> DEFINE bought == Bought(c, p, new)
<1>1. PICK k \in DOMAIN plans :
        /\ plans[k].symbol \in bought /\ plans[k].symbol \in DOMAIN prices
        /\ decisions[k].granted = new.quantity[plans[k].symbol]
        /\ decisions[k].granted > plans[k].current
        /\ \A x \in In(c) \ {plans[k].symbol} :
             (x \in bought /\ p.quantity[x] = 0) \/ new.quantity[x] <= h[k - 1].granted[x]
  BY LastBought
<1> DEFINE plan == plans[k]
           y == plan.symbol
           old == h[k - 1]
           V == [x \in Symbols |-> new.quantity[x] * MarkPrice(new, prices, x)]
           W == [x \in Symbols |-> Abs(old.granted[x]) * MarkPrice(p, prices, x)]
           T == In(c) \ {y}
           others == {x \in T : p.quantity[x] # 0}
<1>2. k \in 1..Len(plans) /\ plan \in Plans /\ PlanOf(plan, p, prices) /\ Len(plans) \in Nat
  BY DEF Traded, Sized, PlanOf
<1>3. y \in In(c) /\ y \in Symbols /\ CurrencyOf[y] = c /\ In(c) \subseteq Symbols
      /\ IsFiniteSet(In(c)) /\ IsFiniteSet(T) /\ IsFiniteSet(others)
  <2>1. In(c) \subseteq Symbols /\ IsFiniteSet(In(c))
    BY PortfolioAssumption, FS_Subset DEF In
  <2>2. y \in In(c)
    BY <1>1 DEF Bought
  <2>3. T \subseteq In(c) /\ others \subseteq In(c)
    OBVIOUS
  <2> HIDE DEF T, others
  <2> QED BY <2>1, <2>2, <2>3, FS_Subset DEF In
<1>4. old \in Passes /\ h[k] = Evaluate(p, prices, quality, old, plan)
      /\ h[k].decisions = Append(old.decisions, decisions[k]) /\ decisions[k] \in Grants
  BY <1>2 DEF PassRun, GrantedOver, GrantedAt
<1>5. WithinExposure(p, prices, old, plan, decisions[k])
  <2> HIDE DEF plan, old
  <2> QED BY <1>2, <1>4, EvaluateGrants
<1>6. ASSUME NEW x \in Symbols
      PROVE  /\ MarkPrice(p, prices, x) \in Nat /\ MarkPrice(new, prices, x) = MarkPrice(p, prices, x)
             /\ new.quantity[x] \in Nat /\ old.granted[x] \in Int
             /\ V[x] = new.quantity[x] * MarkPrice(p, prices, x) /\ V[x] \in Nat
             /\ W[x] = Abs(old.granted[x]) * MarkPrice(p, prices, x) /\ W[x] \in Nat
  <2>1. MarkPrice(p, prices, x) \in Nat
    BY MarkTyped
  <2>2. MarkPrice(new, prices, x) = MarkPrice(p, prices, x)
    BY DEF MarkPrice, Traded
  <2>3. new.quantity[x] \in Nat /\ old.granted[x] \in Int
    BY <1>4 DEF Portfolios, Passes
  <2>4. Abs(old.granted[x]) \in Nat
    BY <2>3 DEF Abs
  <2>5. V[x] = new.quantity[x] * MarkPrice(p, prices, x)
        /\ W[x] = Abs(old.granted[x]) * MarkPrice(p, prices, x)
    BY <2>2
  <2> HIDE DEF V, W, old
  <2> QED BY <2>1, <2>2, <2>3, <2>4, <2>5
<1>7. \A x \in In(c) : V[x] \in Int /\ W[x] \in Int
  <2> SUFFICES ASSUME NEW x \in In(c) PROVE V[x] \in Int /\ W[x] \in Int
    OBVIOUS
  <2>1. x \in Symbols
    BY <1>3
  <2>2. V[x] \in Nat /\ W[x] \in Nat
    BY <1>6, <2>1
  <2> HIDE DEF V, W
  <2> QED BY <2>2
<1>8. ASSUME NEW x \in T \ others PROVE V[x] = 0
  <2>1. x \in In(c) /\ x # y /\ x \in Symbols /\ p.quantity[x] = 0
    BY <1>3
  <2>2. x \notin bought
    <3> SUFFICES ASSUME x \in bought PROVE FALSE
      OBVIOUS
    <3>1. {x, y} \subseteq bought /\ IsFiniteSet(bought)
      <4>1. bought \subseteq In(c)
        BY DEF Bought
      <4>2. IsFiniteSet(bought)
        <5> HIDE DEF bought
        <5> QED BY <1>3, <4>1, FS_Subset
      <4> QED BY <1>1, <4>2
    <3>2. Cardinality(bought) \in Nat /\ Cardinality(bought) # 0 /\ Cardinality(bought) # 1
      <4> HIDE DEF bought, y
      <4> QED BY <2>1, <3>1, FS_EmptySet, FS_Singleton, FS_CardinalityType
    <3>4. Cardinality(bought) > 1
      BY <3>2
    <3> QED BY <2>1, <3>4
  <2>3. ~(new.quantity[x] > p.quantity[x])
    BY <2>1, <2>2 DEF Bought
  <2>4. new.quantity[x] = 0
    BY <1>6, <2>1, <2>3
  <2>5. V[x] = 0 * MarkPrice(p, prices, x)
    BY <1>6, <2>1, <2>4
  <2> HIDE DEF V
  <2> QED BY <1>6, <2>1, <2>5
<1>9. ASSUME NEW x \in others PROVE V[x] <= W[x]
  <2>1. x \in Symbols /\ x \in In(c) \ {y} /\ p.quantity[x] # 0
    BY <1>3
  <2>2. new.quantity[x] <= old.granted[x]
    BY <1>1, <2>1
  <2> DEFINE q == new.quantity[x]
             g == Abs(old.granted[x])
             price == MarkPrice(p, prices, x)
  <2>3. q \in Nat /\ g \in Nat /\ price \in Nat /\ q <= g
    BY <1>6, <2>1, <2>2 DEF Abs
  <2>4. V[x] = q * price /\ W[x] = g * price
    BY <1>6, <2>1
  <2> HIDE DEF q, g, price, V, W
  <2>5. q * price <= g * price
    BY <2>3
  <2> QED BY <2>4, <2>5
<1>10. OtherExposure(p, prices, y, old.granted) = SumFunctionOnSet(W, others)
  BY <1>3 DEF OtherExposure
<1>11. ExposureOf(new, prices, c) = SumFunctionOnSet(V, In(c))
  BY DEF ExposureOf
<1>12. V[y] = decisions[k].granted * plan.price
  BY <1>1, <1>2, <1>3, <1>6 DEF PlanOf
<1>13. setup.maxExposure < Full /\ decisions[k].granted > plan.current
  BY <1>1
<1> HIDE DEF V, W, others
<1>14. SumFunctionOnSet(V, In(c)) = V[y] + SumFunctionOnSet(V, T)
  BY <1>3, <1>7, SumWithout
<1>15. SumFunctionOnSet(V, T) = SumFunctionOnSet(V, others)
  <2>1. others \in SUBSET T /\ \A x \in T : V[x] \in Int
    BY <1>7 DEF others
  <2> HIDE DEF T
  <2> QED BY <1>3, <1>8, <2>1, SumWithin
<1>16. SumFunctionOnSet(V, others) <= SumFunctionOnSet(W, others)
  <2>1. \A x \in others : V[x] \in Int /\ W[x] \in Int /\ V[x] <= W[x]
    BY <1>7, <1>9 DEF others
  <2> QED BY <1>3, <2>1, SumAtMost
<1>17. SumFunctionOnSet(V, others) \in Int /\ SumFunctionOnSet(W, others) \in Int
  <2>1. \A x \in others : V[x] \in Int /\ W[x] \in Int
    BY <1>7 DEF others
  <2> QED BY <1>3, <2>1, SumType
<1> DEFINE a == decisions[k].granted
           price == plan.price
           s == SumFunctionOnSet(V, others)
           o == SumFunctionOnSet(W, others)
           e == Equity(p, prices, c) * setup.maxExposure
<1>18. a * (price * Full) <= e - o * Full
  BY <1>3, <1>5, <1>10, <1>13 DEF WithinExposure
<1>19. a \in Int /\ price \in Nat /\ s \in Int /\ o \in Int /\ e \in Int /\ Full \in Nat /\ s <= o
  <2>1. Equity(p, prices, c) \in Int /\ setup.maxExposure \in Int
    BY EquityTyped, RiskAssumption, UnitAssumption
  <2>2. a \in Int
    <3> HIDE DEF plan, old
    <3> QED BY <1>4 DEF Grants
  <2>3. price \in Nat
    BY <1>2 DEF Plans
  <2>4. e \in Int
    BY <2>1
  <2> HIDE DEF a, price, e
  <2> QED BY <1>16, <1>17, <2>2, <2>3, <2>4, UnitAssumption
<1>20. ExposureOf(new, prices, c) = a * price + s
  BY <1>11, <1>12, <1>14, <1>15
<1> HIDE DEF a, price, s, o, e
<1>21. s * Full <= o * Full /\ a * (price * Full) = (a * price) * Full
       /\ (a * price + s) * Full = (a * price) * Full + s * Full
       /\ (a * price) * Full \in Int /\ s * Full \in Int /\ o * Full \in Int
  BY <1>19
<1>22. (a * price + s) * Full <= e
  BY <1>18, <1>19, <1>21
<1> QED BY <1>20, <1>22 DEF e

LEMMA ExposureTrades ==
  ASSUME BooksInv, BooksInv', UNCHANGED setup, setup.risk = "basic", setup.maxExposure < Full,
         NEW prices \in PriceLists, NEW batch \in Batches, NEW quality, NEW reused,
         TradingSlice(prices, batch, quality, reused), NEW c \in Currencies
  PROVE  \/ Bought(c, portfolio, portfolio') = {} \/ Stuck(c, slice'.decisions, prices) # {}
         \/ /\ Cardinality(Bought(c, portfolio, portfolio')) > 1
            /\ \E y \in Bought(c, portfolio, portfolio') : portfolio.quantity[y] = 0
         \/ ExposureOf(portfolio', prices, c) * Full <= Equity(portfolio, prices, c) * setup.maxExposure
<1> DEFINE aims == IF quality = "invalid" THEN <<>> ELSE batch
           plans == Size(portfolio, prices, aims, reused)
           decisions == slice'.decisions
<1>1. /\ Traded(plans, decisions, prices, portfolio, portfolio')
      /\ decisions = Decisions(portfolio, prices, quality, plans, breaker')
      /\ portfolio \in Portfolios /\ prices \in PriceMaps /\ setup \in Setups
  BY SliceTrades
<1>2. portfolio' \in Portfolios
  BY DEF BooksInv, TheBooks, Matched, Books
<1> HIDE DEF plans
<1>3. decisions = BasicDecisions(portfolio, prices, quality, plans) /\ Sized(plans, portfolio, prices)
  BY <1>1 DEF Decisions, Traded
<1> HIDE DEF decisions
<1>4. PICK h : PassRun(h, decisions, plans, portfolio, prices, quality)
  BY <1>1, <1>3, BasicGranted DEF PassRun
<1>5. \A new : new = portfolio' =>
        \/ Bought(c, portfolio, new) = {} \/ Stuck(c, decisions, prices) # {}
        \/ /\ Cardinality(Bought(c, portfolio, new)) > 1
           /\ \E y \in Bought(c, portfolio, new) : portfolio.quantity[y] = 0
        \/ ExposureOf(new, prices, c) * Full <= Equity(portfolio, prices, c) * setup.maxExposure
  <2> SUFFICES ASSUME NEW new, new = portfolio', Bought(c, portfolio, new) # {},
                      Stuck(c, decisions, prices) = {},
                      ~(/\ Cardinality(Bought(c, portfolio, new)) > 1
                        /\ \E y \in Bought(c, portfolio, new) : portfolio.quantity[y] = 0)
               PROVE  ExposureOf(new, prices, c) * Full
                        <= Equity(portfolio, prices, c) * setup.maxExposure
    OBVIOUS
  <2>1. new \in Portfolios /\ Traded(plans, decisions, prices, portfolio, new)
    BY <1>1, <1>2 DEF decisions
  <2> QED BY <1>1, <1>4, <2>1, BatchLimited
<1> QED BY <1>5 DEF decisions

(* The exposure limit of the basic risk model (_clamp_total_exposure) holds for   *)
(* the whole batch: a target is bounded by what the others of its currency were   *)
(* granted before it, and the last one that buys knows them all, unless a bought  *)
(* symbol was not held before or a sale cannot be ordered.                        *)
THEOREM ExposureHolds == BacktestSpec => ExposureLimitHolds
<1> DEFINE Limited ==
      setup.risk = "basic" /\ setup.maxExposure < Full /\ feed'.n > WarmUp =>
      \A c \in Currencies :
        \/ Bought(c, portfolio, portfolio') = {} \/ Stuck(c, slice'.decisions, slice'.prices) # {}
        \/ /\ Cardinality(Bought(c, portfolio, portfolio')) > 1
           /\ \E y \in Bought(c, portfolio, portfolio') : portfolio.quantity[y] = 0
        \/ ExposureOf(portfolio', slice'.prices, c) * Full
             <= Equity(portfolio, slice'.prices, c) * setup.maxExposure
<1>1. FeedInv /\ BooksInv /\ BooksInv' /\ [BacktestNext]_backtestVars => [Limited]_feed
  <2> SUFFICES ASSUME FeedInv, BooksInv, BooksInv', [BacktestNext]_backtestVars, feed' # feed
               PROVE  Limited
    OBVIOUS
  <2>1. ASSUME NEW prices \in PriceLists, WarmUpSlice(prices) PROVE Limited
    <3>1. feed.n \in Nat /\ feed.n < WarmUp /\ feed'.n = feed.n + 1 /\ WarmUp \in Nat
      BY <2>1, BacktestAssumption DEF WarmUpSlice, Advance, FeedInv
    <3> QED BY <3>1
  <2>2. ASSUME NEW prices \in PriceLists, NEW batch \in Batches,
               NEW quality \in {"valid", "stale", "invalid"}, NEW reused \in BOOLEAN,
               TradingSlice(prices, batch, quality, reused), UNCHANGED setup
        PROVE  Limited
    <3>1. slice'.prices = prices
      BY <2>2 DEF TradingSlice
    <3> QED BY <2>2, <3>1, ExposureTrades
  <2> HIDE DEF Limited
  <2> QED BY <2>1, <2>2 DEF BacktestNext, backtestVars
<1>2. BacktestInit => FeedInv /\ BooksInv
  BY FeedStart, BooksStart
<1>3. FeedInv /\ BooksInv /\ [BacktestNext]_backtestVars => FeedInv' /\ BooksInv'
  BY FeedStep, BooksStep
<1>4. [Limited]_feed =>
        [ setup.risk = "basic" /\ setup.maxExposure < Full /\ feed'.n > WarmUp =>
          \A c \in Currencies :
            LET bought == {y \in In(c) : portfolio'.quantity[y] > portfolio.quantity[y]}
                stuck == {i \in DOMAIN slice'.decisions :
                            LET d == slice'.decisions[i]
                            IN /\ d.symbol \in In(c) \ DOMAIN slice'.prices
                               /\ d.granted < d.current}
                exposure == SumFunctionOnSet([y \in Symbols |-> portfolio'.quantity[y]
                                                * MarkPrice(portfolio', slice'.prices, y)], In(c))
            IN \/ bought = {} \/ stuck # {}
               \/ Cardinality(bought) > 1 /\ \E y \in bought : portfolio.quantity[y] = 0
               \/ exposure * Full <= Equity(portfolio, slice'.prices, c) * setup.maxExposure ]_feed
  BY DEF Bought, Stuck, ExposureOf
<1> HIDE DEF Limited
<1> QED BY <1>1, <1>2, <1>3, <1>4, PTL DEF BacktestSpec, ExposureLimitHolds

(* What the risk models promise for a batch: the drawdown limit of one and the    *)
(* exposure limit of the other hold for every cycle.                              *)
THEOREM RiskModelsKeepLimits == BacktestSpec => RiskLimitsHold
  BY DrawdownHolds, ExposureHolds DEF RiskLimitsHold
--------------------------------------------------------------------------------
(* Sizing again. Without costs a cycle trades at the price it marks at: what it  *)
(* is worth stays, and the same batch leads to the same plans.                   *)

\* What is moved of one symbol is worth what is paid for it.
LEMMA DecisionKeepsEquity ==
  ASSUME setup \in Setups, CostFree, NEW books \in Matched, NEW prices \in PriceMaps,
         NEW decision \in Grants, decision.granted \in Nat,
         decision.current = books.portfolio.quantity[decision.symbol],
         NEW end, end = After(books, decision, prices), NEW c \in Currencies
  PROVE  Equity(end.portfolio, prices, c) = Equity(books.portfolio, prices, c)
<1> DEFINE y == decision.symbol
           p == books.portfolio
           q == end.portfolio
           moved == Moved(decision, prices)
           W == [x \in Symbols |-> PositionValue(p, prices, x)]
           V == [x \in Symbols |-> PositionValue(q, prices, x)]
<1>1. y \in Symbols /\ decision.current \in Nat /\ decision.granted \in Nat /\ p \in Portfolios
  BY DEF Grants, Matched, Books
<1>2. /\ end \in Matched
      /\ \A x \in Symbols \ {y} : q.quantity[x] = p.quantity[x] /\ q.average[x] = p.average[x]
      /\ y \notin DOMAIN prices => q = p
      /\ q.quantity[y] = TradedTo(decision, prices)
      /\ \A d \in Currencies \ {CurrencyOf[y]} : q.cash[d] = p.cash[d]
      /\ \A price \in Nat : (y \in DOMAIN prices => price = prices[y]) =>
           q.cash[CurrencyOf[y]] = p.cash[CurrencyOf[y]] - moved * price
  BY DecisionBooked DEF CostFree
<1>3. CASE y \notin DOMAIN prices
  BY <1>2, <1>3
<1>4. CASE y \in DOMAIN prices
  <2> DEFINE price == prices[y]
  <2>1. price \in Nat /\ q \in Portfolios
    BY <1>1, <1>2, <1>4 DEF PriceMaps, Matched, Books
  <2>2. q.cash[CurrencyOf[y]] = p.cash[CurrencyOf[y]] - moved * price
    BY <1>2, <2>1
  <2>3. q.quantity[y] = p.quantity[y] + moved /\ moved \in Int
    BY <1>1, <1>2, <1>4 DEF TradedTo, Moved, Floor0
  <2>4. \A x \in Symbols : W[x] \in Int /\ V[x] \in Int
    <3> SUFFICES ASSUME NEW x \in Symbols PROVE W[x] \in Int /\ V[x] \in Int
      OBVIOUS
    <3>1. MarkPrice(p, prices, x) \in Nat /\ MarkPrice(q, prices, x) \in Nat
          /\ p.quantity[x] \in Nat /\ q.quantity[x] \in Nat
      BY <1>1, <2>1, MarkTyped DEF Portfolios
    <3>2. W[x] = p.quantity[x] * MarkPrice(p, prices, x) /\ V[x] = q.quantity[x] * MarkPrice(q, prices, x)
      BY DEF PositionValue
    <3> HIDE DEF W, V, p, q
    <3> QED BY <3>1, <3>2
  <2>5. \A x \in Symbols \ {y} : V[x] = W[x]
    BY <1>2 DEF PositionValue, MarkPrice
  <2>6. V[y] = W[y] + moved * price
    <3>1. W[y] = p.quantity[y] * price /\ V[y] = q.quantity[y] * price
      BY <1>1, <1>4 DEF PositionValue, MarkPrice
    <3>2. p.quantity[y] \in Nat
      BY <1>1 DEF Portfolios
    <3> HIDE DEF W, V, p, q, price, moved
    <3>3. (p.quantity[y] + moved) * price = p.quantity[y] * price + moved * price
      BY <2>1, <2>3, <3>2
    <3> QED BY <2>3, <3>1, <3>3
  <2>7. IsFiniteSet(In(c)) /\ In(c) \subseteq Symbols
    BY PortfolioAssumption, FS_Subset DEF In
  <2>8. p.cash[c] \in Int /\ q.cash[c] \in Int
    BY <1>1, <2>1 DEF Portfolios
  <2>9. Equity(p, prices, c) = p.cash[c] + SumFunctionOnSet(W, In(c))
        /\ Equity(q, prices, c) = q.cash[c] + SumFunctionOnSet(V, In(c))
    BY DEF Equity
  <2>10. CASE c = CurrencyOf[y]
    <3>1. y \in In(c)
      BY <1>1, <2>10 DEF In
    <3> HIDE DEF W, V, p, q, price, moved
    <3>2. SumFunctionOnSet(V, In(c)) = SumFunctionOnSet(W, In(c)) + (V[y] - W[y])
          /\ SumFunctionOnSet(W, In(c)) \in Int
      <4>1. \A x \in In(c) : W[x] \in Int /\ V[x] \in Int
        BY <2>4, <2>7
      <4>2. \A x \in In(c) \ {y} : V[x] = W[x]
        BY <2>5, <2>7
      <4> QED BY <2>7, <3>1, <4>1, <4>2, SumMoved
    <3> DEFINE paid == moved * price
    <3>3. paid \in Int
      BY <2>1, <2>3
    <3>4. q.cash[c] = p.cash[c] - paid /\ V[y] = W[y] + paid /\ W[y] \in Int
      BY <1>1, <2>2, <2>4, <2>6, <2>10
    <3> HIDE DEF paid
    <3>5. Equity(q, prices, c) = Equity(p, prices, c)
      BY <2>8, <2>9, <3>2, <3>3, <3>4
    <3> QED BY <3>5 DEF p, q
  <2>11. CASE c # CurrencyOf[y]
    <3>1. \A x \in In(c) : W[x] = V[x]
      BY <1>1, <2>5, <2>11 DEF In
    <3>2. q.cash[c] = p.cash[c]
      BY <1>2, <2>11
    <3> HIDE DEF W, V
    <3>3. SumFunctionOnSet(V, In(c)) = SumFunctionOnSet(W, In(c))
      BY <2>7, <3>1, SumSame
    <3> QED BY <2>9, <3>2, <3>3
  <2> QED BY <2>10, <2>11
<1> QED BY <1>3, <1>4

\* The same of a whole cycle, as long as nothing is sold short.
LEMMA CycleKeepsEquity ==
  ASSUME setup \in Setups, CostFree, NEW books \in Matched, NEW prices \in PriceMaps, NEW decisions,
         OnHoldings(decisions, books.portfolio), \A i \in DOMAIN decisions : decisions[i].granted \in Nat,
         NEW end, end = Settled(books, decisions, prices).portfolio, NEW c \in Currencies
  PROVE  Equity(end, prices, c) = Equity(books.portfolio, prices, c)
<1> DEFINE m == Len(decisions)
           p == books.portfolio
           h == SettledOver(books, decisions, prices)
           Y(i) == decisions[i].symbol
           Left(n) == \A i \in (n + 1)..m : h[n].portfolio.quantity[Y(i)] = p.quantity[Y(i)]
           Same(n) == Equity(h[n].portfolio, prices, c) = Equity(p, prices, c)
           S == {n \in 0..m : Left(n) /\ Same(n)}
<1>1. m \in Nat /\ DOMAIN decisions = 1..m /\ decisions \in Seq(Grants)
      /\ \A n \in 1..m : /\ decisions[n] \in Grants /\ Y(n) \in Symbols
                         /\ decisions[n].current = p.quantity[Y(n)] /\ decisions[n].granted \in Nat
  <2>1. decisions \in Seq(Grants) /\ m \in Nat /\ DOMAIN decisions = 1..m
    BY DEF OnHoldings
  <2>2. ASSUME NEW n \in 1..m
        PROVE  /\ decisions[n] \in Grants /\ Y(n) \in Symbols
               /\ decisions[n].current = p.quantity[Y(n)] /\ decisions[n].granted \in Nat
    <3>1. decisions[n] \in Grants
      BY <2>1
    <3>2. decisions[n].current = p.quantity[Y(n)] /\ decisions[n].granted \in Nat
      BY <2>1 DEF OnHoldings
    <3> QED BY <3>1, <3>2 DEF Grants
  <2> QED BY <2>1, <2>2
<1>2. \A i, j \in 1..m : Y(i) = Y(j) => i = j
  BY <1>1 DEF OnHoldings, OneTargetEach
<1>3. SettledRun(h, books, decisions, prices)
  BY <1>1, SettledOverRuns
<1> HIDE DEF h, Y
<1>4. 0 \in S
  <2>1. 0 \in 0..m /\ h[0] = books
    BY <1>1, <1>3 DEF SettledRun
  <2> QED BY <2>1
<1>5. ASSUME NEW n \in 1..m, n - 1 \in S PROVE n \in S
  <2> DEFINE old == h[n - 1]
             new == h[n]
             d == decisions[n]
             y == Y(n)
  <2>1. n \in 0..m /\ n - 1 \in 0..m /\ Left(n - 1) /\ Same(n - 1) /\ (n - 1) + 1 = n /\ n \in n..m
    BY <1>1, <1>5
  <2>2. old \in Matched /\ new = After(old, d, prices) /\ d \in Grants /\ y \in Symbols
        /\ d.symbol = y /\ d.current = p.quantity[y] /\ d.granted \in Nat
    BY <1>1, <1>3, <2>1 DEF SettledRun, Y
  <2>3. old.portfolio.quantity[y] = p.quantity[y]
    BY <2>1
  <2>4. \A x \in Symbols \ {y} : new.portfolio.quantity[x] = old.portfolio.quantity[x]
    <3> HIDE DEF old, new, d, y
    <3> QED BY <2>2, DecisionBooked
  <2>5. Left(n)
    <3> SUFFICES ASSUME NEW i \in (n + 1)..m
                 PROVE  new.portfolio.quantity[Y(i)] = p.quantity[Y(i)]
      OBVIOUS
    <3>1. i \in 1..m /\ i # n /\ i \in n..m
      BY <1>1, <2>1
    <3>2. Y(i) \in Symbols \ {y}
      BY <1>1, <1>2, <3>1
    <3>3. old.portfolio.quantity[Y(i)] = p.quantity[Y(i)]
      BY <2>1, <3>1
    <3> QED BY <2>4, <3>2, <3>3
  <2>6. Equity(new.portfolio, prices, c) = Equity(old.portfolio, prices, c)
    <3> HIDE DEF old, new, d, y
    <3> QED BY <2>2, <2>3, DecisionKeepsEquity
  <2>7. Same(n)
    BY <2>1, <2>6
  <2> HIDE DEF Left, Same
  <2> QED BY <2>1, <2>5, <2>7
<1>6. m \in S
  <2>1. 0..m \subseteq S
    <3> HIDE DEF S, m
    <3> QED BY <1>1, <1>4, <1>5, UpTo
  <2> QED BY <1>1, <2>1
<1>7. end = h[m].portfolio
  BY DEF Settled, h
<1> QED BY <1>6, <1>7
\* What two portfolios mark alike, a cycle can size alike.
SameWorth(p, q, prices) ==
  /\ \A c \in Currencies : Equity(q, prices, c) = Equity(p, prices, c)
  /\ \A y \in Symbols : MarkPrice(q, prices, y) = MarkPrice(p, prices, y)

\* Plans that the optimizer takes for the same.
Twins(a, b) ==
  /\ Len(a) = Len(b)
  /\ \A i \in DOMAIN a :
       /\ a[i].symbol = b[i].symbol /\ a[i].weight = b[i].weight
       /\ a[i].price = b[i].price /\ a[i].desired = b[i].desired
       /\ a[i].price # 0 => a[i].quantity = b[i].quantity

LEMMA TwinsFit ==
  ASSUME NEW p, NEW q, NEW prices, NEW a, NEW b, Sized(a, p, prices), Sized(b, q, prices),
         Twins(a, b), NEW c \in Currencies, Equity(q, prices, c) = Equity(p, prices, c)
  PROVE  Fitting(a, p, prices, c) = Fitting(b, q, prices, c)
<1>1. DOMAIN a = DOMAIN b /\ \A i \in DOMAIN a : a[i] \in Plans /\ b[i] \in Plans
  BY DEF Sized, Twins
<1>2. \A i \in DOMAIN a : /\ a[i].symbol = b[i].symbol /\ a[i].weight = b[i].weight
                          /\ a[i].price = b[i].price /\ a[i].desired = b[i].desired
                          /\ a[i].price # 0 => a[i].quantity = b[i].quantity
  BY DEF Twins
<1>3. \A i \in DOMAIN a : Optimized(a[i]) <=> Optimized(b[i])
  BY <1>2 DEF Optimized
<1>4. ASSUME NEW i \in DOMAIN a PROVE Money(a[i]) = Money(b[i]) /\ Gap(a[i]) = Gap(b[i])
  <2>1. CASE a[i].price # 0
    BY <1>2, <2>1 DEF Money, Gap
  <2>2. CASE a[i].price = 0
    <3>1. b[i].price = 0 /\ a[i].desired = b[i].desired
      BY <1>2, <2>2
    <3>2. a[i].quantity \in Int /\ b[i].quantity \in Int /\ Scale \in Nat
      BY <1>1, ScaleTyped DEF Plans
    <3>3. a[i].quantity * 0 = 0 /\ b[i].quantity * 0 = 0 /\ 0 * Scale = 0
      BY <3>2
    <3> QED BY <2>2, <3>1, <3>3 DEF Money, Gap
  <2> QED BY <2>1, <2>2
<1>5. IndexesIn(a, c) = IndexesIn(b, c)
  BY <1>1, <1>2, <1>3 DEF IndexesIn
<1>6. [i \in DOMAIN a |-> a[i].desired] = [i \in DOMAIN b |-> b[i].desired]
  BY <1>1, <1>2
<1>7. [i \in DOMAIN a |-> Money(a[i])] = [i \in DOMAIN b |-> Money(b[i])]
  BY <1>1, <1>4
<1>8. TargetValue(p, prices, c) = TargetValue(q, prices, c)
  BY DEF TargetValue
<1>9. Available(a, p, prices, c) = Available(b, q, prices, c)
  BY <1>5, <1>6, <1>7, <1>8 DEF Available, Budget, Spent
<1> DEFINE left == Available(a, p, prices, c)
<1>10. ASSUME NEW i \in IndexesIn(a, c)
       PROVE  i \in Candidates(a, c, left) <=> i \in Candidates(b, c, left)
  <2>1. i \in DOMAIN a
    BY DEF IndexesIn
  <2> HIDE DEF left
  <2> QED BY <1>2, <1>4, <1>5, <2>1 DEF Candidates
<1>11. Candidates(a, c, left) \subseteq IndexesIn(a, c) /\ Candidates(b, c, left) \subseteq IndexesIn(a, c)
  BY <1>5 DEF Candidates
<1> HIDE DEF left
<1>12. Candidates(a, c, left) = Candidates(b, c, left)
  BY <1>10, <1>11
<1> QED BY <1>9, <1>12 DEF Fitting, left

\* The optimizer finds the same best plan.
LEMMA TwinsBest ==
  ASSUME NEW p, NEW q, NEW prices, NEW a, NEW b, Sized(a, p, prices), Sized(b, q, prices),
         Twins(a, b), NEW S, S \subseteq DOMAIN a, \A i \in S : Optimized(a[i])
  PROVE  Best(a, S) = Best(b, S)
<1> DEFINE First(x, i) == \A j \in S : /\ ~Better(x[j], x[i])
                                       /\ Better(x[i], x[j]) \/ i <= j
<1>1. ASSUME NEW i \in S
      PROVE  a[i].weight = b[i].weight /\ a[i].price = b[i].price /\ Gap(a[i]) = Gap(b[i])
  <2>1. i \in DOMAIN a /\ a[i].price > 0 /\ a[i] \in Plans
    BY DEF Optimized, Sized
  <2>2. a[i].price # 0
    BY <2>1
  <2> QED BY <2>1, <2>2 DEF Twins, Gap, Money
<1>2. \A i, j \in S : Better(a[i], a[j]) <=> Better(b[i], b[j])
  BY <1>1 DEF Better
<1>3. \A i \in S : First(a, i) <=> First(b, i)
  BY <1>2
<1>4. Best(a, S) = (CHOOSE i \in S : First(a, i)) /\ Best(b, S) = (CHOOSE i \in S : First(b, i))
  BY DEF Best
<1> HIDE DEF First
<1>5. (CHOOSE i \in S : First(a, i)) = (CHOOSE i \in S : First(b, i))
  BY <1>3
<1> QED BY <1>4, <1>5

\* And gives it one share in both.
LEMMA TwinsStay ==
  ASSUME NEW p, NEW q, NEW prices, NEW a, NEW b, Sized(a, p, prices), Sized(b, q, prices),
         Twins(a, b), \A c \in Currencies : Equity(q, prices, c) = Equity(p, prices, c)
  PROVE  Twins(OneMore(a, p, prices), OneMore(b, q, prices))
<1> DEFINE Fit(c) == Fitting(a, p, prices, c)
           open == {c \in Currencies : Fit(c) # {}}
           c == CHOOSE d \in open : TRUE
           k == Best(a, Fit(c))
           more == [a EXCEPT ![k].quantity = @ + 1]
           also == [b EXCEPT ![k].quantity = @ + 1]
<1>1. \A d \in Currencies : Fitting(b, q, prices, d) = Fit(d)
  BY TwinsFit
<1>2. {d \in Currencies : Fitting(b, q, prices, d) # {}} = open
  BY <1>1
<1>3. CASE open = {}
  BY <1>2, <1>3 DEF OneMore
<1>4. CASE open # {}
  <2>1. c \in Currencies /\ Fit(c) # {}
    BY <1>4
  <2>2. OneMore(a, p, prices) = more
    BY <1>4 DEF OneMore
  <2>3. OneMore(b, q, prices) = [b EXCEPT ![Best(b, Fitting(b, q, prices, c))].quantity = @ + 1]
    BY <1>2, <1>4 DEF OneMore
  <2>4. Fitting(b, q, prices, c) = Fit(c)
    BY <1>1, <2>1
  <2>5. Fit(c) \subseteq DOMAIN a /\ \A i \in Fit(c) : Optimized(a[i]) /\ a[i].price > 0
    BY FittingTyped DEF Optimized
  <2> HIDE DEF c
  <2> DEFINE F == Fit(c)
  <2> HIDE DEF Fit
  <2>6. Best(b, F) = k
    BY <2>5, TwinsBest
  <2>7. k \in F
    BY <2>1, <2>5, BestOne DEF Sized
  <2>8. OneMore(b, q, prices) = also
    BY <2>3, <2>4, <2>6
  <2>9. k \in DOMAIN a /\ a[k].price # 0
    <3>1. k \in DOMAIN a /\ a[k].price > 0
      BY <2>5, <2>7
    <3> QED BY <3>1
  <2> HIDE DEF k
  <2>10. DOMAIN a = DOMAIN b /\ Len(more) = Len(a) /\ Len(also) = Len(b)
         /\ DOMAIN more = DOMAIN a /\ Len(a) = Len(b)
    BY DEF Sized, Twins
  <2>11. ASSUME NEW i \in DOMAIN a
         PROVE  /\ more[i].symbol = also[i].symbol /\ more[i].weight = also[i].weight
                /\ more[i].price = also[i].price /\ more[i].desired = also[i].desired
                /\ more[i].price # 0 => more[i].quantity = also[i].quantity
    <3>1. a[i] \in Plans /\ b[i] \in Plans
      BY <2>10 DEF Sized
    <3>2. /\ a[i].symbol = b[i].symbol /\ a[i].weight = b[i].weight
          /\ a[i].price = b[i].price /\ a[i].desired = b[i].desired
          /\ a[i].price # 0 => a[i].quantity = b[i].quantity
      BY DEF Twins
    <3>3. CASE i # k
      <4>1. more[i] = a[i] /\ also[i] = b[i]
        BY <2>10, <3>3
      <4> QED BY <3>2, <4>1
    <3>4. CASE i = k
      <4>1. more[i] = [a[i] EXCEPT !.quantity = @ + 1] /\ also[i] = [b[i] EXCEPT !.quantity = @ + 1]
        BY <2>10, <3>4
      <4> HIDE DEF more, also
      <4> QED BY <2>9, <3>1, <3>2, <3>4, <4>1 DEF Plans
    <3> QED BY <3>3, <3>4
  <2> HIDE DEF more, also
  <2>12. Twins(more, also)
    BY <2>10, <2>11 DEF Twins
  <2> QED BY <2>2, <2>8, <2>12
<1> QED BY <1>3, <1>4

\* So they end as twins.
LEMMA LotsTwins ==
  ASSUME NEW p, NEW q, NEW prices, NEW a, NEW b, Sized(a, p, prices), Sized(b, q, prices),
         Twins(a, b), \A c \in Currencies : Equity(q, prices, c) = Equity(p, prices, c)
  PROVE  Twins(OptimizeLots(a, p, prices), OptimizeLots(b, q, prices))
<1> DEFINE m == Len(a)
<1>1. m \in Nat /\ Len(b) = m
  BY DEF Sized, Twins
<1>2. PICK g : LotsRun(g, a, p, prices)
  BY OptimizedSized
<1>3. PICK h : LotsRun(h, b, q, prices)
  BY OptimizedSized
<1> DEFINE S == {n \in 0..m : Twins(g[n], h[n])}
<1>4. 0 \in S
  <2>1. 0 \in 0..m /\ g[0] = a /\ h[0] = b
    BY <1>1, <1>2, <1>3 DEF LotsRun
  <2> QED BY <2>1
<1>5. ASSUME NEW n \in 1..m, n - 1 \in S PROVE n \in S
  <2>1. n \in 0..m /\ n - 1 \in 0..m
    BY <1>1
  <2>2. g[n] = OneMore(g[n - 1], p, prices) /\ h[n] = OneMore(h[n - 1], q, prices)
        /\ Sized(g[n - 1], p, prices) /\ Sized(h[n - 1], q, prices)
    BY <1>1, <1>2, <1>3, <2>1 DEF LotsRun
  <2> DEFINE x == g[n - 1]
             y == h[n - 1]
  <2>3. Twins(x, y)
    BY <1>5
  <2> HIDE DEF x, y
  <2>4. Twins(OneMore(x, p, prices), OneMore(y, q, prices))
    BY <2>2, <2>3, TwinsStay DEF x, y
  <2> QED BY <2>1, <2>2, <2>4 DEF x, y
<1>6. 0..m \subseteq S
  <2> HIDE DEF S, m
  <2> QED BY <1>1, <1>4, <1>5, UpTo
<1>7. Twins(g[m], h[m])
  <2>1. m \in 0..m
    BY <1>1
  <2> QED BY <1>6, <2>1
<1> QED BY <1>1, <1>2, <1>3, <1>7 DEF LotsRun
\* The optimizer only adds.
LEMMA LotsGrow ==
  ASSUME NEW p, NEW prices, NEW plans, Sized(plans, p, prices), NEW i \in DOMAIN plans
  PROVE  OptimizeLots(plans, p, prices)[i].quantity >= plans[i].quantity
<1> DEFINE m == Len(plans)
<1>1. m \in Nat /\ plans \in Seq(Plans) /\ plans[i] \in Plans
  BY DEF Sized
<1>2. PICK h : LotsRun(h, plans, p, prices)
  BY OptimizedSized
<1> DEFINE S == {n \in 0..m : h[n][i].quantity >= plans[i].quantity}
<1>3. 0 \in S
  <2>1. 0 \in 0..m /\ h[0] = plans /\ plans[i].quantity \in Int
    BY <1>1, <1>2 DEF LotsRun, Plans
  <2> QED BY <2>1
<1>4. ASSUME NEW n \in 1..m, n - 1 \in S PROVE n \in S
  <2> DEFINE old == h[n - 1]
             new == h[n]
  <2>1. n \in 0..m /\ n - 1 \in 0..m /\ old[i].quantity >= plans[i].quantity
    BY <1>1, <1>4
  <2>2. new = OneMore(old, p, prices) /\ Sized(old, p, prices) /\ Alike(plans, old)
    BY <1>2, <2>1 DEF LotsRun
  <2>3. i \in DOMAIN old /\ old[i] \in Plans
    <3>1. old \in Seq(Plans) /\ Len(old) = m
      BY <2>2 DEF Sized, Alike
    <3> QED BY <1>1, <3>1
  <2> HIDE DEF old
  <2>4. new[i].quantity >= old[i].quantity
    <3>1. CASE new = old
      BY <2>3, <3>1 DEF Plans
    <3>2. CASE \E c \in Currencies : \E k \in Fitting(old, p, prices, c) :
                 new = [old EXCEPT ![k].quantity = @ + 1]
      BY <2>3, <3>2 DEF Plans
    <3> QED BY <2>2, <3>1, <3>2, OneMoreFits
  <2>5. new[i].quantity \in Int
    <3>1. new \in Seq(Plans) /\ Len(new) = m
      BY <1>2, <2>1 DEF LotsRun, Sized, Alike
    <3>2. new[i] \in Plans
      BY <1>1, <3>1
    <3> QED BY <3>2 DEF Plans
  <2>6. plans[i].quantity \in Int /\ old[i].quantity \in Int
    BY <1>1, <2>3 DEF Plans
  <2> HIDE DEF new
  <2>7. new[i].quantity >= plans[i].quantity
    BY <2>1, <2>4, <2>5, <2>6
  <2> QED BY <2>1, <2>7 DEF new
<1>5. 0..m \subseteq S
  <2> HIDE DEF S, m
  <2> QED BY <1>1, <1>3, <1>4, UpTo
<1>6. h[m][i].quantity >= plans[i].quantity
  <2>1. m \in 0..m
    BY <1>1
  <2> QED BY <1>5, <2>1
<1> QED BY <1>2, <1>6 DEF LotsRun

\* What may be aimed at decides the sign of a plan.
LEMMA PlanSigned ==
  ASSUME NEW p \in Portfolios, NEW prices \in PriceMaps, NEW target \in Targets, setup \in Setups,
         NEW plan, plan = SizingPlan(p, prices, target), plan.price # 0
  PROVE  /\ plan.desired >= 0 => plan.quantity >= 0
         /\ plan.desired <= 0 => plan.quantity <= 0
<1> DEFINE entry == /\ QuantityForValue(plan.desired, plan.price) = 0 /\ plan.current = 0
                    /\ plan.desired > 0
                    /\ LotsAtLeast(plan.desired, plan.price, setup.entryFloor)
<1>1. plan.quantity = IF entry THEN 1 ELSE QuantityForValue(plan.desired, plan.price)
  BY DEF SizingPlan
<1>2. plan \in Plans
  BY PlanTyped
<1> DEFINE d == plan.desired
           unit == plan.price * Scale
<1>3. d \in Int /\ unit \in Nat \ {0}
  BY <1>2, ScaleTyped DEF Plans
<1>4. QuantityForValue(d, plan.price) = IF d >= 0 THEN d \div unit ELSE -((-d) \div unit)
  BY DEF QuantityForValue
<1>5. entry => d > 0
  OBVIOUS
<1> HIDE DEF d, unit, entry
<1>6. d >= 0 => d \div unit \in Nat
  BY <1>3
<1>7. d < 0 => (-d) \div unit \in Nat
  BY <1>3
<1>8. d = 0 => d \div unit = 0
  BY <1>3
<1>9. d >= 0 => plan.quantity >= 0
  BY <1>1, <1>3, <1>4, <1>6 DEF d
<1>10. d <= 0 => plan.quantity <= 0
  BY <1>1, <1>3, <1>4, <1>5, <1>7, <1>8 DEF d
<1> QED BY <1>9, <1>10 DEF d

\* The plans of two portfolios of the same worth are twins where no share is bought on entry.
LEMMA RawTwins ==
  ASSUME NEW p \in Portfolios, NEW q \in Portfolios, NEW prices \in PriceMaps, setup \in Setups,
         SameWorth(p, q, prices), NEW batch \in Seq(Targets), OneTargetEach(batch)
  PROVE  /\ \A i \in DOMAIN batch :
              /\ RawPlans(q, prices, batch)[i].price = RawPlans(p, prices, batch)[i].price
              /\ RawPlans(q, prices, batch)[i].desired = RawPlans(p, prices, batch)[i].desired
         /\ setup.entryFloor = Full => Twins(RawPlans(p, prices, batch), RawPlans(q, prices, batch))
<1> DEFINE a == RawPlans(p, prices, batch)
           b == RawPlans(q, prices, batch)
<1>1. Len(a) = Len(batch) /\ Len(b) = Len(batch)
      /\ \A i \in DOMAIN batch : a[i] = SizingPlan(p, prices, batch[i])
                                 /\ b[i] = SizingPlan(q, prices, batch[i])
  BY RawPlansSized
<1>2. a \in Seq(Plans) /\ b \in Seq(Plans)
  BY RawPlansSized DEF Sized
<1> HIDE DEF a, b
<1>3. DOMAIN a = DOMAIN batch /\ DOMAIN b = DOMAIN batch
  BY <1>1, <1>2
<1>4. ASSUME NEW i \in DOMAIN batch
      PROVE  /\ a[i].symbol = b[i].symbol /\ a[i].weight = b[i].weight
             /\ a[i].price = b[i].price /\ a[i].desired = b[i].desired
             /\ setup.entryFloor = Full /\ a[i].price # 0 => a[i].quantity = b[i].quantity
  <2> DEFINE target == batch[i]
             y == target.symbol
             price == MarkPrice(p, prices, y)
             desired == TargetValue(p, prices, CurrencyOf[y]) * target.weight
             floored == QuantityForValue(desired, price)
             entry(x) == /\ floored = 0 /\ x.quantity[y] = 0 /\ desired > 0
                         /\ LotsAtLeast(desired, price, setup.entryFloor)
  <2>1. target \in Targets /\ y \in Symbols /\ CurrencyOf[y] \in Currencies
    <3>1. target \in Targets
      OBVIOUS
    <3> QED BY <3>1, PortfolioAssumption DEF Targets
  <2>2. MarkPrice(q, prices, y) = price
    BY <2>1 DEF SameWorth
  <2>3. TargetValue(q, prices, CurrencyOf[y]) = TargetValue(p, prices, CurrencyOf[y])
    BY <2>1 DEF SameWorth, TargetValue
  <2>4. a[i] = SizingPlan(p, prices, target) /\ b[i] = SizingPlan(q, prices, target)
    BY <1>1
  <2>5. a[i].symbol = y /\ b[i].symbol = y /\ a[i].weight = target.weight /\ b[i].weight = target.weight
        /\ a[i].price = price /\ b[i].price = price /\ a[i].desired = desired /\ b[i].desired = desired
    BY <2>2, <2>3, <2>4 DEF SizingPlan
  <2>6. price # 0 => /\ a[i].quantity = (IF entry(p) THEN 1 ELSE floored)
                     /\ b[i].quantity = (IF entry(q) THEN 1 ELSE floored)
    BY <2>2, <2>3, <2>4 DEF SizingPlan
  <2>7. ASSUME setup.entryFloor = Full, price # 0 PROVE ~entry(p) /\ ~entry(q)
    <3> SUFFICES ASSUME floored = 0, desired > 0, LotsAtLeast(desired, price, setup.entryFloor)
                 PROVE  FALSE
      OBVIOUS
    <3> DEFINE unit == price * Scale
    <3>1. desired \in Int /\ unit \in Nat \ {0} /\ Full \in Nat \ {0}
      <4>1. a[i] \in Plans
        BY <1>2, <1>3
      <4>2. desired \in Int /\ price \in Nat
        BY <2>5, <4>1 DEF Plans
      <4> HIDE DEF desired, price
      <4> QED BY <2>7, <4>2, ScaleTyped
    <3>2. floored = IF desired >= 0 THEN desired \div unit ELSE -((-desired) \div unit)
      BY DEF QuantityForValue
    <3>3. Abs(desired) * Full >= Full * price * Scale
      BY <2>7 DEF LotsAtLeast
    <3>4. Full * price * Scale = unit * Full
      <4>1. price \in Nat /\ Scale \in Nat /\ Full \in Nat
        <5>1. price \in Nat
          BY <2>1, MarkTyped
        <5> QED BY <5>1, ScaleTyped
      <4> HIDE DEF price
      <4> QED BY <4>1
    <3> HIDE DEF desired, floored, unit
    <3>5. desired \div unit = 0 /\ Abs(desired) = desired
      BY <3>1, <3>2 DEF Abs
    <3>6. desired < unit
      <4>1. desired < unit * (desired \div unit) + unit
        BY <3>1, DivBound
      <4> QED BY <3>1, <3>5, <4>1
    <3>7. desired * Full < unit * Full
      BY <3>1, <3>6
    <3>8. desired * Full \in Int /\ unit * Full \in Int
      BY <3>1
    <3> QED BY <3>3, <3>4, <3>5, <3>7, <3>8
  <2> HIDE DEF price, desired, floored, entry
  <2> QED BY <2>5, <2>6, <2>7
<1> QED BY <1>1, <1>3, <1>4 DEF Twins, a, b
\* What is just above one fraction of a share is above a lower one.
LEMMA LotsAtLeastLower ==
  ASSUME NEW desired \in Int, NEW price \in Nat, NEW low \in Nat, NEW high \in Nat, low <= high,
         LotsAtLeast(desired, price, high)
  PROVE  LotsAtLeast(desired, price, low)
<1>1. Scale \in Nat /\ Full \in Nat
  BY ScaleTyped
<1> DEFINE unit == price * Scale
           value == Abs(desired) * Full
<1>2. unit \in Nat /\ value \in Int
  BY <1>1 DEF Abs
<1>3. high * price * Scale = high * unit /\ low * price * Scale = low * unit
  BY <1>1
<1>4. value >= high * unit
  BY <1>3 DEF LotsAtLeast
<1> HIDE DEF unit, value
<1>5. low * unit <= high * unit /\ low * unit \in Int /\ high * unit \in Int
  BY <1>2
<1>6. value >= low * unit
  BY <1>2, <1>4, <1>5
<1> QED BY <1>3, <1>6 DEF LotsAtLeast, value

\* What the next cycle plans for a symbol may turn its decision around.
Reversed(d, plan) ==
  \/ d.granted > d.current /\ Delta(plan) < 0
  \/ d.granted < d.current /\ Delta(plan) > 0
Entered(d, plan) ==
  /\ d.current = 0 /\ d.granted = 1 /\ plan.weight > 0 /\ ~Urgent(plan)
  /\ LotsAtLeast(plan.desired, plan.price, setup.entryFloor)
\* It does not turn around what was decided.
Consistent(d, plan) ==
  /\ setup.entryFloor = Full => ~Reversed(d, plan)
  /\ setup.entryFloor >= setup.roundingGuard /\ Entered(d, plan) => Delta(plan) >= 0

\* The same batch, sized again by a portfolio of the same worth.
LEMMA SizedAgain ==
  ASSUME NEW p \in Portfolios, NEW q \in Portfolios, NEW prices \in PriceMaps, setup \in Setups,
         SameWorth(p, q, prices), NEW batch \in Seq(Targets), OneTargetEach(batch), NEW reused,
         NEW plans, plans = Size(p, prices, batch, reused),
         NEW again, again = Size(q, prices, batch, reused),
         NEW decisions, Traded(plans, decisions, prices, p, q),
         NEW i \in DOMAIN decisions, decisions[i].granted >= 0,
         decisions[i].granted = decisions[i].wanted,
         NEW j \in DOMAIN again, decisions[i].symbol = again[j].symbol
  PROVE  Consistent(decisions[i], again[j])
<1> DEFINE d == decisions[i]
           plan == again[j]
           y == d.symbol
           raw1 == RawPlans(p, prices, batch)
           raw2 == RawPlans(q, prices, batch)
           lots1 == OptimizeLots(raw1, p, prices)
           lots2 == OptimizeLots(raw2, q, prices)
<1>1. /\ Sized(raw1, p, prices) /\ Sized(lots1, p, prices) /\ Alike(raw1, lots1)
      /\ DOMAIN raw1 = DOMAIN batch /\ DOMAIN lots1 = DOMAIN batch
      /\ \A x \in DOMAIN batch : raw1[x] = SizingPlan(p, prices, batch[x])
      /\ \A x \in DOMAIN plans : \E z \in DOMAIN batch :
           plans[x] = lots1[z] /\ plans[x].symbol = batch[z].symbol /\ ~Noise(lots1[z], reused)
  <2>1. raw1 = RawPlans(p, prices, batch) /\ lots1 = OptimizeLots(raw1, p, prices)
    OBVIOUS
  <2> HIDE DEF raw1, lots1
  <2> QED BY <2>1, SizeOfBatch
<1>2. /\ Sized(raw2, q, prices) /\ Sized(lots2, q, prices) /\ Alike(raw2, lots2)
      /\ DOMAIN raw2 = DOMAIN batch /\ DOMAIN lots2 = DOMAIN batch
      /\ \A x \in DOMAIN batch : raw2[x] = SizingPlan(q, prices, batch[x])
      /\ \A x \in DOMAIN again : \E z \in DOMAIN batch :
           again[x] = lots2[z] /\ again[x].symbol = batch[z].symbol /\ ~Noise(lots2[z], reused)
  <2>1. raw2 = RawPlans(q, prices, batch) /\ lots2 = OptimizeLots(raw2, q, prices)
    OBVIOUS
  <2> HIDE DEF raw2, lots2
  <2> QED BY <2>1, SizeOfBatch
<1>3. /\ \A x \in DOMAIN batch : raw2[x].price = raw1[x].price /\ raw2[x].desired = raw1[x].desired
      /\ setup.entryFloor = Full => Twins(raw1, raw2)
  BY RawTwins
<1>4. setup.entryFloor = Full => Twins(lots1, lots2)
  <2>1. \A c \in Currencies : Equity(q, prices, c) = Equity(p, prices, c)
    BY DEF SameWorth
  <2> HIDE DEF raw1, raw2
  <2> QED BY <1>1, <1>2, <1>3, <2>1, LotsTwins
<1>5. \A x \in DOMAIN batch : lots2[x].quantity >= raw2[x].quantity
  <2> HIDE DEF raw2
  <2> QED BY <1>2, LotsGrow
<1> HIDE DEF raw1, raw2, lots1, lots2
<1>6. i \in DOMAIN plans /\ Answers(d, plans[i]) /\ q.quantity[y] = TradedTo(d, prices)
      /\ d.current = p.quantity[y] /\ d \in Grants
  <2>1. decisions \in Seq(Grants) /\ plans \in Seq(Plans) /\ Len(decisions) = Len(plans)
    BY DEF Traded, OnHoldings, Sized
  <2>2. i \in DOMAIN plans /\ d \in Grants
    BY <2>1
  <2>3. Answers(d, plans[i]) /\ q.quantity[plans[i].symbol] = TradedTo(d, prices)
    BY <2>2 DEF Traded
  <2>4. d.current = p.quantity[y]
    BY DEF Traded, OnHoldings
  <2> QED BY <2>2, <2>3, <2>4 DEF Answers
<1>7. PICK k \in DOMAIN batch : plans[i] = lots1[k] /\ plans[i].symbol = batch[k].symbol
  BY <1>1, <1>6
<1>8. plan = lots2[k] /\ ~Noise(plan, reused)
  <2>1. PICK z \in DOMAIN batch :
          plan = lots2[z] /\ plan.symbol = batch[z].symbol /\ ~Noise(lots2[z], reused)
    BY <1>2
  <2>2. batch[z].symbol = batch[k].symbol
    BY <1>6, <1>7, <2>1 DEF Answers
  <2>3. z = k
    BY <2>2 DEF OneTargetEach
  <2> QED BY <2>1, <2>3
<1> DEFINE held == q.quantity[y]
           price == plan.price
<1>9. /\ raw1[k] \in Plans /\ raw2[k] \in Plans /\ lots1[k] \in Plans /\ plan \in Plans
      /\ batch[k] \in Targets
  BY <1>1, <1>2, <1>8 DEF Sized
<1>10. plan.current = held /\ d.current \in Nat /\ d.granted \in Nat /\ held \in Nat
       /\ d.granted = lots1[k].quantity
  <2>1. plan.current = q.quantity[plan.symbol]
    BY <1>2, <1>8 DEF Sized
  <2>2. d.current \in Nat /\ d.granted \in Int /\ y \in Symbols
    BY <1>6 DEF Grants
  <2>3. held \in Nat
    BY <2>2 DEF Portfolios
  <2>4. d.granted = lots1[k].quantity /\ d.granted >= 0
    BY <1>6, <1>7 DEF Answers
  <2>5. plan.symbol = y
    OBVIOUS
  <2> HIDE DEF d, plan
  <2>6. d.granted \in Nat
    BY <2>2, <2>4
  <2> QED BY <2>1, <2>2, <2>3, <2>4, <2>5, <2>6
<1>11. /\ raw2[k].price = price /\ raw1[k].price = price /\ lots1[k].price = price
       /\ raw2[k].desired = plan.desired /\ raw1[k].desired = plan.desired
       /\ plan.desired \in Int /\ plan.quantity \in Int
  BY <1>1, <1>2, <1>3, <1>8, <1>9 DEF Alike, Plans
<1>12. held = d.granted \/ held = d.current
  BY <1>6, <1>10 DEF TradedTo, Floor0
<1>13. Delta(plan) # 0 /\ ~RoundingChurn(plan)
  BY <1>8 DEF Noise
<1>14. price # 0
  <2> SUFFICES ASSUME price = 0 PROVE FALSE
    OBVIOUS
  <2>1. ~Optimized(raw2[k])
    BY <1>11 DEF Optimized
  <2>2. plan = raw2[k]
    BY <1>2, <1>8, <2>1 DEF Alike
  <2>3. raw2[k].quantity = raw2[k].current
    <3>1. raw2[k] = SizingPlan(q, prices, batch[k])
      BY <1>2
    <3> QED BY <1>11, <3>1 DEF SizingPlan
  <2> QED BY <1>9, <1>13, <2>2, <2>3 DEF Delta, Plans
<1>15. price > 0
  BY <1>9, <1>14 DEF Plans
<1> HIDE DEF d, plan, held, price
<1>16. ASSUME setup.entryFloor = Full PROVE ~Reversed(d, plan)
  <2>1. lots1[k].price # 0 => lots1[k].quantity = lots2[k].quantity
    BY <1>1, <1>4, <1>16 DEF Twins
  <2>2. plan.quantity = d.granted
    BY <1>8, <1>10, <1>11, <1>14, <2>1
  <2>3. Delta(plan) = d.granted - held
    BY <1>10, <2>2 DEF Delta
  <2> QED BY <1>10, <1>12, <2>3 DEF Reversed
<1>17. ASSUME setup.entryFloor >= setup.roundingGuard, Entered(d, plan)
       PROVE  Delta(plan) >= 0
  <2>1. d.current = 0 /\ d.granted = 1 /\ plan.weight > 0 /\ ~Urgent(plan)
        /\ LotsAtLeast(plan.desired, price, setup.entryFloor)
    BY <1>17 DEF Entered, price
  <2>2. plan.desired > 0
    <3> SUFFICES ASSUME ~(plan.desired > 0) PROVE FALSE
      OBVIOUS
    <3>1. plan.desired <= 0
      BY <1>11
    <3>2. raw1[k] = SizingPlan(p, prices, batch[k])
      BY <1>1
    <3>3. raw1[k].quantity <= 0
      BY <1>9, <1>11, <1>14, <3>1, <3>2, PlanSigned
    <3>4. ~Optimized(raw1[k])
      BY <1>11, <3>1 DEF Optimized
    <3>5. lots1[k] = raw1[k]
      BY <1>1, <3>4 DEF Alike
    <3>6. lots1[k].quantity = 1
      BY <1>10, <2>1
    <3> QED BY <3>3, <3>5, <3>6
  <2>3. plan.quantity >= 0
    <3>1. raw2[k] = SizingPlan(q, prices, batch[k])
      BY <1>2
    <3>2. raw2[k].quantity >= 0
      BY <1>9, <1>11, <1>14, <2>2, <3>1, PlanSigned
    <3>3. raw2[k].quantity \in Int
      BY <1>9 DEF Plans
    <3>4. plan.quantity >= raw2[k].quantity
      BY <1>5, <1>8
    <3> QED BY <1>11, <3>2, <3>3, <3>4
  <2>4. held \in {0, 1}
    BY <1>12, <2>1
  <2>5. LotsAtLeast(plan.desired, price, setup.roundingGuard)
    <3>1. setup.entryFloor \in Nat /\ setup.roundingGuard \in Nat
      BY SizingAssumption, UnitAssumption
    <3>2. price \in Nat
      BY <1>9 DEF Plans, price
    <3> QED BY <1>11, <1>17, <2>1, <3>1, <3>2, LotsAtLeastLower
  <2>6. ~(plan.current = 1 /\ plan.quantity = 0)
    BY <1>13, <1>15, <2>1, <2>5 DEF RoundingChurn, price
  <2> QED BY <1>10, <1>11, <2>3, <2>4, <2>6 DEF Delta
<1> QED BY <1>16, <1>17 DEF Consistent, d, plan
--------------------------------------------------------------------------------
(* The configuration of a run is chosen once: what is sized with it does not     *)
(* change from one state to the next.                                            *)
\* One plan.
LEMMA PlansStay ==
  ASSUME UNCHANGED setup, NEW p, NEW prices, NEW target
  PROVE  SizingPlan(p, prices, target)' = SizingPlan(p, prices, target)
  BY DEF SizingPlan, TargetValue, LotsAtLeast, Abs, QuantityForValue, MarkPrice

\* The plans of a batch.
LEMMA RawStays ==
  ASSUME UNCHANGED setup, NEW p, NEW prices, NEW batch
  PROVE  RawPlans(p, prices, batch)' = RawPlans(p, prices, batch)
<1> DEFINE m == Len(batch)
           Row(g) == [n \in 0..m |-> IF n = 0 THEN <<>>
                                     ELSE Append(g[n - 1], SizingPlan(p, prices, batch[n]))]
           Next(g) == [n \in 0..m |-> IF n = 0 THEN <<>>
                                     ELSE Append(g[n - 1], SizingPlan(p, prices, batch[n])')]
<1>1. \A g : Next(g) = Row(g)
  BY PlansStay
<1>2. PlansFor(p, prices, batch) = CHOOSE g : g = Row(g)
  BY DEF PlansFor
<1>3. PlansFor(p, prices, batch)' = CHOOSE g : g = Next(g)
  BY DEF PlansFor
<1> HIDE DEF Row, Next
<1>4. (CHOOSE g : g = Next(g)) = CHOOSE g : g = Row(g)
  BY <1>1
<1> QED BY <1>2, <1>3, <1>4 DEF RawPlans

\* What the targets may hold.
LEMMA TargetValueStays ==
  ASSUME UNCHANGED setup, NEW p, NEW prices, NEW c
  PROVE  TargetValue(p, prices, c)' = TargetValue(p, prices, c)
  BY DEF TargetValue

\* A round of the optimizer.
LEMMA OneMoreStays ==
  ASSUME UNCHANGED setup, NEW p, NEW prices, NEW plans
  PROVE  OneMore(plans, p, prices)' = OneMore(plans, p, prices)
  BY TargetValueStays DEF OneMore, Fitting, Available

\* All of its rounds.
LEMMA LotsStay ==
  ASSUME UNCHANGED setup, NEW p, NEW prices, NEW plans
  PROVE  OptimizeLots(plans, p, prices)' = OptimizeLots(plans, p, prices)
<1> DEFINE m == Len(plans)
           Row(g) == [n \in 0..m |-> IF n = 0 THEN plans ELSE OneMore(g[n - 1], p, prices)]
           Next(g) == [n \in 0..m |-> IF n = 0 THEN plans ELSE OneMore(g[n - 1], p, prices)']
<1>1. \A g : Next(g) = Row(g)
  BY OneMoreStays
<1>2. LotsAfter(plans, p, prices) = CHOOSE g : g = Row(g)
  BY DEF LotsAfter
<1>3. LotsAfter(plans, p, prices)' = CHOOSE g : g = Next(g)
  BY DEF LotsAfter
<1> HIDE DEF Row, Next
<1>4. (CHOOSE g : g = Next(g)) = CHOOSE g : g = Row(g)
  BY <1>1
<1> QED BY <1>2, <1>3, <1>4 DEF OptimizeLots

\* What is noise.
LEMMA NoiseStays ==
  ASSUME UNCHANGED setup, NEW plan, NEW reused
  PROVE  Noise(plan, reused)' <=> Noise(plan, reused)
  BY DEF Noise, FloorEntry, BelowMinNotional, RoundingChurn, SmallStep

\* What the filter keeps.
LEMMA KeptStays ==
  ASSUME UNCHANGED setup, NEW plans, NEW reused
  PROVE  KeptOf(plans, reused)' = KeptOf(plans, reused)
  BY NoiseStays DEF KeptOf

\* And so the whole sizing.
LEMMA SizeStays ==
  ASSUME UNCHANGED setup, NEW p, NEW prices, NEW batch, NEW reused
  PROVE  Size(p, prices, batch, reused)' = Size(p, prices, batch, reused)
  BY KeptStays, LotsStay, RawStays DEF Size

\* No round trip, of a portfolio and a slice.
TripFree(p, s) ==
  LET again == Size(p, s.prices, s.batch, s.reused)
  IN /\ s.quality \in {"valid", "stale"} /\ CostFree
     /\ ~ \E i \in DOMAIN s.decisions : s.decisions[i].granted < 0
     => \A i \in DOMAIN s.decisions, j \in DOMAIN again :
          s.decisions[i].symbol = again[j].symbol /\ s.decisions[i].granted = s.decisions[i].wanted
          => Consistent(s.decisions[i], again[j])

LEMMA TripFreeMeans == NoRoundTrip <=> TripFree(portfolio, slice)
  BY DEF NoRoundTrip, TripFree, Consistent, Reversed, Entered, CostFree

LEMMA ConsistentStays ==
  ASSUME UNCHANGED setup, NEW d, NEW plan
  PROVE  Consistent(d, plan)' <=> Consistent(d, plan)
  BY DEF Consistent, Reversed, Entered, LotsAtLeast, Abs, Delta

LEMMA TripFreeStays ==
  ASSUME UNCHANGED setup, NEW p, NEW s
  PROVE  TripFree(p, s)' <=> TripFree(p, s)
  BY SizeStays, ConsistentStays DEF TripFree, CostFree

\* After a trading slice nothing is turned around.
LEMMA TradingTripFree ==
  ASSUME BooksInv, BooksInv', UNCHANGED setup, NEW prices \in PriceLists, NEW batch \in Batches,
         NEW quality \in {"valid", "stale", "invalid"}, NEW reused,
         TradingSlice(prices, batch, quality, reused),
         NEW q, q = portfolio', NEW s, s = slice'
  PROVE  TripFree(q, s)
<1> SUFFICES ASSUME s.quality \in {"valid", "stale"}, CostFree,
                    ~ \E i \in DOMAIN s.decisions : s.decisions[i].granted < 0,
                    NEW i \in DOMAIN s.decisions,
                    NEW j \in DOMAIN Size(q, s.prices, s.batch, s.reused),
                    s.decisions[i].symbol = Size(q, s.prices, s.batch, s.reused)[j].symbol,
                    s.decisions[i].granted = s.decisions[i].wanted
             PROVE  Consistent(s.decisions[i], Size(q, s.prices, s.batch, s.reused)[j])
  BY DEF TripFree
<1> DEFINE p == portfolio
           plans == Size(p, prices, batch, reused)
           again == Size(q, prices, batch, reused)
           decisions == s.decisions
<1>1. s.prices = prices /\ s.batch = batch /\ s.quality = quality /\ s.reused = reused
  BY DEF TradingSlice
<1>2. quality # "invalid"
  BY <1>1
<1>3. Traded(plans, slice'.decisions, prices, portfolio, portfolio')
      /\ portfolio \in Portfolios /\ prices \in PriceMaps /\ setup \in Setups
      /\ batch \in Seq(Targets) /\ OneTargetEach(batch)
  <2> DEFINE aims == IF quality = "invalid" THEN <<>> ELSE batch
  <2>1. aims = batch
    BY <1>2
  <2> HIDE DEF aims, plans
  <2>2. plans = Size(portfolio, prices, aims, reused)
    BY <2>1 DEF plans
  <2> QED BY <2>1, <2>2, SliceTrades DEF aims
<1>4. Traded(plans, decisions, prices, p, q)
  BY <1>3
<1>5. q \in Portfolios
  BY DEF BooksInv, TheBooks, Matched, Books
<1>6. OnHoldings(decisions, p)
  BY <1>4 DEF Traded
<1>7. \A x \in DOMAIN decisions : decisions[x].granted \in Nat
  <2> SUFFICES ASSUME NEW x \in DOMAIN decisions PROVE decisions[x].granted \in Nat
    OBVIOUS
  <2>1. decisions[x] \in Grants
    BY <1>6 DEF OnHoldings
  <2>2. decisions[x].granted \in Int
    BY <2>1 DEF Grants
  <2>3. ~(decisions[x].granted < 0)
    OBVIOUS
  <2> QED BY <2>2, <2>3
<1>8. TheBooks \in Matched /\ TheBooks.portfolio = p
  BY DEF BooksInv, TheBooks
<1>9. q = Settled(TheBooks, decisions, prices).portfolio
  BY DEF TradingSlice, TheBooks
<1> HIDE DEF decisions
<1>10. \A c \in Currencies : Equity(q, prices, c) = Equity(p, prices, c)
  BY <1>3, <1>6, <1>7, <1>8, <1>9, CycleKeepsEquity
<1>11. \A y \in Symbols : MarkPrice(q, prices, y) = MarkPrice(p, prices, y)
  BY <1>4 DEF Traded, MarkPrice
<1>12. SameWorth(p, q, prices)
  BY <1>10, <1>11 DEF SameWorth
<1>13. i \in DOMAIN decisions /\ decisions[i].granted = decisions[i].wanted
       /\ j \in DOMAIN again /\ decisions[i].symbol = again[j].symbol
  BY <1>1 DEF decisions
<1> HIDE DEF plans, again
<1>14. decisions[i].granted >= 0
  BY <1>7, <1>13
<1>15. Consistent(decisions[i], again[j])
  <2>1. plans = Size(p, prices, batch, reused) /\ again = Size(q, prices, batch, reused)
    BY DEF plans, again
  <2> HIDE DEF p
  <2>2. p \in Portfolios
    BY <1>3 DEF p
  <2> QED BY <1>3, <1>4, <1>5, <1>12, <1>13, <1>14, <2>1, <2>2, SizedAgain
<1> QED BY <1>1, <1>15 DEF decisions, again

TripInv == TripFree(portfolio, slice)

LEMMA TripStart == BacktestInit => TripInv
<1> SUFFICES ASSUME BacktestInit PROVE TripInv
  OBVIOUS
<1>1. slice.quality = "none"
  BY DEF BacktestInit, NoSlice
<1> QED BY <1>1 DEF TripInv, TripFree

LEMMA TripStep == BooksInv /\ TripInv /\ [BacktestNext]_backtestVars => TripInv'
<1> SUFFICES ASSUME BooksInv, TripInv, [BacktestNext]_backtestVars PROVE TripInv'
  OBVIOUS
<1>1. UNCHANGED setup
  BY DEF BacktestNext, backtestVars
<1>2. PICK q : q = portfolio'
  OBVIOUS
<1>3. PICK s : s = slice'
  OBVIOUS
<1>4. TripFree(q, s)
  <2>1. CASE UNCHANGED <<portfolio, slice>>
    BY <1>2, <1>3, <2>1 DEF TripInv
  <2>2. ASSUME NEW prices \in PriceLists, NEW batch \in Batches,
               NEW quality \in {"valid", "stale", "invalid"}, NEW reused \in BOOLEAN,
               TradingSlice(prices, batch, quality, reused)
        PROVE  TripFree(q, s)
    <3>1. BooksInv'
      BY BooksStep
    <3> QED BY <1>1, <1>2, <1>3, <2>2, <3>1, TradingTripFree
  <2> QED BY <2>1, <2>2 DEF BacktestNext, backtestVars, WarmUpSlice
<1>5. TripFree(q, s)'
  BY <1>1, <1>4, TripFreeStays
<1> QED BY <1>2, <1>3, <1>5 DEF TripInv

(* The remainder of rounding is spent once and for all (_optimize_lots and the   *)
(* filters of OrderSizingEngine): a cycle without costs keeps what the sleeve is *)
(* worth, so that the same batch at the same prices is sized to the same plans,  *)
(* and the filters keep what the cycle has just bought.                          *)
THEOREM RemainderIsSpentOnce == BacktestSpec => []RemainderSpentOnce
<1>1. BacktestInit => BooksInv /\ TripInv
  BY BooksStart, TripStart
<1>2. BooksInv /\ TripInv /\ [BacktestNext]_backtestVars => BooksInv' /\ TripInv'
  BY BooksStep, TripStep
<1>3. TripInv /\ BudgetUsedUp => RemainderSpentOnce
  BY TripFreeMeans DEF TripInv, RemainderSpentOnce
<1> QED BY <1>1, <1>2, <1>3, BudgetSpentToItsEnd, PTL DEF BacktestSpec
===============================================================================
