------------------------------ MODULE OrderSizing -----------------------------
(* OrderSizingEngine: from a batch of target weights to whole numbers of shares. *)
(* A batch is a sequence of [symbol, weight, urgent]. Weights, lot fractions and *)
(* the cash reserve are counted in units of which Full is 1, and values in units *)
(* of which Scale is one unit of money, so that every comparison is exact.       *)
EXTENDS SleevePortfolio, Sequences

CONSTANTS OptimizerFraction, \* lot_optimizer_min_lot_fraction
          Setups             \* configurations of a sleeve that are looked at

VARIABLE
  setup               \* the RebalancePolicy, among other parameters; chosen once

Scale == Full * Full

ASSUME SizingAssumption ==
  /\ OptimizerFraction \in 0..Full
  /\ \A s \in Setups :
       /\ s.reserve \in 0..(Full - 1)              \* cash_reserve_pct
       /\ s.minNotional \in Nat /\ s.minQuantity \in Nat
       /\ s.exitBelowMin \in BOOLEAN
       /\ s.entryFloor \in 0..Full                 \* whole_share_entry_floor_min_fraction
       /\ s.roundingGuard \in 0..Full              \* whole_share_rounding_churn_min_fraction
       /\ s.targetChurn \in Nat                    \* target_churn_lot_fraction; 0 disables it
       /\ s.reusedChurn \in Nat                    \* reused_target_churn_lot_fraction, likewise

\* What the targets of a currency may hold, in units of 1 / Full.
TargetValue(p, prices, currency) == Equity(p, prices, currency) * (Full - setup.reserve)

QuantityForValue(desired, price) ==
  IF desired >= 0 THEN desired \div (price * Scale) ELSE -((-desired) \div (price * Scale))

LotsAtLeast(desired, price, fraction) == Abs(desired) * Full >= fraction * price * Scale

Urgent(target) == target.urgent

\* _sizing_plan.
SizingPlan(p, prices, target) ==
  LET y == target.symbol
      price == MarkPrice(p, prices, y)
      current == p.quantity[y]
      desired == TargetValue(p, prices, CurrencyOf[y]) * target.weight
      floored == QuantityForValue(desired, price)
      entry == /\ floored = 0 /\ current = 0 /\ desired > 0
               /\ LotsAtLeast(desired, price, setup.entryFloor)
  IN [symbol |-> y, weight |-> target.weight, urgent |-> target.urgent, price |-> price,
      current |-> current, desired |-> desired,
      quantity |-> IF price = 0 THEN current ELSE IF entry THEN 1 ELSE floored]

--------------------------------------------------------------------------------
(* _optimize_lots: the money that rounding leaves in a currency buys single      *)
(* shares, for the plan with the best score first. As every plan lacks less than *)
(* one share at the start, it gets at most one.                                  *)

Money(plan) == plan.quantity * plan.price * Scale
Gap(plan) == plan.desired - Money(plan)

Optimized(plan) == plan.weight > 0 /\ plan.desired > 0 /\ plan.price > 0

IndexesIn(plans, currency) ==
  {i \in DOMAIN plans : CurrencyOf[plans[i].symbol] = currency /\ Optimized(plans[i])}

Lower(n, m) == IF n < m THEN n ELSE m

Budget(plans, currency, value) ==
  Lower(value, SumFunctionOnSet([i \in DOMAIN plans |-> plans[i].desired], IndexesIn(plans, currency)))

Spent(plans, currency) ==
  SumFunctionOnSet([i \in DOMAIN plans |-> Money(plans[i])], IndexesIn(plans, currency))

\* Mutant: what is available is not looked at.
CandidatesUnpaid(plans, currency, available) ==
  {i \in IndexesIn(plans, currency) :
     /\ Gap(plans[i]) > 0
     /\ LotsAtLeast(Lower(Gap(plans[i]), plans[i].price * Scale), plans[i].price,
                    OptimizerFraction)}

\* Indexes that could take one more share, given what is available.
Candidates(plans, currency, available) ==
  {i \in IndexesIn(plans, currency) :
     /\ plans[i].price * Scale <= available
     /\ Gap(plans[i]) > 0
     /\ LotsAtLeast(Lower(Gap(plans[i]), plans[i].price * Scale), plans[i].price,
                    OptimizerFraction)}

\* The score of a plan is its gap in shares times its weight; the first of equals wins.
Better(a, b) == Gap(a) * a.weight * b.price > Gap(b) * b.weight * a.price
Best(plans, candidates) ==
  CHOOSE i \in candidates :
    \A j \in candidates : /\ ~Better(plans[j], plans[i])
                          /\ Better(plans[i], plans[j]) \/ i <= j

\* What rounding has left of the budget of a currency.
Available(plans, p, prices, currency) ==
  Budget(plans, currency, TargetValue(p, prices, currency) * Full) - Spent(plans, currency)
Fitting(plans, p, prices, currency) ==
  Candidates(plans, currency, Available(plans, p, prices, currency))

\* A plan is of one currency and its lots do not look at the others, so that the currencies
\* may come in any order.
OneMore(plans, p, prices) ==
  LET open == {c \in Currencies : Fitting(plans, p, prices, c) # {}}
      currency == CHOOSE c \in open : TRUE
  IN IF open = {} THEN plans
     ELSE [plans EXCEPT ![Best(plans, Fitting(plans, p, prices, currency))].quantity = @ + 1]

LotsAfter(plans, p, prices) ==
  LET lots[n \in 0..Len(plans)] == IF n = 0 THEN plans ELSE OneMore(lots[n - 1], p, prices)
  IN lots
OptimizeLots(plans, p, prices) == LotsAfter(plans, p, prices)[Len(plans)]

--------------------------------------------------------------------------------
(* _filter_rebalance_noise, in the order of its tests.                           *)

Delta(plan) == plan.quantity - plan.current

FloorEntry(plan) ==
  /\ setup.entryFloor < Full
  /\ plan.current = 0 /\ plan.quantity = 1 /\ plan.price > 0
  /\ LotsAtLeast(plan.desired, plan.price, setup.entryFloor)

\* Mutant: an exit has to be worth its while.
BelowMinAlways(plan) ==
  setup.minNotional > 0 /\ Abs(Delta(plan)) * plan.price < setup.minNotional

BelowMinNotional(plan) ==
  /\ setup.minNotional > 0
  /\ ~(setup.exitBelowMin /\ plan.quantity = 0 /\ plan.current # 0)
  /\ plan.price = 0 \/ Abs(Delta(plan)) * plan.price < setup.minNotional

\* Mutant: it is sold.
RoundingSold(plan) == FALSE

\* The last share of a position that still has a weight is kept.
RoundingChurn(plan) ==
  /\ plan.current = 1 /\ plan.quantity = 0 /\ plan.weight > 0
  /\ ~Urgent(plan) /\ plan.price > 0
  /\ LotsAtLeast(plan.desired, plan.price, setup.roundingGuard)

\* A step of one share between two positions that both stay, near the desired value.
SmallStep(plan, lotFraction, floor) ==
  /\ lotFraction > 0
  /\ plan.current # 0 /\ plan.quantity # 0 /\ Abs(Delta(plan)) <= 1
  /\ plan.weight # 0 /\ plan.price > 0
  /\ LET drift == Abs(plan.desired - plan.current * plan.price * Scale)
     IN drift * Full <= lotFraction * plan.price * Scale \/ drift <= floor * Scale

Noise(plan, reused) ==
  \/ Delta(plan) = 0
  \/ Abs(Delta(plan)) < setup.minQuantity /\ ~FloorEntry(plan)
  \/ BelowMinNotional(plan)
  \/ RoundingChurn(plan)
  \/ SmallStep(plan, setup.targetChurn, setup.minNotional)
  \/ reused /\ SmallStep(plan, setup.reusedChurn, 0)

\* OrderSizingEngine.size.
PlansFor(p, prices, batch) ==
  LET plans[n \in 0..Len(batch)] ==
        IF n = 0 THEN <<>> ELSE Append(plans[n - 1], SizingPlan(p, prices, batch[n]))
  IN plans
RawPlans(p, prices, batch) == PlansFor(p, prices, batch)[Len(batch)]

\* What the filter keeps of the first plans.
KeptOf(plans, reused) ==
  LET kept[n \in 0..Len(plans)] ==
        IF n = 0 THEN <<>>
        ELSE IF Noise(plans[n], reused) THEN kept[n - 1] ELSE Append(kept[n - 1], plans[n])
  IN kept

Size(p, prices, batch, reused) ==
  KeptOf(OptimizeLots(RawPlans(p, prices, batch), p, prices), reused)[Len(batch)]
===============================================================================
