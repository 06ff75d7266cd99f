---------------------------- MODULE RiskManagement ----------------------------
(* The risk models between order sizing and execution: which of the sized        *)
(* targets are approved, cut down or rejected. Targets are looked at one after   *)
(* the other; what an earlier one was granted counts for the later ones.         *)
EXTENDS OrderSizing

ASSUME RiskAssumption ==
  \A s \in Setups :
    /\ s.risk \in {"basic", "daily_loss", "drawdown"}
    /\ s.maxPosition \in 0..Full /\ s.maxExposure \in 0..Full  \* Full disables them
    /\ s.cashBuffer \in 0..(Full - 1)
    /\ s.maxLoss \in 1..Full               \* max_daily_loss_pct, max_drawdown_pct

\* A grant is what one target leads to.
Rejected(plan, reason) ==
  [symbol |-> plan.symbol, wanted |-> plan.quantity, granted |-> plan.current,
   current |-> plan.current, approved |-> FALSE, reason |-> reason]
Approved(plan, quantity) ==
  [symbol |-> plan.symbol, wanted |-> plan.quantity, granted |-> quantity,
   current |-> plan.current, approved |-> TRUE, reason |-> "approved"]

\* _snapshot_quality_rejection.
BlockedByQuality(plan, quality) ==
  \/ quality = "invalid"
  \/ quality = "stale" /\ plan.quantity > plan.current

Toward(quantity, bound) == IF quantity > 0 THEN bound ELSE -bound
Bounded(quantity, bound) ==
  IF Abs(quantity) <= bound THEN quantity ELSE Toward(quantity, bound)

Floor0(n) == IF n > 0 THEN n ELSE 0

\* _clamp_position_size.
PositionLimited(p, prices, plan, quantity) ==
  LET equity == Equity(p, prices, CurrencyOf[plan.symbol])
  IN IF setup.maxPosition >= Full THEN quantity
     ELSE IF equity <= 0 THEN 0
     ELSE Bounded(quantity, (equity * setup.maxPosition) \div (plan.price * Full))

\* Mutant: the limit is held by every position on its own.
OtherExposureNow(p, prices, y, granted) == 0

\* _clamp_total_exposure: the other holdings count with what they were granted, a
\* symbol that is not held yet does not count.
OtherExposure(p, prices, y, granted) ==
  SumFunctionOnSet([x \in Symbols |-> Abs(granted[x]) * MarkPrice(p, prices, x)],
                   {x \in In(CurrencyOf[y]) \ {y} : p.quantity[x] # 0})

ExposureLimited(p, prices, plan, quantity, granted) ==
  LET equity == Equity(p, prices, CurrencyOf[plan.symbol])
      rest == equity * setup.maxExposure
              - OtherExposure(p, prices, plan.symbol, granted) * Full
  IN IF setup.maxExposure >= Full THEN quantity
     ELSE IF equity <= 0 THEN 0
     ELSE Bounded(quantity, Floor0(rest) \div (plan.price * Full))

\* _clamp_cash; cash is counted in units of 1 / Full.
CashLimited(plan, quantity, cash) ==
  LET affordable == cash \div (plan.price * Full)
      more == quantity - plan.current
  IN IF more <= 0 \/ affordable >= more THEN quantity ELSE plan.current + affordable

\* Mutant: every target may spend the cash again.
CashUnspent(plan, quantity, cash) == cash

CashAfter(plan, quantity, cash) == cash - Floor0(quantity - plan.current) * plan.price * Full

\* _evaluate_target; the state of the pass is the cash left and what was granted.
Evaluate(p, prices, quality, pass, plan) ==
  LET currency == CurrencyOf[plan.symbol]
      cash == pass.cash[currency]
      limited == ExposureLimited(p, prices, plan, PositionLimited(p, prices, plan, plan.quantity),
                                 pass.granted)
      quantity == CashLimited(plan, limited, cash)
      left == CashAfter(plan, quantity, cash)
      decide(decision) == [pass EXCEPT !.decisions = Append(@, decision)]
  IN CASE plan.quantity < 0 -> decide(Rejected(plan, "short_target_rejected"))
       [] plan.quantity >= 0 /\ BlockedByQuality(plan, quality) ->
            decide(Rejected(plan, "snapshot_quality"))
       [] plan.quantity >= 0 /\ ~BlockedByQuality(plan, quality) /\ plan.price = 0 ->
            decide(Rejected(plan, "missing_or_invalid_price"))
       [] OTHER ->
            IF quantity = plan.current /\ plan.quantity # plan.current
            THEN [decide(Rejected(plan, "insufficient_cash")) EXCEPT !.cash[currency] = left]
            ELSE [decide(Approved(plan, quantity)) EXCEPT !.cash[currency] = left,
                                                          !.granted[plan.symbol] = quantity]

\* BasicRiskManagementModel.manage_risk: the pass after the first plans.
StartPass(p) ==
  [cash |-> [c \in Currencies |-> Floor0(p.cash[c] * (Full - setup.cashBuffer))],
   granted |-> p.quantity, decisions |-> <<>>]
PassOver(p, prices, quality, plans) ==
  LET pass[n \in 0..Len(plans)] ==
        IF n = 0 THEN StartPass(p) ELSE Evaluate(p, prices, quality, pass[n - 1], plans[n])
  IN pass
BasicDecisions(p, prices, quality, plans) == PassOver(p, prices, quality, plans)[Len(plans)].decisions

--------------------------------------------------------------------------------
(* The circuit breakers keep a record in the model state: the equity a day       *)
(* started with, or the highest equity; 0 stands for no record.                  *)

DailyRecord(record, day, equity) ==
  [day |-> day, equity |-> IF record.day = day /\ record.equity # 0 THEN record.equity ELSE equity]

\* Mutant: the peak is that of the last cycle.
PeakForgotten(record, day, equity) == [day |-> day, equity |-> equity]

PeakRecord(record, day, equity) ==
  [day |-> day, equity |-> IF record.equity > equity THEN record.equity ELSE equity]

Breaker(record, day, equity) ==
  IF setup.risk = "daily_loss" THEN DailyRecord(record, day, equity)
  ELSE IF setup.risk = "drawdown" THEN PeakRecord(record, day, equity) ELSE record

Tripped(record, equity) ==
  /\ setup.risk # "basic" /\ record.equity > 0
  /\ (record.equity - equity) * Full >= setup.maxLoss * record.equity

BreakerDecisions(tripped, plans) ==
  [i \in DOMAIN plans |->
     IF tripped /\ plans[i].quantity > plans[i].current
     THEN Rejected(plans[i], "limit_exceeded") ELSE Approved(plans[i], plans[i].quantity)]

Decisions(p, prices, quality, plans, record) ==
  IF setup.risk = "basic" THEN BasicDecisions(p, prices, quality, plans)
  ELSE BreakerDecisions(Tripped(record, NativeSum(p, prices)), plans)
===============================================================================
