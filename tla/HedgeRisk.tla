------------------------------- MODULE HedgeRisk -------------------------------
(* The risk model of the LEaps sleeve: a cap on the exposure that follows the     *)
(* market and the index, a guard for every stock, and an overlay that follows the *)
(* sleeve's equity. Each of the three keeps a record in the model state. Prices   *)
(* are whole numbers, limits are percents, returns are basis points.             *)
EXTENDS Integers, Sequences, FiniteSets, FiniteSetsExt, Functions

CONSTANTS
  Stocks,          \* one currency, KRW
  Safety,          \* the exempt symbols: cash-like and inverse ETFs
  NoValue,         \* a record or a figure that is not there
  HedgeSetups      \* the parameter records of create_risk_model

VARIABLE hedge     \* the parameters of this behaviour

Least(x, y) == IF x < y THEN x ELSE y
Most(x, y) == IF x > y THEN x ELSE y
Held(p) == {y \in Stocks : p.shares[y] # 0}
Value(shares, prices, ys) == SumFunctionOnSet([y \in ys |-> shares[y] * prices[y]], ys)
Wealth(p, prices) == p.cash + Value(p.shares, prices, Stocks)
Bps(price, base) == (price * 10000) \div base - 10000

ASSUME HedgeAssumption ==
  /\ IsFiniteSet(Stocks) /\ Safety \subseteq Stocks
  /\ NoValue \notin Int
  /\ NoValue \notin {"reduced", "exited", "recovering", "clear", "buy", "sell"}
  /\ \A h \in HedgeSetups :
       /\ {h.confirm, h.indexConfirm, h.markConfirm} \subseteq Nat \ {0}
       /\ {h.fraction, h.cashBuffer, h.maxPosition, h.maxExposure, h.entryCap, h.riskCap,
           h.recoveryCap, h.equityEntryCap, h.equityRiskCap} \subseteq 0..100
       /\ {h.addFraction, h.recovery, h.indexRecovery} \subseteq Nat
       /\ {h.indexFreeze, h.indexRiskOff, h.highFreeze, h.highRiskOff} \subseteq Int
       /\ \A name \in DOMAIN h.regimeCap : h.regimeCap[name] \in 0..h.maxExposure
       /\ h.hardFreeze \in BOOLEAN
       /\ h.minMultiplier <= h.maxMultiplier

--------------------------------------------------------------------------------
(* The market's regime, _market_regime: counted from the conviction insights.    *)

RegimeName(mood) ==
  CASE mood.ups = 0 -> IF mood.stops > 0 THEN "risk_off" ELSE "neutral"
    [] mood.ups > 0 /\ (mood.stops >= 3 \/ mood.breadth < 25 \/ mood.volatility >= 18) -> "risk_off"
    [] OTHER ->
       IF mood.breadth >= 55 /\ mood.momentum >= 18 /\ mood.volatility <= 14 THEN "strong_risk_on"
       ELSE IF \/ mood.breadth >= 45 /\ mood.momentum >= 8 /\ mood.volatility <= 16
               \/ /\ mood.stops = 0 /\ mood.breadth >= 30
                  /\ mood.momentum >= 25 /\ mood.volatility <= 13
            THEN "risk_on" ELSE "neutral"

\* _base_regime_cap_pct.
BaseCap(name) ==
  IF hedge.regimes /\ name \in DOMAIN hedge.regimeCap
  THEN hedge.regimeCap[name] ELSE hedge.maxExposure

--------------------------------------------------------------------------------
(* The guard that watches the index during the session.                          *)

NoIndex == [day |-> NoValue, high |-> 0, low |-> 0, last |-> 0, count |-> 0]

\* Mutant: every cycle confirms, and the extremes are those of its bar.
IndexStateFresh(record, day, bar) ==
  [day |-> day, high |-> Most(bar.high, bar.close), low |-> Least(bar.low, bar.close),
   last |-> bar.close, count |-> record.count + 1]

\* _intraday_guard_state: the extremes of the session, and for how many cycles the
\* index has been off its low and not falling.
IndexState(record, day, bar) ==
  LET same == record.day = day
      high == Most(IF same THEN record.high ELSE bar.high, Most(bar.high, bar.close))
      low == Least(IF same THEN record.low ELSE bar.low, Least(bar.low, bar.close))
      steady == ~same \/ bar.close >= record.last
      ready == hedge.indexRecovers /\ Bps(bar.close, low) >= hedge.indexRecovery /\ steady
  IN [day |-> day, high |-> high, low |-> low, last |-> bar.close,
      count |-> IF ~ready THEN 0 ELSE IF same THEN record.count + 1 ELSE 1]

\* _intraday_open_entry_gate_active.
GateShut(minute) == minute < hedge.gateUntil

\* _shape_progress and _lerp, in hundredths.
Shaped(x) == IF hedge.curve = "linear" THEN x ELSE (x * x * (300 - 2 * x)) \div 10000
Between(from, to, x) == from + ((to - from) * x) \div 100

\* _smooth_intraday_cap.
SmoothCap(value, entryAt, riskAt, base, entryCap, riskCap) ==
  LET entry == Least(0, entryAt)
      risk == Least(entry, riskAt)
  IN IF value >= 0 THEN base
     ELSE IF value <= risk THEN riskCap
     ELSE IF risk = entry THEN base
     ELSE IF value <= entry
          THEN Between(entryCap, riskCap, Shaped(((entry - value) * 100) \div (entry - risk)))
     ELSE Between(base, entryCap, Shaped((-value * 100) \div (-entry)))

\* A limit on the exposure: freeze is hard_entry_freeze, index tells that the cap is
\* the index guard's, which the safety symbols are exempt from.
Limit(cap, freeze, index) == [cap |-> cap, freeze |-> freeze, index |-> index, released |-> FALSE]
NoFreeze(cap) == Limit(cap, FALSE, FALSE)

\* _intraday_recovery_adjusted_cap: after enough confirming cycles the cap is lifted
\* to the probe budget.
Released(limit, base, state, minute) ==
  LET probe == Least(base, Most(limit.cap, hedge.recoveryCap))
  IN IF /\ hedge.indexRecovers /\ limit.cap < base /\ ~GateShut(minute)
        /\ state.count >= hedge.indexConfirm /\ probe > limit.cap
     THEN [limit EXCEPT !.cap = probe, !.released = TRUE]
     ELSE limit

IndexOverlay(return, drawdown, minute) ==
  IF return <= hedge.indexRiskOff \/ (hedge.fromHigh /\ drawdown <= hedge.highRiskOff)
  THEN "risk_off"
  ELSE IF \/ GateShut(minute) \/ return <= hedge.indexFreeze
          \/ hedge.fromHigh /\ drawdown <= hedge.highFreeze
  THEN "entry_freeze" ELSE "none"

\* _apply_intraday_market_guard with thresholds that jump.
StepLimit(base, return, drawdown, state, minute) ==
  LET overlay == IndexOverlay(return, drawdown, minute)
      cap == IF overlay = "risk_off" THEN hedge.riskCap ELSE hedge.entryCap
  IN IF overlay = "none" THEN NoFreeze(base)
     ELSE Released(Limit(Least(base, cap), TRUE, TRUE), base, state, minute)

\* _apply_smooth_intraday_market_guard: the lowest of the caps that bite.
SmoothLimit(base, return, drawdown, state, minute) ==
  LET entryCap == Least(base, hedge.entryCap)
      riskCap == Least(entryCap, hedge.riskCap)
      byReturn == SmoothCap(return, hedge.indexFreeze, hedge.indexRiskOff, base, entryCap, riskCap)
      byHigh == SmoothCap(drawdown, hedge.highFreeze, hedge.highRiskOff, base, entryCap, riskCap)
      caps == {c \in {byReturn} \cup (IF hedge.fromHigh THEN {byHigh} ELSE {}) : c < base}
              \cup (IF GateShut(minute) THEN {entryCap} ELSE {})
  IN IF caps = {} THEN NoFreeze(base)
     ELSE Released(Limit(Min(caps), hedge.hardFreeze, TRUE), base, state, minute)

\* Without the reference alpha's insight the state is kept but the cap is not moved.
IndexLimit(base, bar, reference, state, minute) ==
  LET return == Bps(bar.close, reference)
      drawdown == Bps(bar.close, state.high)
  IN IF reference = NoValue THEN NoFreeze(base)
     ELSE IF hedge.smooth THEN SmoothLimit(base, return, drawdown, state, minute)
     ELSE StepLimit(base, return, drawdown, state, minute)

--------------------------------------------------------------------------------
(* The overlay that follows the sleeve's equity.                                 *)

Severity == [none |-> 0, entry_freeze |-> 1, risk_off |-> 2]
Stronger(x, y) == IF Severity[x] >= Severity[y] THEN x ELSE y

NoEquity == [day |-> NoValue, last |-> 0, peak |-> 0, trough |-> 0, overlay |-> "none", count |-> 0]

\* _raw_equity_overlay.
RawOverlay(step, drawdown) ==
  IF drawdown <= -hedge.riskOffDrawdown \/ step <= -hedge.riskOffLoss THEN "risk_off"
  ELSE IF drawdown <= -hedge.freezeDrawdown \/ step <= -hedge.freezeLoss THEN "entry_freeze"
  ELSE "none"

\* Mutant: the first recovery that is confirmed lifts any overlay.
LiftedFully(overlay) == "none"

Lifted(overlay) == IF overlay = "risk_off" THEN "entry_freeze" ELSE "none"

\* _equity_overlay_for_currency. A new session starts without an overlay, from the
\* equity of the last cycle.
EquityState(record, day, equity) ==
  LET same == record.day = day
      anchor == IF record.last > 0 THEN record.last ELSE equity
      before == IF same THEN record.overlay ELSE "none"
      peak == Most(IF same THEN record.peak ELSE anchor, equity)
      trough == IF before = "none" THEN equity ELSE Least(record.trough, equity)
      step == IF record.last > 0 THEN Bps(equity, record.last) ELSE 0
      raw == RawOverlay(step, Bps(equity, peak))
      hit == RawOverlay(step, 0)
      recovering == Bps(equity, trough) >= hedge.recovery /\ step >= 0
      count == IF before # "none" /\ hit = "none" /\ recovering THEN record.count + 1 ELSE 0
      overlay ==
        IF before = "none" THEN raw
        ELSE IF hit # "none" THEN Stronger(before, hit)
        ELSE IF count < hedge.confirm THEN Stronger(before, raw) ELSE Lifted(before)
      cleared == overlay = "none" /\ before # "none"
  IN [day |-> day, last |-> equity, peak |-> IF cleared THEN equity ELSE peak,
      trough |-> IF cleared THEN equity ELSE trough, overlay |-> overlay, count |-> count]

EquityLimit(base, state) ==
  CASE state.overlay = "none" -> NoFreeze(base)
    [] state.overlay = "entry_freeze" -> Limit(Least(base, hedge.equityEntryCap), TRUE, FALSE)
    [] state.overlay = "risk_off" -> Limit(Least(base, hedge.equityRiskCap), TRUE, FALSE)
===============================================================================
