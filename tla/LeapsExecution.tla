---------------------------- MODULE LeapsExecution ----------------------------
(* The execution model of the LEaps sleeve: which of the approved targets become  *)
(* orders in a cycle, and how much of them. It keeps a record of every target in  *)
(* the model state and reads the risk model's mark of the stock. One order stands *)
(* for the slices of a stock.                                                     *)
EXTENDS SymbolGuard

CONSTANT ExecutionFor   \* the parameter record that goes with a risk setup

VARIABLE exec      \* the parameters of this behaviour

NoTrace == [batch |-> NoValue, side |-> NoValue, at |-> NoValue, orderBatch |-> NoValue,
            reducedAt |-> NoValue, cause |-> NoValue]

ASSUME ExecutionAssumption ==
  \A h \in HedgeSetups :
    LET e == ExecutionFor[h] IN
    /\ {e.maxSlices, e.cooldown, e.reentry, e.sliceQuantity, e.sliceNotional, e.sliceFloor,
        e.sliceCeiling, e.slicePercent, e.auctionBuy, e.auctionSell, e.extendedBuy,
        e.extendedSell} \subseteq Nat
    /\ e.volumeShare \in {NoValue} \cup (Nat \ {0}) /\ e.volumeFloor \in {NoValue} \cup Nat
    /\ e.chase \in 0..100 /\ e.band \in 0..100

SideOf(delta) == IF delta > 0 THEN "buy" ELSE "sell"
Amount(delta) == IF delta > 0 THEN delta ELSE -delta
RiskTarget(d) == d.tags \cap {"risk", "stop", "operator"} # {}

\* _bypass_unordered_quantity_guard: a stop's sale does not wait for open orders.
Bypasses(d) == d.granted < d.current /\ "stop" \in d.tags

\* PendingOrderState.unordered_delta: what the open orders do not cover yet.
Unordered(d, open) ==
  IF Bypasses(d) THEN d.granted - d.current
  ELSE d.granted - (d.current + open.buy - open.sell)

WithinMinutes(start, now, minutes) ==
  start # NoValue /\ minutes > 0 /\ now - start <= minutes

--------------------------------------------------------------------------------
(* The reasons to leave a target out of a cycle.                                 *)

\* _reused_target_suppression_reason.
ReusedSuppressed(d, delta, price, trace, batch) ==
  /\ batch # NoValue /\ trace.batch = batch /\ ~Bypasses(d)
  /\ \/ delta > 0 /\ exec.noReusedAdd
     \/ /\ delta < 0 /\ d.current > 0 /\ d.granted > 0
        /\ \/ Amount(delta) <= exec.reusedDelta
           \/ Amount(delta) * price <= exec.reusedNotional
           \/ Amount(delta) * 100 <= exec.reusedPercent * d.granted

\* _notional_rebalance_suppression_reason.
BandSuppressed(d, delta, price) ==
  LET band == Most(exec.bandNotional * 100, price * Most(d.current, d.granted) * exec.band)
  IN /\ exec.banded /\ d.current > 0 /\ d.granted > 0 /\ ~Bypasses(d) /\ ~RiskTarget(d)
     /\ Amount(delta) * price * 100 < band

\* Mutant: only a mark that has not recovered yet keeps the stock from being bought.
GuardCoolingMarked(mark, now) ==
  mark.status \in {"reduced", "exited"} /\ WithinMinutes(mark.event, now, exec.reentry)

\* _risk_reentry_suppression_reason: the guard sold the stock a moment ago.
GuardCooling(mark, now) ==
  /\ \/ mark.status \in {"reduced", "exited", "recovering"}
     \/ mark.cause \in {"reduced", "exited"}
  /\ WithinMinutes(mark.event, now, exec.reentry)

\* _target_state_reentry_suppression_reason: so did a stop or another risk rule.
ReductionCooling(trace, now) ==
  trace.cause \notin {NoValue, "rebalance"} /\ WithinMinutes(trace.reducedAt, now, exec.reentry)

\* _small_opposite_rebalance.
SmallOpposite(d, delta, price) ==
  LET base == Most(1, Most(d.current, d.granted))
      band == Most(exec.oppositeNotional * 100, base * price * exec.oppositePercent)
  IN \/ Amount(delta) * price * 100 < band
     \/ /\ exec.oppositeDelta > 0 /\ Amount(delta) <= exec.oppositeDelta
        /\ Amount(delta) * 100 <= base * exec.oppositePercent

\* _anti_oscillation_suppression_reason.
Oscillates(d, delta, price, trace, mark, batch, now) ==
  /\ exec.steady /\ ~Bypasses(d) /\ ~RiskTarget(d)
  /\ \/ delta > 0 /\ (GuardCooling(mark, now) \/ ReductionCooling(trace, now))
     \/ /\ trace.side \notin {NoValue, SideOf(delta)}
        /\ \/ exec.sameSource /\ batch # NoValue /\ trace.orderBatch = batch
           \/ /\ WithinMinutes(trace.at, now, exec.cooldown)
              /\ ~exec.onlySmall \/ SmallOpposite(d, delta, price)

--------------------------------------------------------------------------------
(* How much of a target is ordered: _execution_quantity.                         *)

\* _session_quantity_policy, in percent.
SessionPercent(side, phase) ==
  CASE phase = "closed" \/ (phase = "single_price" /\ exec.noSinglePrice) -> 0
    [] phase = "auction" -> IF side = "buy" THEN exec.auctionBuy ELSE exec.auctionSell
    [] phase = "extended" -> IF side = "buy" THEN exec.extendedBuy ELSE exec.extendedSell
    [] OTHER -> 100

Part(quantity, percent) ==
  IF percent >= 100 THEN quantity ELSE Most(1, (quantity * percent) \div 100)

\* _participation_volume and the cap taken from it; NoValue is no cap.
VolumeCap(fact, phase) ==
  IF (phase = "auction" /\ ~exec.auctionVolume) \/ exec.volumeShare = NoValue \/ fact.volume = 0
  THEN NoValue
  ELSE Most(Most(1, fact.volume \div exec.volumeShare),
            IF exec.volumeFloor = NoValue THEN 1
            ELSE (exec.volumeFloor + fact.price - 1) \div fact.price)

ExecutionQuantity(quantity, side, fact, phase) ==
  LET share == SessionPercent(side, phase)
      inSession == Part(quantity, share)
      chased == side = "buy" /\ fact.day # NoValue /\ exec.chaseAt # NoValue /\ fact.day >= exec.chaseAt
      wanted == IF chased THEN Most(1, (inSession * exec.chase) \div 100) ELSE inSession
      volumeCap == VolumeCap(fact, phase)
  IN IF share = 0 THEN 0
     ELSE IF volumeCap = NoValue THEN wanted ELSE Least(wanted, volumeCap)

\* _slice_notional_policy.
SliceNotional(equity, fact) ==
  LET byEquity == Most(exec.sliceFloor, Least(exec.sliceCeiling, (equity * exec.slicePercent) \div 100))
      liquid == IF fact.liquidity = NoValue THEN byEquity ELSE Least(byEquity, fact.liquidity)
  IN IF exec.dynamicSlices THEN Most(liquid, fact.price) ELSE exec.sliceNotional

\* _split_quantity: what fits into the slices of one cycle.
SubmittedQuantity(quantity, equity, fact) ==
  LET slice == Most(1, Least(exec.sliceQuantity, SliceNotional(equity, fact) \div fact.price))
  IN Least(quantity, exec.maxSlices * slice)

--------------------------------------------------------------------------------
(* create_orders and state_patches for one target.                               *)

NoOrder == [side |-> NoValue, quantity |-> 0]

Suppressed(d, delta, price, trace, mark, batch, now) ==
  \/ ReusedSuppressed(d, delta, price, trace, batch)
  \/ BandSuppressed(d, delta, price)
  \/ Oscillates(d, delta, price, trace, mark, batch, now)

CreateOrder(d, open, fact, trace, mark, batch, equity, phase, now) ==
  LET delta == Unordered(d, open)
      side == SideOf(delta)
      quantity == ExecutionQuantity(Amount(delta), side, fact, phase)
  IN IF \/ fact.price = 0 \/ d.granted = d.current \/ delta = 0
        \/ side # SideOf(d.granted - d.current)
        \/ Suppressed(d, delta, fact.price, trace, mark, batch, now)
        \/ quantity = 0
     THEN NoOrder
     ELSE [side |-> side, quantity |-> SubmittedQuantity(quantity, equity, fact)]

\* _target_reduction_reason; the guard's and the other risk tags have one effect.
ReductionCause(d) ==
  IF "risk" \in d.tags THEN "risk" ELSE IF "stop" \in d.tags THEN "stop" ELSE "rebalance"

TraceAfter(trace, d, order, batch, now) ==
  LET seen == [trace EXCEPT !.batch = batch]
      ordered == [seen EXCEPT !.side = order.side, !.at = now, !.orderBatch = batch]
  IN CASE order = NoOrder -> seen
       [] order.side = "buy" -> ordered
       [] order.side = "sell" -> [ordered EXCEPT !.reducedAt = now, !.cause = ReductionCause(d)]
===============================================================================
