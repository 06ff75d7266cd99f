------------------------------ MODULE SymbolGuard ------------------------------
(* The risk model's pass over the targets: the guard of every stock, the limits   *)
(* on position, exposure and cash, and the reduction of what is held when the cap *)
(* has come down below it. A fact holds what the bar and the active insights say  *)
(* of a stock: its price, and as basis points (NoValue where there is none) the   *)
(* return since the open, the fall from the session's high, the gain on the       *)
(* position, the distance to the averages, and the volatility.                    *)
EXTENDS HedgeRisk

NoMark == [status |-> NoValue, anchor |-> NoValue, confirmed |-> 0,
           event |-> NoValue, cause |-> NoValue]

Target(y, quantity, tags) == [symbol |-> y, quantity |-> quantity, tags |-> tags]

\* A decision: granted is the approved quantity, or the current one if rejected.
Decide(t, current, granted, reason) ==
  [symbol |-> t.symbol, wanted |-> t.quantity, current |-> current, granted |-> granted,
   approved |-> reason # "rejected", reason |-> reason, anchor |-> NoValue,
   tags |-> t.tags \cup (IF reason \in {"guard_exit", "guard_reduce"}
                            \/ (reason = "limits" /\ granted < current)
                         THEN {"risk"} ELSE {})]

--------------------------------------------------------------------------------
(* _symbol_guard_thresholds: loss limits are scaled by the stock's volatility.   *)

Multiplier(fact) ==
  IF ~hedge.scaled \/ fact.volatility = NoValue THEN 100
  ELSE Least(hedge.maxMultiplier,
             Most(hedge.minMultiplier, (fact.volatility * 100) \div hedge.refVolatility))
EntryMultiplier(fact) == Least(Multiplier(fact), hedge.entryMultiplier)

AtOrBelow(figure, limit, percent) ==
  figure # NoValue /\ limit # NoValue /\ figure * 100 <= limit * percent
AtLeast(figure, limit) == figure # NoValue => figure >= limit

ExitReason(fact) ==
  \/ AtOrBelow(fact.gain, hedge.exitGain, Multiplier(fact))
  \/ AtOrBelow(fact.drop, hedge.exitDrop, Multiplier(fact))
  \/ AtOrBelow(fact.gap20, hedge.exitGap, 100)

ReduceReason(fact) ==
  \/ AtOrBelow(fact.gain, hedge.reduceGain, Multiplier(fact))
  \/ AtOrBelow(fact.drop, hedge.reduceDrop, Multiplier(fact))
  \/ AtOrBelow(fact.gap10, hedge.reduceGap, 100)

HardBlock(fact, holds) ==
  \/ AtOrBelow(fact.day, hedge.entryDay, EntryMultiplier(fact))
  \/ /\ holds
     /\ \/ AtOrBelow(fact.gain, hedge.entryGain, EntryMultiplier(fact))
        \/ AtOrBelow(fact.gap20, hedge.entryGap20, 100)
        \/ AtOrBelow(fact.gap10, hedge.entryGap10, 100)

DrawdownBlock(fact) == AtOrBelow(fact.drop, hedge.entryDrop, EntryMultiplier(fact))

\* _symbol_guard_pullback_add_quantity.
PullbackAllowed(fact, current) ==
  /\ hedge.pullback /\ current > 0
  /\ fact.day # NoValue /\ fact.day >= hedge.addDay
  /\ fact.gain # NoValue /\ fact.gain >= hedge.addGain
  /\ AtLeast(fact.gap10, hedge.addGap10) /\ AtLeast(fact.gap20, hedge.addGap20)
  /\ fact.alphas >= hedge.addAlphas

PullbackQuantity(current, wanted) ==
  LET more == ((wanted - current) * hedge.addFraction + 99) \div 100
  IN Least(wanted, current + Most(1, more))

\* Mutant: the half is taken of what is left, in every cycle anew.
AnchorForgotten(mark, current, wanted) == current

\* _symbol_guard_reduce_anchor_quantity.
Anchor(mark, current, wanted) ==
  IF mark.status = "reduced" /\ mark.anchor # NoValue /\ mark.anchor > 0
  THEN Most(mark.anchor, current)
  ELSE IF wanted > current /\ current <= (wanted * hedge.fraction) \div 100
  THEN NoValue ELSE current

\* The quantity a reduction leaves.
ReducedTo(anchor, current) ==
  IF anchor = NoValue THEN current ELSE Least(current, (anchor * hedge.fraction) \div 100)

\* _symbol_guard_decision: at most one decision, none where the guard has no objection.
GuardDecisions(fact, mark, t, current) ==
  LET guarded == hedge.symbolGuard /\ t.symbol \notin Safety
      anchor == Anchor(mark, current, t.quantity)
      left == ReducedTo(anchor, current)
      reduces == current > 0 /\ ReduceReason(fact) /\ left < t.quantity
      leaves == current > 0 /\ ExitReason(fact)
      more == t.quantity > current
      blocked == HardBlock(fact, current > 0)
      pulled == PullbackAllowed(fact, current)
  IN CASE ~guarded -> {}
       [] guarded /\ leaves -> {Decide(t, current, 0, "guard_exit")}
       [] guarded /\ ~leaves /\ reduces ->
            {[Decide(t, current, left, "guard_reduce") EXCEPT !.anchor = anchor]}
       [] guarded /\ ~leaves /\ ~reduces /\ more /\ blocked ->
            {Decide(t, current, current, "guard_block")}
       [] guarded /\ ~leaves /\ ~reduces /\ more /\ ~blocked /\ DrawdownBlock(fact) ->
            {IF pulled THEN Decide(t, current, PullbackQuantity(current, t.quantity), "pullback")
             ELSE Decide(t, current, current, "guard_block")}
       [] OTHER -> {}

--------------------------------------------------------------------------------
(* The limits. pass holds what the decisions so far have left: the quantities     *)
(* granted, the cash, and the decisions. Cash is counted in hundredths.           *)

Counts(limit, y) == ~(limit.index /\ y \in Safety)
Exposure(granted, prices, limit) ==
  Value(granted, prices, {y \in Stocks : Counts(limit, y)})

\* _clamp_position.
WithinPosition(p, prices, t) ==
  Least(t.quantity, (Wealth(p, prices) * hedge.maxPosition) \div (100 * prices[t.symbol]))

\* Mutant: what the other stocks already take of the cap is not counted.
WithinOwnCap(p, prices, pass, y, quantity, limit) ==
  Least(quantity, (Wealth(p, prices) * limit.cap) \div (100 * prices[y]))

\* _clamp_total_exposure.
WithinCap(p, prices, pass, y, quantity, limit) ==
  LET others == Exposure([pass.granted EXCEPT ![y] = 0], prices, limit)
      allowed == Most(0, Wealth(p, prices) * limit.cap - 100 * others)
  IN IF Counts(limit, y) THEN Least(quantity, allowed \div (100 * prices[y])) ELSE quantity

\* _clamp_cash.
WithinCash(pass, price, current, quantity) ==
  IF quantity <= current THEN quantity
  ELSE Least(quantity, current + pass.cash \div (100 * price))

Spend(price, current, quantity) == 100 * price * Most(0, quantity - current)

\* The reasons to answer a target before its price is looked at.
EntryRefused(t, current, limit, fresh) ==
  LET more == t.quantity > current
  IN CASE t.quantity < 0 -> {Decide(t, current, current, "rejected")}
       [] t.quantity >= 0 /\ more /\ limit.freeze /\ t.symbol \notin Safety ->
            {Decide(t, current, current, "frozen")}
       [] t.quantity >= 0 /\ more /\ ~(limit.freeze /\ t.symbol \notin Safety) /\ ~fresh ->
            {Decide(t, current, current, "rejected")}
       [] OTHER -> {}

\* _evaluate_target behind the guards: the three limits, one after the other.
Limited(p, prices, pass, t, current, limit) ==
  LET y == t.symbol
      sized == WithinCap(p, prices, pass, y, WithinPosition(p, prices, t), limit)
      quantity == WithinCash(pass, prices[y], current, sized)
      reason == IF quantity = current /\ t.quantity # current THEN "rejected" ELSE "limits"
      decision == Decide(t, current, quantity, reason)
  IN [granted |-> [pass.granted EXCEPT ![y] = quantity],
      cash |-> pass.cash - Spend(prices[y], current, quantity),
      decisions |-> Append(pass.decisions, decision)]

\* One target of a pass; facts, marks, limit and fresh do not change during it.
EvaluateTarget(p, facts, marks, limit, fresh, pass, t) ==
  LET y == t.symbol
      current == p.shares[y]
      prices == [x \in Stocks |-> facts[x].price]
      early == EntryRefused(t, current, limit, fresh)
      unpriced == IF prices[y] = 0 THEN {Decide(t, current, current, "rejected")} ELSE {}
      objection == GuardDecisions(facts[y], marks[y], t, current)
      answer == CHOOSE d \in (IF early # {} THEN early
                              ELSE IF unpriced # {} THEN unpriced ELSE objection) : TRUE
  IN IF early \cup unpriced \cup objection = {} THEN Limited(p, prices, pass, t, current, limit)
     ELSE [pass EXCEPT !.decisions = Append(@, answer), !.granted[y] = answer.granted]

\* _currency_exposure_above_cap, with its tolerance of one unit.
AboveCap(p, prices, granted, limit) ==
  LET wealth == Wealth(p, prices)
  IN wealth > 0 /\ limit.cap < 100
     /\ 100 * Exposure(granted, prices, limit) > wealth * limit.cap + 100

\* _exposure_cap_deleverage_targets: the worst position first, as it is held.
Worse(facts, p, x, y) ==
  LET loss(z) == IF facts[z].gain = NoValue THEN 0 ELSE facts[z].gain
      size(z) == p.shares[z] * facts[z].price
  IN loss(x) < loss(y) \/ (loss(x) = loss(y) /\ size(x) > size(y))

Spare(p, facts, targets, limit) ==
  {y \in Held(p) : Counts(limit, y) /\ facts[y].price > 0
                   /\ \A i \in DOMAIN targets : targets[i].symbol # y}

\* _exposure_cap_deleverage_targets, one of them: the worst of those that are left.
Deleverage(p, facts, marks, limit, fresh, state) ==
  LET worst == CHOOSE y \in state.left : \A x \in state.left : ~Worse(facts, p, x, y)
      prices == [y \in Stocks |-> facts[y].price]
  IN [left |-> state.left \ {worst},
      pass |-> IF AboveCap(p, prices, state.pass.granted, limit)
               THEN EvaluateTarget(p, facts, marks, limit, fresh, state.pass,
                                   Target(worst, p.shares[worst], {"risk"}))
               ELSE state.pass]

\* manage_risk: every target, then the reduction of what is held beside them.
StartRisk(p) ==
  [granted |-> p.shares, cash |-> p.cash * (100 - hedge.cashBuffer), decisions |-> <<>>]
TargetsPass(p, facts, marks, limit, fresh, targets) ==
  LET pass[n \in 0..Len(targets)] ==
        IF n = 0 THEN StartRisk(p)
        ELSE EvaluateTarget(p, facts, marks, limit, fresh, pass[n - 1], targets[n])
  IN pass[Len(targets)]
ManageRisk(p, facts, marks, limit, fresh, targets) ==
  LET spare == Spare(p, facts, targets, limit)
      state[n \in 0..Cardinality(spare)] ==
        IF n = 0 THEN [left |-> spare, pass |-> TargetsPass(p, facts, marks, limit, fresh, targets)]
        ELSE Deleverage(p, facts, marks, limit, fresh, state[n - 1])
  IN state[Cardinality(spare)].pass.decisions

--------------------------------------------------------------------------------
(* _symbol_guard_state_patches: what a decision leaves in the stock's record.     *)

\* Mutant: the next decision without an objection clears the mark.
ClearedAtOnce(mark, decision, now) == NoMark

Recovering(mark, decision, now) ==
  [mark EXCEPT !.status = IF mark.confirmed + 1 < hedge.markConfirm THEN "recovering" ELSE "clear",
               !.anchor = NoValue, !.confirmed = @ + 1]

\* A patch merges into the record that is there: what it does not name survives, the
\* count of confirmations through a cut and the anchor through an exit.
MarkAfter(mark, decision, now) ==
  CASE decision.symbol \in Safety \/ ~hedge.symbolGuard -> mark
    [] decision.symbol \notin Safety /\ hedge.symbolGuard /\ decision.reason = "guard_reduce" ->
         [mark EXCEPT !.status = "reduced", !.event = now, !.cause = "reduced",
                      !.anchor = IF decision.anchor # NoValue THEN decision.anchor
                                 ELSE IF @ # NoValue THEN @ ELSE decision.current]
    [] decision.symbol \notin Safety /\ hedge.symbolGuard /\ decision.reason = "guard_exit" ->
         [mark EXCEPT !.status = "exited", !.event = now, !.cause = "exited"]
    [] OTHER ->
         IF mark.status \in {"reduced", "exited", "recovering"}
         THEN Recovering(mark, decision, now) ELSE mark

\* A symbol has one decision at most: targets name it once, and the reduction leaves them out.
DecisionsOn(decisions, y) ==
  {decisions[i] : i \in {j \in DOMAIN decisions : decisions[j].symbol = y}}
MarksAfter(marks, decisions, now) ==
  [y \in Stocks |->
     LET mine == DecisionsOn(decisions, y)
     IN IF mine = {} THEN marks[y] ELSE MarkAfter(marks[y], CHOOSE d \in mine : TRUE, now)]
===============================================================================
