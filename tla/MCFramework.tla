------------------------------ MODULE MCFramework -----------------------------
(* Constants for TLC of the parts of a sleeve's cycle. A behaviour runs one of    *)
(* them: "targets" is the runner up to its target batch, over time, sessions and *)
(* restarts; "orders" is what becomes of target batches, slice by slice; "leaps"  *)
(* is what the LEaps sleeve's own risk and execution models make of them.        *)
EXTENDS FrameworkCycle, Backtest, LeapsSleeve, TLC

CONSTANTS u, trend, guard, a, b, inverse

VARIABLE half

Signal(y, d, ttl) == [symbol |-> y, direction |-> d, ttl |-> ttl]

MCAlphas == <<guard, trend>>
MCCadenceOf == (trend :> [kind |-> "once_per_day"]) @@ (guard :> [kind |-> "every_cycle"])
Every2 == [kind |-> "every_minutes", n |-> 2]
Policy(mode, zero, duration, threshold, clock, cadence) ==
  [mode |-> mode, zeroWhenEmpty |-> zero, duration |-> duration, threshold |-> threshold,
   clock |-> clock, cadence |-> cadence]
EveryCycle == [kind |-> "every_cycle"]
\* A blend over three cycles, which needs six to be led elsewhere and then arrive.
Gradual == Policy("complete", FALSE, 3, 2, "orderable_session", EveryCycle)
MCPolicies ==
  {Gradual, Policy("complete", FALSE, 3, 2, "orderable_session", Every2),
   Policy("complete", TRUE, 1, 1, "wall_time", [kind |-> "daily_at", at |-> 1]),
   Policy("patch", FALSE, 3, 1, "wall_time", [kind |-> "once_per_day"]),
   Policy("raw", FALSE, 0, 0, "regular_session", EveryCycle)}
MCSignalsOf == (trend :> {<<Signal(a, "up", 9), Signal(b, "up", 9), Signal(u, "up", 9)>>,
                           <<Signal(b, "up", 2)>>})
            @@ (guard :> {<<>>, <<Signal(a, "flat", 9)>>})

Condition(quality, priced, session) ==
  [quality |-> quality, priced |-> priced, session |-> session]
MCConditions ==
  {Condition("valid", Symbols, "regular"), Condition("stale", {a}, "closed"),
   Condition("invalid", Symbols, "regular")}
\* The gradual blend is followed to MaxTime and without deaths or invalid snapshots,
\* the other policies with both and for a shorter time. Orders for u do not fill.
ShortTime == 4
WithinTime ==
  /\ u \notin held'
  /\ IF policy = Gradual THEN crashes' = crashes /\ cycle'.kind # "invalid"
     ELSE now' <= ShortTime
MCBlendPolicies == {Policy("complete", FALSE, 2, 2, "orderable_session", Every2)}

MCCurrencyOf == (a :> "KRW") @@ (b :> "KRW") @@ (u :> "USD")
MCInitialCash == ("KRW" :> 9) @@ ("USD" :> 4)

Plain ==
  [reserve |-> 0, minNotional |-> 0, minQuantity |-> 1, exitBelowMin |-> TRUE,
   entryFloor |-> 4, roundingGuard |-> 1, targetChurn |-> 0, reusedChurn |-> 0,
   risk |-> "basic", maxPosition |-> 4, maxExposure |-> 4, cashBuffer |-> 0, maxLoss |-> 1,
   maxSliceQuantity |-> 9, maxSlices |-> 9, slippage |-> 0, fee |-> 0]

MCSetups ==
  {Plain,
   [Plain EXCEPT !.entryFloor = 2, !.minNotional = 3, !.targetChurn = 2, !.reserve = 1],
   [Plain EXCEPT !.maxPosition = 3, !.maxExposure = 3, !.cashBuffer = 1, !.reusedChurn = 2,
                 !.maxSliceQuantity = 2, !.maxSlices = 2],
   [Plain EXCEPT !.risk = "drawdown", !.slippage = 1, !.fee = 1, !.maxSliceQuantity = 1],
   [Plain EXCEPT !.risk = "daily_loss", !.maxLoss = 2, !.minQuantity = 2]}

MCPriceLists ==
  {(a :> 2) @@ (b :> 3) @@ (u :> 2), (a :> 4) @@ (b :> 2), (a :> 1) @@ (u :> 3)}

T(y, w, urgent) == [symbol |-> y, weight |-> w, urgent |-> urgent]
MCBatches ==
  {<<T(a, 2, FALSE), T(b, 3, FALSE)>>, <<T(b, 3, FALSE), T(a, 0, TRUE), T(u, 4, FALSE)>>,
   <<T(a, 1, FALSE), T(u, 0, FALSE), T(b, 1, FALSE)>>}

--------------------------------------------------------------------------------
(* "leaps": the hedge and guard setups, scenes and books.                     *)

LiveHedge ==
  [maxPosition |-> 50, maxExposure |-> 90, cashBuffer |-> 0, regimes |-> TRUE,
   regimeCap |-> [risk_off |-> 45, neutral |-> 90, risk_on |-> 80, strong_risk_on |-> 90],
   overlay |-> FALSE, freezeDrawdown |-> 350, riskOffDrawdown |-> 1000, freezeLoss |-> 250,
   riskOffLoss |-> 1000, equityEntryCap |-> 85, equityRiskCap |-> 40, recovery |-> 60, confirm |-> 2,
   indexGuard |-> TRUE, indexFreeze |-> -100, indexRiskOff |-> -200, fromHigh |-> TRUE,
   highFreeze |-> -150, highRiskOff |-> -200, entryCap |-> 55, riskCap |-> 35, gateUntil |-> 1,
   smooth |-> TRUE, curve |-> "smoothstep", hardFreeze |-> FALSE, indexRecovers |-> TRUE,
   indexRecovery |-> 60, indexConfirm |-> 2, recoveryCap |-> 55,
   symbolGuard |-> TRUE, fraction |-> 50, markConfirm |-> 2, scaled |-> TRUE, refVolatility |-> 400,
   minMultiplier |-> 75, maxMultiplier |-> 125, entryMultiplier |-> 125,
   exitGain |-> -1000, exitDrop |-> -2200, exitGap |-> -2000,
   reduceGain |-> -700, reduceDrop |-> -1600, reduceGap |-> -2000,
   entryDay |-> -1200, entryGain |-> -800, entryGap20 |-> -300, entryGap10 |-> NoValue,
   entryDrop |-> -1000, pullback |-> TRUE, addFraction |-> 35, addDay |-> -1200, addGain |-> -600,
   addGap10 |-> 0, addGap20 |-> 0, addAlphas |-> 0]
StrictHedge ==
  [LiveHedge EXCEPT !.smooth = FALSE, !.hardFreeze = TRUE, !.gateUntil = 0, !.pullback = FALSE,
                    !.scaled = FALSE, !.markConfirm = 1]
OverlayHedge == [LiveHedge EXCEPT !.overlay = TRUE, !.indexGuard = FALSE, !.curve = "linear"]
MCHedgeSetups == {LiveHedge, StrictHedge, OverlayHedge}

LiveExec ==
  [noReusedAdd |-> FALSE, reusedDelta |-> 0, reusedNotional |-> 0, reusedPercent |-> 5,
   banded |-> TRUE, bandNotional |-> 1, band |-> 8, steady |-> TRUE, cooldown |-> 1, reentry |-> 2,
   sameSource |-> TRUE, onlySmall |-> FALSE, oppositeDelta |-> 2, oppositeNotional |-> 3,
   oppositePercent |-> 5, noSinglePrice |-> TRUE, auctionBuy |-> 65, auctionSell |-> 100,
   extendedBuy |-> 35, extendedSell |-> 100, auctionVolume |-> FALSE, volumeShare |-> 200,
   volumeFloor |-> 8, chaseAt |-> 500, chase |-> 40, dynamicSlices |-> TRUE, slicePercent |-> 20,
   sliceFloor |-> 4, sliceCeiling |-> 8, sliceNotional |-> 6, sliceQuantity |-> 9, maxSlices |-> 2]
OtherExec == [LiveExec EXCEPT !.onlySmall = TRUE, !.noReusedAdd = TRUE, !.dynamicSlices = FALSE]
MCExecutionFor == (LiveHedge :> LiveExec) @@ (StrictHedge :> OtherExec) @@ (OverlayHedge :> LiveExec)

StockFact(price, gain, drop) ==
  [price |-> price, day |-> 0, drop |-> drop, gain |-> gain, gap10 |-> 0, gap20 |-> 0,
   volatility |-> 400, alphas |-> 1, volume |-> 0, liquidity |-> NoValue]
Bar(high, low, close) == [high |-> high, low |-> low, close |-> close]
Mood(ups, stops) == [ups |-> ups, stops |-> stops, breadth |-> 50, momentum |-> 10, volatility |-> 10]
Scene(fx, fy, bar, mood, fresh, phase) ==
  [facts |-> (a :> fx) @@ (b :> fy) @@ (inverse :> StockFact(1, 0, 0)),
   bar |-> bar, reference |-> 1000, mood |-> mood, fresh |-> fresh, phase |-> phase]
Good == StockFact(2, 100, -100)
Calm == Scene(Good, StockFact(3, 0, 0), Bar(1000, 995, 1000), Mood(2, 0), TRUE, "regular")
Damage == Scene(StockFact(2, -750, -1700), StockFact(3, 0, 0), Bar(990, 980, 985), Mood(2, 0), TRUE, "regular")
Rout == Scene(StockFact(1, -1100, -1800), StockFact(3, 0, -1100), Bar(990, 970, 988), Mood(0, 1), TRUE, "regular")
Blind == Scene(Good, StockFact(2, 0, -1100), NoValue, Mood(0, 0), FALSE, "auction")
Surge == Scene([Good EXCEPT !.day = 600, !.volume = 300], StockFact(3, 0, 0), Bar(980, 960, 962),
               Mood(0, 0), TRUE, "extended")
MCScenesFor ==
  (LiveHedge :> {Calm, Damage, Surge}) @@ (StrictHedge :> {Damage, Rout, Calm})
  @@ (OverlayHedge :> {Calm, Rout, Blind})
MCStartAt == (LiveHedge :> 2) @@ (StrictHedge :> 2) @@ (OverlayHedge :> 0)
MCLeapsBatches ==
  {<<Target(a, 4, {}), Target(b, 1, {})>>,
   <<Target(b, 2, {}), Target(a, 0, {"stop"}), Target(inverse, 3, {})>>,
   <<Target(a, 5, {"operator"})>>}
MCStartingBooks ==
  {[cash |-> 6, shares |-> (a :> 4) @@ (b :> 2) @@ (inverse :> 0)]}

--------------------------------------------------------------------------------
\* A variable of another part keeps one value.
FirstPolicy == policy = CHOOSE p \in Policies : TRUE
FirstSetup == setup = CHOOSE s \in Setups : TRUE
FirstHedge == hedge = CHOOSE h \in HedgeSetups : TRUE

MCInit ==
  /\ half \in {"targets", "orders", "leaps"}
  /\ Init /\ BacktestInit /\ LeapsInit
  /\ half # "targets" => FirstPolicy
  /\ half # "orders" => FirstSetup
  /\ half # "leaps" => FirstHedge

MCNext ==
  /\ UNCHANGED half
  /\ \/ half = "targets" /\ Next /\ WithinTime /\ UNCHANGED <<backtestVars, leapsVars>>
     \/ half = "orders" /\ BacktestNext /\ UNCHANGED <<vars, leapsVars>>
     \/ half = "leaps" /\ LeapsNext /\ UNCHANGED <<vars, backtestVars>>

MCSpec == MCInit /\ [][MCNext]_<<half, vars, backtestVars, leapsVars>>
===============================================================================
