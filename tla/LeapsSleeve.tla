------------------------------ MODULE LeapsSleeve ------------------------------
(* The LEaps sleeve from its target batch to its orders: the risk model decides,  *)
(* the execution model orders, the records of both go to the model state, and     *)
(* orders are filled or expire between the cycles. A batch is used for several    *)
(* cycles. All that is remembered is in the model state, so a restart between two *)
(* cycles is no step of its own.                                                  *)
EXTENDS LeapsExecution

CONSTANTS
  ScenesFor,       \* what a cycle can find: facts, index, mood, freshness, phase
  LeapsBatches,    \* the target batches of the portfolio model
  StartingBooks,   \* cash and shares
  SessionLength,   \* cycles of a session
  StartAt,         \* the moment a behaviour starts at
  MaxMoments,      \* bound: cycles
  MaxLeapsBatches  \* bound: batches

VARIABLES
  lpBook,          \* [cash, shares] of the sleeve
  lpOpen,          \* open orders per stock
  lpPrices,        \* the prices orders are filled at: those of the last cycle
  lpMarks,         \* model state: symbol_guard
  lpTraces,        \* model state: target_fulfillment
  lpIndex,         \* model state: intraday_guard
  lpEquity,        \* model state: regime_equity
  lpBatch,         \* the batch in use, [id, targets]
  lpMoment,        \* time, in cycles
  lpCycle,         \* decisions, orders and limit of the last cycle
  lpStory          \* history for the properties: cuts, sizes at a mark's first cut,
                   \* index bars and equities of the session

leapsVars == <<hedge, exec, lpBook, lpOpen, lpPrices, lpMarks, lpTraces, lpIndex, lpEquity,
               lpBatch, lpMoment, lpCycle, lpStory>>

LeapsTags == {"risk", "stop", "operator"}
LeapsTargets == [symbol : Stocks, quantity : Int, tags : SUBSET LeapsTags]
LeapsFigures == {NoValue} \cup Int
LeapsFacts ==
  [price : Nat, day : LeapsFigures, drop : LeapsFigures, gain : LeapsFigures, gap10 : LeapsFigures,
   gap20 : LeapsFigures, volatility : LeapsFigures, alphas : Nat, volume : Nat,
   liquidity : {NoValue} \cup Nat]
LeapsBars == [high : Nat \ {0}, low : Nat \ {0}, close : Nat \ {0}]
ASSUME LeapsAssumption ==
  /\ SessionLength \in Nat \ {0}
  /\ StartingBooks \subseteq [cash : Nat, shares : [Stocks -> Nat]]
  /\ \A batch \in LeapsBatches :
       /\ batch \in Seq(LeapsTargets)
       /\ \A i, j \in DOMAIN batch : batch[i].symbol = batch[j].symbol => i = j
  /\ \A h \in HedgeSetups :
       /\ StartAt[h] \in Nat
       /\ \A scene \in ScenesFor[h] :
            /\ scene.bar \in {NoValue} \cup LeapsBars
            /\ scene.reference \in {NoValue} \cup (Nat \ {0})
            /\ scene.facts \in [Stocks -> LeapsFacts]

Session(moment) == moment \div SessionLength
MinuteOf(moment) == moment % SessionLength
NothingOpen == [buy |-> 0, sell |-> 0]
NoCycle == [decisions |-> <<>>, orders |-> [y \in Stocks |-> NoOrder], limit |-> NoFreeze(100)]
NoStory == [cut |-> [y \in Stocks |-> NoValue], size |-> [y \in Stocks |-> NoValue],
            bars |-> <<>>, worth |-> <<>>]

LeapsInit ==
  /\ hedge \in HedgeSetups /\ exec = ExecutionFor[hedge]
  /\ lpBook \in StartingBooks
  /\ lpOpen = [y \in Stocks |-> NothingOpen]
  /\ lpPrices = [y \in Stocks |-> 0]
  /\ lpMarks = [y \in Stocks |-> NoMark] /\ lpTraces = [y \in Stocks |-> NoTrace]
  /\ lpIndex = NoIndex /\ lpEquity = NoEquity
  /\ lpBatch = [id |-> 0, targets |-> <<>>]
  /\ lpMoment = StartAt[hedge] /\ lpCycle = NoCycle /\ lpStory = NoStory

\* The figures of a position are there only where there is one.
FactsIn(scene) ==
  [y \in Stocks |-> [scene.facts[y] EXCEPT !.gain = IF lpBook.shares[y] > 0 THEN @ ELSE NoValue]]

\* The limit of a cycle: without the index guard's bar its state is left alone; the
\* equity overlay, where it is enabled, takes the place of the index guard's.
LimitOf(scene, index, equity) ==
  LET base == BaseCap(RegimeName(scene.mood))
      guarded == IF hedge.indexGuard /\ scene.bar # NoValue
                 THEN IndexLimit(base, scene.bar, scene.reference, index, MinuteOf(lpMoment))
                 ELSE NoFreeze(base)
      limit == IF hedge.overlay THEN EquityLimit(base, equity) ELSE guarded
  IN IF hedge.regimes THEN limit ELSE [limit EXCEPT !.cap = hedge.maxExposure]

IndexAfter(scene) ==
  IF hedge.indexGuard /\ scene.bar # NoValue
  THEN IndexState(lpIndex, Session(lpMoment), scene.bar) ELSE lpIndex
EquityAfter(worth) ==
  IF hedge.overlay /\ worth > 0 THEN EquityState(lpEquity, Session(lpMoment), worth) ELSE lpEquity

ApprovedOn(decisions, y) == {d \in DecisionsOn(decisions, y) : d.approved}

Cuts(decisions, y) ==
  \E i \in DOMAIN decisions :
    decisions[i].symbol = y /\ decisions[i].reason \in {"guard_exit", "guard_reduce"}

Halves(decisions, y) ==
  \E i \in DOMAIN decisions :
    /\ decisions[i].symbol = y /\ decisions[i].reason = "guard_reduce"
    /\ decisions[i].granted < decisions[i].current

SoFar(session) == IF MinuteOf(lpMoment) = 0 THEN <<>> ELSE session

StoryAfter(scene, decisions, marks, worth) ==
  [cut |-> [y \in Stocks |-> IF Cuts(decisions, y) THEN lpMoment ELSE lpStory.cut[y]],
   size |-> [y \in Stocks |-> IF marks[y].status # "reduced" THEN NoValue
                              ELSE IF lpStory.size[y] # NoValue THEN lpStory.size[y]
                              ELSE IF Halves(decisions, y) THEN lpBook.shares[y] ELSE NoValue],
   bars |-> SoFar(lpStory.bars) \o (IF scene.bar = NoValue THEN <<>> ELSE <<scene.bar>>),
   worth |-> SoFar(lpStory.worth) \o (IF worth > 0 THEN <<worth>> ELSE <<>>)]

\* The order, if any, for each symbol the risk model decided on.
OrdersOn(decisions, facts, worth, scene, batch) ==
  [y \in Stocks |->
     LET mine == ApprovedOn(decisions, y)
     IN IF mine = {} THEN NoOrder
        ELSE CreateOrder(CHOOSE d \in mine : TRUE, lpOpen[y], facts[y], lpTraces[y], lpMarks[y],
                         batch.id, worth, scene.phase, lpMoment)]

\* What a cycle leaves behind once its decisions and orders are made.
LeapsCommit(scene, batch, facts, worth, limit, decisions, orders) ==
  /\ lpBatch' = batch
  /\ lpPrices' = [y \in Stocks |-> facts[y].price]
  /\ lpIndex' = IndexAfter(scene) /\ lpEquity' = EquityAfter(worth)
  /\ lpCycle' = [decisions |-> decisions, orders |-> orders, limit |-> limit]
  /\ lpMarks' = MarksAfter(lpMarks, decisions, lpMoment)
  /\ lpTraces' = [y \in Stocks |->
                    LET mine == ApprovedOn(decisions, y)
                    IN IF mine = {} THEN lpTraces[y]
                       ELSE TraceAfter(lpTraces[y], CHOOSE d \in mine : TRUE, orders[y], batch.id, lpMoment)]
  /\ lpOpen' = [y \in Stocks |->
                  [buy |-> lpOpen[y].buy + (IF orders[y].side = "buy" THEN orders[y].quantity ELSE 0),
                   sell |-> lpOpen[y].sell + (IF orders[y].side = "sell" THEN orders[y].quantity ELSE 0)]]
  /\ lpStory' = StoryAfter(scene, decisions, lpMarks', worth)
  /\ lpMoment' = lpMoment + 1
  /\ UNCHANGED <<hedge, exec, lpBook>>

LeapsCycle(scene, batch) ==
  LET facts == FactsIn(scene)
      worth == Wealth(lpBook, [y \in Stocks |-> facts[y].price])
      limit == LimitOf(scene, IndexAfter(scene), EquityAfter(worth))
  IN \E decisions \in {ManageRisk(lpBook, facts, lpMarks, limit, scene.fresh, batch.targets)} :
       LeapsCommit(scene, batch, facts, worth, limit, decisions,
                   OrdersOn(decisions, facts, worth, scene, batch))

\* The broker, between two cycles: what is open is filled, or it expires.
Filled(y) ==
  LET buys == lpOpen[y].buy
      sells == Least(lpOpen[y].sell, lpBook.shares[y])
  IN buys - sells

FillOpen ==
  LET cost == SumFunctionOnSet([y \in Stocks |-> Filled(y) * lpPrices[y]], Stocks)
  IN /\ lpBook.cash >= cost
     /\ lpBook' = [cash |-> lpBook.cash - cost,
                   shares |-> [y \in Stocks |-> lpBook.shares[y] + Filled(y)]]

Broker ==
  /\ \E y \in Stocks : lpOpen[y] # NothingOpen
  /\ FillOpen \/ UNCHANGED lpBook
  /\ lpOpen' = [y \in Stocks |-> NothingOpen]
  /\ UNCHANGED <<hedge, exec, lpPrices, lpMarks, lpTraces, lpIndex, lpEquity, lpBatch, lpMoment,
                 lpCycle, lpStory>>

\* A new batch, or one more cycle with the batch in use.
BatchChoices ==
  {lpBatch} \cup {[id |-> lpBatch.id + 1, targets |-> t] :
                    t \in IF lpBatch.id < MaxLeapsBatches THEN LeapsBatches ELSE {}}

LeapsNext ==
  \/ /\ lpMoment < StartAt[hedge] + MaxMoments
     /\ \E scene \in ScenesFor[hedge], batch \in BatchChoices : LeapsCycle(scene, batch)
  \/ Broker

LeapsSpec == LeapsInit /\ [][LeapsNext]_leapsVars

--------------------------------------------------------------------------------
CycleStep == lpMoment' # lpMoment

(* A stock the guard has sold is not bought back within the cooldown, in whatever *)
(* state its mark is by then and whatever batch is in use, unless the batch says  *)
(* itself that its target is a matter of risk, of a stop or of the operator.      *)
NoBuyback ==
  \A y \in Stocks :
    lpCycle'.orders[y].side = "buy" /\ exec.steady /\ lpStory.cut[y] # NoValue
    => \/ lpMoment - lpStory.cut[y] > exec.reentry
       \/ \E i \in DOMAIN lpBatch'.targets :
            /\ lpBatch'.targets[i].symbol = y
            /\ lpBatch'.targets[i].tags # {}

(* However many cycles the damage lasts, as long as the mark stays the guard asks *)
(* for no less than the half of what was held when it first cut.                  *)
HalvedOnce ==
  \A i \in DOMAIN lpCycle'.decisions :
    LET d == lpCycle'.decisions[i]
        start == lpStory.size[d.symbol]
    IN d.reason = "guard_reduce" /\ start # NoValue
       => d.granted >= Least(d.current, (start * hedge.fraction) \div 100)

(* A cycle leaves no more exposure than the cap, up to the tolerance, unless it   *)
(* was raised or kept by an answer that is not subject to the limits.             *)
CapHolds ==
  LET decisions == lpCycle'.decisions
      granted == [y \in Stocks |-> IF DecisionsOn(decisions, y) = {} THEN lpBook.shares[y]
                                   ELSE (CHOOSE d \in DecisionsOn(decisions, y) : TRUE).granted]
      limit == lpCycle'.limit
  IN limit.cap < 100 /\ (\A i \in DOMAIN decisions : decisions[i].reason = "limits")
     => ~AboveCap(lpBook, lpPrices', granted, limit)

\* The last n values have not fallen.
Rising(values, n) ==
  Len(values) >= n /\ \A i \in (Len(values) - n + 2)..Len(values) : values[i - 1] <= values[i]
Closes(bars) == [i \in DOMAIN bars |-> bars[i].close]
Lows(bars) == {bars[i].low : i \in DOMAIN bars} \cup {bars[i].close : i \in DOMAIN bars}

(* The record of the session's extremes misses no bar a cycle has seen, and the   *)
(* cap is lifted only when the index has held off its low for enough cycles.      *)
ReleaseConfirmed ==
  LET bars == lpStory'.bars
  IN lpCycle'.limit.released =>
       /\ Rising(Closes(bars), hedge.indexConfirm)
       /\ Bps(bars[Len(bars)].close, Min(Lows(bars))) >= hedge.indexRecovery

(* Within a session the equity overlay comes down one step at a time, and only    *)
(* after as many cycles without a loss as must confirm it; a cycle that knows no  *)
(* equity counts as none.                                                         *)
OverlayConfirmed ==
  lpEquity.day = lpEquity'.day /\ Severity[lpEquity'.overlay] < Severity[lpEquity.overlay]
  => /\ Severity[lpEquity'.overlay] = Severity[lpEquity.overlay] - 1
     /\ Rising(lpStory'.worth, hedge.confirm + 1)

(* What the guards of the sleeve promise, in every cycle.                         *)
LeapsGuardsHold ==
  [][CycleStep => NoBuyback /\ HalvedOnce /\ CapHolds /\ ReleaseConfirmed /\ OverlayConfirmed]_leapsVars
===============================================================================
