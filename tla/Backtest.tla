-------------------------------- MODULE Backtest ------------------------------
(* run_framework_replay and run_framework_backtest: one sleeve over a feed of    *)
(* data slices. Each slice updates the last prices and the daily bars, sizes the *)
(* target batch, asks the risk model, creates orders in slices, fills them at    *)
(* once with slippage and fees, and books the fills in the portfolio and in the  *)
(* tracker that the report is made of.                                           *)
EXTENDS RiskManagement

CONSTANTS PriceLists,    \* the bars a slice may have
          Batches,       \* the target batches a cycle may aim at
          InitialCash,
          SlicesPerDay, MaxSlices,   \* length of a day, and the bound on the feed
          WarmUp,        \* slices before `start`: only prices and indicators see them
          CostUnit       \* slippage and fees of a setup are counted in units of 1 / CostUnit

\* The target resolver leaves one target of a symbol.
OneTargetEach(batch) ==
  \A i, j \in DOMAIN batch : batch[i].symbol = batch[j].symbol => i = j

ASSUME BacktestAssumption ==
  /\ \A prices \in PriceLists : \E bars \in SUBSET Symbols : prices \in [bars -> Nat]
  /\ Batches \subseteq Seq([symbol : Symbols, weight : -Full..Full, urgent : BOOLEAN])
  /\ \A batch \in Batches : OneTargetEach(batch)
  /\ MaxSlices \in Nat /\ WarmUp \in 0..MaxSlices /\ SlicesPerDay \in Nat \ {0}
  /\ InitialCash \in [Currencies -> Nat] /\ CostUnit \in Nat \ {0}
  /\ \A s \in Setups : /\ s.maxSliceQuantity \in Nat \ {0} /\ s.maxSlices \in Nat \ {0}
                       /\ s.slippage \in 0..CostUnit /\ s.fee \in 0..CostUnit

VARIABLES
  portfolio,
  feed,       \* number of slices seen, the last prices, the dates of daily bars seen
  breaker,    \* the risk model's record
  tracker,    \* open lots by symbol, first in first out, and the sums of the report
  slice       \* the last slice: what it met, the decisions, the highest equity so far

backtestVars == <<setup, portfolio, feed, breaker, tracker, slice>>

DayOf(n) == (n - 1) \div SlicesPerDay

--------------------------------------------------------------------------------
(* StandardExecutionModel without pending orders, and the simulated fills.       *)

ChunkSize(total) == Lower(setup.maxSliceQuantity, total)

\* _split_quantity: slices of the cap, the last allowed one takes the rest.
Chunks(total) ==
  LET cap == ChunkSize(total)
      slices == Lower(setup.maxSlices, (total + cap - 1) \div cap)
  IN [i \in 1..slices |-> IF i < slices THEN cap ELSE total - cap * (slices - 1)]

\* Orders need a bar, also where sizing and risk went by what the position cost.
OrdersFor(decision, prices) ==
  LET y == decision.symbol
      delta == decision.granted - decision.current
      chunks == Chunks(Abs(delta))
  IN IF ~decision.approved \/ delta = 0 \/ y \notin DOMAIN prices THEN <<>>
     ELSE [i \in DOMAIN chunks |->
             [symbol |-> y, side |-> IF delta > 0 THEN "buy" ELSE "sell",
              quantity |-> chunks[i], price |-> prices[y]]]

Slippage(price) == (price * setup.slippage) \div CostUnit
FillPrice(order) ==
  IF order.side = "buy" THEN order.price + Slippage(order.price)
  ELSE order.price - Slippage(order.price)

Fill(order) ==
  LET price == FillPrice(order)
  IN [symbol |-> order.symbol, side |-> order.side, quantity |-> order.quantity,
      price |-> price, fee |-> (order.quantity * price * setup.fee) \div CostUnit]

FillsOf(decision, prices) ==
  LET orders == OrdersFor(decision, prices)
  IN [i \in DOMAIN orders |-> Fill(orders[i])]

--------------------------------------------------------------------------------
(* _SleeveBacktestTracker.                                                       *)

Cost(lots) == SumFunction([i \in DOMAIN lots |-> lots[i].quantity * lots[i].price])
Shares(lots) == SumFunction([i \in DOMAIN lots |-> lots[i].quantity])

\* Mutant: a lot that is touched is gone.
CloseLotWhole(state, lot) ==
  LET matched == Lower(state.remaining, lot.quantity)
  IN [remaining |-> state.remaining - matched,
      cost |-> state.cost + matched * lot.price,
      closed |-> state.closed + matched,
      lots |-> IF matched > 0 THEN state.lots ELSE Append(state.lots, lot)]

\* Mutant: a lot stays when nothing of it is left.
CloseLotEmpty(state, lot) ==
  LET matched == Lower(state.remaining, lot.quantity)
  IN [remaining |-> state.remaining - matched,
      cost |-> state.cost + matched * lot.price,
      closed |-> state.closed + matched,
      lots |-> Append(state.lots, [lot EXCEPT !.quantity = @ - matched])]

\* _close_lots: the first lots go first, the last one touched in part.
CloseLot(state, lot) ==
  LET matched == Lower(state.remaining, lot.quantity)
  IN [remaining |-> state.remaining - matched,
      cost |-> state.cost + matched * lot.price,
      closed |-> state.closed + matched,
      lots |-> IF matched = lot.quantity THEN state.lots
               ELSE Append(state.lots, [lot EXCEPT !.quantity = @ - matched])]

NothingClosed(quantity) == [remaining |-> quantity, cost |-> 0, closed |-> 0, lots |-> <<>>]
ClosedOver(lots, quantity) ==
  LET state[n \in 0..Len(lots)] ==
        IF n = 0 THEN NothingClosed(quantity) ELSE CloseLot(state[n - 1], lots[n])
  IN state
CloseLots(lots, quantity) == ClosedOver(lots, quantity)[Len(lots)]

\* Mutant: a lot is kept at what its order was worth.
RecordAtReference(t, fill) ==
  LET y == fill.symbol
      closing == CloseLots(t.lots[y], fill.quantity)
      booked == [t EXCEPT !.traded = @ + Notional(fill), !.fees = @ + fill.fee]
  IN IF fill.side = "buy"
     THEN [booked EXCEPT !.lots[y] =
             Append(@, [quantity |-> fill.quantity, price |-> fill.price - Slippage(fill.price)])]
     ELSE [booked EXCEPT !.lots[y] = closing.lots,
                         !.pnl = @ + fill.price * closing.closed - closing.cost]

RecordFill(t, fill) ==
  LET y == fill.symbol
      closing == CloseLots(t.lots[y], fill.quantity)
      booked == [t EXCEPT !.traded = @ + Notional(fill), !.fees = @ + fill.fee]
  IN IF fill.side = "buy"
     THEN [booked EXCEPT !.lots[y] = Append(@, [quantity |-> fill.quantity, price |-> fill.price])]
     ELSE [booked EXCEPT !.lots[y] = closing.lots,
                         !.pnl = @ + fill.price * closing.closed - closing.cost]

\* Every fill is booked twice: in the portfolio and in the tracker.
Booked(books, fill) ==
  [portfolio |-> ApplyOrderEvent(books.portfolio, fill), tracker |-> RecordFill(books.tracker, fill)]
BookedOver(books, fills) ==
  LET after[n \in 0..Len(fills)] == IF n = 0 THEN books ELSE Booked(after[n - 1], fills[n])
  IN after
\* The orders of one decision are filled before those of the next.
SettledOver(books, decisions, prices) ==
  LET after[n \in 0..Len(decisions)] ==
        IF n = 0 THEN books
        ELSE LET fills == FillsOf(decisions[n], prices) IN BookedOver(after[n - 1], fills)[Len(fills)]
  IN after
Settled(books, decisions, prices) == SettledOver(books, decisions, prices)[Len(decisions)]

--------------------------------------------------------------------------------
\* Mutant: and those of the day itself.
DueToday(n, seen) == {d \in 0..DayOf(MaxSlices) : d <= DayOf(n) /\ d \notin seen}

(* The daily bars of a replay enter the indicators before the first slice of a   *)
(* later day.                                                                    *)
DueDailyDates(n, seen) == {d \in 0..DayOf(MaxSlices) : d < DayOf(n) /\ d \notin seen}

Updated(last, prices) ==
  [y \in DOMAIN prices \cup DOMAIN last |-> IF y \in DOMAIN prices THEN prices[y] ELSE last[y]]

Advance(prices) ==
  [n |-> feed.n + 1, last |-> Updated(feed.last, prices),
   daily |-> feed.daily \cup DueDailyDates(feed.n + 1, feed.daily)]

WarmUpSlice(prices) ==
  /\ feed.n < WarmUp
  /\ feed' = Advance(prices)
  /\ UNCHANGED <<portfolio, breaker, tracker, slice>>

\* A replay has no quality report, which counts as "valid"; "stale" and "invalid" are
\* met by the cycles of the runtime. A cycle on an invalid snapshot aims at nothing.
TradingSlice(prices, batch, quality, reused) ==
  LET equity == NativeSum(portfolio, prices)
      plans == Size(portfolio, prices, IF quality = "invalid" THEN <<>> ELSE batch, reused)
      record == Breaker(breaker, DayOf(feed.n + 1), equity)
      decisions == Decisions(portfolio, prices, quality, plans, record)
  IN /\ feed.n >= WarmUp /\ feed.n < MaxSlices
     /\ feed' = Advance(prices)
     /\ breaker' = record
     /\ \E books \in {Settled([portfolio |-> portfolio, tracker |-> tracker], decisions, prices)} :
          portfolio' = books.portfolio /\ tracker' = books.tracker
     /\ slice' = [prices |-> prices, batch |-> batch, quality |-> quality,
                  reused |-> reused, equity |-> equity, decisions |-> decisions,
                  highest |-> IF equity > slice.highest THEN equity ELSE slice.highest]

NoSlice == [prices |-> <<>>, batch |-> <<>>, quality |-> "none",
            reused |-> FALSE, equity |-> 0,
            decisions |-> <<>>, highest |-> 0]

BacktestInit ==
  /\ setup \in Setups
  /\ portfolio = EmptyPortfolio(InitialCash)
  /\ feed = [n |-> 0, last |-> <<>>, daily |-> {}]
  /\ breaker = [day |-> 0, equity |-> 0]
  /\ tracker = [lots |-> [y \in Symbols |-> <<>>], traded |-> 0, fees |-> 0, pnl |-> 0]
  /\ slice = NoSlice

BacktestNext ==
  /\ UNCHANGED setup
  /\ \/ \E prices \in PriceLists : WarmUpSlice(prices)
     \/ \E prices \in PriceLists, batch \in Batches,
           quality \in {"valid", "stale", "invalid"}, reused \in BOOLEAN :
          TradingSlice(prices, batch, quality, reused)

BacktestSpec == BacktestInit /\ [][BacktestNext]_backtestVars

--------------------------------------------------------------------------------
BacktestTypeOK ==
  /\ setup \in Setups
  /\ portfolio.cash \in [Currencies -> Int]
  /\ portfolio.quantity \in [Symbols -> Nat] /\ portfolio.average \in [Symbols -> Nat]
  /\ \A y \in Symbols : portfolio.quantity[y] = 0 => portfolio.average[y] = 0
  /\ feed.n \in 0..MaxSlices /\ DOMAIN feed.last \subseteq Symbols
  /\ tracker.lots \in [Symbols -> Seq([quantity : Nat \ {0}, price : Nat])]
  /\ tracker.traded \in Nat /\ tracker.fees \in Nat /\ tracker.pnl \in Int

(* The report and the portfolio are two ledgers of the same fills: the open lots *)
(* are the holdings, whatever was sold in slices across several lots.            *)
LotsMatchHoldings ==
  \A y \in Symbols : Shares(tracker.lots[y]) = portfolio.quantity[y]

(* Money is conserved: the cash is the initial cash and what closed trades gained *)
(* less what the open lots cost and the fees.                                    *)
MoneyConserved ==
  SumFunction([c \in Currencies |-> portfolio.cash[c] - InitialCash[c]])
    = tracker.pnl - tracker.fees - SumFunction([y \in Symbols |-> Cost(tracker.lots[y])])

(* Buying is covered: the orders of one cycle cannot spend more cash than there   *)
(* was, up to the slippage and the fees that the risk model does not foresee.    *)
CashCovered ==
  setup.risk = "basic" /\ setup.slippage = 0 /\ setup.fee = 0 =>
    \A c \in Currencies : portfolio.cash[c] >= 0

(* What rounding leaves is spent once: the lot optimizer stays within the budget *)
(* of a currency and ends when no share it may add fits any more.                *)
BudgetUsedUp ==
  LET raw == RawPlans(portfolio, slice.prices, slice.batch)
      sized == OptimizeLots(raw, portfolio, slice.prices)
      left(plans, c) == Available(plans, portfolio, slice.prices, c)
  IN \A c \in Currencies :
       /\ left(sized, c) >= 0 \/ left(sized, c) = left(raw, c)
       /\ Candidates(sized, c, left(sized, c)) = {}

(* No round trips: when the same batch is sized again at the same prices, no      *)
(* symbol is sold that the cycle before wanted to and did buy, nor bought that it *)
(* sold. Nothing may have been lost to costs, nor won by a sale of shares that    *)
(* are not there (only the basic risk model rejects it). A limit may sell what a  *)
(* later target of the batch makes room for, and a floor entry may displace what  *)
(* was bought for the remainder: with an entry floor only the first share it buys *)
(* is safe, as long as the floor that keeps a last share is no higher.            *)
NoRoundTrip ==
  LET again == Size(portfolio, slice.prices, slice.batch, slice.reused)
      short == \E i \in DOMAIN slice.decisions : slice.decisions[i].granted < 0
      reversed(d, plan) ==
        \/ d.granted > d.current /\ Delta(plan) < 0
        \/ d.granted < d.current /\ Delta(plan) > 0
      entered(d, plan) ==
        /\ d.current = 0 /\ d.granted = 1 /\ plan.weight > 0 /\ ~Urgent(plan)
        /\ LotsAtLeast(plan.desired, plan.price, setup.entryFloor)
  IN slice.quality \in {"valid", "stale"} /\ setup.slippage = 0 /\ setup.fee = 0 /\ ~short =>
       \A i \in DOMAIN slice.decisions, j \in DOMAIN again :
         LET d == slice.decisions[i]
             plan == again[j]
         IN d.symbol = plan.symbol /\ d.granted = d.wanted =>
              /\ setup.entryFloor = Full => ~reversed(d, plan)
              /\ setup.entryFloor >= setup.roundingGuard /\ entered(d, plan) => Delta(plan) >= 0

(* An exit goes through: a held symbol with a bar and a target of zero is sold   *)
(* whole in the same cycle, past every filter, limit and slice, when single      *)
(* shares count and exits below the minimum are allowed.                         *)
ExitGoesThrough ==
  [][ /\ feed'.n > WarmUp /\ slice'.quality # "invalid"
      /\ setup.minQuantity <= 1 /\ setup.exitBelowMin
      => \A i \in DOMAIN slice'.batch :
           LET target == slice'.batch[i]
           IN /\ target.weight = 0 /\ target.symbol \in DOMAIN slice'.prices
              /\ slice'.prices[target.symbol] > 0
              => portfolio'.quantity[target.symbol] = 0 ]_feed

(* The indicators of a replay know the daily bars of all earlier days and none of *)
(* the day at hand.                                                              *)
NoLookAhead == feed.n > 0 => feed.daily = {d \in 0..DayOf(MaxSlices) : d < DayOf(feed.n)}

(* The drawdown limit stops growth: below the limit from the highest equity any  *)
(* cycle has seen, no position grows.                                            *)
DrawdownStops ==
  [][ setup.risk = "drawdown" /\ feed'.n > WarmUp
      /\ (slice'.highest - slice'.equity) * Full >= setup.maxLoss * slice'.highest
      => \A y \in Symbols : portfolio'.quantity[y] <= portfolio.quantity[y] ]_feed

(* The exposure limit holds across a batch: what a cycle buys in a currency stays *)
(* within the share of the equity, unless one of several bought symbols is new    *)
(* (it does not count for the others of its batch), or a sale that was to make    *)
(* room has no bar to be ordered at.                                              *)
ExposureLimitHolds ==
  [][ setup.risk = "basic" /\ setup.maxExposure < Full /\ feed'.n > WarmUp =>
      \A c \in Currencies :
        LET bought == {y \in In(c) : portfolio'.quantity[y] > portfolio.quantity[y]}
            stuck == {i \in DOMAIN slice'.decisions :
                        LET d == slice'.decisions[i]
                        IN /\ d.symbol \in In(c) \ DOMAIN slice'.prices
                           /\ d.granted < d.current}
            exposure == SumFunctionOnSet([y \in Symbols |-> portfolio'.quantity[y]
                                            * MarkPrice(portfolio', slice'.prices, y)], In(c))
        IN \/ bought = {} \/ stuck # {}
           \/ Cardinality(bought) > 1 /\ \E y \in bought : portfolio.quantity[y] = 0
           \/ exposure * Full <= Equity(portfolio, slice'.prices, c) * setup.maxExposure ]_feed

(* The books of a replay balance after every slice: lots, holdings, cash and fees *)
(* tell one story, and nothing is bought with money that is not there.           *)
BooksBalance == BacktestTypeOK /\ LotsMatchHoldings /\ MoneyConserved /\ CashCovered

(* The remainder of rounding is spent once and for all: within the budget, to its *)
(* end, and without a sale in the next cycle.                                    *)
RemainderSpentOnce == BudgetUsedUp /\ NoRoundTrip

(* What the risk models promise holds for a whole batch.                         *)
RiskLimitsHold == DrawdownStops /\ ExposureLimitHolds
===============================================================================
