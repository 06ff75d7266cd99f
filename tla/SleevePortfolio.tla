---------------------------- MODULE SleevePortfolio ---------------------------
(* The in-memory portfolio a framework cycle works on: cash by currency and      *)
(* holdings, marked at the prices of the slice at hand. A price list is a        *)
(* function from the symbols that have a bar; 0 stands for no price. Amounts are *)
(* integers, so that an average price is rounded down.                           *)
EXTENDS FrameworkUnits, FiniteSets, Functions

ASSUME PortfolioAssumption ==
  IsFiniteSet(Symbols) /\ IsFiniteSet(Currencies) /\ CurrencyOf \in [Symbols -> Currencies]

\* No Holding is kept once its quantity is not positive.
EmptyPortfolio(cash) ==
  [cash |-> cash, quantity |-> [y \in Symbols |-> 0], average |-> [y \in Symbols |-> 0]]

\* The close of the bar, or else what the position cost.
MarkPrice(p, prices, y) == IF y \in DOMAIN prices THEN prices[y] ELSE p.average[y]

PositionValue(p, prices, y) == p.quantity[y] * MarkPrice(p, prices, y)

\* Mutant: only cash is invested anew.
EquityInCash(p, prices, currency) == p.cash[currency]

Equity(p, prices, currency) ==
  p.cash[currency] + SumFunctionOnSet([y \in Symbols |-> PositionValue(p, prices, y)], In(currency))

NativeSum(p, prices) == SumFunction([c \in Currencies |-> Equity(p, prices, c)])

\* Portfolio.apply_order_event; a fill is [symbol, side, quantity, price, fee].
Notional(fill) == fill.quantity * fill.price
CashDelta(fill) ==
  IF fill.side = "buy" THEN -(Notional(fill) + fill.fee)
  ELSE LET net == Notional(fill) - fill.fee IN IF net > 0 THEN net ELSE 0

ApplyOrderEvent(p, fill) ==
  LET y == fill.symbol
      q == IF fill.side = "buy" THEN p.quantity[y] + fill.quantity
           ELSE p.quantity[y] - fill.quantity
      cost == (p.quantity[y] * p.average[y] + Notional(fill)) \div q
  IN [cash |-> [p.cash EXCEPT ![CurrencyOf[y]] = @ + CashDelta(fill)],
      quantity |-> [p.quantity EXCEPT ![y] = IF q <= 0 THEN 0 ELSE q],
      average |-> [p.average EXCEPT ![y] = IF q <= 0 THEN 0
                                           ELSE IF fill.side = "buy" THEN cost ELSE @]]
===============================================================================
