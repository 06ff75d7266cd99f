--------------------------- MODULE MCVirtualAccount ---------------------------
(* Constants of VirtualAccount for TLC: one local order of the sleeve leaps,  *)
(* whose broker number the broker reports bare (num) and the gateway with its *)
(* branch (full); raw fills of that number and a fill event of the order.     *)
EXTENDS VirtualAccount

CONSTANTS leaps, base, unassigned, krx, krw, o1, num, full, f1, f2, fe

MCCurrencyOf == [y \in Symbols |-> krw]
MCSleeveOf == [o \in Orders |-> leaps]
MCAliasesOf == [b \in BrokerIds |-> IF b = full THEN {full, num} ELSE {b}]
MCSeedCash == [s \in Sleeves |-> [c \in Currencies |-> IF s = leaps THEN 2 ELSE 0]]

MCOpenings == [sleeve : Sleeves, currency : Currencies, amount : {2}]

Fill(id, order, broker, side, quantity, price, fee) ==
  [id |-> id, order |-> order, broker |-> broker, symbol |-> krx, side |-> side,
   quantity |-> quantity, price |-> price, unitFee |-> fee]

BuyRow == Fill(f1, num, num, "buy", 2, 1, 0)
RevisedRow == Fill(f1, num, num, "buy", 3, 1, 0)   \* BuyRow, grown at the broker
EventRow == Fill(fe, o1, full, "buy", 1, 1, 1)
EventSale == Fill(f2, o1, full, "sell", 1, 1, 1)

MCFillRows == {BuyRow, RevisedRow, EventRow, EventSale}
MCOrderEventRows == {EventRow, EventSale}

\* Bound: cash is moved between sleeves only while no order has been placed.
TransfersApart == transfers = <<>> \/ DOMAIN owner = {}
===============================================================================
