----------------------------- MODULE MCAccountSync -----------------------------
(* Constants of AccountSync for TLC: the order o1 of the sleeve leaps, bound  *)
(* as full and reported as num, executes 1 and then 2 shares; an order placed *)
(* by hand executes 2.                                                        *)
EXTENDS AccountSync

CONSTANTS leaps, base, unassigned, krx, krw, o1, num, full, manual, f1, f2

MCCurrencyOf == [y \in Symbols |-> krw]
MCSleeveOf == [o \in Orders |-> leaps]
MCNumberOf == [o \in Orders |-> full]
MCAliasesOf == [b \in BrokerIds |-> IF b = full THEN {full, num} ELSE {b}]
MCSeedCash == [s \in Sleeves |-> [c \in Currencies |-> 0]]

Fill(id, broker, quantity) ==
  [id |-> id, order |-> broker, broker |-> broker, symbol |-> krx, side |-> "buy",
   quantity |-> quantity, price |-> 1, unitFee |-> 0]

OwnRow == Fill(f1, num, 1)
GrownRow == Fill(f1, num, 2)
ManualRow == Fill(f2, manual, 2)

MCRows == {OwnRow, GrownRow, ManualRow}
MCNoRows == {}
===============================================================================
