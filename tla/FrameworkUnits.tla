---------------------------- MODULE FrameworkUnits ----------------------------
(* What the modules of the framework pipeline count in.                          *)
EXTENDS Integers

CONSTANTS Symbols,
          Full,        \* the unit of weights and fractions: 100%
          Currencies,
          CurrencyOf   \* [symbol -> the currency it is traded in]

ASSUME UnitAssumption == Full \in Nat \ {0}
ASSUME CurrencyAssumption == CurrencyOf \in [Symbols -> Currencies]

In(currency) == {y \in Symbols : CurrencyOf[y] = currency}

Abs(n) == IF n < 0 THEN -n ELSE n
===============================================================================
