--------------------------- MODULE UniverseSelection ---------------------------
(* From the coarse universe to the symbols a sleeve follows live                 *)
(* (universe/fine.py, universe/selection.py, universe/runtime.py). Universes and *)
(* selections have no repetitions, and beyond who is cut nothing depends on their *)
(* order: they are sets.                                                         *)
EXTENDS IndicatorWarmup

CONSTANTS
  Trait   \* per symbol: [momentum, liquidity, volatility, above], what its bars amount to

\* The place of a symbol in a sequence without repetition.
PlaceIn(order, y) == CHOOSE n \in DOMAIN order : order[n] = y
KeyRank(y) == PlaceIn(SymbolOrder, y)

--------------------------------------------------------------------------------
(* The fine universe: the symbols whose quote arrived, while it is young enough. *)
(* A failure keeps the last bar and its time.                                    *)
EmptyFineCache == [y \in Instruments |-> NoSnapshot]

FineRefresh(cache, symbols, failed, now) ==
  [y \in Instruments |-> IF y \in symbols \ failed THEN now ELSE cache[y]]

FineUniverse(cache, now, maxAge) ==
  {y \in Instruments : cache[y] # NoSnapshot /\ now - cache[y] <= maxAge}

--------------------------------------------------------------------------------
(* Selection models. A universe is a set; `order` is the coarse universe it was   *)
(* cut from, whose order it has.                                                 *)
StaticSelection(universe, order, model) ==
  {y \in universe : Cardinality({z \in universe : PlaceIn(order, z) < PlaceIn(order, y)}) < model.max}

\* Position among the values from below; ties go by the symbol's key.
RankOf(y, symbols, trait) ==
  IF Cardinality(symbols) = 1 THEN 1
  ELSE Cardinality({z \in symbols :
         \/ Trait[z][trait] < Trait[y][trait]
         \/ Trait[z][trait] = Trait[y][trait] /\ KeyRank(z) < KeyRank(y)})

\* A model that ranks by indicators takes nothing without a snapshot, and passes over
\* every symbol with an indicator that is not ready or a trait it rejects.
Eligible(universe, snapshot, model) ==
  {y \in universe :
     /\ snapshot # NoSnapshot /\ y \in DOMAIN snapshot.ready
     /\ model.needs \subseteq snapshot.ready[y]
     /\ Trait[y].momentum > 0
     /\ Trait[y].volatility <= model.maxVolatility}

Score(y, eligible) ==
  45 * RankOf(y, eligible, "liquidity") + 35 * RankOf(y, eligible, "momentum")
    - 5 * RankOf(y, eligible, "volatility")
    + (IF Trait[y].above THEN 15 * Max({1, Cardinality(eligible) - 1}) ELSE 0)

\* The best by score; of equals the one with the greater key.
MomentumSelection(universe, snapshot, model) ==
  LET eligible == Eligible(universe, snapshot, model)
      Better(z, y) ==
        \/ Score(z, eligible) > Score(y, eligible)
        \/ Score(z, eligible) = Score(y, eligible) /\ KeyRank(z) > KeyRank(y)
  IN {y \in eligible : Cardinality({z \in eligible : Better(z, y)}) < model.max}

SelectedBy(model, universe, order, snapshot) ==
  IF model.kind = "static" THEN StaticSelection(universe, order, model)
  ELSE MomentumSelection(universe, snapshot, model)

--------------------------------------------------------------------------------
\* Mutant: positions do not count.
ForcedUnheld(context) == context.openOrders \cup context.exitWatch \cup context.manual
\* What must stay live whatever the models say.
Forced(context) ==
  context.held \cup context.openOrders \cup context.exitWatch \cup context.manual

\* What some model selects and what is forced. What was live before only decides what
\* is reported as added, retained and removed.
SelectActive(universe, order, snapshot, models, context) ==
  LET selected == UNION {SelectedBy(models[n], universe, order, snapshot) : n \in DOMAIN models}
  IN [forced |-> Forced(context), live |-> selected \cup Forced(context)]
================================================================================
