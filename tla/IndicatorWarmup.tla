---------------------------- MODULE IndicatorWarmup ----------------------------
(* The indicator engine shared by the sleeves of a process, and what history     *)
(* feeds it before the first live bar (indicators/, warmup.py,                   *)
(* temporal_features.py). The value of an indicator is a function of the bars in *)
(* its window, so the window itself stands for it: the last `period` bars taken. *)
EXTENDS SnapshotFeed, Functions

CONSTANTS
  Instruments,      \* every symbol a universe names
  SymbolOrder,  \* the same, in the order of their keys
  Sleeves,
  Indicators    \* records [name, res, period, required]

\* A registry is keyed by the names of its indicators.
ASSUME IndicatorsAssumption ==
  \A ind, other \in Indicators : ind.name = other.name => ind = other

--------------------------------------------------------------------------------
Daily == {"daily", "daily_confirmed"}
Intraday == {"minute", "intraday"}

ResolutionMatches(wanted, got) ==
  \/ wanted \in {"any", "*"}
  \/ /\ got \notin {"any", "*", "unknown"}
     /\ \/ wanted \in Daily /\ got \in Daily
        \/ wanted \in {"live", "quote"}
             /\ got \in {"live", "quote", "second", "tick"} \cup Intraday
        \/ wanted \in Intraday /\ got \in Intraday
        \/ wanted = got

\* Indicator.update: nothing looks at the bar's time, so a bar taken twice counts twice.
Take(window, bar, period) ==
  LET longer == Append(window, [day |-> bar.day, res |-> bar.res]) IN
  IF Len(longer) > period THEN Tail(longer) ELSE longer

IndicatorReady(windows, ind) == Len(windows[ind.name]) >= ind.period

NewWindows == [name \in {ind.name : ind \in Indicators} |-> <<>>]

\* The registry keeps one indicator under a name.
Named(name) == CHOOSE ind \in Indicators : ind.name = name

UpdateWindows(windows, bar) ==
  [name \in DOMAIN windows |->
     IF ResolutionMatches(Named(name).res, bar.res) THEN Take(windows[name], bar, Named(name).period)
     ELSE windows[name]]

\* The days of a history go in by time.
Fed(windows, days) ==
  LET last == Max({0} \cup days)
      after[d \in 0..last] ==
        IF d = 0 THEN windows
        ELSE IF d \in days THEN UpdateWindows(after[d - 1], [day |-> d, res |-> "daily"])
        ELSE after[d - 1]
  IN after[last]

--------------------------------------------------------------------------------
(* The engine: per sleeve the windows of every symbol it ever registered and the *)
(* symbols of its active universe; per symbol the sleeves its live bars go to.   *)
NewEngine ==
  [windows |-> [s \in Sleeves |-> <<>>], live |-> [s \in Sleeves |-> {}],
   routes |-> [y \in Instruments |-> {}]]

WithWindows(known, symbols) ==
  [y \in DOMAIN known \cup symbols |-> IF y \in DOMAIN known THEN known[y] ELSE NewWindows]

RegisterUniverse(engine, s, symbols) ==
  [engine EXCEPT !.windows[s] = WithWindows(@, symbols),
                 !.live[s] = @ \cup symbols,
                 !.routes = [y \in Instruments |-> IF y \in symbols THEN @[y] \cup {s} ELSE @[y]]]

\* Mutant: a symbol that leaves keeps its route.
SetActiveUniverseAdds(engine, s, symbols) ==
  [RegisterUniverse(engine, s, symbols) EXCEPT !.live[s] = symbols]

\* A symbol that leaves keeps its windows; they stand still until it comes back.
SetActiveUniverse(engine, s, symbols) ==
  [engine EXCEPT !.windows[s] = WithWindows(@, symbols),
                 !.live[s] = symbols,
                 !.routes = [y \in Instruments |->
                   IF y \in symbols THEN @[y] \cup {s}
                   ELSE IF y \in engine.live[s] THEN @[y] \ {s} ELSE @[y]]]

\* Only the bars of the sleeve's active symbols go in.
WarmUp(engine, s, history) ==
  [engine EXCEPT !.windows[s] =
     [y \in DOMAIN @ |-> IF y \in engine.live[s] /\ y \in DOMAIN history THEN Fed(@[y], history[y])
                         ELSE @[y]]]

OnData(engine, bars) ==
  LET BarOf(y) == CHOOSE bar \in bars : bar.symbol = y
      Takes(s, y) == y \in SymbolsIn(bars) /\ s \in engine.routes[y]
  IN [engine EXCEPT !.windows =
        [s \in Sleeves |-> [y \in DOMAIN engine.windows[s] |->
           IF Takes(s, y) THEN UpdateWindows(engine.windows[s][y], BarOf(y))
           ELSE engine.windows[s][y]]]]

ReadyNames(engine, s, y) ==
  {ind.name : ind \in {i \in Indicators : IndicatorReady(engine.windows[s][y], i)}}

IndicatorSnapshot(engine, s, id, lane, quality) ==
  [source |-> id, lane |-> lane, quality |-> quality, enriched |-> {},
   ready |-> [y \in engine.live[s] |-> ReadyNames(engine, s, y)]]

--------------------------------------------------------------------------------
(* History and the report of a warm-up.                                          *)
\* The cached broker history is used unless it is empty or far too short.
FallbackHistory(primary, fallback, least) ==
  IF primary # {} /\ Cardinality(primary) >= least THEN primary ELSE fallback

RequiredNames == {ind.name : ind \in {i \in Indicators : i.required}}

SymbolReady(engine, s, y, failed) ==
  y \notin failed /\ RequiredNames \subseteq ReadyNames(engine, s, y)

WarmupReport(engine, s, symbols, failed, minReadyRatio) ==
  LET ready == {y \in symbols : SymbolReady(engine, s, y, failed)}
      ratio == IF symbols = {} THEN 100 ELSE (Cardinality(ready) * 100) \div Cardinality(symbols)
  IN [ready |-> ready, isReady |-> ratio >= minReadyRatio]

WarmupBlocks(report) == IF report.isReady THEN {} ELSE {"warmup_not_ready"}

Reported(engine, s, symbols, failed, minReadyRatio) ==
  [engine |-> engine, report |-> WarmupReport(engine, s, symbols, failed, minReadyRatio)]

\* run_daily_indicator_warmup; `days` is what the provider returns for a symbol up to
\* the end of the request, `failed` the symbols whose request raises.
DailyWarmup(engine, s, symbols, days, failed, minReadyRatio) ==
  Reported(WarmUp(RegisterUniverse(engine, s, symbols), s, [y \in symbols \ failed |-> days[y]]),
           s, symbols, failed, minReadyRatio)

--------------------------------------------------------------------------------
(* Daily windows for a temporal portfolio model: one bar per date, the last      *)
(* `keep` of them, and none dated after the snapshot.                            *)
\* Mutant: one day less.
KeepDaysShort(days, keep) == {d \in days : Cardinality({e \in days : e >= d}) < keep}
KeepDays(days, keep) ==
  IF Cardinality(days) > keep
  THEN {d \in days : Cardinality({e \in days : e >= d}) <= keep} ELSE days

TemporalTake(history, days, keep) ==
  [y \in Instruments |-> KeepDays(history[y] \cup (IF y \in DOMAIN days THEN days[y] ELSE {}), keep)]

TemporalWindow(days, asOf, needed, lookback) ==
  LET through == {d \in days : d <= asOf} IN
  IF Cardinality(through) < needed THEN {} ELSE KeepDays(through, lookback)

\* The residual features need the dates all eligible symbols have in common.
ResidualWindow(history, symbols, asOf, needed, lookback) ==
  LET Through(y) == {d \in history[y] : d <= asOf}
      eligible == {y \in symbols : Cardinality(Through(y)) >= needed}
      common == {d \in UNION {Through(y) : y \in eligible} : \A y \in eligible : d \in Through(y)}
  IN [y \in eligible |-> IF Cardinality(common) < needed THEN {} ELSE KeepDays(common, lookback)]

Enriched(snapshot, history, asOf, needed, lookback) ==
  [snapshot EXCEPT !.enriched =
     {<<y, TemporalWindow(history[y], asOf, needed, lookback)>> : y \in DOMAIN snapshot.ready}]
================================================================================
