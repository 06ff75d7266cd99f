----------------------------- MODULE SnapshotFeed ------------------------------
(* Market data snapshots, their quality and the stores that hold them            *)
(* (market_data_snapshot.py, snapshots/freshness.py, snapshots/indicator.py).    *)
(* A bar is a record [symbol, day, res, usable]; a price is not kept, because    *)
(* nothing here looks at it. `res` is the bar's resolution.                      *)
EXTENDS Integers, Sequences, FiniteSets, SequencesExt, FiniteSetsExt

CONSTANT NoSnapshot

Unset == {"", "any", "unknown"}

\* A provider's bar without a resolution counts as a live quote.
AsLiveBar(bar) == IF bar.res \in Unset THEN [bar EXCEPT !.res = "live"] ELSE bar

Lane(res) ==
  CASE res \in {"", "any", "*"} -> "unknown"
    [] res \in {"quote", "live", "tick", "second"} -> "quote"
    [] res \in {"minute", "intraday"} -> "minute"
    [] res \in {"daily", "daily_confirmed", "confirmed_daily"} -> "daily_confirmed"
    [] OTHER -> res

LanesOf(bars) == {Lane(bar.res) : bar \in bars} \ {"unknown"}

\* Bars of two lanes cannot share a snapshot: the constructor raises.
Mixed(bars) == Cardinality(LanesOf(bars)) > 1
InferLane(bars) ==
  IF LanesOf(bars) = {} THEN "unknown" ELSE CHOOSE lane \in LanesOf(bars) : TRUE

MarketSnapshot(id, bars) == [id |-> id, bars |-> bars, lane |-> InferLane(bars)]

SymbolsIn(bars) == {bar.symbol : bar \in bars}

\* collect_once_best_effort: a symbol whose quote fails is left out and counted.
Collection(id, symbols, feed) ==
  LET bars == {AsLiveBar(feed[y]) : y \in {z \in symbols : feed[z].res # "failed"}} IN
  [bars |-> bars, mixed |-> Mixed(bars), snapshot |-> MarketSnapshot(id, bars),
   requested |-> symbols, failed |-> symbols \ SymbolsIn(bars)]

--------------------------------------------------------------------------------
(* Quality. Ratios are percentages; the thresholds are those of the defaults.    *)
FreshRatio == 95
DegradedRatio == 75

EvaluateQuality(requested, collected, tooOld, tooSlow) ==
  LET ratio == IF requested = 0 THEN 0 ELSE (collected * 100) \div requested IN
  CASE requested = 0 \/ collected = 0 \/ ratio < DegradedRatio -> "invalid"
    [] tooOld -> "stale"
    [] OTHER -> IF ratio < FreshRatio \/ tooSlow THEN "degraded" ELSE "fresh"

\* Any reason to block entries turns a fresh report into a degraded one.
WithEntryBlocks(status, reasons) ==
  IF status = "fresh" /\ reasons # {} THEN "degraded" ELSE status

PriceBlocks(bars, symbols) ==
  IF \E bar \in bars : bar.symbol \in symbols /\ ~bar.usable
  THEN {"live_price_unusable"} ELSE {}

AllowsNewEntries(status) == status = "fresh"
AllowsRiskChecks(status) == status \in {"fresh", "degraded", "stale"}

\* The age of one datum against its limit; a missing one is invalid.
AgeStatus(age, limit) ==
  IF age = NoSnapshot THEN "invalid" ELSE IF age <= limit THEN "fresh" ELSE "stale"

\* The last complete minute bar is one interval behind the running one.
ConfirmedMinuteStatus(bar, now, interval, tolerance) ==
  LET expected == (now \div interval) * interval - interval IN
  IF bar = NoSnapshot THEN "invalid"
  ELSE IF bar >= expected THEN "fresh"
  ELSE IF (expected - bar) \div interval <= tolerance THEN "degraded" ELSE "stale"

\* The last confirmed day is today after the close and the trading day before otherwise.
ConfirmedDay(today, closed, tradingDays) ==
  LET candidate == IF closed THEN today ELSE today - 1
      eligible == {d \in tradingDays : d <= candidate}
  IN IF eligible # {} THEN Max(eligible) ELSE candidate
ConfirmedDailyStatus(day, today, closed, tradingDays) ==
  IF day = NoSnapshot THEN "invalid"
  ELSE IF day >= ConfirmedDay(today, closed, tradingDays) THEN "fresh" ELSE "stale"

--------------------------------------------------------------------------------
(* IndicatorSnapshotStore: per lane an active and a pending snapshot, and the    *)
(* lane published last in each role. Every operation holds the store's lock.     *)
Lanes == {"quote", "minute", "daily_confirmed", "unknown"}

EmptyStore ==
  [active |-> [l \in Lanes |-> NoSnapshot], pending |-> [l \in Lanes |-> NoSnapshot],
   activeLane |-> NoSnapshot, pendingLane |-> NoSnapshot]

PublishActive(store, snapshot) ==
  [store EXCEPT !.active[snapshot.lane] = snapshot,
                !.pending[snapshot.lane] = NoSnapshot,
                !.activeLane = snapshot.lane,
                !.pendingLane = IF @ = snapshot.lane THEN NoSnapshot ELSE @]

PublishPending(store, snapshot) ==
  [store EXCEPT !.pending[snapshot.lane] = snapshot, !.pendingLane = snapshot.lane]

SwapPending(store) ==
  LET lane == store.pendingLane IN
  IF lane = NoSnapshot \/ store.pending[lane] = NoSnapshot THEN store
  ELSE [store EXCEPT !.active[lane] = store.pending[lane],
                     !.pending[lane] = NoSnapshot,
                     !.activeLane = lane, !.pendingLane = NoSnapshot]

Active(store) ==
  IF store.activeLane = NoSnapshot THEN NoSnapshot ELSE store.active[store.activeLane]

--------------------------------------------------------------------------------
(* FileMarketDataSnapshotStore: one JSON line per snapshot, appended without a   *)
(* rename. A line cut off by a crash has no line end, so the next append is      *)
(* glued to it; readers skip what does not parse.                                *)
Torn == [torn |-> TRUE, id |-> 0, lane |-> "unknown"]
AppendLine(lines, snapshot) ==
  IF lines # <<>> /\ Last(lines).torn THEN Append(Front(lines), [Torn EXCEPT !.torn = FALSE])
  ELSE Append(lines, [torn |-> FALSE, id |-> snapshot.id, lane |-> snapshot.lane])
TearLine(lines) ==
  IF lines # <<>> /\ Last(lines).torn THEN lines ELSE Append(lines, Torn)

Readable(lines) == SelectSeq(lines, LAMBDA line : line.id > 0)
LatestLine(lines, lane) ==
  LET mine == SelectSeq(Readable(lines), LAMBDA line : lane = NoSnapshot \/ line.lane = lane)
  IN IF mine = <<>> THEN NoSnapshot ELSE Last(mine)

\* entries: the last lines are cut before the ones that do not match are dropped.
LineEntries(lines, limit, lane) ==
  SelectSeq(Readable(SubSeq(lines, Max({1, Len(lines) - limit + 1}), Len(lines))),
            LAMBDA line : lane = NoSnapshot \/ line.lane = lane)
================================================================================
