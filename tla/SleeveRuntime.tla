----------------------------- MODULE SleeveRuntime -----------------------------
(* How a process gets from a configuration to a cycle of each sleeve's framework *)
(* (runtime_bootstrap.py, runtime_multi.py, snapshot_worker.py). A process runs  *)
(* all sleeves once and ends, or it keeps one sleeve's runtime and runs it again *)
(* and again. Accounts, the broker's history and midnight move on meanwhile.     *)
EXTENDS UniverseSelection

CONSTANTS
  SleeveOrder,    \* sequence: the sleeves in the order of the command line
  Coarse,         \* per sleeve its coarse universe, a sequence of symbols
  Models,         \* per sleeve its selection models
  FineOn,         \* per sleeve whether the fine universe is refreshed first
  MinReadyRatio,  \* share of symbols that must be warm, in percent
  FirstDay,       \* per symbol the first day with a daily bar
  Feeds,          \* per symbol what a quote request brings, as a set of functions
  Outages,        \* sets of symbols whose history cannot be loaded
  MinSuccess,     \* least number of quotes of a worker's collection
  UniverseCadence,        \* of the universe selection: "once_per_day" or "startup_only"
  KeepBars, NeededBars, Lookback,  \* of the temporal windows
  Fills,          \* sets of holdings an account can have
  StartDay, LastDay, MaxSnapshots, MaxReloads, MaxMoves

\* A provider's live quote: of no resolution, or of one that is not daily (adapters/kis.py).
QuoteResolutions == Unset \cup {"live", "quote", "tick", "second", "minute", "intraday"}
QuoteBars == [symbol : Instruments, day : Nat, res : QuoteResolutions, usable : BOOLEAN]
FailedQuotes == [symbol : Instruments, day : Nat, res : {"failed"}, usable : BOOLEAN]

\* A command line names each sleeve once; a window of temporal features needs at least
\* the days it looks back, and warm-up days before them (required_history_bars).
ASSUME SleevesAssumption ==
  /\ SleeveOrder \in Seq(Sleeves) /\ IsInjective(SleeveOrder)
  /\ SleeveOrder # <<>> /\ ToSet(SleeveOrder) = Sleeves
  /\ Coarse \in [Sleeves -> Seq(Instruments)]
  /\ IsFiniteSet(Instruments) /\ Fills \subseteq SUBSET Instruments
ASSUME DaysAssumption ==
  /\ StartDay \in Nat \ {0} /\ FirstDay \in [Instruments -> Nat \ {0}]
  /\ KeepBars \in Nat /\ NeededBars \in Nat /\ Lookback \in Nat /\ Lookback <= NeededBars
ASSUME QuotesAssumption ==
  /\ Feeds \subseteq [Instruments -> QuoteBars \cup FailedQuotes]
  /\ \A feed \in Feeds, y \in Instruments : feed[y].symbol = y
  /\ NoSnapshot \notin Lanes
  /\ NoSnapshot \notin [id : Nat, bars : SUBSET QuoteBars, lane : Lanes]

VARIABLES
  today,       \* the date
  held,      \* per sleeve the symbols its account holds
  selected,  \* durable universe record: the day of the last selection
  nextId,
  pc,        \* [mode, step, at]: where the process is
  engine, stores, runtimes,
  taken,     \* the collection being worked on
  latest,    \* per sleeve and lane the last market snapshot
  staged,    \* a reload that is bootstrapped but not active
  reloads, moves,   \* how often so far
  seen       \* per sleeve what its framework was given last

feedVars == <<today, held, selected, nextId, pc, engine, stores,
              runtimes, taken, latest, staged, reloads, moves, seen>>

Down == [mode |-> "none", step |-> "down", at |-> 0]
NoRuntimes == [s \in Sleeves |-> NoSnapshot]
NoLatest == [s \in Sleeves |-> [l \in Lanes |-> NoSnapshot]]
EmptyStores == [s \in Sleeves |-> EmptyStore]
NothingSeen == [s \in Sleeves |-> NoSnapshot]

\* The days a request for daily bars returns: from the listing to the end asked for.
DaysThrough(end) == [y \in Instruments |-> FirstDay[y]..end]

FeedInit ==
  /\ today = StartDay
  /\ held = [s \in Sleeves |-> {}]
  /\ selected = 0
  /\ nextId = 1
  /\ pc = Down
  /\ engine = NewEngine
  /\ stores = EmptyStores
  /\ runtimes = NoRuntimes
  /\ taken = NoSnapshot
  /\ latest = NoLatest
  /\ staged = NoSnapshot
  /\ reloads = 0 /\ moves = 0
  /\ seen = NothingSeen

\* The process is gone, and what it kept in memory with it.
Ended ==
  /\ pc' = Down
  /\ engine' = NewEngine
  /\ stores' = EmptyStores
  /\ runtimes' = NoRuntimes
  /\ taken' = NoSnapshot
  /\ latest' = NoLatest
  /\ staged' = NoSnapshot
  /\ seen' = NothingSeen

--------------------------------------------------------------------------------
(* Bootstrap of one sleeve.                                                      *)
Context(heldNow, manual) ==
  [held |-> heldNow, openOrders |-> {}, exitWatch |-> {}, manual |-> manual]

SelectionBase(s, unquoted) ==
  IF FineOn[s] THEN FineUniverse(FineRefresh(EmptyFineCache, ToSet(Coarse[s]), unquoted, 0), 0, 1)
  ELSE ToSet(Coarse[s])

\* Mutant: today's bar, which is not closed yet, is asked for as well.
EndToday == today
\* The daily warm-up before the market opens ends with the day before.
ConfirmedEnd == today - 1

\* The warm-up covers the base universe with the days before today, the selection keeps
\* what is held, and only then the engine is told which symbols are live.
Started(s, heldNow, base, outage, warm) ==
  LET snapshot == IndicatorSnapshot(warm.engine, s, 0, "daily_confirmed",
                                    IF warm.report.isReady THEN "fresh" ELSE "degraded")
      active == SelectActive(base, Coarse[s], snapshot, Models[s], Context(heldNow, {}))
  IN [engine |-> SetActiveUniverse(warm.engine, s, active.live),
      runtime |->
        [live |-> active.live, forced |-> active.forced, blocks |-> WarmupBlocks(warm.report),
         selection |-> snapshot, warm |-> warm.report.ready, heldThen |-> heldNow, bootDay |-> today,
         days |-> TemporalTake([y \in Instruments |-> {}],
                               [y \in base \ outage |-> DaysThrough(ConfirmedEnd)[y]], KeepBars)]]

Bootstrap(eng, s, heldNow, outage, unquoted) ==
  LET base == SelectionBase(s, unquoted) IN
  Started(s, heldNow, base, outage,
          DailyWarmup(eng, s, base, DaysThrough(ConfirmedEnd), outage, MinReadyRatio))

--------------------------------------------------------------------------------
(* run_multi_sleeve_once.                                                        *)
StartMulti ==
  /\ pc = Down /\ nextId <= MaxSnapshots
  /\ pc' = [mode |-> "multi", step |-> "boot", at |-> 1]
  /\ UNCHANGED <<today, held, selected, nextId, engine, stores, runtimes,
                 taken, latest, staged, reloads, moves, seen>>

BootNext(outage, unquoted) ==
  /\ pc.mode = "multi" /\ pc.step = "boot"
  /\ \E s \in {SleeveOrder[pc.at]} : \E boot \in {Bootstrap(engine, s, held[s], outage, unquoted)} :
       /\ engine' = boot.engine
       /\ runtimes' = [runtimes EXCEPT ![s] = boot.runtime]
  /\ pc' = IF pc.at < Len(SleeveOrder) THEN [pc EXCEPT !.at = @ + 1]
           ELSE [pc EXCEPT !.step = "collect"]
  /\ UNCHANGED <<today, held, selected, nextId, stores, taken, latest,
                 staged, reloads, moves, seen>>

\* One request per symbol of the union. Lanes that do not agree end the process.
UnionUniverse == UNION {runtimes[s].live : s \in Sleeves}
CollectUnion(feed) ==
  /\ pc.mode = "multi" /\ pc.step = "collect"
  /\ \E collection \in {Collection(nextId, UnionUniverse, feed)} :
     IF collection.mixed
     THEN Ended /\ UNCHANGED nextId
     ELSE /\ taken' = collection
          /\ nextId' = nextId + 1
          /\ pc' = [pc EXCEPT !.step = "feed"]
          /\ UNCHANGED <<engine, stores, runtimes, latest, staged, seen>>
  /\ UNCHANGED <<today, held, selected, reloads, moves>>

\* Mutant: the report is about the shared collection.
QualityOfUnion(s, runtime) ==
  WithEntryBlocks(EvaluateQuality(Cardinality(taken.requested), Cardinality(taken.bars), FALSE, FALSE),
                  runtime.blocks \cup PriceBlocks(taken.bars, taken.requested))

\* Each sleeve's report counts its own symbols only.
QualityFor(s, runtime) ==
  LET mine == runtime.live
      collected == mine \cap SymbolsIn(taken.bars)
  IN WithEntryBlocks(EvaluateQuality(Cardinality(mine), Cardinality(collected), FALSE, FALSE),
                     runtime.blocks \cup PriceBlocks(taken.bars, mine))

\* The shared engine takes the bars once, and every sleeve gets a snapshot of its own.
FeedEngine ==
  /\ pc.mode = "multi" /\ pc.step = "feed"
  /\ engine' = OnData(engine, taken.bars)
  /\ stores' = [s \in Sleeves |->
       PublishActive(stores[s], IndicatorSnapshot(engine', s, taken.snapshot.id,
                                  taken.snapshot.lane, QualityFor(s, runtimes[s])))]
  /\ pc' = [pc EXCEPT !.step = "cycle", !.at = 1]
  /\ UNCHANGED <<today, held, selected, nextId, runtimes, taken, latest, staged,
                 reloads, moves, seen>>

\* What the framework is given: the store's active snapshot, and the last market data of
\* its lane, or prices taken from the snapshot's own indicators when no bar came.
Given(s, store, last, runtime) ==
  LET active == Active(store)
      market == last[s][active.lane]
  IN [snapshot |-> active,
      data |-> IF market # NoSnapshot /\ market.bars # {} THEN market ELSE NoSnapshot,
      held |-> held[s], runtime |-> runtime, mode |-> pc.mode, at |-> today]

Filtered(snapshot, symbols) ==
  [snapshot EXCEPT !.bars = {bar \in @ : bar.symbol \in symbols}]

CycleNext ==
  /\ pc.mode = "multi" /\ pc.step = "cycle"
  /\ LET s == SleeveOrder[pc.at]
         own == Filtered(taken.snapshot, runtimes[s].live)
         enriched == Enriched(Active(stores[s]), runtimes[s].days, today, NeededBars, Lookback) IN
     /\ stores' = [stores EXCEPT ![s] = PublishActive(@, enriched)]
     /\ latest' = [latest EXCEPT ![s][own.lane] = own]
     /\ seen' = [seen EXCEPT ![s] = Given(s, stores'[s], latest', runtimes[s])]
  /\ pc' = IF pc.at < Len(SleeveOrder) THEN [pc EXCEPT !.at = @ + 1]
           ELSE [pc EXCEPT !.step = "save"]
  /\ UNCHANGED <<today, held, selected, nextId, engine, runtimes, taken, staged,
                 reloads, moves>>

\* When all sleeves have run their framework files are written and the process ends.
SaveAll ==
  /\ pc.mode = "multi" /\ pc.step = "save"
  /\ Ended
  /\ UNCHANGED <<today, held, selected, nextId, reloads, moves>>

--------------------------------------------------------------------------------
(* One sleeve's runtime, kept in memory.                                         *)
Solo == SleeveOrder[1]

StartSolo(outage, unquoted) ==
  /\ pc = Down /\ nextId <= MaxSnapshots
  /\ \E boot \in {Bootstrap(NewEngine, Solo, held[Solo], outage, unquoted)} :
       /\ engine' = boot.engine
       /\ runtimes' = [NoRuntimes EXCEPT ![Solo] = boot.runtime]
  /\ pc' = [mode |-> "solo", step |-> "idle", at |-> 1]
  /\ UNCHANGED <<today, held, selected, nextId, stores, taken, latest,
                 staged, reloads, moves, seen>>

\* refresh_active_universe_if_due, the first step of run_once. It selects from the coarse
\* universe; what was forced before stays forced.
Due == selected = 0 \/ (UniverseCadence = "once_per_day" /\ selected < today)
Reselected ==
  LET runtime == runtimes[Solo]
      snapshot == IF Active(stores[Solo]) = NoSnapshot THEN runtime.selection
                  ELSE Active(stores[Solo])
  IN SelectActive(ToSet(Coarse[Solo]), Coarse[Solo], snapshot, Models[Solo],
                  Context(held[Solo], runtime.forced))

Refreshed(runtime, active, heldNow) ==
  [runtime EXCEPT !.live = active.live, !.forced = active.forced, !.heldThen = heldNow,
     !.days = TemporalTake(@, [y \in active.live |-> DaysThrough(today)[y]], KeepBars)]

RefreshIfDue ==
  /\ pc.mode = "solo" /\ pc.step = "idle" /\ nextId <= MaxSnapshots
  /\ pc' = [pc EXCEPT !.step = "warm"]
  /\ IF ~Due THEN UNCHANGED <<engine, runtimes, selected>>
     ELSE /\ selected' = today
          /\ IF selected = 0 /\ UniverseCadence = "startup_only" THEN UNCHANGED <<engine, runtimes>>
             ELSE \E active \in {Reselected} :
                  /\ engine' = SetActiveUniverse(engine, Solo, active.live)
                  /\ runtimes' = [runtimes EXCEPT ![Solo] = Refreshed(@, active, held[Solo])]
  /\ UNCHANGED <<today, held, nextId, stores, taken, latest, staged,
                 reloads, moves, seen>>

\* BackgroundSnapshotWorker.run: warm up with everything up to now, then one cycle.
Warmed(runtime, report, loaded) ==
  [runtime EXCEPT !.blocks = WarmupBlocks(report), !.warm = report.ready,
     !.days = TemporalTake(@, [y \in loaded |-> DaysThrough(today)[y]], KeepBars)]

WarmWorker(outage) ==
  /\ pc.mode = "solo" /\ pc.step = "warm"
  /\ \E symbols \in {runtimes[Solo].live} :
     \E warm \in {DailyWarmup(engine, Solo, symbols, DaysThrough(today), outage, MinReadyRatio)} :
     /\ engine' = warm.engine
     /\ runtimes' = [runtimes EXCEPT ![Solo] = Warmed(@, warm.report, symbols \ outage)]
  /\ pc' = [pc EXCEPT !.step = "collect"]
  /\ UNCHANGED <<today, held, selected, nextId, stores, taken, latest,
                 staged, reloads, moves, seen>>

\* Too few quotes or two lanes end the run; what was active before stays active.
CollectOwn(feed) ==
  /\ pc.mode = "solo" /\ pc.step = "collect"
  /\ \E collection \in {Collection(nextId, runtimes[Solo].live, feed)} :
     IF collection.mixed \/ Cardinality(collection.bars) < MinSuccess
     THEN pc' = [pc EXCEPT !.step = "idle"] /\ UNCHANGED <<taken, nextId, latest>>
     ELSE /\ taken' = collection
          /\ nextId' = nextId + 1
          /\ latest' = [latest EXCEPT ![Solo][collection.snapshot.lane] = collection.snapshot]
          /\ pc' = [pc EXCEPT !.step = "publish"]
  /\ UNCHANGED <<today, held, selected, engine, stores, runtimes, staged,
                 reloads, moves, seen>>

\* Mutant: the snapshot to enrich is read before the new one is published.
PublishOwnStale ==
  /\ pc.mode = "solo" /\ pc.step = "publish"
  /\ engine' = OnData(engine, taken.bars)
  /\ LET raw == IndicatorSnapshot(engine', Solo, taken.snapshot.id, taken.snapshot.lane,
                                  QualityFor(Solo, runtimes[Solo]))
         read == IF Active(stores[Solo]) = NoSnapshot THEN raw ELSE Active(stores[Solo])
     IN stores' = [stores EXCEPT ![Solo] = PublishActive(@,
                     Enriched(read, runtimes[Solo].days, today, NeededBars, Lookback))]
  /\ pc' = [pc EXCEPT !.step = "report"]
  /\ UNCHANGED <<today, held, selected, nextId, runtimes, taken, latest, staged,
                 reloads, moves, seen>>

PublishOwn ==
  /\ pc.mode = "solo" /\ pc.step = "publish"
  /\ engine' = OnData(engine, taken.bars)
  /\ LET raw == IndicatorSnapshot(engine', Solo, taken.snapshot.id, taken.snapshot.lane,
                                  QualityFor(Solo, runtimes[Solo]))
         enriched == Enriched(raw, runtimes[Solo].days, today, NeededBars, Lookback)
     IN stores' = [stores EXCEPT ![Solo] = PublishActive(PublishActive(@, raw), enriched)]
  /\ pc' = [pc EXCEPT !.step = "report"]
  /\ UNCHANGED <<today, held, selected, nextId, runtimes, taken, latest, staged,
                 reloads, moves, seen>>

ReportOwn ==
  /\ pc.mode = "solo" /\ pc.step = "report"
  /\ seen' = [seen EXCEPT ![Solo] = Given(Solo, stores[Solo], latest, runtimes[Solo])]
  /\ pc' = [pc EXCEPT !.step = "idle"]
  /\ UNCHANGED <<today, held, selected, nextId, engine, stores, runtimes, taken,
                 latest, staged, reloads, moves>>

\* A reload is bootstrapped beside the running one, with an engine and stores of its own.
StageReload(outage, unquoted) ==
  /\ pc.mode = "solo" /\ pc.step = "idle" /\ reloads < MaxReloads
  /\ staged' = Bootstrap(NewEngine, Solo, held[Solo] \cup runtimes[Solo].heldThen, outage, unquoted)
  /\ reloads' = reloads + 1
  /\ UNCHANGED <<today, held, selected, nextId, pc, engine, stores, runtimes, taken,
                 latest, moves, seen>>

\* Everything changes hands at once; the new worker starts with empty stores.
ActivateReload ==
  /\ pc.mode = "solo" /\ pc.step = "idle" /\ staged # NoSnapshot
  /\ engine' = staged.engine
  /\ runtimes' = [runtimes EXCEPT ![Solo] = staged.runtime]
  /\ stores' = EmptyStores
  /\ latest' = NoLatest
  /\ staged' = NoSnapshot
  /\ UNCHANGED <<today, held, selected, nextId, pc, taken, reloads, moves, seen>>

--------------------------------------------------------------------------------
(* The world.                                                                    *)
KillRuntime ==
  /\ pc # Down /\ Ended
  /\ UNCHANGED <<today, held, selected, nextId, reloads, moves>>

Midnight ==
  /\ today < LastDay
  /\ today' = today + 1
  /\ UNCHANGED <<held, selected, nextId, pc, engine, stores, runtimes,
                 taken, latest, staged, reloads, moves, seen>>

\* Fills reach the account from the order worker, at any moment.
AccountMoves(s, holding) ==
  /\ held[s] # holding /\ moves < MaxMoves
  /\ moves' = moves + 1
  /\ held' = [held EXCEPT ![s] = holding]
  /\ UNCHANGED <<today, selected, nextId, pc, engine, stores, runtimes,
                 taken, latest, staged, reloads, seen>>

FeedNext ==
  \/ StartMulti
  \/ \E outage, unquoted \in Outages : BootNext(outage, unquoted) \/ StartSolo(outage, unquoted)
                                         \/ StageReload(outage, unquoted)
  \/ \E feed \in Feeds : CollectUnion(feed) \/ CollectOwn(feed)
  \/ FeedEngine \/ CycleNext \/ SaveAll
  \/ RefreshIfDue \/ PublishOwn \/ ReportOwn \/ ActivateReload
  \/ \E outage \in Outages : WarmWorker(outage)
  \/ KillRuntime \/ Midnight
  \/ \E s \in Sleeves, holding \in Fills : AccountMoves(s, holding)

FeedSpec == FeedInit /\ [][FeedNext]_feedVars

--------------------------------------------------------------------------------
(* What every sleeve's framework may rely on.                                    *)
Windows(s, y) == engine.windows[s][y]
Confirmed(s, y, ind) == ind.res \in Daily => \A n \in DOMAIN Windows(s, y)[ind.name] :
                                               Windows(s, y)[ind.name][n].day < runtimes[s].bootDay
Distinct(s, y, ind) == ind.res \in Daily => IsInjective(Windows(s, y)[ind.name])

\* The two indexes of the shared engine agree: bars of a symbol reach a sleeve exactly
\* while the symbol is in that sleeve's universe.
RoutesAgree == \A s \in Sleeves, y \in Instruments : s \in engine.routes[y] <=> y \in engine.live[s]

\* In the process that trades, a daily indicator is made of confirmed days, each once.
DailyFromConfirmedDays ==
  pc.mode = "multi" =>
    \A s \in Sleeves : runtimes[s] # NoSnapshot =>
      \A y \in DOMAIN engine.windows[s], ind \in Indicators :
        Confirmed(s, y, ind) /\ Distinct(s, y, ind)

Cycles == {seen[s] : s \in Sleeves} \ {NoSnapshot}

\* The framework sees one picture: the indicators and the prices of one collection, on
\* the symbols of its own universe.
OnePicture ==
  \A s \in Sleeves : seen[s] # NoSnapshot =>
    LET c == seen[s] IN
    /\ c.data # NoSnapshot =>
         /\ c.data.id = c.snapshot.source
         /\ SymbolsIn(c.data.bars) \subseteq c.runtime.live
    /\ DOMAIN c.snapshot.ready = c.runtime.live

\* New positions are only allowed on data of the sleeve's own: enough of its live symbols
\* quoted, each at a usable price, and enough of the warmed symbols ready.
EntriesOnOwnData ==
  \A c \in Cycles : AllowsNewEntries(c.snapshot.quality) =>
    /\ c.data # NoSnapshot
    /\ SymbolsIn(c.data.bars) \subseteq c.runtime.live
    /\ Cardinality(SymbolsIn(c.data.bars)) * 100 >= FreshRatio * Cardinality(c.runtime.live)
    /\ \A bar \in c.data.bars : bar.usable
    /\ c.runtime.blocks = {}

\* A sleeve whose own data is whole is not held up by another sleeve's symbols.
NotHeldUpByOthers ==
  \A c \in Cycles :
    (/\ c.data # NoSnapshot /\ c.runtime.blocks = {}
     /\ SymbolsIn(c.data.bars) = c.runtime.live
     /\ \A bar \in c.data.bars : bar.usable)
      => AllowsNewEntries(c.snapshot.quality)

\* What the account held when the universe was chosen can be priced and sold.
HeldStayLive == \A c \in Cycles : c.runtime.heldThen \subseteq c.runtime.live

\* Temporal windows never reach past the snapshot's day and have all their days.
WindowsWhole ==
  \A c \in Cycles : \A w \in c.snapshot.enriched :
    w[2] # {} => Cardinality(w[2]) = Lookback /\ \A d \in w[2] : d <= c.at

(* What the frameworks of a process may rely on, in every cycle of every sleeve.   *)
FeedSound ==
  /\ RoutesAgree /\ DailyFromConfirmedDays /\ OnePicture /\ EntriesOnOwnData
  /\ NotHeldUpByOthers /\ HeldStayLive /\ WindowsWhole
================================================================================
