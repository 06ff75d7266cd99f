------------------------------ MODULE MinuteFiles ------------------------------
(* The bars of the past that commands leave each other in files: the cache of     *)
(* minute bars with a file for each date, the feed exported from it                *)
(* (minute_feed.py), the compiled replay and the warm-up bars of a backtest        *)
(* (backtesting.py, the minute commands of cli.py) and the daily histories of      *)
(* FinanceDataReader (adapters/finance_datareader.py). Files are written in place; *)
(* a command can be killed in the middle, and another command may read meanwhile.  *)
(* A bar tells its symbol, its time and, for its prices, which version of the      *)
(* market's history they are from. A file is a set with at most one member.        *)
EXTENDS Integers, FiniteSets, FiniteSetsExt, Sequences, TLC

CONSTANTS
  FileUsers,     \* processes, each running one command after the other
  FilePlans,     \* the commands of a behaviour: [process -> sequence of commands]
  Universe,      \* the symbols of the universe: [ticker, market]
  Trades,        \* [ticker -> the moments of its minute bars]
  LastDate,      \* dates are 0..LastDate
  Weekend,       \* the dates among them without trading
  ChunkDays,     \* [interval -> the most dates asked of the download service at once]
  Versions,      \* how often the services tell the history anew
  FileFaults     \* kills and failed downloads of a behaviour

VARIABLES
  mfPlan, mfVersion,
  mfDays,        \* [date -> [suffix -> file]]
  mfNotes,       \* [date -> the manifest of the date]
  mfSummary,     \* the manifest of the cache
  mfFeed,        \* the exported or downloaded feed
  mfCompiled,    \* the compiled replay
  mfWarm,        \* the warm-up bars
  mfHistory,     \* the files of daily histories, one for each symbol and range
  mfProc,        \* what each process is in the middle of
  mfFaults,
  mfStory        \* what the properties look back at

dayFiles == <<mfDays, mfNotes, mfSummary>>
replayFiles == <<mfCompiled, mfWarm, mfHistory>>
fileVars == <<mfPlan, mfVersion, dayFiles, mfFeed, replayFiles, mfProc, mfFaults, mfStory>>

--------------------------------------------------------------------------------
(* Moments. A date has midnight, the extended and the regular hours' first and    *)
(* last moment.                                                                   *)

DateTicks == 5
Moment(date, tick) == DateTicks * date + tick
DateOf(moment) == moment \div DateTicks
TickOf(moment) == moment % DateTicks
DateRange(from, to) == DateOf(from)..DateOf(to)
DateOnly == -1   \* the tick of an argument without a time

MinuteStart(text) == Moment(text.date, IF text.tick = DateOnly THEN 0 ELSE text.tick)
MinuteEnd(text) == Moment(text.date, IF text.tick = DateOnly THEN DateTicks - 1 ELSE text.tick)
SessionBounds(extended) == IF extended THEN <<1, 4>> ELSE <<2, 3>>
\* Dates without a time mean the session, when the cache is built.
SessionStart(text, extended) == Moment(text.date, IF text.tick = DateOnly THEN SessionBounds(extended)[1] ELSE text.tick)
SessionEnd(text, extended) == Moment(text.date, IF text.tick = DateOnly THEN SessionBounds(extended)[2] ELSE text.tick)

\* A bound is a set with at most one moment.
Within(moment, from, to) == (\A s \in from : s <= moment) /\ (\A e \in to : moment <= e)

--------------------------------------------------------------------------------
(* What the services answer.                                                      *)

BarAt(symbol, moment) == [symbol |-> symbol, time |-> moment, price |-> mfVersion]
Chunks(from, to, days) ==
  LET width == DateTicks * days
  IN {<<s, IF s + width - 1 < to THEN s + width - 1 ELSE to>> : s \in {m \in from..to : (m - from) % width = 0}}
\* The dates of which the download service told bars; it answers a request in `gaps` with
\* nothing, and a request of several dates is then repeated date by date.
DatesTold(from, to, interval, gaps) ==
  LET asked(chunk) == <<DateOf(chunk[1]), DateOf(chunk[2])>>
      told(chunk) == IF asked(chunk) \in gaps THEN {} ELSE DateRange(chunk[1], chunk[2])
      again(chunk) ==
        IF interval # "60m" /\ asked(chunk)[1] # asked(chunk)[2]
        THEN UNION {told(c) : c \in Chunks(chunk[1], chunk[2], 1)} ELSE {}
  IN UNION {IF asked(chunk) \in gaps THEN again(chunk) ELSE told(chunk) : chunk \in Chunks(from, to, ChunkDays[interval])}
InSession(moment, extended) == TickOf(moment) \in SessionBounds(extended)[1]..SessionBounds(extended)[2]
ServiceTimes(ticker, from, to, interval, extended, gaps) ==
  {t \in Trades[ticker] :
     t \in from..to /\ InSession(t, extended) /\ DateOf(t) \in DatesTold(from, to, interval, gaps)}
\* From the broker's cached histories: date by date, within the hours of the session.
BrokerTimes(ticker, from, to, extended) == {t \in Trades[ticker] : t \in from..to /\ InSession(t, extended)}

\* Naming no symbols means all; a name outside the universe is an error.
Known(command) == command.symbols \subseteq {s.ticker : s \in Universe}
Selected(command) == {s \in Universe : command.symbols = {} \/ s.ticker \in command.symbols}
Asked(command) ==
  IF command.kind = "build"
  THEN <<SessionStart(command.from, command.extended), SessionEnd(command.to, command.extended)>>
  ELSE <<MinuteStart(command.from), MinuteEnd(command.to)>>

AmericanMarkets == {"US", "NAS", "NYS", "AMS"}
Fits(command, symbol) == command.kind = "download" => symbol.market \in AmericanMarkets
\* The US download asks for, and stores, every symbol under the market US.
StoredAs(command, symbol) == IF command.kind = "download" THEN [symbol EXCEPT !.market = "US"] ELSE symbol
SymbolTimes(command, symbol, gaps) ==
  LET range == Asked(command)
  IN IF command.provider = "kis" THEN BrokerTimes(symbol.ticker, range[1], range[2], command.extended)
     ELSE ServiceTimes(symbol.ticker, range[1], range[2], command.interval, command.extended, gaps)
\* What a command gets of its symbols: bars, symbols without any, warnings.
Downloaded(command, failed, gaps) ==
  LET fitting == {s \in Selected(command) : Fits(command, s)}
      times(s) == IF s \in failed THEN {} ELSE SymbolTimes(command, s, gaps)
  IN [bars |-> UNION {{BarAt(StoredAs(command, s), t) : t \in times(s)} : s \in fitting},
      empty |-> {s \in fitting : times(s) = {}},
      warned |-> failed \cup (Selected(command) \ fitting)]
\* The requests of several dates, and of one, that a build makes of the download service.
Requests(command) ==
  LET range == Asked(command)
      wide == Chunks(range[1], range[2], ChunkDays[command.interval])
  IN IF command.provider # "yfinance" THEN {}
     ELSE {<<DateOf(c[1]), DateOf(c[2])>> : c \in wide \cup UNION {Chunks(w[1], w[2], 1) : w \in wide}}
AtMost(n, set) == UNION {kSubset(k, set) : k \in 0..n}
Status(written, told) == IF written = {} THEN "empty" ELSE IF told THEN "partial" ELSE "ok"
MissingDates(range, covered) == (DateRange(range[1], range[2]) \ Weekend) \ covered

--------------------------------------------------------------------------------
(* Processes.                                                                     *)

IdleProc == [n |-> 0, step |-> "idle", dates |-> {}, bars |-> {}, told |-> [empty |-> {}, warned |-> {}, dates |-> {}],
             torn |-> FALSE, hit |-> FALSE, changes |-> 0, warm |-> {}, daily |-> {}, result |-> "none"]
Command(p) == mfPlan[p][mfProc[p].n + 1]
At(p, step) == mfProc[p].step = step
Go(p, changes) == mfProc' = [mfProc EXCEPT ![p] = changes @@ @]
EndWith(p, result) == mfProc' = [mfProc EXCEPT ![p] = [IdleProc EXCEPT !.n = mfProc[p].n + 1, !.result = result]]
Fail(p) == EndWith(p, "error")
Starting(p, kinds) == At(p, "idle") /\ mfProc[p].n < Len(mfPlan[p]) /\ Command(p).kind \in kinds
Fresh == [dates |-> {}, bars |-> {}, told |-> IdleProc.told, torn |-> FALSE, hit |-> FALSE,
          changes |-> mfStory.changes, warm |-> {}, daily |-> {}]

\* Counts the changes of what a replay is compiled from.
SourcesChanged == mfStory' = [mfStory EXCEPT !.changes = @ + 1]

--------------------------------------------------------------------------------
(* minute-cache-build.                                                            *)

FileSuffix(command) == IF command.compress THEN "gz" ELSE "csv"

BuildBegin(p) ==
  /\ Starting(p, {"build"})
  /\ LET command == Command(p)
         range == Asked(command)
     IN \/ /\ range[2] < range[1] \/ ~Known(command)
           /\ Fail(p) /\ UNCHANGED mfFaults
        \/ /\ range[1] <= range[2] /\ Known(command)
           /\ \E failed \in AtMost(FileFaults - mfFaults, Selected(command)) :
              \E gaps \in AtMost(FileFaults - mfFaults - Cardinality(failed), Requests(command)) :
                /\ mfFaults' = mfFaults + Cardinality(failed) + Cardinality(gaps)
                /\ LET got == Downloaded(command, failed, gaps)
                   IN Go(p, [Fresh EXCEPT !.dates = {DateOf(b.time) : b \in got.bars}, !.bars = got.bars,
                               !.told = [empty |-> got.empty, warned |-> got.warned,
                                         dates |-> MissingDates(range, {DateOf(b.time) : b \in got.bars})]]
                            @@ [step |-> "date"])
  /\ UNCHANGED <<mfPlan, mfVersion, dayFiles, mfFeed, replayFiles, mfStory>>

FirstDate(p) == CHOOSE d \in mfProc[p].dates : \A e \in mfProc[p].dates : d <= e
BarsOf(p, date) == {b \in mfProc[p].bars : DateOf(b.time) = date}

\* The next date's file is opened and so emptied, unless it is there and may not be replaced.
BuildOpen(p) ==
  /\ At(p, "date") /\ Command(p).kind = "build" /\ mfProc[p].dates # {}
  /\ LET date == FirstDate(p)
         suffix == FileSuffix(Command(p))
     IN \/ /\ mfDays[date][suffix] # {} /\ ~Command(p).overwrite
           /\ Fail(p) /\ UNCHANGED <<dayFiles, mfStory>>
        \/ /\ mfDays[date][suffix] = {} \/ Command(p).overwrite
           /\ mfDays' = [mfDays EXCEPT ![date][suffix] = {[bars |-> BarsOf(p, date), whole |-> FALSE]}]
           /\ Go(p, [step |-> "fill"])
           /\ SourcesChanged /\ UNCHANGED <<mfNotes, mfSummary>>
  /\ UNCHANGED <<mfPlan, mfVersion, mfFeed, replayFiles, mfFaults>>

BuildFill(p) ==
  /\ At(p, "fill")
  /\ LET date == FirstDate(p)
     IN /\ mfDays' = [mfDays EXCEPT ![date][FileSuffix(Command(p))] = {[bars |-> BarsOf(p, date), whole |-> TRUE]}]
        /\ mfStory' = [mfStory EXCEPT !.changes = @ + 1, !.built = @ \cup {BarsOf(p, date)}]
  /\ Go(p, [step |-> "note"])
  /\ UNCHANGED <<mfPlan, mfVersion, mfNotes, mfSummary, mfFeed, replayFiles, mfFaults>>

\* The manifest of a date.
BuildNote(p) ==
  /\ At(p, "note")
  /\ LET date == FirstDate(p)
     IN /\ mfNotes' = [mfNotes EXCEPT ![date] =
              {[rows |-> Cardinality(BarsOf(p, date)), symbols |-> {b.symbol : b \in BarsOf(p, date)},
                file |-> FileSuffix(Command(p))]}]
        /\ Go(p, [step |-> "date", dates |-> mfProc[p].dates \ {date}])
  /\ UNCHANGED <<mfPlan, mfVersion, mfDays, mfSummary, mfFeed, replayFiles, mfFaults, mfStory>>

BuildEnd(p) ==
  /\ At(p, "date") /\ Command(p).kind = "build" /\ mfProc[p].dates = {}
  /\ LET told == mfProc[p].told
         status == Status(mfProc[p].bars, told.empty \cup told.warned # {} \/ told.dates # {})
     IN /\ mfSummary' = {[status |-> status, range |-> Asked(Command(p)), rows |-> Cardinality(mfProc[p].bars),
                          symbols |-> {b.symbol : b \in mfProc[p].bars}]}
        /\ EndWith(p, status)
  /\ UNCHANGED <<mfPlan, mfVersion, mfDays, mfNotes, mfFeed, replayFiles, mfFaults, mfStory>>

--------------------------------------------------------------------------------
(* Loading bars of the cache, for an export or for a replay.                      *)

LoadRange(command) ==
  IF command.kind = "export" THEN Asked(command)
  ELSE <<CHOOSE s \in command.from : TRUE, CHOOSE e \in command.to : TRUE>>
LoadSymbols(command) == IF command.kind = "export" THEN Selected(command) ELSE Universe

\* The compressed file is preferred.
DayPath(date) == IF mfDays[date]["gz"] # {} THEN "gz" ELSE "csv"
\* What reading a file may give: of an uncompressed file that is being written, or whose writer
\* was killed, the rows so far; a compressed one cannot be read then.
RowsSoFar(bars) == {s \in SUBSET bars : \A b \in s, c \in bars : c.time < b.time => c \in s}
Readings(file, suffix) ==
  IF file.whole THEN {file.bars} ELSE IF suffix = "gz" THEN {} ELSE RowsSoFar(file.bars)
MayFail(file) == ~file.whole

LoadDate(p) ==
  /\ At(p, "load") /\ mfProc[p].dates # {}
  /\ LET date == FirstDate(p)
         suffix == DayPath(date)
         command == Command(p)
         wanted(bars) == {b \in bars : b.symbol \in LoadSymbols(command) /\ b.time \in LoadRange(command)[1]..LoadRange(command)[2]}
         rest == mfProc[p].dates \ {date}
     IN \/ /\ mfDays[date][suffix] = {}
           /\ Go(p, [dates |-> rest, told |-> [mfProc[p].told EXCEPT !.dates = @ \cup ({date} \ Weekend)]])
        \/ \E file \in mfDays[date][suffix] :
             \/ \E bars \in Readings(file, suffix) :
                  Go(p, [dates |-> rest, bars |-> mfProc[p].bars \cup wanted(bars), torn |-> mfProc[p].torn \/ ~file.whole])
             \/ MayFail(file) /\ Fail(p)
  /\ UNCHANGED <<mfPlan, mfVersion, dayFiles, mfFeed, replayFiles, mfFaults, mfStory>>

--------------------------------------------------------------------------------
(* minute-cache-export and download-us-minute-feed.                               *)

FeedBegin(p) ==
  /\ Starting(p, {"export", "download"})
  /\ LET command == Command(p)
         range == Asked(command)
     IN \/ /\ range[2] < range[1] \/ ~Known(command) \/ (mfFeed # {} /\ ~command.overwrite)
           /\ Fail(p) /\ UNCHANGED mfFaults
        \/ /\ range[1] <= range[2] /\ Known(command) /\ (mfFeed = {} \/ command.overwrite)
           /\ \/ /\ command.kind = "export"
                 /\ Go(p, [Fresh EXCEPT !.dates = DateRange(range[1], range[2])] @@ [step |-> "load"])
                 /\ UNCHANGED mfFaults
              \/ /\ command.kind = "download"
                 /\ \E failed \in AtMost(FileFaults - mfFaults, Selected(command)) :
                      /\ mfFaults' = mfFaults + Cardinality(failed)
                      /\ LET got == Downloaded(command, failed, {})
                         IN Go(p, [Fresh EXCEPT !.bars = got.bars,
                                     !.told = [empty |-> got.empty, warned |-> got.warned, dates |-> {}]]
                                  @@ [step |-> "feed"])
  /\ UNCHANGED <<mfPlan, mfVersion, dayFiles, mfFeed, replayFiles, mfStory>>

ExportLoaded(p) ==
  /\ At(p, "load") /\ Command(p).kind = "export" /\ mfProc[p].dates = {}
  /\ Go(p, [step |-> "feed"])
  /\ UNCHANGED <<mfPlan, mfVersion, dayFiles, mfFeed, replayFiles, mfFaults, mfStory>>

FeedOpen(p) ==
  /\ At(p, "feed")
  /\ mfFeed' = {[bars |-> mfProc[p].bars, whole |-> FALSE]}
  /\ Go(p, [step |-> "feedFill"]) /\ SourcesChanged
  /\ UNCHANGED <<mfPlan, mfVersion, dayFiles, replayFiles, mfFaults>>

\* The report of an export leaves out a symbol without bars, that of a download tells it.
FeedFill(p) ==
  /\ At(p, "feedFill")
  /\ mfFeed' = {[bars |-> mfProc[p].bars, whole |-> TRUE]}
  /\ LET told == mfProc[p].told
     IN EndWith(p, Status(mfProc[p].bars, told.warned # {} \/ told.empty # {} \/ told.dates # {}))
  /\ SourcesChanged
  /\ UNCHANGED <<mfPlan, mfVersion, dayFiles, replayFiles, mfFaults>>

--------------------------------------------------------------------------------
(* Daily histories. FinanceDataReader's are kept by the exact range of dates; a    *)
(* file that cannot be read is fetched again.                                     *)

DailyBar(symbol, date) == [symbol |-> symbol, time |-> Moment(date, 0), price |-> mfVersion]
TradedOn(ticker) == {DateOf(t) : t \in Trades[ticker]}
HistoryKey(symbol, from, to) == [symbol |-> symbol, from |-> DateOf(from), to |-> DateOf(to)]
Fetched(key) ==
  [key |-> key, whole |-> TRUE,
   bars |-> {DailyBar(key.symbol, d) : d \in TradedOn(key.symbol.ticker) \cap (key.from..key.to)}]
Cached(key, refresh) == IF refresh THEN {} ELSE {h \in mfHistory : h.key = key /\ h.whole}
\* The histories of the universe over a range, and the files afterwards.
DailyLoad(from, to, refresh) ==
  LET keys == {HistoryKey(s, from, to) : s \in Universe}
      missed == {k \in keys : Cached(k, refresh) = {}}
      fetched == {Fetched(k) : k \in missed}
  IN [bars |-> UNION {h.bars : h \in fetched \cup UNION {Cached(k, refresh) : k \in keys \ missed}},
      files |-> {h \in mfHistory : h.key \notin missed} \cup fetched]

--------------------------------------------------------------------------------
(* runtime-backtest-minute, up to the bars it gives to the replay.                *)

Span(bars, from, to) == {b \in bars : Within(b.time, from, to)}
OfUniverse(bars) == {b \in bars : b.symbol \in Universe}
FirstTime(bars) == {t \in {b.time : b \in bars} : \A b \in bars : t <= b.time}
LastTime(bars) == {t \in {b.time : b \in bars} : \A b \in bars : b.time <= t}

\* A compiled replay that is there is used as it is, cut to the range asked for.
ReplayCompiled(p) ==
  /\ Starting(p, {"replay"}) /\ Command(p).compiled /\ mfCompiled # {} /\ ~Command(p).recompile
  /\ \E file \in mfCompiled :
       \/ file.whole /\ Go(p, [Fresh EXCEPT !.bars = Span(file.bars, Command(p).from, Command(p).to), !.hit = TRUE]
                              @@ [step |-> "warm"])
       \/ ~file.whole /\ Fail(p)
  /\ UNCHANGED <<mfPlan, mfVersion, dayFiles, mfFeed, replayFiles, mfFaults, mfStory>>

NextStep(command) == IF command.compiled THEN "compile" ELSE "warm"
ReplayLoad(p) ==
  /\ Starting(p, {"replay"}) /\ ~(Command(p).compiled /\ mfCompiled # {} /\ ~Command(p).recompile)
  /\ LET command == Command(p)
     IN \/ /\ command.source = "cache" /\ command.from # {} /\ command.to # {}
           /\ Go(p, [Fresh EXCEPT !.dates = DateRange(LoadRange(command)[1], LoadRange(command)[2])] @@ [step |-> "load"])
        \/ /\ command.source = "feed"
           /\ \E file \in mfFeed :
                \E bars \in Readings(file, "csv") :
                  Go(p, [Fresh EXCEPT !.bars = Span(OfUniverse(bars), command.from, command.to), !.torn = ~file.whole]
                        @@ [step |-> NextStep(command)])
        \/ /\ \/ command.source = "none"
              \/ command.source = "cache" /\ (command.from = {} \/ command.to = {})
              \/ command.source = "feed" /\ \A file \in mfFeed : MayFail(file)
           /\ Fail(p)
  /\ UNCHANGED <<mfPlan, mfVersion, dayFiles, mfFeed, replayFiles, mfFaults, mfStory>>

ReplayLoaded(p) ==
  /\ At(p, "load") /\ Command(p).kind = "replay" /\ mfProc[p].dates = {}
  /\ Go(p, [step |-> NextStep(Command(p))])
  /\ UNCHANGED <<mfPlan, mfVersion, dayFiles, mfFeed, replayFiles, mfFaults, mfStory>>

CompiledFile(p, whole) ==
  [bars |-> mfProc[p].bars, from |-> Command(p).from, to |-> Command(p).to, source |-> Command(p).source, whole |-> whole]
CompileOpen(p) ==
  /\ At(p, "compile")
  /\ mfCompiled' = {CompiledFile(p, FALSE)}
  /\ Go(p, [step |-> "compileFill"])
  /\ UNCHANGED <<mfPlan, mfVersion, dayFiles, mfFeed, mfWarm, mfHistory, mfFaults, mfStory>>
CompileFill(p) ==
  /\ At(p, "compileFill")
  /\ mfCompiled' = {CompiledFile(p, TRUE)}
  /\ Go(p, [step |-> "warm"])
  /\ mfStory' = [mfStory EXCEPT !.compiledAt = IF mfProc[p].torn THEN -1 ELSE mfProc[p].changes]
  /\ UNCHANGED <<mfPlan, mfVersion, dayFiles, mfFeed, mfWarm, mfHistory, mfFaults>>

\* Warming up ends one day before the replay starts.
EvaluationStart(p) == IF Command(p).from # {} THEN Command(p).from ELSE FirstTime(mfProc[p].bars)
WarmupToStart(p) == EvaluationStart(p)   \* mutant: up to the start itself
WarmupEnd(p) == {s - DateTicks : s \in EvaluationStart(p)}
Agrees(kept, asked) == kept = {} \/ asked = {} \/ kept = asked
\* The dates of a history without a bound reach as far as the history does.
Lower(bound) == IF bound = {} THEN 0 ELSE CHOOSE m \in bound : TRUE
Upper(bound) == IF bound = {} THEN Moment(LastDate, DateTicks - 1) ELSE CHOOSE m \in bound : TRUE

WarmUp(p) ==
  /\ At(p, "warm")
  /\ LET command == Command(p)
     IN \/ /\ command.warmFrom = {}
           /\ Go(p, [step |-> "daily"]) /\ UNCHANGED mfHistory
        \/ /\ command.warmFrom # {} /\ command.keepWarm /\ mfWarm # {} /\ ~command.rewarm
           /\ \E file \in mfWarm :
                \/ /\ file.whole /\ Agrees(file.from, command.warmFrom) /\ Agrees(file.to, WarmupEnd(p))
                   /\ Go(p, [step |-> "daily", warm |-> file.bars])
                \/ /\ ~(file.whole /\ Agrees(file.from, command.warmFrom) /\ Agrees(file.to, WarmupEnd(p)))
                   /\ Fail(p)
           /\ UNCHANGED mfHistory
        \/ /\ command.warmFrom # {} /\ ~(command.keepWarm /\ mfWarm # {} /\ ~command.rewarm)
           /\ LET loaded == DailyLoad(Lower(command.warmFrom), Upper(WarmupEnd(p)), command.refresh)
              IN /\ Go(p, [step |-> IF command.keepWarm THEN "keep" ELSE "daily", warm |-> loaded.bars])
                 /\ mfHistory' = loaded.files
  /\ UNCHANGED <<mfPlan, mfVersion, dayFiles, mfFeed, mfCompiled, mfWarm, mfFaults, mfStory>>

WarmFile(p, whole) == [bars |-> mfProc[p].warm, from |-> Command(p).warmFrom, to |-> WarmupEnd(p), whole |-> whole]
KeepWarm(p) ==
  /\ \/ At(p, "keep") /\ mfWarm' = {WarmFile(p, FALSE)} /\ Go(p, [step |-> "keepFill"])
     \/ At(p, "keepFill") /\ mfWarm' = {WarmFile(p, TRUE)} /\ Go(p, [step |-> "daily"])
  /\ UNCHANGED <<mfPlan, mfVersion, dayFiles, mfFeed, mfCompiled, mfHistory, mfFaults, mfStory>>

\* The daily bars that the replay meets on its way.
ReplayStart(p) ==
  Moment(DateOf(IF WarmupEnd(p) # {} THEN Lower(WarmupEnd(p)) + DateTicks ELSE Lower(FirstTime(mfProc[p].bars))), 0)
ReplayEnd(p) == Lower(IF Command(p).to # {} THEN Command(p).to ELSE LastTime(mfProc[p].bars))
Replay(p) ==
  /\ At(p, "daily")
  /\ IF mfProc[p].bars = {} THEN Go(p, [step |-> "ran"]) /\ UNCHANGED mfHistory
     ELSE LET loaded == DailyLoad(ReplayStart(p), ReplayEnd(p), Command(p).refresh)
          IN Go(p, [step |-> "ran", daily |-> loaded.bars]) /\ mfHistory' = loaded.files
  /\ UNCHANGED <<mfPlan, mfVersion, dayFiles, mfFeed, mfCompiled, mfWarm, mfFaults, mfStory>>

\* The replay itself is Backtest's; here it ends.
Ran(p) ==
  /\ At(p, "ran") /\ EndWith(p, "ran")
  /\ UNCHANGED <<mfPlan, mfVersion, dayFiles, mfFeed, replayFiles, mfFaults, mfStory>>

--------------------------------------------------------------------------------
(* What happens to the commands, and the specification.                           *)

\* A command is killed; a history whose file it was writing is left unreadable.
KillCommand(p) ==
  /\ mfProc[p].step \notin {"idle", "ran"} /\ mfFaults < FileFaults
  /\ mfFaults' = mfFaults + 1
  /\ EndWith(p, "killed")
  /\ \/ UNCHANGED mfHistory
     \/ /\ At(p, "daily") /\ mfProc[p].bars # {}
        /\ LET loaded == DailyLoad(ReplayStart(p), ReplayEnd(p), Command(p).refresh)
           IN \E h \in loaded.files \ mfHistory :
                mfHistory' = {g \in mfHistory : g.key # h.key} \cup {[h EXCEPT !.whole = FALSE]}
  /\ UNCHANGED <<mfPlan, mfVersion, dayFiles, mfFeed, mfCompiled, mfWarm, mfStory>>

\* The services adjust the history.
Adjust ==
  /\ mfVersion < Versions /\ \E p \in FileUsers : mfProc[p].n < Len(mfPlan[p])
  /\ mfVersion' = mfVersion + 1
  /\ UNCHANGED <<mfPlan, dayFiles, mfFeed, replayFiles, mfProc, mfFaults, mfStory>>

FilesInit ==
  /\ mfPlan \in FilePlans
  /\ mfVersion = 1
  /\ mfDays = [d \in 0..LastDate |-> [suffix \in {"gz", "csv"} |-> {}]]
  /\ mfNotes = [d \in 0..LastDate |-> {}]
  /\ mfSummary = {} /\ mfFeed = {} /\ mfCompiled = {} /\ mfWarm = {} /\ mfHistory = {}
  /\ mfProc = [p \in FileUsers |-> IdleProc]
  /\ mfFaults = 0
  /\ mfStory = [changes |-> 0, compiledAt |-> -1, built |-> {}]

FilesNext ==
  \/ \E p \in FileUsers :
       \/ BuildBegin(p) \/ BuildOpen(p) \/ BuildFill(p) \/ BuildNote(p) \/ BuildEnd(p)
       \/ LoadDate(p) \/ FeedBegin(p) \/ ExportLoaded(p) \/ FeedOpen(p) \/ FeedFill(p)
       \/ ReplayCompiled(p) \/ ReplayLoad(p) \/ ReplayLoaded(p) \/ CompileOpen(p) \/ CompileFill(p)
       \/ WarmUp(p) \/ KeepWarm(p) \/ Replay(p) \/ Ran(p) \/ KillCommand(p)
  \/ Adjust

--------------------------------------------------------------------------------
(* Pure parts: session columns and the opening gap.                               *)

\* Metadata of a bar: phase, scope and source are texts, the flags "true" or "false"; "" is
\* not told. Without a phase, the session of the clock is written.
Flags == {"regular", "orderable", "extended"}
SessionColumns(meta, clock) ==
  IF meta.phase = "" THEN clock
  ELSE [k \in DOMAIN meta |-> IF k \in Flags /\ meta[k] = "" THEN "false" ELSE meta[k]]
\* Read for the cache, and read for a replay, which never looks at the clock.
NoSession == [k \in Flags \cup {"phase", "scope", "source"} |-> ""]
CacheSession(row, clock) ==
  IF row.phase = "" /\ row.scope = "" THEN NoSession
  ELSE LET told == [row EXCEPT !.scope = IF row.scope = "" THEN clock.scope ELSE row.scope]
       IN IF row.regular # "" /\ row.orderable # "" THEN told
          ELSE [k \in DOMAIN told |-> IF told[k] = "" /\ k # "phase" THEN clock[k] ELSE told[k]]
ReplaySession(row, marketScope) ==
  IF row.phase = "" /\ \A k \in Flags \cup {"source"} : row[k] = "" THEN NoSession
  ELSE [row EXCEPT !.scope = IF row.scope = "" THEN marketScope ELSE row.scope]

\* The opening gap of each daily bar, from the last close above zero before it.
ClosesBefore(series, i) == {j \in 1..(i - 1) : series[j].close > 0}
GapContext(series, i) ==
  LET before == ClosesBefore(series, i)
      previous == series[CHOOSE j \in before : \A k \in before : k <= j].close
  IN IF before = {} \/ series[i].open <= 0 THEN [known |-> FALSE, previous |-> 0, filled |-> FALSE]
     ELSE [known |-> TRUE, previous |-> previous,
           filled |-> series[i].low <= previous /\ previous <= series[i].high]

--------------------------------------------------------------------------------
(* What the files keep.                                                           *)

CommandOver(p) == mfProc'[p].n # mfProc[p].n
\* Without --overwrite a whole file is never replaced, neither a date's nor the feed.
OnlyAskedReplaced ==
  /\ \A d \in DOMAIN mfDays, suffix \in {"gz", "csv"} : \A file \in mfDays[d][suffix] :
       file.whole /\ mfDays'[d][suffix] # {file} =>
         \E p \in FileUsers : mfProc[p].step = "date" /\ Command(p).kind = "build" /\ Command(p).overwrite
  /\ \A file \in mfFeed :
       file.whole /\ mfFeed' # {file} => \E p \in FileUsers : mfProc[p].step = "feed" /\ Command(p).overwrite

\* A build that says ok left a whole file for every weekday of its range and a bar of every
\* symbol; whatever it says short of an error, the manifest of a date it wrote counts that
\* date's file.
BuildToldTrue ==
  \A p \in FileUsers :
    CommandOver(p) /\ Command(p).kind = "build" /\ mfProc'[p].result \in {"ok", "partial", "empty"} =>
      LET range == Asked(Command(p))
          left(d) == mfDays'[d][FileSuffix(Command(p))]
          there == UNION {UNION {file.bars : file \in left(d)} : d \in DateRange(range[1], range[2])}
      IN /\ mfProc'[p].result = "ok" =>
              /\ \A d \in DateRange(range[1], range[2]) \ Weekend : \E file \in left(d) : file.whole
              /\ \A s \in Selected(Command(p)) : \E b \in there : b.symbol = s
         /\ \A d \in {DateOf(b.time) : b \in mfProc[p].bars} :
              \E file \in left(d), note \in mfNotes'[d] :
                note.rows = Cardinality(file.bars) /\ note.file = FileSuffix(Command(p))

\* What a load of the cache brings of a date is what one build had of it, or what an
\* uncompressed file held that was not finished; a weekday not warned of has a file.
LoadTrue ==
  \A p \in FileUsers : At(p, "load") /\ mfProc[p].dates = {} =>
    LET range == LoadRange(Command(p))
        wanted(bars) == {b \in bars : b.symbol \in LoadSymbols(Command(p)) /\ b.time \in range[1]..range[2]}
        brought(d) == {b \in mfProc[p].bars : DateOf(b.time) = d}
    IN \A d \in DateRange(range[1], range[2]) :
         /\ Cardinality({b.price : b \in brought(d)}) <= 1
         /\ ~mfProc[p].torn /\ brought(d) # {} => \E built \in mfStory.built : brought(d) = wanted(built)
         /\ d \notin Weekend /\ d \notin mfProc[p].told.dates => mfDays[d]["gz"] # {} \/ mfDays[d]["csv"] # {}

\* A replay from the compiled file gets the bars it would get from the sources, while these
\* are as they were and the file covers the range.
Covers(file, from, to) ==
  /\ file.from = {} \/ (from # {} /\ Lower(file.from) <= Lower(from))
  /\ file.to = {} \/ (to # {} /\ Upper(to) <= Upper(file.to))
FromSources(source) ==
  IF source = "feed" THEN OfUniverse(UNION {file.bars : file \in mfFeed})
  ELSE UNION {UNION {OfUniverse(file.bars) : file \in mfDays[d][DayPath(d)]} : d \in DOMAIN mfDays}
CompiledTrue ==
  \A p \in FileUsers : \A file \in mfCompiled :
    /\ Starting(p, {"replay"}) /\ mfProc'[p].step = "warm" /\ mfProc'[p].hit
    /\ file.whole /\ mfStory.compiledAt = mfStory.changes /\ Covers(file, Command(p).from, Command(p).to)
    => mfProc'[p].bars = Span(FromSources(file.source), Command(p).from, Command(p).to)

\* A replay and its warm-up meet every daily bar from the start of the warm-up once, the
\* warm-up none of the replay's first date or after; a symbol's warm-up is of one fetch. (Warm-up
\* bars kept without an end are accepted for any: then nothing is promised.)
DailyOnce ==
  \A p \in FileUsers :
    /\ At(p, "ran") /\ mfProc[p].bars # {} /\ Command(p).warmFrom # {}
    /\ Command(p).keepWarm => \A file \in mfWarm : file.to # {}
    => LET days(bars) == {<<b.symbol, DateOf(b.time)>> : b \in bars}
           spanned == {<<s, d>> \in Universe \X (DateOf(Lower(Command(p).warmFrom))..DateOf(ReplayEnd(p))) :
                         d \in TradedOn(s.ticker)}
           warm == mfProc[p].warm
       IN /\ days(warm) \cap days(mfProc[p].daily) = {}
          /\ days(warm) \cup days(mfProc[p].daily) = spanned
          /\ \A b \in warm : \A b2 \in mfProc[p].bars : DateOf(b.time) < DateOf(b2.time)
          /\ \A b, b2 \in warm : b.symbol = b2.symbol => b.price = b2.price

\* The files of bars keep what they promise.
FilesKept == OnlyAskedReplaced /\ BuildToldTrue /\ LoadTrue /\ CompiledTrue /\ DailyOnce
================================================================================
