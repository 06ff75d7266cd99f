---------------------------- MODULE MCLiveProcess -----------------------------
(* Constants for TLC of what outlives the processes of the live loop. A behaviour *)
(* runs one part: "state" is the model state that the cycles of a sleeve leave to *)
(* each other, "loop" the order loop with its queue, its files and its restarts,  *)
(* "client" the calls of its threads and of other processes to the broker, "files" *)
(* the bars that the commands of the minute feed and the replays leave each other. *)
EXTENDS MCStateCycles, LiveLoop, BrokerClient, MinuteFiles

Order(id, type, sleeve, config) == [id |-> id, type |-> type, sleeve |-> sleeve, config |-> config]
MCListed == [first |-> {"kr", "us"}, second |-> {"kr", "us", "new"}]
Scenario(first, second, ends) == [commands |-> <<first, second>>, ends |-> ends]
MCScripts ==
  {Scenario(Order(1, "suspend_sleeve", "kr", "first"), Order(2, "resume_sleeve", "kr", "first"), 1),
   Scenario(Order(1, "deactivate_sleeve", "us", "first"), Order(2, "shutdown", "kr", "first"), 0),
   Scenario(Order(1, "pause_worker", "kr", "first"), Order(2, "resume_worker", "kr", "first"), 0),
   Scenario(Order(1, "reload_config", "kr", "second"), Order(2, "activate_sleeve", "new", "second"), 0)}
MCSession == [kr |-> {0, 1}, us |-> {0}, new |-> {0}]
MCClosedDays == [kr |-> {}, us |-> {0}, new |-> {}]
MCRunCadence == [kr |-> 2, us |-> 1, new |-> 1]
MCBatchHashes == {"none", "A"}
Well ==
  [files |-> TRUE, routed |-> TRUE, gateway |-> "ok", degradedCalendar |-> FALSE, orderable |-> TRUE,
   changed |-> FALSE, bootstraps |-> TRUE]
MCSurroundings == {Well, [Well EXCEPT !.gateway = "down"], [Well EXCEPT !.changed = TRUE]}

Ticket(market, type, limit) ==
  [market |-> market, symbol |-> "y", side |-> "buy", type |-> type, force |-> "day", limit |-> limit,
   reference |-> 20010, remaining |-> 2, lot |-> 1, step |-> 1, status |-> "submitted",
   defaultScope |-> "SOR", ownExchange |-> Blank,
   meta |-> [division |-> Blank, session |-> Blank, phase |-> "regular_continuous", scope |-> Blank, exchange |-> Blank]]
Submit(ticket) == [kind |-> "submit", ticket |-> ticket]
Cancel(ticket) == [kind |-> "cancel", ticket |-> ticket]
QuoteOf(y) == [kind |-> "quote", stock |-> y]
HistoryOf(days, refresh) == [kind |-> "history", days |-> days, refresh |-> refresh]
Home == Ticket("KR", "limit", 20010)
Abroad == Ticket("US", "market", Blank)
Output(last, open) == [last |-> last, open |-> open, high |-> open, low |-> open, volume |-> 10,
                       change |-> 0, rate |-> 0, standard |-> 100]
Book(last, ask, bid) ==
  [last |-> last, levels |-> <<[ask |-> ask, askSize |-> 10, bid |-> bid, bidSize |-> 10]>>]
Answer(output, book, truth) == [output |-> output, book |-> book, truth |-> truth]
Traded == Answer(Output(120, 110), Book(Blank, 0, 0), {12})
Untraded == Answer(Output(100, 0), Book(Blank, 120, 110), {11})
Unquoted == Answer(Output(100, 0), Book(Blank, Unreadable, 0), {})
Torn == Answer([Output(120, 110) EXCEPT !.high = Unreadable], Book(Blank, 0, 0), {12})
Plan(transport, shared, hashing, token, faults, outputs, calls1, calls2) ==
  [transport |-> transport, shared |-> shared, hashing |-> hashing, token |-> token,
   faults |-> faults, outputs |-> outputs, calls |-> [t1 |-> calls1, t2 |-> calls2]]
MCPlans ==
  {Plan("direct", TRUE, TRUE, 5, 1, {}, <<Submit(Home)>>, <<Submit(Abroad)>>),
   Plan("direct", TRUE, FALSE, 0, 1, {Traded}, <<Submit(Home), Cancel(Home)>>, <<QuoteOf("y")>>),
   Plan("direct", FALSE, TRUE, 0, 3, {}, <<Submit(Home)>>, <<>>),
   Plan("direct", FALSE, FALSE, 9, 0, {Traded}, <<QuoteOf("y")>>, <<QuoteOf("z"), QuoteOf("y")>>),
   Plan("direct", FALSE, FALSE, 0, 3, {Traded, Untraded, Unquoted, Torn}, <<QuoteOf("y")>>, <<>>),
   Plan("direct", FALSE, FALSE, 0, 1, {}, <<HistoryOf({1, 2}, FALSE)>>, <<HistoryOf({2, 3}, TRUE)>>),
   Plan("engine", TRUE, FALSE, 0, 2, {}, <<Submit(Home), Cancel(Home)>>, <<Submit(Abroad), Cancel(Abroad)>>),
   Plan("market", TRUE, FALSE, 0, 2, {Traded, Untraded}, <<QuoteOf("y")>>, <<HistoryOf({1}, FALSE)>>)}

MCUniverse == {[ticker |-> "y", market |-> "US"], [ticker |-> "z", market |-> "NAS"]}
MCTrades == [y |-> {7, 12}, z |-> {8, 14}]
MCChunkDays == [interval \in {"1m", "60m"} |-> IF interval = "1m" THEN 2 ELSE 3]
WholeDate(date) == [date |-> date, tick |-> DateOnly]
Build(symbols, from, overwrite, compress, provider, extended) ==
  [kind |-> "build", symbols |-> symbols, from |-> WholeDate(from), to |-> WholeDate(2), overwrite |-> overwrite,
   compress |-> compress, provider |-> provider, interval |-> "1m", extended |-> extended]
Export(overwrite) ==
  [kind |-> "export", symbols |-> {}, from |-> WholeDate(1), to |-> WholeDate(2), overwrite |-> overwrite]
Download ==
  [kind |-> "download", symbols |-> {}, from |-> WholeDate(1), to |-> WholeDate(2), overwrite |-> FALSE,
   provider |-> "yfinance", interval |-> "1m", extended |-> FALSE]
ReplayOf(source, from, to, compiled, warmFrom, keepWarm) ==
  [kind |-> "replay", source |-> source, from |-> from, to |-> to, compiled |-> compiled, recompile |-> FALSE,
   warmFrom |-> warmFrom, keepWarm |-> keepWarm, rewarm |-> FALSE, refresh |-> FALSE]
Beside(writer, reader) == [writer |-> writer, reader |-> reader]
MCFilePlans ==
  {Beside(<<Build({}, 1, FALSE, FALSE, "yfinance", TRUE), Build({"y"}, 2, TRUE, FALSE, "kis", FALSE)>>,
          <<ReplayOf("cache", {6}, {14}, TRUE, {}, FALSE), ReplayOf("cache", {10}, {14}, TRUE, {}, FALSE)>>),
   Beside(<<Build({}, 2, FALSE, FALSE, "yfinance", TRUE)>>,
          <<ReplayOf("cache", {6}, {14}, TRUE, {0}, TRUE), ReplayOf("cache", {10}, {14}, TRUE, {0}, TRUE)>>),
   Beside(<<Build({}, 1, FALSE, FALSE, "kis", TRUE), Build({}, 2, FALSE, TRUE, "yfinance", FALSE), Export(TRUE)>>,
          <<ReplayOf("cache", {5}, {14}, FALSE, {}, FALSE)>>),
   Beside(<<Download, Build({"q"}, 1, FALSE, TRUE, "kis", FALSE), Export(FALSE), Export(TRUE)>>,
          <<ReplayOf("feed", {12}, {}, TRUE, {0}, FALSE), ReplayOf("none", {12}, {14}, TRUE, {5}, TRUE),
            ReplayOf("feed", {}, {14}, FALSE, {0}, FALSE)>>)}

--------------------------------------------------------------------------------
(* The pure parts of the broker adapters against what they are for, over the      *)
(* prices around the edges of the ticks and over the answers that differ.         *)

EdgePrices == UNION {{e - 11, e - 1, e, e + 1, e + 9} : e \in {20000, 50000, 200000, 500000, 2000000, 5000000}}
\* A rounded order price lies on a tick of the exchange, less than one tick away, on the
\* side the order can bear.
ASSUME RoundedOnTick ==
  \A p \in EdgePrices :
    LET up == 10 * RoundKrx(p, "buy")
        down == 10 * RoundKrx(p, "sell")
    IN ValidKrxTick(up) /\ ValidKrxTick(down) /\ down <= p /\ p <= up /\ up - down <= 10 * KrxTick(p)
\* Overseas the same, and a price never rounds to nothing.
ASSUME OverseasOnTick ==
  \A p \in {1, 50, 9999, 10000, 10001, 10099}, e \in {"NASD", "TKSE"}, side \in {"buy", "sell"} :
    LET r == RoundOverseas(p, side, e) IN r > 0 /\ r % OverseasTick(p, e) = 0

Tickets ==
  {[Ticket(m, y, l) EXCEPT !.force = f, !.meta.phase = phase, !.meta.division = d, !.meta.scope = scope, !.meta.exchange = e] :
     m \in {"KR", "KOSDAQ", "US", "HKS"}, y \in {"market", "limit"}, l \in {Blank, 20010}, f \in {"day", "ioc"},
     phase \in {"regular_continuous", "after_hours_close"}, d \in {Blank, "01"}, scope \in {Blank, "BEST", "PRIMARY"},
     e \in {Blank, "NYS", "elsewhere"}}
\* An order that reaches the broker names a price exactly when its division is one of
\* prices, whatever ticket it came from, and keeps the ticket's side and quantity.
ASSUME PricedByDivision ==
  \A t \in Tickets : \A args \in {SubmitArguments(t)} : args.ok =>
    \A body \in {OrderBody(args.value)} : body.ok =>
      /\ (body.value.price = 0) = (body.value.division \in MarketDivisions)
      /\ body.value.side = t.side /\ body.value.quantity = t.remaining
\* A cancel names the number and the branch that the submit was answered.
ASSUME CancelNamesOrder ==
  \A t \in Tickets, branch \in {Blank, "b"} : \A args \in {CancelArguments(t, BrokerOrderId(branch, 7))} :
    args.ok => args.value.number = 7 /\ (IsOverseas(t) \/ args.value.branch = branch)

OddFields == {Blank, Unreadable, 0, 100, 110}
\* A quote is called usable only when the stock has traded, or when the orderbook names
\* another price.
ASSUME UsableMeansTraded ==
  \A last \in {100, 110}, open, ask \in OddFields, told \in OddFields :
    \A price \in {DomesticPrice(Output(last, open), DomesticOrderbook(Book(told, ask, 0)))} :
      price.ok => \A bar \in {QuoteBar(price.value, TRUE, TRUE, TRUE).value} :
        bar.usable = "yes" /\ last = 100 /\ open \in {0, Blank} => bar.close # 10

CandleOf(on, minute, close, volume) ==
  [date |-> on, time |-> minute, open |-> close, high |-> close, low |-> close, close |-> close, volume |-> volume]
SomeDays == {Blank, 1, 2, 3}
SomeCandles == {CandleOf(d, 9, close, volume) : d \in SomeDays, close \in {10, 40}, volume \in {0, 10}}
\* A daily history is in order, within the days asked for, and jumps by three only in bars
\* that traded.
ASSUME HistoryInOrder ==
  \A c1, c2, c3 \in SomeCandles :
    \A daily \in {DomesticDaily(<<c1, c2, c3>>, "D", 1, 2)} : \A bars \in {DailyBars(daily.value)} :
      bars.ok => \A i \in DOMAIN bars.value :
        /\ bars.value[i].date \in 1..2
        /\ i > 1 => /\ bars.value[i - 1].date <= bars.value[i].date
                    /\ bars.value[i].volume > 0 \/ bars.value[i].close = bars.value[i - 1].close

Holding(counted, orderable, settled) ==
  [symbol |-> "y", otherSymbol |-> Missing, counted |-> counted, orderable |-> orderable, otherOrderable |-> Missing,
   settled |-> settled, otherSettled |-> Missing]
\* What the broker counted decides, even when it counted nothing.
ASSUME CountedDecides ==
  \A counted \in {Blank, Missing, 0, 20}, orderable \in {Blank, Missing, 10}, settled \in {Blank, 0, 30} :
    \A held \in {OverseasHolding(Holding(counted, orderable, settled))} :
      /\ counted = 0 => held.quantity = 0
      /\ counted = 20 => held.quantity = 2
      /\ counted \in {Blank, Missing} /\ orderable = 10 => held.quantity = 1

SessionFields == Flags \cup {"phase", "scope", "source"}
ClockSessions == {[k \in SessionFields |-> IF k \in Flags THEN open ELSE "clock"] : open \in {"true", "false"}}
BarSessions ==
  {[k \in SessionFields |-> IF k = "phase" THEN phase ELSE IF k = "scope" THEN scope ELSE IF k = "source" THEN "" ELSE flags[k]] :
     phase \in {"", "told"}, scope \in {"", "told"}, flags \in [Flags -> {"", "true", "false"}]}
\* The session columns of a feed mean the same to the cache and to a replay, and a phase that
\* a bar has told is not replaced by the clock's.
ASSUME SessionReadTheSame ==
  \A meta \in BarSessions, clock \in ClockSessions : \A row \in {SessionColumns(meta, clock)} :
    /\ CacheSession(row, clock) = ReplaySession(row, clock.scope)
    /\ meta.phase # "" => CacheSession(row, clock).phase = meta.phase

SomeBars == {[open |-> open, low |-> 1, high |-> 2, close |-> close] : open \in {0, 2}, close \in {0, 1, 3}}
\* The gap of a bar is from the last close above zero, as a walk along the series carries it.
ASSUME GapFromLastClose ==
  \A b1, b2, b3 \in SomeBars :
    LET series == <<b1, b2, b3>>
        carried[i \in 0..3] == IF i = 0 THEN 0 ELSE IF series[i].close > 0 THEN series[i].close ELSE carried[i - 1]
    IN \A i \in 1..3 : \A gap \in {GapContext(series, i)} :
         /\ gap.known = (carried[i - 1] > 0 /\ series[i].open > 0)
         /\ gap.known => gap.previous = carried[i - 1] /\ gap.filled = (gap.previous \in 1..2)

--------------------------------------------------------------------------------
VARIABLE half

MCInit ==
  /\ half \in {"state", "loop", "client", "files"}
  /\ Init /\ LoopInit /\ ClientInit /\ FilesInit
  /\ half # "loop" => lpScript = <<Order(1, "pause_worker", "kr", "first"), Order(2, "resume_worker", "kr", "first")>>
  /\ half # "client" => kcPlan = Plan("engine", TRUE, FALSE, 0, 2, {}, <<Submit(Home), Cancel(Home)>>, <<Submit(Abroad), Cancel(Abroad)>>)
  /\ half # "files" => mfPlan.writer[1] = Download

\* Bound: the other sleeve's seed command runs on the first day.
OtherInTime == pc'[other] # "idle" => day' = 1

MCNext ==
  /\ UNCHANGED half
  /\ \/ half = "state" /\ Next /\ OtherInTime /\ UNCHANGED <<loopVars, clientVars, fileVars>>
     \/ half = "loop" /\ LoopNext /\ UNCHANGED <<vars, clientVars, fileVars>>
     \/ half = "client" /\ ClientNext /\ UNCHANGED <<vars, loopVars, fileVars>>
     \/ half = "files" /\ FilesNext /\ UNCHANGED <<vars, loopVars, clientVars>>

MCSpec == MCInit /\ [][MCNext]_<<half, vars, loopVars, clientVars, fileVars>>

\* What the parts beside the model state keep: the loop, its queue and its files; the calls
\* to the broker; the files of bars.
PartKept ==
  CASE half = "loop" -> LoopKept [] half = "client" -> ClientKept [] half = "files" -> FilesKept [] OTHER -> TRUE
ProcessKeepsRules == [][PartKept]_<<half, loopVars, clientVars, fileVars>>
===============================================================================
