---------------------------- MODULE BrokerPayloads ----------------------------
(* What goes to the broker and what comes back: a ticket as the arguments of an    *)
(* operation (brokerage.py), the arguments as the body of a request and an answer  *)
(* as prices, candles, balances and holdings (adapters/kis_direct.py), those as    *)
(* bars (adapters/kis.py), on the ticks of market_rules.py. Domestic prices before *)
(* rounding and every number of an answer are in tenths, overseas order prices in  *)
(* ten-thousandths. A field of an answer is a number, Blank (an empty text),       *)
(* Missing, or Unreadable (a text that is no number).                              *)
EXTENDS Integers, Sequences, FiniteSets, SequencesExt, TLC

CONSTANTS Blank, Missing, Unreadable

Failed == [ok |-> FALSE]
Done(value) == [ok |-> TRUE, value |-> value]

--------------------------------------------------------------------------------
(* Ticks.                                                                         *)

KrxTick(price) ==
  CASE price < 20000 -> 1 [] price < 50000 -> 5 [] price < 200000 -> 10
    [] price < 500000 -> 50 [] price < 2000000 -> 100 [] price < 5000000 -> 500 [] OTHER -> 1000

ValidKrxTick(price) == price % (10 * KrxTick(price)) = 0

UpTo(n, unit) == ((n + unit - 1) \div unit) * unit
DownTo(n, unit) == (n \div unit) * unit
NotBelow(n, floor) == IF n < floor THEN floor ELSE n

\* In won, from a price in tenths: a buyer pays up to the next tick, a seller goes down.
RoundKrx(price, side) ==
  LET unit == 10 * KrxTick(price)
  IN NotBelow(IF side = "buy" THEN UpTo(price, unit) ELSE DownTo(price, unit), 0) \div 10

UsExchanges == {"NASD", "NASDAQ", "NAS", "NYSE", "NYS", "AMEX", "AMS", "US"}
OverseasTick(price, exchange) == IF exchange \in UsExchanges /\ price >= 10000 THEN 100 ELSE 1

RoundOverseas(price, side, exchange) ==
  IF price <= 0 THEN price
  ELSE LET unit == OverseasTick(price, exchange)
       IN NotBelow(IF side = "buy" THEN UpTo(price, unit) ELSE DownTo(price, unit), unit)

--------------------------------------------------------------------------------
(* A ticket as the arguments of an operation. "meta" is what its metadata says,    *)
(* "lot", "step" and "defaultScope" the properties of its symbol.                  *)

IsOverseas(ticket) == ticket.market \notin {"KR", "KRX", "KOSPI", "KOSDAQ", "KONEX"}

OrderSession(ticket) == IF ticket.meta.session # Blank THEN ticket.meta.session ELSE ticket.meta.phase

SessionDivision(session) ==
  CASE session = "pre_open_after_hours" -> "05" [] session = "after_hours_close" -> "06"
    [] session = "after_hours_single_price" -> "07" [] OTHER -> "00"

StyleDivision(type, force) ==
  CASE type = "limit" -> (CASE force = "day" -> "00" [] force = "ioc" -> "11" [] OTHER -> "12")
    [] OTHER -> (CASE force = "day" -> "01" [] force = "ioc" -> "13" [] OTHER -> "14")

DomesticDivision(ticket) ==
  LET session == SessionDivision(OrderSession(ticket))
  IN IF ticket.meta.division # Blank THEN ticket.meta.division
     ELSE IF session # "00" THEN session ELSE StyleDivision(ticket.type, ticket.force)

OverseasDivision(ticket, fallback) ==
  IF ticket.meta.division # Blank THEN ticket.meta.division
  ELSE IF ticket.force = "day" THEN StyleDivision(ticket.type, "day") ELSE fallback

ScopeNamed(text) ==
  CASE text \in {"AUTO", "BEST", "BEST_EXECUTION", "SMART", "BROKER_DEFAULT"} -> "SOR"
    [] text = "PRIMARY" -> "KRX"
    [] OTHER -> text

\* What the metadata says, or the symbol's own, or the gateway's.
DomesticScope(ticket, fallback) ==
  ScopeNamed(IF ticket.meta.scope # Blank THEN ticket.meta.scope
             ELSE IF ticket.defaultScope # Blank THEN ticket.defaultScope ELSE fallback)

KrxOnlyAsset(properties) == properties.type \in {"etf", "etn", "elw"} \/ properties.flagged
DefaultScope(properties) ==
  IF properties.scope # "domestic" THEN Blank ELSE IF KrxOnlyAsset(properties) THEN "KRX" ELSE "SOR"

AskedPrice(ticket) == IF ticket.limit # Blank THEN ticket.limit ELSE ticket.reference
DomesticOrderPrice(ticket) == IF ticket.type = "market" THEN 0 ELSE RoundKrx(AskedPrice(ticket), ticket.side)
OverseasOrderPrice(ticket, exchange) ==
  IF ticket.type = "market" THEN 0 ELSE RoundOverseas(AskedPrice(ticket), ticket.side, exchange)

OrderExchanges == {"NASD", "NYSE", "AMEX", "SEHK", "SHAA", "SZAA", "TKSE", "HASE", "VNSE"}
OrderExchangeNamed(text) ==
  CASE text \in {"NAS", "NASDAQ"} -> "NASD" [] text = "NYS" -> "NYSE" [] text = "AMS" -> "AMEX"
    [] text = "HKS" -> "SEHK" [] text = "SHS" -> "SHAA" [] text = "SZS" -> "SZAA" [] OTHER -> text

CommonEtfExchange ==
  [t \in {"QQQ", "SMH", "TLT", "IEF", "SPY", "IWM", "DIA", "XLK", "XLF", "XLV", "XLE", "XLI", "XLP", "XLU", "USMV", "GLD"} |->
     IF t \in {"QQQ", "SMH", "TLT", "IEF"} THEN "NASD" ELSE "AMEX"]

\* Blank when nothing tells it.
OrderExchange(ticket) ==
  LET told == IF ticket.meta.exchange # Blank THEN ticket.meta.exchange ELSE ticket.ownExchange
  IN IF told # Blank THEN (IF OrderExchangeNamed(told) \in OrderExchanges THEN OrderExchangeNamed(told) ELSE Blank)
     ELSE IF ticket.symbol \in DOMAIN CommonEtfExchange THEN CommonEtfExchange[ticket.symbol]
     ELSE CASE ticket.market \in {"NAS", "NASDAQ", "NASD"} -> "NASD"
            [] ticket.market \in {"NYS", "NYSE"} -> "NYSE"
            [] ticket.market \in {"AMS", "AMEX", "US"} -> "AMEX"
            [] OTHER -> Blank

LotsWhole(ticket) ==
  /\ ticket.lot > 0 => ticket.remaining >= ticket.lot
  /\ ticket.step > 0 => ticket.remaining % ticket.step = 0

DomesticArguments(ticket, division, scope) ==
  IF /\ ticket.remaining > 0 /\ ticket.market \in {"KR", "KRX"}
     /\ scope \in {"KRX", "NXT", "SOR"} /\ LotsWhole(ticket)
  THEN Done([operation |-> "place_domestic", side |-> ticket.side, symbol |-> ticket.symbol,
             quantity |-> ticket.remaining, price |-> DomesticOrderPrice(ticket),
             division |-> division, scope |-> scope])
  ELSE Failed

OverseasArguments(ticket, division, exchange) ==
  IF /\ ticket.remaining > 0 /\ LotsWhole(ticket) /\ exchange # Blank
     /\ ticket.type = "market" \/ AskedPrice(ticket) > 0
  THEN Done([operation |-> "place_overseas", side |-> ticket.side, symbol |-> ticket.symbol,
             quantity |-> ticket.remaining, price |-> OverseasOrderPrice(ticket, exchange),
             division |-> division, exchange |-> exchange])
  ELSE Failed

SubmitArguments(ticket) ==
  IF IsOverseas(ticket) THEN OverseasArguments(ticket, OverseasDivision(ticket, "00"), OrderExchange(ticket))
  ELSE DomesticArguments(ticket, DomesticDivision(ticket), DomesticScope(ticket, "SOR"))

\* An order's number at the broker, with the branch that took it if it said one; a ticket
\* keeps both in one text.
BrokerOrderId(branch, number) == IF branch # Blank /\ number # Blank THEN <<branch, number>> ELSE <<number>>
SplitOrderId(id) == IF Len(id) = 2 THEN [branch |-> id[1], number |-> id[2]] ELSE [branch |-> Blank, number |-> id[1]]

DomesticCancelArguments(ticket, id, scope) ==
  IF id.branch = Blank \/ scope \notin {"KRX", "NXT", "SOR"} THEN Failed
  ELSE Done([operation |-> "cancel_domestic", branch |-> id.branch, number |-> id.number,
             division |-> DomesticDivision(ticket), quantity |-> ticket.remaining,
             price |-> DomesticOrderPrice(ticket), scope |-> scope])

OverseasCancelArguments(ticket, id, exchange) ==
  IF exchange = Blank THEN Failed
  ELSE Done([operation |-> "cancel_overseas", exchange |-> exchange, symbol |-> ticket.symbol,
             number |-> id.number, quantity |-> NotBelow(ticket.remaining, 1),
             price |-> OverseasOrderPrice(ticket, exchange), division |-> OverseasDivision(ticket, "00")])

CancelArguments(ticket, brokerId) ==
  IF brokerId = <<>> THEN Failed
  ELSE IF IsOverseas(ticket) THEN OverseasCancelArguments(ticket, SplitOrderId(brokerId), OrderExchange(ticket))
  ELSE DomesticCancelArguments(ticket, SplitOrderId(brokerId), DomesticScope(ticket, "SOR"))

\* What a snapshot of a queued command tells of a submitted ticket.
CommandEvents(ticket, status) ==
  IF ticket.status # "submitted" \/ status \in {Blank, "queued", "running"} THEN {}
  ELSE CASE status = "failed" -> {"rejected"} [] status = "completed" -> {"accepted"} [] OTHER -> {}

--------------------------------------------------------------------------------
(* The arguments as the body of a request; the client refuses what the broker     *)
(* would misread.                                                                 *)

MarketDivisions == {"01", "13", "14"}
LimitDivisions == {"00", "05", "06", "07", "11", "12"}

\* Blank when refused.
BodyPrice(price, division, zeroAllowed) ==
  IF price < 0 \/ (price = 0 /\ division \in LimitDivisions /\ ~zeroAllowed) THEN Blank
  ELSE IF division \in MarketDivisions THEN 0 ELSE price

OrderTr(side, exchange) ==
  CASE exchange \in {"NASD", "NYSE", "AMEX"} -> (IF side = "buy" THEN "TTTT1002U" ELSE "TTTT1006U")
    [] exchange = "SEHK" -> (IF side = "buy" THEN "TTTS1002U" ELSE "TTTS1001U")
    [] exchange = "SHAA" -> (IF side = "buy" THEN "TTTS0202U" ELSE "TTTS1005U")
    [] exchange = "SZAA" -> (IF side = "buy" THEN "TTTS0305U" ELSE "TTTS0304U")
    [] exchange = "TKSE" -> (IF side = "buy" THEN "TTTS0308U" ELSE "TTTS0307U")
    [] OTHER -> (IF side = "buy" THEN "TTTS0311U" ELSE "TTTS0310U")
CancelTr(exchange) ==
  CASE exchange \in {"NASD", "NYSE", "AMEX"} -> "TTTT1004U" [] exchange = "SEHK" -> "TTTS1003U"
    [] exchange = "SHAA" -> "TTTS0302U" [] exchange = "SZAA" -> "TTTS0306U"
    [] exchange = "TKSE" -> "TTTS0309U" [] OTHER -> "TTTS0312U"
DomesticTr(side) == IF side = "buy" THEN "TTTC0012U" ELSE "TTTC0011U"

DomesticBody(args) ==
  LET price == BodyPrice(args.price, args.division, FALSE)
  IN IF args.quantity <= 0 \/ price = Blank THEN Failed
     ELSE Done([args EXCEPT !.price = price] @@ [tr |-> DomesticTr(args.side)])

OverseasBody(args) ==
  LET price == BodyPrice(args.price, args.division, FALSE)
  IN IF args.quantity <= 0 \/ price = Blank \/ args.exchange \notin OrderExchanges THEN Failed
     ELSE Done([args EXCEPT !.price = price] @@ [tr |-> OrderTr(args.side, args.exchange)])

DomesticCancelBody(args) ==
  IF args.quantity < 0 \/ args.price < 0 \/ args.number = Blank THEN Failed
  ELSE Done(args @@ [all |-> TRUE, tr |-> "TTTC0013U"])

OverseasCancelBody(args) ==
  LET price == BodyPrice(args.price, args.division, TRUE)
  IN IF args.quantity <= 0 \/ price = Blank \/ args.number = Blank THEN Failed
     ELSE Done([args EXCEPT !.price = price] @@ [tr |-> CancelTr(args.exchange)])

OrderBody(args) ==
  CASE args.operation = "place_domestic" -> DomesticBody(args)
    [] args.operation = "place_overseas" -> OverseasBody(args)
    [] args.operation = "cancel_domestic" -> DomesticCancelBody(args)
    [] OTHER -> OverseasCancelBody(args)

--------------------------------------------------------------------------------
(* Numbers of an answer.                                                          *)

IsNumber(v) == v \notin {Missing, Unreadable}
Number(v) == IF v = Blank THEN 0 ELSE v
Towards0(n, unit) == IF n < 0 THEN -((-n) \div unit) ELSE n \div unit
Whole(v) == Towards0(Number(v), 10)
Optional(v, default) == IF v \in {Blank, Missing, Unreadable} THEN default ELSE v
FirstTold(row, names) ==
  LET told == {i \in DOMAIN names : row[names[i]] \notin {Blank, Missing}}
  IN IF told = {} THEN Missing ELSE row[names[Min(told)]]
FirstThere(row, name, other, default) ==
  IF row[name] # Missing THEN row[name] ELSE IF row[other] # Missing THEN row[other] ELSE default
Readable(row, names) == \A f \in names : IsNumber(row[f])

--------------------------------------------------------------------------------
(* Prices.                                                                        *)

\* Before the first trade of a day the broker answers yesterday's close as today's price.
LooksLikeReference(output, last, open, high, low) ==
  /\ last > 0 /\ last = Towards0(Optional(output.standard, 0), 10)
  /\ open <= 0 /\ high <= 0 /\ low <= 0
  /\ Towards0(Optional(output.change, 0), 10) = 0 /\ Optional(output.rate, 0) = 0

\* "book" has the ten levels as sequences of asks and bids.
DomesticOrderbook(book) ==
  IF \E i \in DOMAIN book.levels : ~Readable(book.levels[i], {"ask", "askSize", "bid", "bidSize"}) THEN Failed
  ELSE LET best == [ask |-> Whole(book.levels[1].ask), bid |-> Whole(book.levels[1].bid)]
           last == Towards0(Optional(book.last, 0), 10)
           sides == SelectSeq(<<best.ask, best.bid>>, LAMBDA price : price > 0)
       IN Done([best |-> best, last |-> last,
                reference |-> IF last > 0 THEN last
                              ELSE IF sides = <<>> THEN 0 ELSE (sides[1] + Last(sides)) \div 2,
                source |-> IF last > 0 THEN "orderbook_last_price" ELSE "orderbook_best_bid_ask_mid"])

PriceOf(last, open, high, low, volume, usable, source, output) ==
  [last |-> last, open |-> open, high |-> high, low |-> low, volume |-> volume,
   usable |-> usable, source |-> source, raw |-> output]

\* A reference price is replaced by what the orderbook says, or marked as not usable.
DomesticPrice(output, book) ==
  IF ~Readable(output, {"last", "open", "high", "low", "volume", "change", "rate"}) THEN Failed
  ELSE LET last == Whole(output.last)
           open == Whole(output.open)
           high == Whole(output.high)
           low == Whole(output.low)
           reference == LooksLikeReference(output, last, open, high, low)
           quoted == IF book.ok THEN book.value.reference ELSE 0
           replaced == reference /\ quoted > 0 /\ quoted # last
       IN Done(IF replaced
               THEN PriceOf(quoted, IF open <= 0 THEN quoted ELSE open, NotBelow(high, quoted),
                            IF low <= 0 THEN quoted ELSE IF low < quoted THEN low ELSE quoted,
                            Whole(output.volume), "yes", book.value.source, output)
               ELSE PriceOf(last, open, high, low, Whole(output.volume),
                            IF reference THEN "no" ELSE "yes", "inquire-price", output))

OverseasPrice(output) ==
  IF ~Readable(output, {"last", "change", "rate", "volume"}) THEN Failed
  ELSE LET last == Number(output.last)
       IN Done(PriceOf(last, Optional(output.open, last), Optional(output.high, last),
                       Optional(output.low, last), Whole(output.volume), "unsaid", Blank, Blank))

\* A price as a live bar, and how far it can be trusted. The caller may insist on a price
\* of this session and still take a reference price, marked.
QuoteBar(price, domestic, live, referenceToo) ==
  LET zeroed == /\ price.raw # Blank
                /\ LooksLikeReference(price.raw, price.last, price.open, price.high, price.low)
      opened == IF price.open > 0 THEN price.open ELSE price.last
      marked == live /\ domestic /\ zeroed
  IN IF live /\ domestic /\ ~referenceToo /\ (price.usable = "no" \/ zeroed) THEN Failed
     ELSE Done([close |-> price.last, open |-> opened,
                high |-> IF price.high > 0 THEN price.high ELSE NotBelow(opened, price.last),
                low |-> IF price.low > 0 THEN price.low
                        ELSE IF opened < price.last THEN opened ELSE price.last,
                volume |-> price.volume, usable |-> IF marked THEN "no" ELSE price.usable])

--------------------------------------------------------------------------------
(* Candles. Dates and times are numbers; Blank comes before every date.           *)

OnOrAfter(date, from) == from = Blank \/ (date # Blank /\ date >= from)
OnOrBefore(date, to) == to = Blank \/ date = Blank \/ date <= to
FilterByDate(rows, from, to) ==
  SelectSeq(rows, LAMBDA row : OnOrAfter(row.date, from) /\ OnOrBefore(row.date, to))

CandleFields == {"open", "high", "low", "close", "volume"}
Candle(row, domestic) ==
  [row EXCEPT !.open = IF domestic THEN 10 * Whole(@) ELSE Number(@),
              !.high = IF domestic THEN 10 * Whole(@) ELSE Number(@),
              !.low = IF domestic THEN 10 * Whole(@) ELSE Number(@),
              !.close = IF domestic THEN 10 * Whole(@) ELSE Number(@), !.volume = Whole(@)]
Candles(rows, domestic) == [i \in DOMAIN rows |-> Candle(rows[i], domestic)]
AllReadable(rows) == \A i \in DOMAIN rows : Readable(rows[i], CandleFields)

DomesticDaily(rows, period, from, to) ==
  IF period \notin {"D", "W", "M"} \/ ~AllReadable(rows) THEN Failed
  ELSE Done(FilterByDate(Candles(rows, TRUE), from, to))
OverseasDaily(rows, period, from, to) ==
  IF period \notin {"D", "W", "M", "Y"} \/ ~AllReadable(rows) THEN Failed
  ELSE Done(FilterByDate(Candles(rows, FALSE), from, to))

InOrder(r1, r2) == r1.date < r2.date \/ (r1.date = r2.date /\ r1.time < r2.time)
Stamped(rows) == SelectSeq(rows, LAMBDA row : row.date # Blank /\ row.time # Blank)
InWindow(rows, first, last) == SelectSeq(rows, LAMBDA row : first <= row.time /\ row.time <= last)

DomesticIntraday(rows, first, last) ==
  LET kept == InWindow(Stamped(rows), first, last)
  IN IF AllReadable(kept) THEN Done(SortSeq(Candles(kept, TRUE), InOrder)) ELSE Failed
OverseasIntraday(rows) ==
  LET kept == Stamped(rows)
  IN IF AllReadable(kept) THEN Done(SortSeq(Candles(kept, FALSE), InOrder)) ELSE Failed

\* What a cached day of minutes answers.
MinutesOf(candles, day, first, last) ==
  SelectSeq(candles, LAMBDA row : row.date = day /\ first <= row.time /\ row.time <= last)

\* Prices that were adjusted on one side of a day only: no trade, and a jump by three.
Discontinuity(previous, bar) ==
  /\ bar.volume <= 0 /\ previous.close > 0 /\ bar.close > 0
  /\ bar.close >= 3 * previous.close \/ 3 * bar.close <= previous.close
Quarantine(bars) ==
  FoldLeft(LAMBDA kept, bar : IF kept # <<>> /\ Discontinuity(Last(kept), bar) THEN kept ELSE Append(kept, bar),
           <<>>, bars)
DailyBars(candles) ==
  IF \E i \in DOMAIN candles : candles[i].date = Blank THEN Failed
  ELSE Done(Quarantine(SortSeq(candles, LAMBDA r1, r2 : r1.date < r2.date)))

--------------------------------------------------------------------------------
(* Titles of news, the account's balance, holdings and executions.                 *)

Stamp(row) == SelectSeq(<<row.date, row.time>>, LAMBDA part : part # Blank)
NamedSymbols(row) == SelectSeq(row.symbols, LAMBDA y : y # Blank)
DomesticTitle(row) == [stamp |-> Stamp(row), symbols |-> NamedSymbols(row)]
OverseasTitle(row) == [stamp |-> Stamp(row), symbols |-> SelectSeq(<<row.symbol>>, LAMBDA y : y # Blank)]
FirstOnes(items, limit) == IF limit = Blank THEN items ELSE SubSeq(items, 1, IF limit < Len(items) THEN limit ELSE Len(items))
DomesticTitles(rows, limit) == FirstOnes([i \in DOMAIN rows |-> DomesticTitle(rows[i])], limit)
OverseasTitles(rows, limit) == FirstOnes([i \in DOMAIN rows |-> OverseasTitle(rows[i])], limit)

DomesticBalance(summary, holdings) ==
  IF ~Readable(summary, {"settled", "deposit", "next", "total"}) THEN Failed
  ELSE Done([cash |-> Whole(summary.settled), deposit |-> Whole(summary.deposit),
             total |-> Whole(summary.total), count |-> Len(holdings)])

BuyingPower(output) ==
  IF ~Readable(output, {"orderable", "rate"}) THEN Failed
  ELSE Done([currency |-> IF output.currency = Blank THEN "USD" ELSE output.currency,
             orderable |-> Number(output.orderable)])

\* Abroad the cash is what the broker would let us spend, not what lies there.
OverseasBalance(summary, power) ==
  IF ~power.ok \/ ~IsNumber(FirstThere(summary, "withdrawable", "next", 0)) THEN Failed
  ELSE Done([cash |-> power.value.orderable, currency |-> power.value.currency,
             present |-> Number(FirstThere(summary, "withdrawable", "next", 0))])

DomesticHoldings(rows) ==
  IF \E i \in DOMAIN rows : rows[i].symbol # Blank /\ ~Readable(rows[i], {"held", "orderable", "average"}) THEN Failed
  ELSE LET named == SelectSeq(rows, LAMBDA row : row.symbol # Blank)
       IN Done([i \in DOMAIN named |->
                 [symbol |-> named[i].symbol, quantity |-> Whole(named[i].held),
                  orderable |-> Whole(named[i].orderable), average |-> Whole(named[i].average)]])

\* What is held now: what the broker counted with today's executions, else what may be sold,
\* else what is settled.
OverseasHolding(row) ==
  LET settled == Number(FirstThere(row, "settled", "otherSettled", 0))
      orderable == Number(FirstThere(row, "orderable", "otherOrderable", settled))
      source == IF row.counted \notin {Blank, Missing} THEN "counted"
                ELSE IF FirstThere(row, "orderable", "otherOrderable", Missing) \notin {Blank, Missing} THEN "orderable"
                ELSE "settled"
  IN [symbol |-> FirstTold(row, <<"symbol", "otherSymbol">>), source |-> source,
      quantity |-> CASE source = "counted" -> Whole(row.counted)
                     [] source = "orderable" -> Towards0(orderable, 10) [] OTHER -> Towards0(settled, 10)]

MarketOfExchange(exchange) == IF exchange \in UsExchanges \ {"US"} THEN "US" ELSE exchange

SideFilter(side) == CASE side = "all" -> "00" [] side = "buy" -> "02" [] OTHER -> "01"
HistorySide(row) ==
  CASE row.code = "02" -> "buy" [] row.code = "01" -> "sell" [] OTHER -> row.name

--------------------------------------------------------------------------------
(* The market of a symbol and the exchange of an overseas request.                 *)

KisMarket(market) == IF market \in {"KR", "KRX", "KOR", "DOMESTIC"} THEN "domestic" ELSE "overseas"
QuoteExchanges == {"NAS", "NYS", "AMS", "HKS", "TSE", "SHS", "SZS"}
QuoteExchangeNamed(text) ==
  CASE text = "NYSE" -> "NYS" [] text = "NASDAQ" -> "NAS" [] text = "AMEX" -> "AMS" [] OTHER -> text

\* A latest price needs an exchange, a history asks the broker's own refusal.
ExchangeOf(symbol, table, needed) ==
  IF KisMarket(symbol.market) = "domestic" THEN Done(Blank)
  ELSE IF symbol.market \in {"NAS", "NYS", "AMS"} THEN Done(symbol.market)
  ELSE IF symbol.key \in DOMAIN table THEN Done(table[symbol.key])
  ELSE IF needed THEN Failed
  ELSE Done(IF symbol.market \in {"US", "USA", "OVERSEAS", "MIXED"} THEN Blank ELSE symbol.market)

ClientExchange(exchange, market) ==
  IF exchange # Blank
  THEN (IF QuoteExchangeNamed(exchange) \in QuoteExchanges THEN Done(QuoteExchangeNamed(exchange)) ELSE Failed)
  ELSE IF market \in QuoteExchanges THEN Done(market) ELSE Failed
===============================================================================
