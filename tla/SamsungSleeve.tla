----------------------------- MODULE SamsungSleeve -----------------------------
(* The models written for the semiconduct-kor sleeve. A "steward" sleeve holds one *)
(* share between defence and recovery and may be stopped out; a "buyonly" sleeve   *)
(* lets three alphas add to it and never sells. What a model knows of the days     *)
(* before is in the durable model state and in the insights that are still active. *)
(* Shares of the account and the features of a day are in permille.                *)
EXTENDS Integers, Sequences, FiniteSets

CONSTANTS
  Days,            \* per mode, the features a day may have
  Minutes,         \* per mode, features of the minutes before a cycle
  Strikes,         \* per mode, what is known of the strike: [status, confidence]
  Quotes,          \* prices a cycle may see
  Capital,         \* cash at the start
  CyclesADay, LastCycle,
  Never

VARIABLES
  ssMode,      \* "steward" or "buyonly"
  ssTime,      \* cycles so far
  ssDaily,     \* the features of the day
  ssRecords,   \* durable: what the models have marked
  ssNews,      \* the active insight of each alpha, or Never
  ssTarget,    \* the target of the last cycle, or Never
  ssShares, ssCash, ssQuote,
  ssStory      \* what happened, for the properties

samsungVars == <<ssMode, ssTime, ssDaily, ssRecords, ssNews, ssTarget, ssShares, ssCash, ssQuote,
                 ssStory>>

Alphas == {"steward", "trailing_stop", "strike", "low_frequency", "minute_dip"}
DayOf(t) == t \div CyclesADay
Least(m, n) == IF m < n THEN m ELSE n
Most(m, n) == IF m > n THEN m ELSE n
Between(n, low, high) == Most(low, Least(high, n))

\* A decision table: the first row whose condition holds.
FirstRow(rows) ==
  LET on == {n \in DOMAIN rows : rows[n].on} IN
  IF on = {} THEN Never ELSE rows[CHOOSE n \in on : \A m \in on : n <= m].give

--------------------------------------------------------------------------------
(* Features of a day, which every alpha derives again.                           *)
Ratio(x, y) == (1000 * x) \div y
FromHigh(f) == Most(1000 - Ratio(f.close, f.high), 0)
Fallen(f) == Most(FromHigh(f), Most(-f.drawdown, 0))
FromLow(f) == Most(Ratio(f.close, f.low) - 1000, 0)
Volatility(f) == Most(f.atr, f.stddev)
Close(f, average) == Ratio(f.close, average)

Regime(f) ==
  CASE \/ Close(f, f.sma120) < 960 /\ f.m20 <= -30
       \/ Fallen(f) >= 180 \/ Volatility(f) >= 80 -> "risk_off"
    [] OTHER ->
       IF (Close(f, f.sma60) < 985 /\ f.m20 < 0) \/ f.m20 <= -50 \/ f.m60 <= -80 THEN "weak"
       ELSE IF f.close >= f.sma60 /\ Close(f, f.sma120) >= 985 /\ f.m20 >= -10 THEN "risk_on"
       ELSE "neutral"

Signal(action, target, delta, cap) ==
  [action |-> action, target |-> target, delta |-> delta, cap |-> cap]
Plain(action, target) == Signal(action, target, 0, target)
Row(on, give) == [on |-> on, give |-> give]

--------------------------------------------------------------------------------
(* samsung_steward.                                                              *)
Accumulating(action) ==
  action \in {"accumulate_deep_dip", "accumulate_standard_dip", "accumulate_mild_dip",
              "accumulate_rebuild", "accumulate_reclaim", "accumulate_probe"}

Cooling(accumulated) == accumulated # Never /\ DayOf(ssTime) - accumulated < 3

HardRisk(f) ==
  \/ Close(f, f.sma120) < 940 /\ f.m20 <= -70
  \/ Fallen(f) >= 220
  \/ Volatility(f) >= 90 /\ f.m20 < 0

Capitulation(f) ==
  /\ Regime(f) = "risk_off"
  /\ Close(f, f.sma120) >= 900 /\ f.m20 > -95 /\ Fallen(f) < 220 /\ Volatility(f) < 100
  /\ \/ Close(f, f.sma120) < 985 \/ f.drawdown <= -100 \/ f.z <= -120 \/ FromLow(f) <= 35
     \/ Fallen(f) >= 120 \/ (Volatility(f) >= 80 /\ f.m20 > 20)

HeavyDefense(f) ==
  Regime(f) = "risk_off" \/ f.drawdown <= -160 \/ Close(f, f.sma120) < 965
ReserveDefense(f) ==
  \/ Regime(f) = "weak" \/ f.m20 <= -50
  \/ Close(f, f.sma60) < 985 /\ f.m20 < 0
  \/ Fallen(f) >= 130 /\ f.m5 < 0
LightDefense(f) == f.close < f.sma20 /\ (f.fast < f.sma20 \/ f.m5 < 0)

Dip(f) ==
  IF Regime(f) \notin {"risk_on", "neutral"} \/ ~(f.ret > 0 \/ f.clv >= 250) THEN Never
  ELSE FirstRow(<<
    Row((f.z <= -225 \/ f.drawdown <= -120) /\ f.m20 > -40, Signal("accumulate_deep_dip", 950, 200, 950)),
    Row(f.z <= -160 \/ FromLow(f) <= 25, Signal("accumulate_standard_dip", 900, 150, 900)),
    Row(f.z <= -100 /\ f.m20 > -25, Signal("accumulate_mild_dip", 850, 100, 850))>>)

Healed(f) ==
  /\ f.close >= f.sma60 /\ f.close >= f.sma120 /\ f.m20 >= 40 /\ f.m60 >= 20
  /\ Fallen(f) <= 60 /\ Volatility(f) <= 45
Stressed(f) ==
  \/ Fallen(f) >= 60 \/ Volatility(f) >= 45 \/ f.close < f.sma60
  \/ f.m20 < 35 \/ f.drawdown <= -55 \/ f.z < 25
Stabilized(f) ==
  /\ f.ret > 0 \/ f.clv >= 350
  /\ Close(f, f.sma120) >= 930 /\ f.m20 > -55 /\ f.drawdown > -170 /\ FromLow(f) >= 18

Reentry(f) ==
  IF \/ Regime(f) \notin {"neutral", "risk_on"} \/ Healed(f) \/ ~Stressed(f) \/ ~Stabilized(f)
     \/ (Close(f, f.fast) < 985 /\ f.m5 < 0)
  THEN Never
  ELSE FirstRow(<<
    Row(Close(f, f.sma60) >= 995 /\ f.m20 > 15 /\ Volatility(f) <= 55,
        Signal("accumulate_rebuild", 650, 200, 650)),
    Row(f.close >= f.sma20 /\ Ratio(f.fast, f.sma20) >= 990 /\ f.m5 > 0,
        Signal("accumulate_reclaim", 450, 200, 450)),
    Row(Close(f, f.sma20) >= 985 \/ f.m5 > 0 \/ f.clv >= 500,
        Signal("accumulate_probe", 250, 250, 250))>>)

\* While it cools down it keeps the target of the signal before, which is the cap of the
\* accumulation and no longer a step towards it.
StewardSignal(f) ==
  LET before == ssRecords.steward
      cooling == Cooling(before.accumulated)
      reclaims == f.close >= f.sma20 /\ f.fast >= f.sma20 /\ f.m5 > 0 /\ f.m20 > -15
  IN FirstRow(<<
    Row(HardRisk(f), Plain("risk_off_exit", 0)),
    Row(~cooling /\ Capitulation(f), Signal("capitulation", 350, 50, 450)),
    Row(HeavyDefense(f), Plain("heavy_defense_trim", 350)),
    Row(ReserveDefense(f), Plain("cash_reserve_trim", 650)),
    Row(~cooling /\ Dip(f) # Never, Dip(f)),
    Row(LightDefense(f), Plain("light_defense_trim", 850)),
    Row(cooling /\ Accumulating(before.action), Plain("cooldown_hold", before.target)),
    Row(~cooling /\ Reentry(f) # Never, Reentry(f)),
    Row(before.target # Never /\ before.target < 900 /\ reclaims,
        Signal("rebuild_after_defense", 900, 150, 900)),
    Row(TRUE, Plain("core_hold", 1000))>>)

\* Mutant: the mark is written as a whole.
StewardMarkWhole(signal) ==
  [action |-> signal.action, target |-> signal.target,
   accumulated |-> IF Accumulating(signal.action) THEN DayOf(ssTime) ELSE Never]
\* state_patches: merged into the mark before, so the accumulation stays known.
StewardMark(signal) ==
  [action |-> signal.action, target |-> signal.target,
   accumulated |-> IF Accumulating(signal.action) THEN DayOf(ssTime)
                   ELSE ssRecords.steward.accumulated]

--------------------------------------------------------------------------------
(* volatility_trailing_stop: from the highest price ever marked.                 *)
Watermark(f) == Most(ssRecords.watermark, Most(f.close, f.high))
StopDistance(f) == Most((f.close * 90) \div 1000,
                        Most((f.close * f.atr * 26) \div 10000, (f.close * f.stddev * 21) \div 10000))
Stopped(f) == f.close <= Most(0, Watermark(f) - StopDistance(f))

--------------------------------------------------------------------------------
(* samsung_strike_risk_reentry.                                                  *)
FallingKnife(f) ==
  LET unturned == f.ret <= 0 /\ f.clv < 350 IN
  \/ FromLow(f) <= 10 /\ unturned
  \/ Close(f, f.sma20) < 940 /\ f.m5 < 0 /\ f.m20 < 0
  \/ f.drawdown <= -180 /\ unturned
  \/ Volatility(f) >= 90 /\ unturned

BottomConfirmed(f) ==
  \/ FromLow(f) >= 20 /\ ((f.ret > 0 /\ f.clv >= 350) \/ (f.m5 > 0 /\ f.m20 > -60))
  \/ Close(f, f.sma20) >= 985 /\ Ratio(f.fast, f.sma20) >= 985

StrikeReentry(f, status) ==
  IF ~BottomConfirmed(f) THEN Never
  ELSE LET confirmed == status = "off_confirmed" IN FirstRow(<<
    Row(/\ confirmed /\ f.close >= f.sma60 /\ f.close >= f.sma120 /\ f.m20 >= 40 /\ f.m60 >= 20
        /\ Fallen(f) <= 80 /\ Volatility(f) <= 45, Signal("strike_core", 850, 150, 850)),
    Row(confirmed /\ Close(f, f.sma60) >= 995 /\ f.m20 > 15 /\ Volatility(f) <= 60,
        Signal("strike_rebuild", 650, 200, 650)),
    Row(confirmed /\ f.close >= f.sma20 /\ Ratio(f.fast, f.sma20) >= 990 /\ f.m5 > 0,
        Signal("strike_reclaim", 450, 200, 450)),
    Row(~confirmed \/ f.clv >= 450 \/ f.m5 > 0, Signal("strike_probe", 250, 250, 250))>>)

\* A candidate nobody is sure of does not keep the target, and may be bought again.
StrikeSignal(f, strike) ==
  LET before == ssRecords.strike
      keeps == /\ Cooling(before.accumulated) /\ before.target # Never /\ before.target > 0
               /\ strike.status = "off_confirmed" \/ strike.confidence >= 650
  IN IF strike.status \notin {"off_candidate", "off_confirmed"} \/ FallingKnife(f) THEN Never
     ELSE IF keeps THEN Plain("strike_hold", Least(before.target, 850))
     ELSE StrikeReentry(f, strike.status)

StrikeMark(signal) ==
  [target |-> signal.target,
   accumulated |-> IF signal.action # "strike_hold" THEN DayOf(ssTime)
                   ELSE ssRecords.strike.accumulated]

--------------------------------------------------------------------------------
(* samsung_low_frequency_reentry, once a day.                                    *)
Overheated(f) ==
  LET fallen == FromHigh(f) IN
  \/ fallen < 50 /\ f.m20 > 80
  \/ f.m20 >= 280 /\ fallen < 140
  \/ f.m20 >= 180 /\ fallen < 100
  \/ Close(f, f.sma60) >= 1180 /\ fallen < 100
  \/ Close(f, f.sma120) >= 1280 /\ fallen < 140

LowFrequencySignal(f) ==
  LET fallen == FromHigh(f)
      knife == Close(f, f.sma120) < 900 \/ f.m20 <= -95 \/ fallen >= 220 \/ Volatility(f) >= 130
      rebound == FromLow(f) >= 15 /\ (f.ret > 0 \/ f.clv >= 350 \/ f.m5 > 0)
      repair == fallen >= 55 \/ f.drawdown <= -55 \/ Volatility(f) >= 40 \/ f.close < f.sma60 \/ f.z <= 35
  IN FirstRow(<<
    Row(knife \/ Overheated(f) \/ ~(rebound \/ repair), Never),
    Row(Close(f, f.sma60) >= 995 /\ f.m20 > 15 /\ Volatility(f) <= 55, Signal("rebuild", 650, 200, 650)),
    Row(f.close >= f.sma20 /\ Ratio(f.fast, f.sma20) >= 990 /\ f.m5 > 0, Signal("reclaim", 450, 200, 450)),
    Row((f.z <= -200 \/ f.drawdown <= -110) /\ f.m20 > -55 /\ rebound, Signal("deep_dip", 450, 200, 450)),
    Row((f.z <= -120 \/ FromLow(f) <= 30 \/ fallen >= 75) /\ rebound, Signal("probe", 250, 250, 250)),
    Row(repair /\ fallen \in 55..160 /\ f.m20 > 50 /\ Close(f, f.sma120) >= 950,
        Signal("trend_probe", 250, 250, 250)),
    Row(fallen >= 55 /\ Close(f, f.sma20) >= 985 /\ f.m20 > -30 /\ (f.clv >= 450 \/ f.m5 > 0),
        Signal("starter", 250, 250, 250)),
    Row(/\ fallen >= 55 /\ f.close >= f.sma60 /\ f.close >= f.sma120 /\ f.m20 >= 40 /\ f.m60 >= 20
        /\ Volatility(f) <= 45, Signal("core", 850, 200, 850))>>)

--------------------------------------------------------------------------------
(* minute_dip_accumulator: `m` are the features of the last half hour.           *)
RequiredDip(f) ==
  LET fallen == FromHigh(f) IN
  CASE f.m20 >= 280 /\ fallen < 80 -> 32
    [] (f.m20 < 280 \/ fallen >= 80) /\ fallen < 60
         /\ (f.m20 >= 180 \/ Close(f, f.sma60) >= 1180) -> 22
    [] OTHER -> 12

MinuteDipSignal(f, m) ==
  LET required == RequiredDip(f)
      stabilized == m.rebound >= 4 /\ (m.ret > 0 \/ m.roc5 > -4 \/ m.clv >= -150)
      reclaimed == m.overSma5 /\ (m.roc5 > 0 \/ m.ret > 0) /\ m.clv >= -50
      overVwap == m.overVwap /\ m.roc5 >= 0 /\ m.clv >= 0
  IN FirstRow(<<
    Row(\/ ~m.fresh \/ m.fallen < required \/ (m.roc15 <= -38 /\ m.rebound < 6)
        \/ (m.fallen >= 65 /\ m.roc5 < 0) \/ ~(stabilized \/ reclaimed \/ overVwap), Never),
    Row(overVwap /\ m.fallen >= required + 6, Signal("minute_reclaim", 250, 100, 250)),
    Row(TRUE, Signal("minute_probe", IF required > 12 THEN 100 ELSE 150, 100, 250))>>)

--------------------------------------------------------------------------------
(* The insights. Each replaces the one of its alpha, and is active until it       *)
(* expires, whatever its alpha says nothing of later.                             *)
Horizon(alpha) ==
  CASE alpha \in {"steward", "low_frequency"} -> 5 * CyclesADay
    [] alpha = "strike" -> 2 * CyclesADay
    [] alpha = "trailing_stop" -> CyclesADay
    [] OTHER -> 1

Said(f, m, strike) ==
  [alpha \in Alphas |->
     CASE alpha = "steward" /\ ssMode = "steward" -> StewardSignal(f)
       [] alpha = "trailing_stop" /\ ssMode = "steward" /\ Stopped(f) -> Plain("stop", 0)
       [] alpha = "strike" /\ ssMode = "buyonly" -> StrikeSignal(f, strike)
       [] alpha = "low_frequency" /\ ssMode = "buyonly" /\ ssTime % CyclesADay = 0 -> LowFrequencySignal(f)
       [] alpha = "minute_dip" /\ ssMode = "buyonly" -> MinuteDipSignal(f, m)
       [] OTHER -> Never]

\* A capitulation carries the prices that trigger and stop it, from the day's close.
NewsAfter(said, f) ==
  [alpha \in Alphas |->
     IF said[alpha] # Never
     THEN [signal |-> said[alpha], at |-> ssTime, expires |-> ssTime + Horizon(alpha), close |-> f.close]
     ELSE IF ssNews[alpha] # Never /\ ssNews[alpha].expires >= ssTime THEN ssNews[alpha] ELSE Never]

TriggerPrice(insight) == (insight.close * 935) \div 1000
StopPrice(insight) == (insight.close * 870) \div 1000

--------------------------------------------------------------------------------
(* The two portfolio models.                                                     *)
Equity(quote) == ssCash + ssShares * quote
Current(quote) == Least(1000, (1000 * ssShares * quote) \div Equity(quote))
CashShare(quote) == (1000 * ssCash) \div Equity(quote)

\* No add without a percent of cash, and none beyond the cash.
CapAddByCash(desired, quote) ==
  IF desired <= Current(quote) THEN desired
  ELSE IF CashShare(quote) < 10 THEN Current(quote)
  ELSE Least(1000, Least(desired, Current(quote) + CashShare(quote)))

\* Mutant: the trigger is not asked for once the price is above the stop.
CapitulationUntriggered(insight, quote) ==
  IF quote < StopPrice(insight) THEN 350 ELSE CapAddByCash(400, quote)
\* Below its trigger, and while it was active before, a capitulation holds a little more
\* than the defence does; below its stop it holds no more.
CapitulationTarget(insight, quote) ==
  LET active == ssRecords.capitulating
      triggered == quote <= TriggerPrice(insight) /\ quote >= StopPrice(insight)
      desired == Least(insight.signal.cap, 350 + insight.signal.delta)
      current == Current(quote)
  IN IF quote < StopPrice(insight) \/ (~active /\ (current > 365 \/ ~triggered)) THEN 350
     ELSE IF current - desired \in -25..25 THEN current
     ELSE CapAddByCash(desired, quote)

\* Mutant: only the steward's own exit overrides.
OverridesOwn(news) == news["steward"] # Never /\ news["steward"].signal.target = 0
\* A stop, or a steward that wants out.
Overrides(news) ==
  \/ news["trailing_stop"] # Never
  \/ news["steward"] # Never /\ news["steward"].signal.target <= 0

StewardTarget(news, quote) ==
  LET insight == news["steward"]
      signal == insight.signal
      steps == Accumulating(signal.action) \/ signal.action = "rebuild_after_defense"
  IN CASE Overrides(news) -> 0
       [] ~Overrides(news) /\ insight = Never -> IF ssShares = 0 THEN Never ELSE Current(quote)
       [] ~Overrides(news) /\ insight # Never ->
            CASE signal.action = "capitulation" -> CapitulationTarget(insight, quote)
              [] signal.action # "capitulation" /\ steps ->
                   CapAddByCash(Least(signal.cap, Current(quote) + signal.delta), quote)
              [] OTHER -> CapAddByCash(signal.target, quote)

\* Of the insights of the buying alphas the newest one counts.
BuyOnlyTarget(news, quote) ==
  LET live == {alpha \in {"strike", "low_frequency", "minute_dip"} : news[alpha] # Never}
      newest == {a \in live : \A b \in live : news[b].at <= news[a].at}
      Desired(a) ==
        LET signal == news[a].signal IN
        IF signal.delta > 0 THEN Least(signal.target, Current(quote) + signal.delta) ELSE signal.target
  IN IF live = {} THEN {IF ssShares = 0 THEN Never ELSE Current(quote)}
     ELSE {CapAddByCash(Most(Current(quote), Desired(a)), quote) : a \in newest}

--------------------------------------------------------------------------------
SamsungInit ==
  /\ ssMode \in {"steward", "buyonly"}
  /\ ssTime = 0
  /\ ssDaily \in Days[ssMode]
  /\ ssRecords = [steward |-> [action |-> "", target |-> Never, accumulated |-> Never],
                  strike |-> [target |-> Never, accumulated |-> Never],
                  watermark |-> 0, capitulating |-> FALSE]
  /\ ssNews = [alpha \in Alphas |-> Never]
  /\ ssTarget = Never
  /\ ssShares = 0 /\ ssCash = Capital /\ ssQuote \in Quotes
  /\ ssStory = [accumulated |-> Never, capitulated |-> FALSE]

RecordsWith(said, news, target, f, quote) ==
  LET steward == news["steward"]
      plans == steward # Never /\ steward.signal.action = "capitulation" /\ target # Never IN
  [steward |-> IF said["steward"] = Never THEN ssRecords.steward ELSE StewardMark(said["steward"]),
   strike |-> IF said["strike"] = Never THEN ssRecords.strike ELSE StrikeMark(said["strike"]),
   watermark |-> IF ssMode = "steward" THEN Watermark(f) ELSE ssRecords.watermark,
   capitulating |-> IF ssMode = "steward" /\ plans
                    THEN quote >= StopPrice(steward) /\ target > 351 ELSE ssRecords.capitulating]

StoryWith(said, news, quote) ==
  [accumulated |-> IF said["steward"] # Never /\ Accumulating(said["steward"].action)
                   THEN DayOf(ssTime) ELSE ssStory.accumulated,
   capitulated |-> ssStory.capitulated
                     \/ (/\ news["steward"] # Never /\ news["steward"].signal.action = "capitulation"
                         /\ quote <= TriggerPrice(news["steward"]))]

\* One cycle of the sleeve: the alphas, their insights, the portfolio, the marks.
SleeveCycle(m, strike, quote) ==
  /\ ssTime < LastCycle
  /\ ssQuote' = quote
  /\ \E said \in {Said(ssDaily, m, strike)} : \E news \in {NewsAfter(said, ssDaily)} :
     \E target \in IF ssMode = "steward" THEN {StewardTarget(news, quote)} ELSE BuyOnlyTarget(news, quote) :
       /\ ssNews' = news
       /\ ssTarget' = target
       /\ ssRecords' = RecordsWith(said, news, target, ssDaily, quote)
       /\ ssStory' = StoryWith(said, news, quote)
  /\ ssTime' = ssTime + 1
  /\ IF (ssTime + 1) % CyclesADay = 0 THEN ssDaily' \in Days[ssMode] ELSE UNCHANGED ssDaily
  /\ UNCHANGED <<ssMode, ssShares, ssCash>>

\* Mutant: sells are let through.
SellsAllowed == TRUE
\* SemiconductKorExecutionModel: the buy-only sleeve drops every sell.
AllowSells == ssMode = "steward"

\* The order of the target is filled at the price of the cycle.
Quantity == ((ssTarget * Equity(ssQuote)) \div 1000) \div ssQuote
SleeveTrade ==
  /\ ssTarget # Never
  /\ Quantity > ssShares \/ (Quantity < ssShares /\ AllowSells)
  /\ ssShares' = Quantity
  /\ ssCash' = ssCash - (Quantity - ssShares) * ssQuote
  /\ UNCHANGED <<ssMode, ssTime, ssDaily, ssRecords, ssNews, ssTarget, ssQuote, ssStory>>

SamsungNext ==
  \/ \E m \in Minutes[ssMode], strike \in Strikes[ssMode], quote \in Quotes : SleeveCycle(m, strike, quote)
  \/ SleeveTrade

--------------------------------------------------------------------------------
SleeveStep == ssTime' # ssTime
Acts(alpha) == ssNews'[alpha] # Never /\ ssNews'[alpha].at = ssTime

\* Accumulations of the steward are at least as far apart as its cooldown.
AccumulationsSpaced ==
  Acts("steward") /\ Accumulating(ssNews'["steward"].signal.action) /\ ssStory.accumulated # Never
    => DayOf(ssTime) - ssStory.accumulated >= 3

\* A stop that fired within the day, and a day of hard risk, leave nothing wanted.
StopsWin ==
  ssMode = "steward" /\ (HardRisk(ssDaily) \/ Stopped(ssDaily)) => ssTarget' = 0

\* In a day of capitulation no more is bought than the defence holds, before the price has
\* once been down at the trigger; and the account never runs into debt for a target.
CapitulationWaits ==
  /\ Acts("steward") /\ ssNews'["steward"].signal.action = "capitulation" /\ ~ssStory'.capitulated
       => ssTarget' <= 350
  /\ ssTarget' # Never /\ ssTarget' > Current(ssQuote')
       => (ssTarget' - Current(ssQuote')) * Equity(ssQuote') <= 1000 * ssCash

SamsungKept ==
  /\ SleeveStep => AccumulationsSpaced /\ StopsWin /\ CapitulationWaits
  /\ ssMode = "buyonly" => ssShares' >= ssShares
================================================================================
