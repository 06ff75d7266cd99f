----------------------------- MODULE MCLiveRuntime -----------------------------
(* Constants for TLC of the parts of a sleeve's live cycle. A behaviour runs one  *)
(* of them: "submit" is the engine guard with the submission of the intents of    *)
(* the pipeline, "feed" what gets the framework its universe, indicators and      *)
(* prices, "banding" the portfolio construction of the LEaps sleeve, "samsung"    *)
(* the models of the semiconduct-kor sleeve, "commands" the commands that share   *)
(* batches, logs, accounts and the journal.                                       *)
EXTENDS MCOrderSubmit, SleeveRuntime, BandedMomentum, SamsungSleeve, AccountCommands

--------------------------------------------------------------------------------
(* "feed": two sleeves that share one of three symbols; one ranks by momentum. *)
CONSTANTS s1, s2, y1, y2, y3

MCSymbolOrder == <<y1, y2, y3>>
MCSleeveOrder == <<s1, s2>>
MCIndicators ==
  {[name |-> "mean", res |-> "daily", period |-> 2, required |-> TRUE],
   [name |-> "quote", res |-> "live", period |-> 1, required |-> FALSE]}
MCTrait ==
  (y1 :> [momentum |-> 2, liquidity |-> 1, volatility |-> 1, above |-> FALSE])
    @@ (y2 :> [momentum |-> 1, liquidity |-> 2, volatility |-> 1, above |-> TRUE])
    @@ (y3 :> [momentum |-> 3, liquidity |-> 3, volatility |-> 9, above |-> TRUE])
MCCoarse == (s1 :> <<y1, y2>>) @@ (s2 :> <<y2, y3>>)
MCModels ==
  (s1 :> <<[kind |-> "momentum", max |-> 1, needs |-> {"mean"}, maxVolatility |-> 5]>>)
    @@ (s2 :> <<[kind |-> "static", max |-> 1]>>)
MCFineOn == [s \in Sleeves |-> s = s1]
MCFirstDay == (y1 :> 1) @@ (y2 :> 2) @@ (y3 :> 3)
MCFills == {{}, {y3}}
MCOutages == {{}, {y2}}

Quote(y, res, usable) == [symbol |-> y, day |-> 0, res |-> res, usable |-> usable]
MCFeeds ==
  {[y \in Instruments |-> IF y = bad[1] THEN Quote(y, bad[2], bad[3]) ELSE Quote(y, "", TRUE)] :
     bad \in {<<y1, "", TRUE>>, <<y1, "", FALSE>>, <<y3, "failed", TRUE>>, <<y2, "minute", TRUE>>}}

--------------------------------------------------------------------------------
(* The judgements of age, and the pending half of the store, which only callers   *)
(* outside the process use.                                                      *)
ASSUME DailyAgesOvernight ==
  \A now \in 2..5, traded \in SUBSET (1..5) :
    LET last == ConfirmedDay(now, FALSE, traded)
    IN /\ ConfirmedDailyStatus(last, now, FALSE, traded) = "fresh"
       /\ now \in traded => ConfirmedDailyStatus(last, now, TRUE, traded) = "stale"

ASSUME MinuteAges ==
  \A now \in 10..30, n \in 0..6, interval \in {1, 5} :
    LET bar == n * interval
        newer == {m \in 0..30 : m > n /\ (m + 1) * interval <= now}
    IN ConfirmedMinuteStatus(bar, now, interval, 1)
         = CASE newer = {} -> "fresh" [] Cardinality(newer) = 1 -> "degraded" [] OTHER -> "stale"

ASSUME PendingBecomesActive ==
  \A lane, other \in Lanes :
    LET first == [lane |-> lane, source |-> 1]
        second == [lane |-> other, source |-> 2]
        waiting == PublishPending(PublishActive(EmptyStore, first), second)
    IN /\ Active(waiting) = first /\ Active(SwapPending(waiting)) = second
       /\ SwapPending(SwapPending(waiting)) = SwapPending(waiting)
       /\ Active(SwapPending(PublishActive(waiting, first)))
            = IF lane = other THEN first ELSE second

\* Of the snapshots a process appended, a reader finds the last that was written whole
\* and not right after a line that was cut off.
Written(writes) ==
  FoldLeft(LAMBDA lines, n : IF writes[n] THEN AppendLine(lines, [id |-> n, lane |-> "quote"])
                             ELSE TearLine(lines), <<>>, [n \in DOMAIN writes |-> n])
ASSUME SnapshotFileReadable ==
  \A writes \in [1..5 -> BOOLEAN] :
    LET found == {n \in 1..5 : writes[n] /\ (n = 1 \/ writes[n - 1])}
    IN /\ LatestLine(Written(writes), "quote")
            = IF found = {} THEN NoSnapshot ELSE [torn |-> FALSE, id |-> Max(found), lane |-> "quote"]
       /\ LatestLine(Written(writes), "minute") = NoSnapshot
       /\ \A limit \in 1..3 : Len(LineEntries(Written(writes), limit, NoSnapshot)) <= limit

ASSUME ResidualDatesCommon ==
  \A days1, days2 \in SUBSET (1..4) :
    LET windows == ResidualWindow((y1 :> days1) @@ (y2 :> days2), {y1, y2}, 3, 2, 2)
    IN \A y, z \in DOMAIN windows : windows[y] = windows[z] /\ 4 \notin windows[y]

--------------------------------------------------------------------------------
(* "banding": two symbols, two alphas, two bandings.                          *)
CONSTANTS n1, n2

MCNameOrder == <<n1, n2>>
MCAlphaWeight == [alpha \in {"conviction", "pullback"} |-> IF alpha = "conviction" THEN 100 ELSE 70]
MCRegimeWeight ==
  [mood \in {"risk_off", "neutral", "risk_on", "strong_risk_on"} |->
     [alpha \in {"conviction", "pullback"} |->
        CASE mood = "risk_off" -> (IF alpha = "conviction" THEN 65 ELSE 45)
          [] mood = "neutral" -> 100
          [] mood = "risk_on" -> 105
          [] OTHER -> (IF alpha = "conviction" THEN 115 ELSE 110)]]

Banding ==
  [regimes |-> TRUE, retention |-> 10, multiAlpha |-> 6, entryTop |-> 1, holdTop |-> 1, trimTop |-> 2,
   maxPositions |-> 2, minHoldingDays |-> 1, gross |-> 90, neutralGross |-> 60, weakGross |-> 30,
   maxPosition |-> 50, minPosition |-> 2, driftThreshold |-> 0, confirmCycles |-> 2,
   exitCooldown |-> 2, trimCooldown |-> 1, reentryCooldown |-> 1, trimMultiplier |-> 50,
   cycleTurnover |-> 40, dailyTurnover |-> 60]
MCBandings ==
  {Banding, [Banding EXCEPT !.entryTop = 2, !.holdTop = 2, !.minHoldingDays = 0, !.driftThreshold = 8, !.minPosition = 5,
                            !.exitCooldown = 1, !.cycleTurnover = 30, !.regimes = FALSE]}

Insight(y, alpha, score, breadth) ==
  [symbol |-> y, alpha |-> alpha, direction |-> "up", action |-> "none", score |-> score,
   breadth |-> breadth, multiplier |-> 0, at |-> 1]
Stop(y) == [Insight(y, "pullback", 0, 0) EXCEPT !.direction = "flat", !.action = "exit"]
Trim(y) == [Insight(y, "pullback", 0, 0) EXCEPT !.direction = "flat", !.action = "partial_trim"]
MCNewsLists ==
  {{Insight(n1, "conviction", 80, 60), Insight(n2, "conviction", 40, 60)},
   {Insight(n2, "conviction", 60, 40), Insight(n2, "pullback", 20, 20)},
   {}, {Stop(n1), Insight(n1, "conviction", 40, 60), Insight(n2, "conviction", 40, 60)},
   {Trim(n2), Insight(n1, "pullback", 90, 50), Insight(n2, "pullback", 10, 50)}}
MCPriceTables == {(n1 :> 10) @@ (n2 :> 15), (n1 :> 35) @@ (n2 :> 0)}

--------------------------------------------------------------------------------
\* What the cap cuts off goes to the others: nobody exceeds it, nobody overtakes a
\* symbol of more weight, and together they get no more than before.
Total(ws) == FoldSeq(LAMBDA w, sum : sum + w, 0, ws)
ASSUME CapRespected ==
  \A ws \in [1..3 -> {0, 7, 20, 33, 60}], cap \in {10, 24, 50} :
    LET capped == CapAndRedistribute(ws, cap)
    IN /\ \A i \in 1..3 : capped[i] <= cap
       /\ \A i, j \in 1..3 : ws[i] <= ws[j] => capped[i] <= capped[j]
       /\ Total(capped) <= Total(ws)
       /\ (\A i \in 1..3 : ws[i] > 0) /\ Total(ws) <= 3 * cap => Total(capped) >= Total(ws) - 12

--------------------------------------------------------------------------------
(* "samsung": a day for every signal that matters.                            *)
Calm ==
  [close |-> 1000, high |-> 1000, low |-> 950, fast |-> 1000, sma20 |-> 1000, sma60 |-> 1000,
   sma120 |-> 1000, m5 |-> 10, m20 |-> 60, m60 |-> 30, drawdown |-> 0, z |-> 100, atr |-> 20,
   stddev |-> 20, ret |-> 1, clv |-> 400]
Rebuilding == [Calm EXCEPT !.m20 = 20]
Dipping == [Calm EXCEPT !.m20 = 10, !.m5 = -5, !.z = -180, !.drawdown = -60, !.low = 985, !.high = 1060]
Capitulating == [Calm EXCEPT !.atr = 85, !.low = 980, !.m20 = 10]
Tripping == [Calm EXCEPT !.close = 900, !.m20 = -20, !.low = 890, !.fast = 950]
MCDays ==
  [mode \in {"steward", "buyonly"} |->
     {Calm, Rebuilding, Dipping} \cup IF mode = "steward" THEN {Capitulating, Tripping} ELSE {}]

Quiet == [fresh |-> FALSE, fallen |-> 0, rebound |-> 0, ret |-> 0, roc5 |-> 0, roc15 |-> 0, clv |-> 0,
          overSma5 |-> FALSE, overVwap |-> FALSE]
MCMinutes ==
  [mode \in {"steward", "buyonly"} |->
     {Quiet} \cup IF mode = "buyonly"
                 THEN {[Quiet EXCEPT !.fresh = TRUE, !.fallen = 30, !.rebound = 8, !.overVwap = TRUE]} ELSE {}]
Struck(status, confidence) == [status |-> status, confidence |-> confidence]
MCStrikes ==
  [mode \in {"steward", "buyonly"} |->
     IF mode = "steward" THEN {Struck("on", 0)}
     ELSE {Struck("off_candidate", 500), Struck("off_confirmed", 900)}]
MCQuotes == {1000, 930}

--------------------------------------------------------------------------------
(* "commands": the live accounts in small, and the smoke configuration.       *)
SleeveOfConfig(routes, account, cash, cashBy, store, home) ==
  [routes |-> routes, account |-> account, cash |-> cash, cashBy |-> cashBy, store |-> store, home |-> home]
OrderOfSleeve(s, scope) == [sleeve |-> s, scope |-> scope]

LiveAccounts ==
  [accounts |-> [dom |-> [scope |-> "domestic", store |-> "dom.json", log |-> "dom.jsonl"],
                 ovs |-> [scope |-> "overseas", store |-> "ovs.json", log |-> "ovs.jsonl"]],
   sleeves |-> [kr |-> SleeveOfConfig([domestic |-> "dom"], "dom", 0, [KRW |-> 1], Unnamed, "domestic"),
                us |-> SleeveOfConfig([overseas |-> "ovs"], "ovs", 2, <<>>, Unnamed, "overseas"),
                both |-> SleeveOfConfig([domestic |-> "dom", overseas |-> "ovs"], "ovs", 0, <<>>, Unnamed, "overseas")],
   orders |-> {OrderOfSleeve("us", "overseas"), OrderOfSleeve("both", "domestic")}]
SmokeStore ==
  [accounts |-> <<>>,
   sleeves |-> [us |-> SleeveOfConfig(<<>>, Unnamed, 2, <<>>, "own.json", "overseas")],
   orders |-> {OrderOfSleeve("us", "overseas")}]
MCConfigurations == {LiveAccounts, SmokeStore}

CommandLine(command, sleeves) ==
  [command |-> command, sleeves |-> sleeves, account |-> Unnamed, store |-> Unnamed, log |-> Unnamed,
   broker |-> "broker-engine", snapshot |-> "fresh", commit |-> TRUE, confirm |-> TRUE]
OrderLines(snapshot) ==
  {[CommandLine("run", {}) EXCEPT !.snapshot = snapshot], CommandLine("submit", {}),
   [CommandLine("submit", {}) EXCEPT !.account = "dom"],
   [CommandLine("submit", {}) EXCEPT !.store = "own.json"],
   [CommandLine("paper-smoke", {"us"}) EXCEPT !.broker = "paper", !.confirm = FALSE],
   CommandLine("supervise", {}), [CommandLine("supervise", {}) EXCEPT !.broker = "paper"],
   CommandLine("status", {}), CommandLine("recovery", {"us"}), CommandLine("health", {})}
CashLines ==
  {CommandLine("submit", {}), CommandLine("submit", {"us"}), CommandLine("status", {}), CommandLine("cash-availability", {}),
   [CommandLine("submit", {}) EXCEPT !.confirm = FALSE]} \cup
  {CommandLine(command, {"us"}) : command \in {"transfer-cash", "sync-cash", "account-sync"}}

MCEnvironments ==
  {[own |-> {"dom"}, base |-> "dom", default |-> Unnamed, calls |-> OrderLines("fresh")],
   [own |-> {"ovs"}, base |-> Unnamed, default |-> "ovs", calls |-> OrderLines("invalid")],
   [own |-> {"dom", "ovs"}, base |-> Unnamed, default |-> "ovs", calls |-> CashLines]}

MCTransfers == {[from |-> "us", to |-> "base"], [from |-> "base", to |-> "both"]}
MCLogBeside == [store \in {"dom.json", "ovs.json", "own.json"} |->
                 IF store = "dom.json" THEN "dom.jsonl" ELSE IF store = "ovs.json" THEN "ovs.jsonl" ELSE "own.jsonl"]

--------------------------------------------------------------------------------
VARIABLE part

MCInit ==
  /\ part \in {"submit", "feed", "banding", "samsung", "commands"}
  /\ Init /\ FeedInit /\ BandInit /\ SamsungInit /\ CommandsInit
  /\ part # "submit" => gateway = "paper"
  /\ part # "banding" => band = Banding
  /\ part # "samsung" => ssMode = "steward" /\ ssDaily = Calm /\ ssQuote = 1000
  /\ part # "commands" => cmConfig = LiveAccounts /\ cmEnv.calls = CashLines
  /\ cmConfig = SmokeStore => cmEnv.default = "ovs" /\ cmEnv.calls # CashLines

MCNext ==
  /\ UNCHANGED part
  /\ \/ part = "submit" /\ Next /\ UNCHANGED <<feedVars, bandVars, samsungVars, commandVars>>
     \/ part = "feed" /\ FeedNext /\ UNCHANGED <<vars, bandVars, samsungVars, commandVars>>
     \/ part = "banding" /\ BandNext /\ UNCHANGED <<vars, feedVars, samsungVars, commandVars>>
     \/ part = "samsung" /\ SamsungNext /\ UNCHANGED <<vars, feedVars, bandVars, commandVars>>
     \/ part = "commands" /\ CommandsNext /\ UNCHANGED <<vars, feedVars, bandVars, samsungVars>>

MCSpec == MCInit /\ [][MCNext]_<<part, vars, feedVars, bandVars, samsungVars, commandVars>>

\* Every sleeve's portfolio construction keeps, from cycle to cycle, what its parameters
\* promise of it (v4_banded_momentum.py; the models of semiconduct-kor).
SleeveRules ==
  CASE part = "banding" -> BandsKept
    [] part = "samsung" -> SamsungKept
    [] OTHER -> TRUE
SleevesKeepRules == [][SleeveRules]_<<part, bandVars, samsungVars>>
===============================================================================
