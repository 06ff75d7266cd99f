----------------------------- MODULE BrokerClient -----------------------------
(* Calls to the broker from the threads of one process or from two processes       *)
(* (adapters/kis_direct.py, the live quotes of adapters/kis.py): the access token  *)
(* kept in memory and in a file, the two lanes with their pace, attempts, retries  *)
(* and the fallback to KRX, the cached history and the cached quotes. The engines  *)
(* that may stand between the process and the broker (BrokerEngineClient,          *)
(* MarketDataEngineClient, KISGatewayClient) are callers with one lane of their    *)
(* own. What a request says is BrokerPayloads.                                     *)
EXTENDS BrokerPayloads

CONSTANTS
  Callers,       \* threads or processes that call, each one call after the other
  Plans,         \* what a behaviour does: transport, shared process or not, hash keys, calls;
                 \* what the broker may answer for a price, how many of its answers are none
  Interval,      \* between two requests on a lane
  Margin,        \* a token is renewed this long before it expires
  Lifetime,      \* of a token
  Patience,      \* a request is given up after this long
  QuoteAge,      \* of a cached quote that still serves
  Attempts,      \* of one request
  LastMoment     \* the clock stops here

ASSUME ClientAssumption ==
  /\ {Interval, Margin, Lifetime, Patience, QuoteAge, Attempts, LastMoment} \subseteq Nat
  /\ Interval * Cardinality(Callers) < Margin /\ Margin < Lifetime

VARIABLES
  kcPlan,        \* of this behaviour
  kcNow,
  kcCall,        \* [caller -> the call it is in]
  kcLane,        \* [process -> [lane -> when the last request left, who waits with the lock]]
  kcMemory,      \* [process -> when its token expires, 0 for none]
  kcTokenFile,   \* when the token of the file expires, 0 for none or one that cannot be read
  kcHistory,     \* the file of a stock's daily history
  kcQuotes,      \* the file of the latest quotes: [stock -> price and when]
  kcOrders,      \* the broker's book
  kcAnswer,      \* [caller -> the answer of its last call]
  kcFaults,      \* faults so far
  kcStory        \* what the properties look back at

clientVars == <<kcPlan, kcNow, kcCall, kcLane, kcMemory, kcTokenFile, kcHistory, kcQuotes, kcOrders,
                kcAnswer, kcFaults, kcStory>>
files == <<kcHistory, kcQuotes>>

Process(c) == IF kcPlan.shared THEN CHOOSE d \in Callers : TRUE ELSE c
Direct == kcPlan.transport = "direct"
InForce(expires) == kcNow < expires - Margin

Stocks == UNION {{r.stock : r \in {q \in ToSet(plan.calls[c]) : q.kind = "quote"}} : plan \in Plans, c \in Callers}
NoQuote == [price |-> 0, usable |-> "no", at |-> -1]
NoCall == [step |-> "idle", goal |-> "main", then |-> "main", attempt |-> 0, tries |-> 0, until |-> 0,
           token |-> 0, body |-> Failed, keep |-> Failed]
Nobody == "nobody"

ClientInit ==
  /\ kcPlan \in Plans
  /\ kcNow = 0
  /\ kcCall = [c \in Callers |-> NoCall @@ [n |-> 0]]
  /\ kcLane = [c \in Callers |-> [lane \in {"query", "request"} |-> [last |-> -Interval, holder |-> Nobody]]]
  /\ kcMemory = [c \in Callers |-> 0]
  /\ kcTokenFile = kcPlan.token
  /\ kcHistory = [whole |-> TRUE, there |-> FALSE, days |-> {}]
  /\ kcQuotes = [y \in Stocks |-> NoQuote]
  /\ kcOrders = <<>>
  /\ kcAnswer = [c \in Callers |-> [kind |-> "none", id |-> <<>>, n |-> 0]]
  /\ kcFaults = 0
  /\ kcStory = [sent |-> [c \in Callers |-> [lane \in {"query", "request"} |-> -Interval]],
                told |-> {}, fetched |-> {}]

--------------------------------------------------------------------------------
Request(c) == kcPlan.calls[c][kcCall[c].n + 1]
IsOrder(r) == r.kind \in {"submit", "cancel"}
Lane(c) == IF Direct /\ kcCall[c].goal \in {"main", "book"} /\ ~IsOrder(Request(c)) THEN "query" ELSE "request"

\* The steps of a call: a token, then the turn on the lane, then the answer; a token and a
\* hash key that have to be asked for are requests of their own.
Turn(call, goal, body) ==
  [call EXCEPT !.step = IF Direct /\ goal \in {"main", "book"} THEN "token" ELSE "turn", !.goal = goal, !.body = body]
Asking(c, body) == kcCall' = [kcCall EXCEPT ![c] = Turn(NoCall @@ [n |-> @.n], "main", body)] /\ UNCHANGED kcAnswer
Answered(c, answer) ==
  /\ kcAnswer' = [kcAnswer EXCEPT ![c] = answer @@ [id |-> <<>>, n |-> kcCall[c].n + 1]]
  /\ kcCall' = [kcCall EXCEPT ![c] = NoCall @@ [n |-> @.n + 1]]

--------------------------------------------------------------------------------
(* Before anything is sent: the cached quote, the cached history, and what gateway *)
(* and client refuse.                                                             *)

CachedForever(y) == IF kcQuotes[y].at >= 0 THEN Done(kcQuotes[y]) ELSE Failed
CachedQuote(y) == IF kcQuotes[y].at >= 0 /\ kcNow - kcQuotes[y].at <= QuoteAge THEN Done(kcQuotes[y]) ELSE Failed
QuoteAnswer(y, quote) == [kind |-> "quote", stock |-> y, quote |-> quote]

PreparedOrder(r, brokerId) ==
  LET args == IF r.kind = "submit" THEN SubmitArguments(r.ticket) ELSE CancelArguments(r.ticket, brokerId)
  IN IF args.ok THEN OrderBody(args.value) ELSE Failed
BeginOrder(c, r) ==
  LET body == PreparedOrder(r, kcAnswer[c].id)
  IN IF body.ok THEN Asking(c, body.value) ELSE Answered(c, [kind |-> "refused"])

BeginQuote(c, r) ==
  LET cached == CachedQuote(r.stock)
  IN IF cached.ok THEN Answered(c, QuoteAnswer(r.stock, cached.value)) ELSE Asking(c, Failed)

BeginHistory(c, r) ==
  IF r.refresh \/ ~kcHistory.there THEN Asking(c, Failed)
  ELSE Answered(c, IF kcHistory.whole THEN [kind |-> "history", days |-> kcHistory.days \cap r.days]
                   ELSE [kind |-> "failed"])

Begin(c) ==
  /\ kcCall[c].step = "idle" /\ kcCall[c].n < Len(kcPlan.calls[c])
  /\ LET r == Request(c)
     IN CASE r.kind = "quote" -> BeginQuote(c, r) [] r.kind = "history" -> BeginHistory(c, r) [] OTHER -> BeginOrder(c, r)
  /\ UNCHANGED <<kcPlan, kcNow, kcLane, kcMemory, kcTokenFile, files, kcOrders, kcFaults, kcStory>>

--------------------------------------------------------------------------------
(* Token, turn, request.                                                          *)

AfterToken(c, goal, expires) ==
  IF IsOrder(Request(c)) /\ kcPlan.hashing
  THEN [kcCall[c] EXCEPT !.step = "turn", !.goal = "hash", !.token = expires, !.tries = 0]
  ELSE [kcCall[c] EXCEPT !.step = "turn", !.goal = goal, !.token = expires]

FindToken(c) ==
  /\ kcCall[c].step = "token"
  /\ LET inMemory == kcMemory[Process(c)]
     IN IF InForce(inMemory)
        THEN kcCall' = [kcCall EXCEPT ![c] = AfterToken(c, kcCall[c].goal, inMemory)] /\ UNCHANGED kcMemory
        ELSE IF InForce(kcTokenFile)
        THEN /\ kcCall' = [kcCall EXCEPT ![c] = AfterToken(c, kcCall[c].goal, kcTokenFile)]
             /\ kcMemory' = [kcMemory EXCEPT ![Process(c)] = kcTokenFile]
        ELSE /\ kcCall' = [kcCall EXCEPT ![c] = [@ EXCEPT !.step = "turn", !.goal = "token", !.then = kcCall[c].goal, !.tries = 0]]
             /\ UNCHANGED kcMemory
  /\ UNCHANGED <<kcPlan, kcNow, kcLane, kcTokenFile, files, kcOrders, kcAnswer, kcFaults, kcStory>>

TurnUnlocked(c) ==
  /\ kcCall[c].step = "turn"
  /\ LET lane == kcLane[Process(c)][Lane(c)]
     IN kcCall' = [kcCall EXCEPT ![c] = [@ EXCEPT !.step = "waiting", !.until = NotBelow(lane.last + Interval, kcNow)]]
  /\ UNCHANGED <<kcPlan, kcNow, kcLane, kcMemory, kcTokenFile, files, kcOrders, kcAnswer, kcFaults, kcStory>>
\* Under the lane's lock: sleep until the last request is an interval ago.
TakeTurn(c) ==
  /\ kcCall[c].step = "turn"
  /\ LET lane == kcLane[Process(c)][Lane(c)]
     IN /\ lane.holder = Nobody
        /\ kcLane' = [kcLane EXCEPT ![Process(c)][Lane(c)].holder = c]
        /\ kcCall' = [kcCall EXCEPT ![c] = [@ EXCEPT !.step = "waiting", !.until = NotBelow(lane.last + Interval, kcNow)]]
  /\ UNCHANGED <<kcPlan, kcNow, kcMemory, kcTokenFile, files, kcOrders, kcAnswer, kcFaults, kcStory>>

Send(c) ==
  /\ kcCall[c].step = "waiting" /\ kcNow >= kcCall[c].until
  /\ kcLane' = [kcLane EXCEPT ![Process(c)][Lane(c)] = [last |-> kcNow, holder |-> Nobody]]
  /\ kcCall' = [kcCall EXCEPT ![c] = [@ EXCEPT !.step = "sent", !.until = kcNow + Patience]]
  /\ kcStory' = [kcStory EXCEPT !.sent[Process(c)][Lane(c)] = kcNow]
  /\ UNCHANGED <<kcPlan, kcNow, kcMemory, kcTokenFile, files, kcOrders, kcAnswer, kcFaults>>

--------------------------------------------------------------------------------
(* Answers.                                                                       *)

Fault == kcFaults < kcPlan.faults /\ kcFaults' = kcFaults + 1
InTime(c) == kcCall[c].step = "sent"
TimedOut(c) == kcCall[c].step = "sent" /\ kcNow >= kcCall[c].until

\* A pause, longer after every attempt up to three, then the attempt is made from the start.
Delay(attempt) == IF attempt < 2 THEN attempt + 1 ELSE 3
Again(c) ==
  LET call == kcCall[c]
      main == call.goal \in {"main", "book"}
      made == IF main THEN call.attempt ELSE call.tries
  IN /\ made < Attempts - 1
     /\ kcCall' = [kcCall EXCEPT ![c] = [@ EXCEPT !.step = "pause", !.until = kcNow + Delay(made),
                     !.attempt = IF main THEN @ + 1 ELSE @, !.tries = IF main THEN @ ELSE @ + 1]]
     /\ UNCHANGED kcAnswer
LastAttempt(c) == (IF kcCall[c].goal \in {"main", "book"} THEN kcCall[c].attempt ELSE kcCall[c].tries) >= Attempts - 1

Resume(c) ==
  /\ kcCall[c].step = "pause" /\ kcNow >= kcCall[c].until
  /\ kcCall' = [kcCall EXCEPT ![c] = Turn(@, @.goal, @.body)]
  /\ UNCHANGED <<kcPlan, kcNow, kcLane, kcMemory, kcTokenFile, files, kcOrders, kcAnswer, kcFaults, kcStory>>

TokenAnswer(c) ==
  /\ InTime(c) /\ kcCall[c].goal = "token"
  /\ kcMemory' = [kcMemory EXCEPT ![Process(c)] = kcNow + Lifetime]
  /\ kcTokenFile' = 0
  /\ kcCall' = [kcCall EXCEPT ![c] = [@ EXCEPT !.step = "writing", !.token = kcNow + Lifetime]]
  /\ UNCHANGED <<kcPlan, kcNow, kcLane, files, kcOrders, kcAnswer, kcFaults, kcStory>>

\* The file is written in place, whoever else may read it.
TokenWritten(c) ==
  /\ kcCall[c].step = "writing" /\ kcCall[c].goal = "token"
  /\ kcTokenFile' = kcCall[c].token
  /\ kcCall' = [kcCall EXCEPT ![c] = AfterToken(c, @.then, @.token)]
  /\ UNCHANGED <<kcPlan, kcNow, kcLane, kcMemory, files, kcOrders, kcAnswer, kcFaults, kcStory>>

HashAnswer(c) ==
  /\ InTime(c) /\ kcCall[c].goal = "hash"
  /\ kcCall' = [kcCall EXCEPT ![c] = [@ EXCEPT !.step = "turn", !.goal = "main"]]
  /\ UNCHANGED <<kcPlan, kcNow, kcLane, kcMemory, kcTokenFile, files, kcOrders, kcAnswer, kcFaults, kcStory>>

\* What becomes of a call that gets no answer: an order was certainly not placed or is not
\* known to be; a quote may still be served from the cache.
GiveUp(c, kind) ==
  LET r == Request(c)
      cached == IF r.kind = "quote" THEN CachedQuote(r.stock) ELSE Failed
  IN Answered(c, IF cached.ok THEN QuoteAnswer(r.stock, cached.value)
                 ELSE [kind |-> IF IsOrder(r) THEN kind ELSE "failed"])

\* The token or the hash key could not be had; nothing was ordered.
Unprepared(c) ==
  /\ kcCall[c].step = "sent" /\ kcCall[c].goal \in {"token", "hash"} /\ Fault
  /\ \/ TimedOut(c) /\ (Again(c) \/ (LastAttempt(c) /\ GiveUp(c, "refused")))
     \/ InTime(c) /\ GiveUp(c, "refused")
  /\ UNCHANGED <<kcPlan, kcNow, kcLane, kcMemory, kcTokenFile, files, kcOrders, kcStory>>

\* The broker's book takes an order, or cancels the one a cancel names.
Numbered(body) == [i \in DOMAIN kcOrders |-> kcOrders[i].number = body.number]
Taken(c) ==
  LET body == kcCall[c].body
  IN IF Request(c).kind = "submit"
     THEN Append(kcOrders, [caller |-> c, n |-> kcCall[c].n, body |-> body, number |-> Len(kcOrders) + 1, cancelled |-> FALSE])
     ELSE [i \in DOMAIN kcOrders |-> IF Numbered(body)[i] THEN [kcOrders[i] EXCEPT !.cancelled = TRUE] ELSE kcOrders[i]]

OrderTaken(c) ==
  /\ InTime(c) /\ kcCall[c].goal = "main" /\ IsOrder(Request(c))
  /\ kcOrders' = Taken(c)
  /\ Answered(c, IF Request(c).kind = "submit"
                 THEN [kind |-> "accepted", body |-> kcCall[c].body, id |-> BrokerOrderId("b", Len(kcOrders'))]
                 ELSE [kind |-> "cancelled", number |-> kcCall[c].body.number])
  /\ UNCHANGED <<kcPlan, kcNow, kcLane, kcMemory, kcTokenFile, files, kcFaults, kcStory>>

SentAgain(c) ==
  /\ InTime(c) /\ kcCall[c].goal = "main" /\ IsOrder(Request(c)) /\ Fault
  /\ kcOrders' \in {kcOrders, Taken(c)}
  /\ Again(c) \/ (LastAttempt(c) /\ GiveUp(c, "unknown"))
  /\ UNCHANGED <<kcPlan, kcNow, kcLane, kcMemory, kcTokenFile, files, kcStory>>
\* A timeout, a broken connection, an answer that cannot be read: the order may have arrived.
\* It is never sent again.
OrderUnknown(c) ==
  /\ InTime(c) /\ kcCall[c].goal = "main" /\ IsOrder(Request(c)) /\ Fault
  /\ kcOrders' \in {kcOrders, Taken(c)}
  /\ GiveUp(c, "unknown")
  /\ UNCHANGED <<kcPlan, kcNow, kcLane, kcMemory, kcTokenFile, files, kcStory>>

\* The broker's refusals: too many requests, no smart routing for the stock, or for good.
TooMany(c) == IF Direct \/ (kcPlan.transport = "market" /\ ~IsOrder(Request(c)))
              THEN Again(c) \/ (LastAttempt(c) /\ GiveUp(c, "refused")) ELSE GiveUp(c, "refused")
NoSmartRouting(c) ==
  /\ Request(c).kind = "submit" /\ kcCall[c].body.operation = "place_domestic" /\ kcCall[c].body.scope = "SOR"
  /\ IF Direct
     THEN /\ kcCall' = [kcCall EXCEPT ![c] = Turn([@ EXCEPT !.attempt = 0], "main", [@.body EXCEPT !.scope = "KRX"])]
          /\ UNCHANGED kcAnswer
     ELSE GiveUp(c, "refused")
OrderRefused(c) ==
  /\ InTime(c) /\ kcCall[c].goal = "main" /\ IsOrder(Request(c)) /\ Fault
  /\ TooMany(c) \/ NoSmartRouting(c) \/ GiveUp(c, "refused")
  /\ UNCHANGED <<kcPlan, kcNow, kcLane, kcMemory, kcTokenFile, files, kcOrders, kcStory>>

\* Prices and histories: time-outs and too many requests are tried again, the rest is not.
Unanswered(c) ==
  /\ kcCall[c].step = "sent" /\ kcCall[c].goal = "main" /\ ~IsOrder(Request(c)) /\ Fault
  /\ \/ TimedOut(c) /\ Direct /\ (Again(c) \/ (LastAttempt(c) /\ GiveUp(c, "failed")))
     \/ InTime(c) /\ TooMany(c)
     \/ InTime(c) /\ GiveUp(c, "failed")
  /\ UNCHANGED <<kcPlan, kcNow, kcLane, kcMemory, kcTokenFile, files, kcOrders, kcStory>>

\* A price becomes a bar, the file of quotes is read again and the bar put into it, and the
\* file replaced in a later step.
Quoted(c, answer, orderbook) ==
  \E book \in {orderbook} : \E price \in {DomesticPrice(answer.output, book)} :
  IF ~price.ok THEN GiveUp(c, "failed") /\ UNCHANGED kcStory
  ELSE \E bar \in {QuoteBar(price.value, TRUE, TRUE, TRUE).value} :
         LET quote == [price |-> bar.close, usable |-> bar.usable, at |-> kcNow]
         IN /\ kcCall' = [kcCall EXCEPT ![c] = [@ EXCEPT !.step = "writing", !.goal = "main",
                            !.keep = Done([kcQuotes EXCEPT ![Request(c).stock] = quote])]]
            /\ kcStory' = [kcStory EXCEPT !.told = @ \cup {[stock |-> Request(c).stock, quote |-> quote, truth |-> answer.truth]}]
            /\ UNCHANGED kcAnswer

LooksUntraded(output) ==
  Readable(output, {"last", "open", "high", "low"})
    /\ LooksLikeReference(output, Whole(output.last), Whole(output.open), Whole(output.high), Whole(output.low))

\* A price of a stock that has not traded yet asks for the orderbook first.
PriceAnswer(c) ==
  /\ InTime(c) /\ kcCall[c].goal = "main" /\ Request(c).kind = "quote"
  /\ \E answer \in kcPlan.outputs :
       IF LooksUntraded(answer.output) /\ Direct
       THEN kcCall' = [kcCall EXCEPT ![c] = Turn([@ EXCEPT !.attempt = 0, !.keep = Done(answer)], "book", Failed)]
            /\ UNCHANGED <<kcAnswer, kcStory>>
       ELSE Quoted(c, answer, DomesticOrderbook(answer.book))
  /\ UNCHANGED <<kcPlan, kcNow, kcLane, kcMemory, kcTokenFile, files, kcOrders, kcFaults>>

BookAnswer(c) ==
  /\ InTime(c) /\ kcCall[c].goal = "book"
  /\ LET answer == kcCall[c].keep.value
     IN Quoted(c, answer, DomesticOrderbook(answer.book))
  /\ UNCHANGED <<kcPlan, kcNow, kcLane, kcMemory, kcTokenFile, files, kcOrders, kcFaults>>

NoBook(c) ==
  /\ kcCall[c].step = "sent" /\ kcCall[c].goal = "book" /\ Fault
  /\ LET answer == kcCall[c].keep.value
         without == Quoted(c, answer, Failed)
     IN \/ TimedOut(c) /\ Again(c) /\ UNCHANGED kcStory
        \/ TimedOut(c) /\ LastAttempt(c) /\ without
        \/ InTime(c) /\ without
  /\ UNCHANGED <<kcPlan, kcNow, kcLane, kcMemory, kcTokenFile, files, kcOrders>>

QuoteWritten(c) ==
  /\ kcCall[c].step = "writing" /\ kcCall[c].goal = "main" /\ Request(c).kind = "quote"
  /\ kcQuotes' = kcCall[c].keep.value
  /\ Answered(c, QuoteAnswer(Request(c).stock, kcQuotes'[Request(c).stock]))
  /\ UNCHANGED <<kcPlan, kcNow, kcLane, kcMemory, kcTokenFile, kcHistory, kcOrders, kcFaults, kcStory>>

\* The answer, cut to the days that were asked for, is written in place.
HistoryAnswer(c) ==
  /\ InTime(c) /\ kcCall[c].goal = "main" /\ Request(c).kind = "history"
  /\ kcHistory' = [whole |-> FALSE, there |-> TRUE, days |-> {}]
  /\ kcCall' = [kcCall EXCEPT ![c] = [@ EXCEPT !.step = "writing", !.keep = Done(Request(c).days)]]
  /\ kcStory' = [kcStory EXCEPT !.fetched = @ \cup {Request(c).days}]
  /\ UNCHANGED <<kcPlan, kcNow, kcLane, kcMemory, kcTokenFile, kcQuotes, kcOrders, kcAnswer, kcFaults>>

HistoryWritten(c) ==
  /\ kcCall[c].step = "writing" /\ kcCall[c].goal = "main" /\ Request(c).kind = "history"
  /\ kcHistory' = [whole |-> TRUE, there |-> TRUE, days |-> kcCall[c].keep.value]
  /\ Answered(c, [kind |-> "history", days |-> kcCall[c].keep.value])
  /\ UNCHANGED <<kcPlan, kcNow, kcLane, kcMemory, kcTokenFile, kcQuotes, kcOrders, kcFaults, kcStory>>

--------------------------------------------------------------------------------
\* A process dies in the middle of its calls.
Kill(c) ==
  /\ ~kcPlan.shared /\ kcCall[c].step # "idle" /\ Fault
  /\ kcCall' = [kcCall EXCEPT ![c] = NoCall @@ [n |-> @.n + 1]]
  /\ kcMemory' = [kcMemory EXCEPT ![c] = 0]
  /\ kcLane' = [kcLane EXCEPT ![c] = [lane \in DOMAIN @ |-> [last |-> -Interval, holder |-> Nobody]]]
  /\ kcAnswer' = [kcAnswer EXCEPT ![c] = [kind |-> "killed", id |-> <<>>, n |-> kcCall[c].n + 1]]
  /\ kcStory' = [kcStory EXCEPT !.sent[c] = [lane \in DOMAIN @ |-> -Interval]]
  /\ kcOrders' \in {kcOrders} \cup IF InTime(c) /\ kcCall[c].goal = "main" /\ IsOrder(Request(c)) THEN {Taken(c)} ELSE {}
  /\ UNCHANGED <<kcPlan, kcNow, kcTokenFile, files>>

\* Nothing that could be done is left to wait: time passes when every call waits for it.
Waits(c) ==
  LET call == kcCall[c]
  IN \/ call.step = "idle"
     \/ call.step \in {"waiting", "pause", "sent"} /\ kcNow < call.until
     \/ call.step = "turn" /\ kcLane[Process(c)][Lane(c)].holder # Nobody
Tick ==
  /\ kcNow < LastMoment /\ \A c \in Callers : Waits(c)
  /\ kcNow' = kcNow + 1
  /\ UNCHANGED <<kcPlan, kcCall, kcLane, kcMemory, kcTokenFile, files, kcOrders, kcAnswer, kcFaults, kcStory>>

ClientNext ==
  \/ Tick
  \/ \E c \in Callers :
       \/ Begin(c) \/ FindToken(c) \/ TakeTurn(c) \/ Send(c) \/ Resume(c)
       \/ TokenAnswer(c) \/ TokenWritten(c) \/ HashAnswer(c) \/ Unprepared(c)
       \/ OrderTaken(c) \/ OrderUnknown(c) \/ OrderRefused(c)
       \/ Unanswered(c) \/ PriceAnswer(c) \/ BookAnswer(c) \/ NoBook(c) \/ QuoteWritten(c)
       \/ HistoryAnswer(c) \/ HistoryWritten(c) \/ Kill(c)

ClientSpec == ClientInit /\ [][ClientNext]_clientVars

--------------------------------------------------------------------------------
(* What the callers may rely on.                                                  *)

JustAnswered(c) == kcAnswer'[c].n # kcAnswer[c].n
OrdersOf(c, n) == SelectSeq(kcOrders', LAMBDA o : o.caller = c /\ o.n = n)

\* A submit leaves at most one order at the broker, whatever was retried and wherever it was
\* routed in the end: exactly the one it reports, none when it reports a refusal; and the
\* order is the ticket's, but for smart routing given up.
OneOrderPerSubmit ==
  \A c \in Callers : LET left == OrdersOf(c, kcCall[c].n) IN
    /\ Len(left) <= 1
    /\ JustAnswered(c) /\ kcAnswer'[c].kind = "refused" => left = <<>>
    /\ JustAnswered(c) /\ kcAnswer'[c].kind = "accepted" =>
         /\ Len(left) = 1 /\ left[1].body = kcAnswer'[c].body
         /\ LET asked == PreparedOrder(Request(c), <<>>).value
            IN left[1].body \in {asked} \cup IF "scope" \in DOMAIN asked /\ asked.scope = "SOR"
                                             THEN {[asked EXCEPT !.scope = "KRX"]} ELSE {}

\* A cancel reaches an order of its caller, or none.
CancelsOwnOrder ==
  \A i \in DOMAIN kcOrders : kcOrders'[i].cancelled /\ ~kcOrders[i].cancelled =>
    \E c \in Callers : kcOrders[i].caller = c /\ kcCall[c].step = "sent" /\ Request(c).kind = "cancel"

\* The threads of a process keep a lane's pace between them.
LanesPaced ==
  \A c \in Callers : kcCall[c].step = "waiting" /\ kcCall'[c].step = "sent" =>
    kcNow - kcStory.sent[Process(c)][Lane(c)] >= Interval

\* The token of a request is still valid when the request leaves, however long it waited
\* for its turn; only a hash key asked for in between may outlast it.
TokenOutlastsTurn ==
  \A c \in Callers :
    kcCall[c].step = "waiting" /\ kcCall'[c].step = "sent" /\ Direct
      /\ kcCall[c].goal \in {"main", "book"} /\ ~(kcPlan.hashing /\ IsOrder(Request(c))) => kcNow < kcCall[c].token

\* A quote was told by the broker, for this stock, lately; one that is called usable is a
\* price of this session.
QuotesTrue ==
  \A c \in Callers : JustAnswered(c) /\ kcAnswer'[c].kind = "quote" =>
    LET answer == kcAnswer'[c]
    IN \E told \in kcStory.told :
         /\ told.stock = answer.stock /\ told.quote = answer.quote
         /\ kcNow - told.quote.at <= QuoteAge
         /\ told.quote.usable = "yes" => told.quote.price \in told.truth

\* A history is what one request fetched, cut to the days asked for; nobody is served a file
\* that is being written.
HistoryWhole ==
  \A c \in Callers : JustAnswered(c) /\ kcAnswer'[c].kind = "history" =>
    \E days \in kcStory.fetched : kcAnswer'[c].days = days \cap Request(c).days

\* The client keeps its orders single, its pace and its answers true.
ClientKept ==
  OneOrderPerSubmit /\ CancelsOwnOrder /\ LanesPaced /\ TokenOutlastsTurn /\ QuotesTrue /\ HistoryWhole
===============================================================================
