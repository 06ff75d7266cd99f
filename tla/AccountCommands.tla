---------------------------- MODULE AccountCommands ----------------------------
(* The commands an operator, or a script, gives about orders and accounts. Each is  *)
(* a process of its own: it reads the configuration, finds the accounts, files and  *)
(* broker client the selected sleeves lead to, and works on one of these routes     *)
(* after the other. What decides about a single order is left to OrderSubmit; here  *)
(* it is which account, which log and which starting cash a command ends up with.   *)
EXTENDS Integers, Sequences, FiniteSets, SequencesExt

CONSTANTS
  Configurations,  \* [accounts, sleeves, orders]; an account has [scope, store, log], a
                   \* sleeve [routes, account, cash, cashBy, store, home]
  Environments,    \* [own, base, default, calls]: the broker accounts the environment names
                   \* and the command lines its users call
  LogBeside,       \* per account store, the log a command derives from its path
  Residual,        \* the sleeve that keeps the cash no sleeve owns
  BrokerBalances,
  Transfers,       \* [from, to]: cash somebody wants to move between sleeves
  CommandsInAll,   \* bound: commands, and those of them that are killed
  Unnamed

VARIABLES
  cmConfig, cmEnv,
  cmBatch,     \* the order batch file: [number, orders]
  cmJobs,      \* routes commands still have to work on
  cmLog,       \* per order log, its tickets
  cmCash,      \* per account store, the cash of the sleeves it knows
  cmSnapshot,  \* per account store, cash snapshots by key
  cmJournal,   \* the cycle journal
  cmExecuted,  \* live tickets the broker has executed: [log, id]
  cmReport,    \* what a report has just said
  cmLeft, cmStory

commandVars == <<cmConfig, cmEnv, cmBatch, cmJobs, cmLog, cmCash, cmSnapshot, cmJournal, cmExecuted,
                 cmReport, cmLeft, cmStory>>

--------------------------------------------------------------------------------
(* Which account: broker_routing, and how a command line narrows it.              *)
Configured(s) == cmConfig.sleeves[s]
\* currency_for_market_scope; a route without a market counts as domestic.
CurrencyOf(scope) == IF scope = "overseas" THEN "USD" ELSE "KRW"

\* Mutant: the default account, whatever the routes say.
DefaultAccount(s, scope) == Configured(s).account
\* account_id_for_sleeve_market_scope.
AccountForScope(s, scope) ==
  IF scope \in DOMAIN Configured(s).routes THEN Configured(s).routes[scope] ELSE Configured(s).account

\* configured_account_ids_for_sleeve.
AccountsOf(s) == ({Configured(s).account} \cup Range(Configured(s).routes)) \ {Unnamed}

\* _status_sleeve_ids.
SelectedSleeves(call) == IF call.sleeves = {} THEN DOMAIN cmConfig.sleeves ELSE call.sleeves

\* _resolve_order_runtime_route: the route to an account, or to the only one there is;
\* the empty set when the command refuses to choose.
RouteFor(call, account) ==
  LET sleeves == SelectedSleeves(call)
      accounts == IF account # Unnamed THEN {account} ELSE UNION {AccountsOf(s) : s \in sleeves}
      outside == {s \in sleeves : AccountsOf(s) # {} /\ call.account \notin AccountsOf(s)}
      stores == CASE call.store # Unnamed -> {call.store}
                  [] accounts # {} -> {cmConfig.accounts[a].store : a \in accounts}
                  [] OTHER -> {Configured(s).store : s \in sleeves} \ {Unnamed}
      logs == CASE call.log # Unnamed -> {call.log}
                [] call.store = Unnamed /\ accounts # {} -> {cmConfig.accounts[a].log : a \in accounts}
                [] OTHER -> {LogBeside[store] : store \in stores}
  IN IF \/ ~ accounts \subseteq DOMAIN cmConfig.accounts \/ Cardinality(accounts) > 1 \/ Cardinality(stores) # 1
        \/ call.account # Unnamed /\ outside # {} THEN {}
     ELSE {[account |-> a, scope |-> IF a = Unnamed THEN Unnamed ELSE cmConfig.accounts[a].scope,
            store |-> store, log |-> log] :
              a \in IF accounts = {} THEN {Unnamed} ELSE accounts, store \in stores, log \in logs}

\* _resolve_order_runtime_routes: one route per account, unless the line names one.
RoutesFor(call) ==
  LET accounts == UNION {AccountsOf(s) : s \in SelectedSleeves(call)}
  IN IF call.account # Unnamed \/ call.store # Unnamed \/ accounts = {} THEN RouteFor(call, call.account)
     ELSE UNION {RouteFor(call, a) : a \in accounts}

\* load_kis_settings_for_account: an account the environment has no keys of its own for
\* goes by the unscoped ones, and so is another account.
ClientOf(account) ==
  CASE account # Unnamed /\ account \in cmEnv.own -> account
    [] account = Unnamed /\ cmEnv.base = Unnamed -> cmEnv.default
    [] OTHER -> cmEnv.base

--------------------------------------------------------------------------------
(* What a command leaves in the account store and in the journal.                 *)
\* Mutant: a sleeve brings its cash to every account.
CashAnywhere(s, currency, account) == IF s \in DOMAIN cmConfig.sleeves THEN Configured(s).cash ELSE 0
\* _default_cash_by_sleeve.
StartingCash(s, currency, account) ==
  CASE s \notin DOMAIN cmConfig.sleeves -> 0
    [] s \in DOMAIN cmConfig.sleeves /\ DOMAIN Configured(s).cashBy # {} ->
         IF currency \in DOMAIN Configured(s).cashBy THEN Configured(s).cashBy[currency] ELSE 0
    [] OTHER -> IF DOMAIN Configured(s).routes # {} /\ account # Configured(s).account THEN 0 ELSE Configured(s).cash

\* VirtualSleeveAccountStore.current_portfolio writes what it reads: a sleeve unknown to
\* the store is added with its starting cash, by whichever command comes first.
Opened(cash, sleeves, currency, account) ==
  [s \in DOMAIN cash \cup sleeves |-> IF s \in DOMAIN cash THEN cash[s] ELSE StartingCash(s, currency, account)]

OpenStore(route, sleeves) ==
  cmCash' = [cmCash EXCEPT ![route.store] = Opened(@, sleeves, CurrencyOf(route.scope), route.account)]

Line(s, account, source, snapshot, failed) ==
  [sleeve |-> s, account |-> account, source |-> source, snapshot |-> snapshot, failed |-> failed]
CutLine == Line(Unnamed, Unnamed, "cut", Unnamed, FALSE)
SpoiltLine == Line(Unnamed, Unnamed, "spoilt", Unnamed, FALSE)

\* FileCycleJournalStore.append, also behind a line whose writer was cut off.
Appended(journal, line) ==
  IF journal # <<>> /\ Last(journal) = CutLine THEN [journal EXCEPT ![Len(journal)] = SpoiltLine]
  ELSE Append(journal, line)

\* _append_order_report_journal: one line per selected sleeve, whatever the route did for it.
Journalled(job, failed) ==
  FoldLeft(LAMBDA journal, s : Appended(journal, Line(s, job.route.account, job.call.command, Unnamed, failed)),
           cmJournal, SetToSeq(SelectedSleeves(job.call)))

\* FileCycleJournalStore.latest reads from the end; a line that does not parse is an error.
LatestJournalLine(s, account) ==
  LET n == SelectLastInSeq(cmJournal, LAMBDA line :
             line \in {CutLine, SpoiltLine} \/ (line.sleeve = s /\ account \in {Unnamed, line.account}))
  IN IF n = 0 THEN {} ELSE {cmJournal[n]}

--------------------------------------------------------------------------------
(* Runs and orders.                                                               *)
Calls(command) == {call \in cmEnv.calls : call.command = command}
Start(call, jobs) ==
  /\ cmLeft' = cmLeft - 1
  /\ cmJobs' = cmJobs \cup {[number |-> cmLeft, call |-> call, route |-> j.route, orders |-> j.orders] : j \in jobs}

\* runtime-run-once and runtime-run-multi-once: the batch file is replaced, and the journal
\* has a line for each sleeve's account of its home market. A run that fails leaves nothing.
RunCycle(call) ==
  /\ Start(call, {})
  /\ \E orders \in SUBSET {o \in cmConfig.orders : o.sleeve \in SelectedSleeves(call)} :
       cmBatch' = [number |-> cmBatch.number + 1, orders |-> orders]
  /\ cmJournal' = FoldLeft(LAMBDA journal, s :
       Appended(journal, Line(s, AccountForScope(s, Configured(s).home), "runtime-run-once", call.snapshot, FALSE)),
       cmJournal, SetToSeq(SelectedSleeves(call)))
  /\ UNCHANGED <<cmConfig, cmEnv, cmLog, cmCash, cmSnapshot, cmExecuted, cmStory>>

\* split_batches_by_account_route: orders by the account of their market; those of a sleeve
\* that is not selected form a group without account. A group's orders have ids of their own.
GroupAccount(call, o) == IF o.sleeve \in SelectedSleeves(call) THEN AccountForScope(o.sleeve, o.scope) ELSE Unnamed
OrderGroups(call) ==
  LET group(account, orders, part) ==
        [account |-> account, orders |-> {[order |-> o, id |-> <<cmBatch.number, part, o>>] : o \in orders}]
  IN IF call.account # Unnamed \/ call.store # Unnamed \/ cmBatch.orders = {}
     THEN {group(call.account, cmBatch.orders, "whole")}
     ELSE {group(a, {o \in cmBatch.orders : GroupAccount(call, o) = a}, a) :
                 a \in {GroupAccount(call, o) : o \in cmBatch.orders}}

\* Orders without account take the market of those that come last.
UnroutedMarkets(call) ==
  LET unrouted == {o \in cmBatch.orders : GroupAccount(call, o) = Unnamed}
  IN IF call.account # Unnamed \/ call.store # Unnamed \/ unrouted = {} THEN {Unnamed}
     ELSE {IF o.sleeve \in SelectedSleeves(call) THEN o.scope ELSE Unnamed : o \in unrouted}

\* _routed_batches_for_submit: every group finds its route before anything is sent.
SubmitJobs(call, market) ==
  LET groups == OrderGroups(call)
      placed(route) == [route EXCEPT !.scope = IF @ = Unnamed THEN market ELSE @]
      jobs == UNION {{[route |-> placed(route), orders |-> g.orders] : route \in RouteFor(call, g.account)} : g \in groups}
  IN IF \E g \in groups : RouteFor(call, g.account) = {} THEN {} ELSE jobs

\* order-runtime-submit; a confirmation that goes with another broker ends it at once.
SubmitBatch(call) ==
  /\ \E market \in UnroutedMarkets(call) :
       Start(call, IF call.confirm /\ call.broker # "broker-engine" THEN {} ELSE SubmitJobs(call, market))
  /\ UNCHANGED <<cmConfig, cmEnv, cmBatch, cmLog, cmCash, cmSnapshot, cmJournal, cmExecuted, cmStory>>

Live(call) == call.broker = "broker-engine"

\* _validate_submit_request, the guard's look at route and log, and the client's settings.
Refused(job) ==
  \/ \E o \in job.orders : o.order.sleeve \notin SelectedSleeves(job.call)
  \/ job.call.commit /\ Live(job.call) /\ ~job.call.confirm
  \/ job.route.scope # Unnamed /\ \E o \in job.orders : o.order.scope # job.route.scope
  \/ \E o \in job.orders, t \in cmLog[job.route.log] : o.id = t.id
  \/ job.call.commit /\ Live(job.call) /\ ClientOf(job.route.account) = Unnamed

\* _run_order_runtime_submit_for_route, and paper-smoke, whose supervisor fills at once. Of
\* the orders that are not refused, the guard lets some through.
SubmitRoute(job) ==
  /\ job.call.command \in {"submit", "paper-smoke"}
  /\ \E kept \in IF Refused(job) \/ ~job.call.commit THEN {{}} ELSE SUBSET job.orders :
       /\ cmLog' = [cmLog EXCEPT ![job.route.log] = @ \cup
            {[id |-> o.id, sleeve |-> o.order.sleeve,
              at |-> IF Live(job.call) THEN ClientOf(job.route.account) ELSE "paper",
              named |-> job.call.store # Unnamed \/ job.call.log # Unnamed,
              open |-> job.call.command = "submit"] : o \in kept}]
       /\ cmJournal' = Journalled(job, job.orders # {} /\ kept = {})
  /\ OpenStore(job.route, SelectedSleeves(job.call))
  /\ cmJobs' = cmJobs \ {job}
  /\ UNCHANGED <<cmConfig, cmEnv, cmBatch, cmSnapshot, cmExecuted, cmLeft, cmStory>>

BrokerExecutes ==
  /\ \E log \in DOMAIN cmLog, t \in UNION Range(cmLog) :
       /\ t \in cmLog[log] /\ t.open /\ t.at # "paper"
       /\ [log |-> log, id |-> t.id] \notin cmExecuted
       /\ cmExecuted' = cmExecuted \cup {[log |-> log, id |-> t.id]}
  /\ UNCHANGED <<cmConfig, cmEnv, cmBatch, cmJobs, cmLog, cmCash, cmSnapshot, cmJournal, cmLeft, cmStory>>

\* order-runtime-supervise.
Supervise(call) ==
  /\ Start(call, {[route |-> route, orders |-> {}] : route \in RoutesFor(call)})
  /\ cmStory' = IF call.sleeves = {} /\ call.account = Unnamed /\ call.store = Unnamed /\ call.log = Unnamed /\ Live(call)
                THEN [cmStory EXCEPT !.due = cmExecuted, !.number = cmLeft] ELSE cmStory
  /\ UNCHANGED <<cmConfig, cmEnv, cmBatch, cmLog, cmCash, cmSnapshot, cmJournal, cmExecuted>>

\* What a poll of the broker finds done: the paper gateway fills whatever is open, the broker
\* knows the orders that were sent to the account that asks.
FoundDone(job, t) ==
  /\ t.open /\ t.sleeve \in SelectedSleeves(job.call)
  /\ \/ ~Live(job.call)
     \/ LET own == ClientOf(job.route.account)
            asking == IF own # Unnamed THEN own ELSE ClientOf(Unnamed)
        IN t.at = asking /\ [log |-> job.route.log, id |-> t.id] \in cmExecuted

\* _run_order_runtime_supervisor_for_route: without settings for the route's account the poll
\* goes by those without account.
SuperviseRoute(job) ==
  /\ job.call.command = "supervise"
  /\ cmLog' = [cmLog EXCEPT ![job.route.log] = {[t EXCEPT !.open = @ /\ ~FoundDone(job, t)] : t \in @}]
  /\ cmJournal' = Journalled(job, ClientOf(job.route.account) = Unnamed)
  /\ OpenStore(job.route, SelectedSleeves(job.call))
  /\ cmJobs' = cmJobs \ {job}
  /\ cmStory' = IF ~Live(job.call) THEN [cmStory EXCEPT !.pretended = @ \cup {job.route.log}] ELSE cmStory
  /\ UNCHANGED <<cmConfig, cmEnv, cmBatch, cmSnapshot, cmExecuted, cmLeft>>

\* A command is killed between two routes, or while it writes a line of the journal.
KillCommand ==
  /\ cmLeft > 0 /\ cmLeft' = cmLeft - 1
  /\ \E job \in cmJobs :
       /\ cmJobs' = {j \in cmJobs : j.number # job.number}
       /\ cmStory' = IF job.number = cmStory.number THEN [cmStory EXCEPT !.number = 0, !.due = {}] ELSE cmStory
       /\ cmJournal' \in {cmJournal, Appended(cmJournal, CutLine)}
  /\ UNCHANGED <<cmConfig, cmEnv, cmBatch, cmLog, cmCash, cmSnapshot, cmExecuted>>

--------------------------------------------------------------------------------
(* Reports.                                                                       *)
Opens(route) == {t \in cmLog[route.log] : t.open}

\* OrderRuntimeStatusReport.needs_attention, as far as orders go.
StatusLevel(route, sleeves) == IF Opens(route) # {} THEN "attention" ELSE "ok"

\* build_recovery_account_report: lines of the account before those of others.
LastCycles(route, sleeves) ==
  LET own == UNION {LatestJournalLine(s, route.account) : s \in sleeves}
  IN IF own # {} THEN own ELSE UNION {LatestJournalLine(s, Unnamed) : s \in sleeves}

RecoveryLevel(route, sleeves) ==
  CASE LastCycles(route, sleeves) \cap {CutLine, SpoiltLine} # {} -> "failed"
    [] cmLog[route.log] = {} -> "blocked"
    [] \/ Opens(route) # {} \/ LastCycles(route, sleeves) = {}
       \/ \E line \in LastCycles(route, sleeves) : line.snapshot \in {"stale", "invalid"} -> "attention"
    [] OTHER -> "ok"

\* build_runtime_health_report looks at the last line of a sleeve, whichever command wrote it,
\* and at the last three; sessionOpen is the market's gate.
HealthLevel(route, sleeves, sessionOpen) ==
  LET last(s) == LatestJournalLine(s, Unnamed)
      lines(s) == SelectSeq(cmJournal, LAMBDA line : line.sleeve = s)
      failing(s) == Len(lines(s)) >= 3 /\ \A n \in Len(lines(s)) - 2 .. Len(lines(s)) : lines(s)[n].failed
  IN CASE \E s \in sleeves : last(s) \cap {CutLine, SpoiltLine} # {} -> "failed"
       [] \E s \in sleeves : failing(s) \/ \E line \in last(s) : line.snapshot = "invalid" -> "critical"
       [] \/ \E s \in sleeves : last(s) = {} \/ \E line \in last(s) : line.snapshot = "stale"
          \/ Opens(route) # {} \/ cmLog[route.log] = {} \/ ~sessionOpen -> "attention"
       [] OTHER -> "ok"

\* order-runtime-status, runtime-recovery-status, runtime-health and runtime-preflight: the
\* worst of the routes. Each opens the stores, and so writes them.
Report(call, sessionOpen) ==
  LET routes == RoutesFor(call)
      sleeves == SelectedSleeves(call)
      level(route) == CASE call.command = "recovery" -> RecoveryLevel(route, sleeves)
                        [] call.command = "health" -> HealthLevel(route, sleeves, sessionOpen)
                        [] OTHER -> StatusLevel(route, sleeves)
  IN /\ Start(call, {})
     /\ cmCash' = [store \in DOMAIN cmCash |->
          FoldLeft(LAMBDA cash, route : Opened(cash, sleeves, CurrencyOf(route.scope), route.account), cmCash[store],
                   SetToSeq({route \in routes : route.store = store}))]
     /\ cmReport' = [of |-> call, fine |-> routes # {} /\ \A route \in routes : level(route) = "ok"]
     /\ UNCHANGED <<cmConfig, cmEnv, cmBatch, cmLog, cmSnapshot, cmJournal, cmExecuted, cmStory>>

--------------------------------------------------------------------------------
(* Cash.                                                                          *)
\* _broker_account_for_sleeve_market and _resolve_sleeve_account_store_path.
SleeveRoute(s, scope) ==
  LET named == AccountForScope(s, scope)
      only == IF named = Unnamed /\ Cardinality(AccountsOf(s)) = 1 THEN AccountsOf(s) ELSE {named}
  IN {[account |-> a, scope |-> IF a = Unnamed THEN scope ELSE cmConfig.accounts[a].scope,
       store |-> IF a = Unnamed THEN Configured(s).store ELSE cmConfig.accounts[a].store] : a \in only}

\* virtual-account-transfer-cash opens the sleeve's default store, and names no account.
TransferCash(call, from, to) ==
  /\ from # to
  /\ Start(call, {})
  /\ \E s \in call.sleeves : \E route \in SleeveRoute(s, Unnamed) :
       LET cash == Opened(cmCash[route.store], {from, to}, CurrencyOf(route.scope), Unnamed)
       IN cmCash' = IF cash[from] = 0 THEN cmCash  \* more than there is: nothing is written
                    ELSE [cmCash EXCEPT ![route.store] = [cash EXCEPT ![from] = @ - 1, ![to] = @ + 1]]
  /\ UNCHANGED <<cmConfig, cmEnv, cmBatch, cmLog, cmSnapshot, cmJournal, cmExecuted, cmStory>>

\* Mutant: the residual is the balance, whoever owns cash already.
ResidualAlone(cash, balance) == balance
CashTotal(cash, sleeves) == FoldLeft(LAMBDA sum, s : sum + cash[s], 0, SetToSeq(sleeves \cap DOMAIN cash))
\* VirtualSleeveAccountStore.sync_account_cash: what no other sleeve has.
ResidualOf(cash, balance) ==
  LET rest == balance - CashTotal(cash, DOMAIN cash \ {Residual}) IN IF rest > 0 THEN rest ELSE 0

\* virtual-account-sync-cash keeps the balance under the account's id, kis-account-sync under
\* the default id.
SyncCash(call, balance) ==
  /\ Start(call, {})
  /\ \E route \in IF call.command = "sync-cash" THEN RouteFor(call, Unnamed)
                   ELSE UNION {SleeveRoute(s, Configured(s).home) : s \in call.sleeves} :
       LET key == IF call.command = "account-sync" \/ route.account = Unnamed THEN "default" ELSE "own"
           cash == Opened(cmCash[route.store], {Residual}, CurrencyOf(route.scope), route.account)
       IN /\ cmCash' = [cmCash EXCEPT ![route.store] = [cash EXCEPT ![Residual] = ResidualOf(cash, balance)]]
          /\ cmSnapshot' = [cmSnapshot EXCEPT ![route.store] = [@ EXCEPT ![key] = balance]]
          /\ cmStory' = [cmStory EXCEPT !.balance = [@ EXCEPT ![route.store] =
               [seen |-> balance, owned |-> CashTotal(cash, DOMAIN cash \ {Residual}), known |-> DOMAIN cash]]]
  /\ UNCHANGED <<cmConfig, cmEnv, cmBatch, cmLog, cmJournal, cmExecuted>>

\* build_cash_availability_report: the balance is looked up under the account's id alone, its
\* age under the default id as well. Nothing is written.
Availability(route, fresh) ==
  LET snapshot == cmSnapshot[route.store]
      key == IF route.account = Unnamed THEN "default" ELSE "own"
      balance == IF snapshot[key] = Unnamed THEN 0 ELSE snapshot[key]
      cash == cmCash[route.store]
      allocated == CashTotal(cash, DOMAIN cash \ {Residual})
      residual == IF Residual \in DOMAIN cash THEN cash[Residual] ELSE 0
      rest == IF balance > allocated THEN balance - allocated ELSE 0
      known == snapshot["own"] # Unnamed \/ snapshot["default"] # Unnamed
  IN [store |-> route.store,
      available |-> IF fresh /\ known /\ rest > residual THEN rest ELSE residual,
      warned |-> ~known \/ ~fresh \/ allocated + residual # balance]

CashAvailability(call, fresh) ==
  /\ Start(call, {})
  /\ cmReport' = [of |-> call, fine |-> {Availability(route, fresh) : route \in RoutesFor(call)}]
  /\ UNCHANGED <<cmConfig, cmEnv, cmBatch, cmLog, cmCash, cmSnapshot, cmJournal, cmExecuted, cmStory>>

--------------------------------------------------------------------------------
CommandsInit ==
  /\ cmConfig \in Configurations /\ cmEnv \in Environments
  /\ cmBatch = [number |-> 1, orders |-> cmConfig.orders]
  /\ cmJobs = {}
  /\ cmLog = [log \in Range(LogBeside) |-> {}]
  /\ cmCash = [store \in DOMAIN LogBeside |-> <<>>]
  /\ cmSnapshot = [store \in DOMAIN LogBeside |-> [own |-> Unnamed, default |-> Unnamed]]
  /\ cmJournal = <<>> /\ cmExecuted = {} /\ cmReport = Unnamed /\ cmLeft = CommandsInAll
  /\ cmStory = [due |-> {}, number |-> 0, pretended |-> {},
                balance |-> [store \in DOMAIN LogBeside |-> Unnamed]]

\* A command works through its routes in one order.
OfCommand(number) == CHOOSE j \in cmJobs : j.number = number

CommandsNext ==
  \/ /\ cmReport' = Unnamed
     /\ \/ /\ cmLeft > 0
           /\ \/ \E call \in Calls("run") : RunCycle(call)
              \/ \E call \in Calls("submit") \cup Calls("paper-smoke") : SubmitBatch(call)
              \/ \E call \in Calls("supervise") : Supervise(call)
              \/ \E call \in Calls("transfer-cash"), t \in Transfers : TransferCash(call, t.from, t.to)
              \/ \E call \in Calls("sync-cash") \cup Calls("account-sync"), balance \in BrokerBalances : SyncCash(call, balance)
        \/ \E job \in {OfCommand(j.number) : j \in cmJobs} : SubmitRoute(job) \/ SuperviseRoute(job)
        \/ BrokerExecutes \/ KillCommand
  \/ /\ cmLeft > 0
     /\ \/ \E call \in UNION {Calls(c) : c \in {"status", "recovery", "health"}}, open \in BOOLEAN : Report(call, open)
        \/ \E call \in Calls("cash-availability"), fresh \in BOOLEAN : CashAvailability(call, fresh)

--------------------------------------------------------------------------------
\* A live order that was executed before a supervise of all sleeves began is known to its
\* log when that has worked through its routes, whichever accounts and logs the submit
\* found, and whatever ran in between. It has to have been sent without naming a file.
SupervisedToTheEnd ==
  LET mine(jobs) == {j \in jobs : j.number = cmStory.number}
  IN mine(cmJobs) # {} /\ mine(cmJobs') = {} /\ cmStory'.number = cmStory.number =>
       \A x \in cmStory.due : \A t \in cmLog'[x.log] : t.id = x.id => t.named \/ ~t.open

\* No report says that all is well while the broker still works on an order of the sleeves
\* it is about, sent without naming a file and not filled by a supervise on paper.
NothingOverlooked ==
  cmReport' # Unnamed /\ cmReport'.of.command \in {"status", "recovery", "health"} /\ cmReport'.of.account = Unnamed =>
    \A log \in DOMAIN cmLog \ cmStory.pretended : \A t \in cmLog[log] :
      t.sleeve \in SelectedSleeves(cmReport'.of) /\ t.at # "paper" /\ ~t.named /\ [log |-> log, id |-> t.id] \notin cmExecuted
        => ~cmReport'.fine

\* Whichever commands open a sleeve first in which stores: where the broker's balance has not
\* been looked at, the stores of a currency together hold no more than the sleeves are given.
CashAsConfigured ==
  \A currency \in {"KRW", "USD"} :
    LET mine(a) == CurrencyOf(cmConfig.accounts[a].scope) = currency
        accounts == {a \in DOMAIN cmConfig.accounts : mine(a) /\ cmStory'.balance[cmConfig.accounts[a].store] = Unnamed}
        given(s) == IF DOMAIN Configured(s).cashBy # {} THEN StartingCash(s, currency, Unnamed)
                    ELSE IF Configured(s).account \in accounts THEN Configured(s).cash ELSE 0
        held(a) == CashTotal(cmCash'[cmConfig.accounts[a].store], DOMAIN cmCash'[cmConfig.accounts[a].store])
    IN FoldLeft(LAMBDA sum, a : sum + held(a), 0, SetToSeq(accounts)) <=
         FoldLeft(LAMBDA sum, s : sum + given(s), 0, SetToSeq(DOMAIN cmConfig.sleeves))

\* Once a balance was looked at, a store's cash adds up to it, or to what the sleeves own if
\* that is more, and only sleeves it did not know yet bring their own to it, once.
CashAddsUp ==
  \A store \in DOMAIN cmCash : LET booked == cmStory'.balance[store] IN booked # Unnamed =>
    LET cash == cmCash'[store]
        least == IF booked.seen > booked.owned THEN booked.seen ELSE booked.owned
        brought == [s \in (DOMAIN cash \ booked.known) \cap DOMAIN cmConfig.sleeves |->
                      Configured(s).cash + FoldLeft(LAMBDA sum, c : sum + Configured(s).cashBy[c], 0,
                                                    SetToSeq(DOMAIN Configured(s).cashBy))]
    IN CashTotal(cash, DOMAIN cash) \in least .. least + CashTotal(brought, DOMAIN brought)

\* Cash that is offered without a warning is there: with what the sleeves own it makes up the
\* balance that was last looked at, if that was always done under the account's own id.
AvailableIsThere ==
  cmReport' # Unnamed /\ cmReport'.of.command = "cash-availability" =>
    \A a \in cmReport'.fine :
      LET cash == cmCash[a.store]
      IN a.warned \/ cmSnapshot[a.store]["default"] # Unnamed
           \/ a.available + CashTotal(cash, DOMAIN cash \ {Residual}) = cmStory.balance[a.store].seen

\* A submit that names neither account nor store sends each order of the batch to one
\* account, that of its own market where the sleeve has one.
EveryOrderRouted ==
  \A call \in Calls("submit") : call.account = Unnamed /\ call.store = Unnamed =>
    LET jobs == cmJobs' \ cmJobs
    IN jobs # {} /\ (\A j \in jobs : j.call = call) =>
         \A o \in cmBatch.orders : \E j \in jobs :
           /\ \A k \in jobs : k = j <=> \E x \in k.orders : x.order = o
           /\ o.sleeve \in SelectedSleeves(call) /\ o.scope \in DOMAIN Configured(o.sleeve).routes => j.route.scope = o.scope

CommandsKept == SupervisedToTheEnd /\ NothingOverlooked /\ CashAsConfigured
                /\ CashAddsUp /\ AvailableIsThere /\ EveryOrderRouted
CommandsKeepRules == [][CommandsKept]_commandVars
================================================================================
