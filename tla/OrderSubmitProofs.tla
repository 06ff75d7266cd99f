--------------------------- MODULE OrderSubmitProofs ---------------------------
(***************************************************************************)
(* Proofs about OrderSubmit: no line of a batch is sent twice, whatever is  *)
(* dropped from it in between; with the live gateway the sleeve's orders    *)
(* are covered by its own shares and its own cash, however supervise passes *)
(* are cut off; and a submit moves every symbol towards the target of its   *)
(* batch as long as nothing of it is overlooked, lapsed or ahead of the log. *)
(***************************************************************************)
EXTENDS OrderSubmit, InductionLemmas

\* The two sides of an order; an order of a batch, and the ticket it becomes.
Sides == {"buy", "sell"}

OrderType ==
  [symbol: Symbols, target: Nat, side: Sides, quantity: Nat \ {0}, line: Nat \ {0}]

TicketType ==
  [symbol: Symbols, target: Nat, side: Sides, quantity: Nat \ {0}, line: Nat \ {0},
   log: {"open", "filled", "closed"}, broker: {"none", "working", "executed", "closed"},
   applied: BOOLEAN, missed: BOOLEAN]

\* The orders that agree with one side and one target for each symbol.
Asked(side, target) ==
  {o \in OrderType : o.side = side[o.symbol] /\ o.target = target[o.symbol]}

\* All orders of a batch for one symbol have one side and one target.
OneWay(orders) ==
  \E side \in [Symbols -> Sides], target \in [Symbols -> Nat] :
    orders \in Seq(Asked(side, target))

\* How far an order is: in the log, at the broker, in the account.
Stage(t) == <<t.log, t.broker, t.applied>>
\* How far an order can be with the paper gateway, and with the live one.
PaperStages ==
  {<<"open", "working", FALSE>>, <<"filled", "executed", FALSE>>, <<"filled", "executed", TRUE>>}
LiveStages ==
  {<<"open", "working", FALSE>>, <<"open", "executed", FALSE>>, <<"open", "executed", TRUE>>,
   <<"filled", "executed", TRUE>>, <<"closed", "closed", FALSE>>, <<"closed", "none", FALSE>>,
   <<"open", "closed", FALSE>>, <<"closed", "executed", FALSE>>, <<"closed", "executed", TRUE>>}

\* The paper gateway's fills are logged before they are applied, the live one's
\* applied before they are logged.
StagesInOrder ==
  \A k \in Ids : Stage(tickets[k]) \in (IF Paper THEN PaperStages ELSE LiveStages)

\* An execution that is neither open nor logged nor applied was missed when its
\* ticket expired.
Lost(t) == Stage(t) = <<"closed", "executed", FALSE>>
LostIsMissed == \A k \in Ids : Lost(tickets[k]) => tickets[k].missed

\* A pass works on what its gateway reports as executed.
PassFits ==
  /\ IF Paper THEN supervisor.pc # "rows" ELSE supervisor.pc # "apply"
  /\ \A k \in supervisor.todo : tickets[k].broker = "executed"

\* Without a crash the account is ahead of the log only for a row the pass that
\* is under way has still to log.
AheadOnlyInPass ==
  ~Paper /\ crashes = 0 =>
    \A k \in Ids : Stage(tickets[k]) = <<"open", "executed", TRUE>> =>
                     supervisor.pc = "rows" /\ k \in supervisor.todo

\* A line that was sent belongs to a batch whose first order has its ticket.
PlacedLogged ==
  /\ DOMAIN placed \subseteq (1..MaxBatches) \X (Nat \ {0})
  /\ \A l \in DOMAIN placed :
       placed[l] = 1 /\ l[1] <= artifact.batch /\ <<l[1], 1>> \in Ids

\* The batch file holds orders of one kind for each symbol, none before the first.
BatchSound ==
  /\ OneWay(artifact.orders)
  /\ artifact.batch = 0 => artifact.orders = << >>

\* What holds whenever a command or the broker takes a step.
SubmitInv ==
  /\ TypeOK /\ IsFiniteSet(Ids)
  /\ BatchSound
  /\ StagesInOrder /\ LostIsMissed /\ PassFits /\ AheadOnlyInPass
  /\ PlacedLogged
  /\ NeverOversold /\ CashCovered

-------------------------------------------------------------------------------
(* Sums over tickets.  The sum over some of them is taken over all of them,   *)
(* the others weighing nothing: so sums over different sets compare ticket by *)
(* ticket.                                                                    *)

\* The weights of tickets, in shares and in cash, and the sums over them.
Moves(t, S) == [k \in DOMAIN t |-> IF k \in S THEN Signed(t[k]) ELSE 0]
Costs(t, S) == [k \in DOMAIN t |->
                  IF k \in S THEN Signed(t[k]) * Price[t[k].symbol] ELSE 0]
Moved(t, S) == SumFunctionOnSet(Moves(t, S), DOMAIN t)
Spent(t, S) == SumFunctionOnSet(Costs(t, S), DOMAIN t)

\* Finitely many tickets, each of its type.
Booked(t) == IsFiniteSet(DOMAIN t) /\ \A k \in DOMAIN t : t[k] \in TicketType

\* What an order moves is a number of shares, what it costs a sum of money.
LEMMA SignedType ==
  ASSUME NEW o, o.side \in Sides, o.quantity \in Nat, o.symbol \in Symbols
  PROVE  Signed(o) \in Int /\ Signed(o) * Price[o.symbol] \in Int
<1>1. Price[o.symbol] \in Nat
  BY SubmitAssumption
<1>2. Signed(o) \in Int
  BY DEF Signed
<1> QED BY <1>1, <1>2

\* So does each ticket of a well-typed log,
LEMMA TicketSigned ==
  ASSUME NEW t, Booked(t), NEW k \in DOMAIN t
  PROVE  Signed(t[k]) \in Int /\ Signed(t[k]) * Price[t[k].symbol] \in Int
<1>1. t[k] \in TicketType
  BY DEF Booked
<1>2. t[k].side \in Sides /\ t[k].quantity \in Nat /\ t[k].symbol \in Symbols
  BY <1>1 DEF TicketType
<1> QED BY <1>2, SignedType

\* and the sums over any of its tickets are numbers.
LEMMA MovesType ==
  ASSUME NEW t, Booked(t), NEW S
  PROVE  /\ \A k \in DOMAIN t : Moves(t, S)[k] \in Int /\ Costs(t, S)[k] \in Int
         /\ Moved(t, S) \in Int /\ Spent(t, S) \in Int
<1>1. ASSUME NEW k \in DOMAIN t PROVE Moves(t, S)[k] \in Int /\ Costs(t, S)[k] \in Int
  <2>1. Signed(t[k]) \in Int /\ Signed(t[k]) * Price[t[k].symbol] \in Int
    BY TicketSigned
  <2>2. 0 \in Int
    OBVIOUS
  <2>3. Moves(t, S)[k] = IF k \in S THEN Signed(t[k]) ELSE 0
    BY DEF Moves
  <2>4. Costs(t, S)[k] = IF k \in S THEN Signed(t[k]) * Price[t[k].symbol] ELSE 0
    BY DEF Costs
  <2> QED BY <2>1, <2>2, <2>3, <2>4
<1>2. IsFiniteSet(DOMAIN t)
  BY DEF Booked
<1>3. Moved(t, S) \in Int /\ Spent(t, S) \in Int
  BY <1>1, <1>2, SumType DEF Moved, Spent
<1> QED BY <1>1, <1>3

\* Shares and Value are such sums.
LEMMA MovedIs ==
  ASSUME NEW t, Booked(t), NEW S \in SUBSET DOMAIN t
  PROVE  /\ SumFunction([k \in S |-> Signed(t[k])]) = Moved(t, S)
         /\ SumFunction([k \in S |-> Signed(t[k]) * Price[t[k].symbol]]) = Spent(t, S)
<1> DEFINE V == [k \in S |-> Signed(t[k])]
           U == [k \in S |-> Signed(t[k]) * Price[t[k].symbol]]
           W == Moves(t, S)
           X == Costs(t, S)
<1>1. IsFiniteSet(DOMAIN t) /\ IsFiniteSet(S)
  BY FS_Subset DEF Booked
<1>2. \A k \in DOMAIN t : W[k] \in Int /\ X[k] \in Int
  BY MovesType
<1>3. \A k \in DOMAIN t \ S : W[k] = 0 /\ X[k] = 0
  BY DEF Moves, Costs
<1>4. \A k \in S : V[k] = W[k] /\ U[k] = X[k]
  BY DEF Moves, Costs
<1>5. SumFunction(V) = SumFunctionOnSet(V, S) /\ SumFunction(U) = SumFunctionOnSet(U, S)
  BY DEF SumFunction
<1> HIDE DEF V, U, W, X
<1>6. SumFunctionOnSet(V, S) = SumFunctionOnSet(W, S)
  BY <1>1, <1>4, SumSame
<1>7. SumFunctionOnSet(U, S) = SumFunctionOnSet(X, S)
  BY <1>1, <1>4, SumSame
<1>8. SumFunctionOnSet(W, DOMAIN t) = SumFunctionOnSet(W, S)
  BY <1>1, <1>2, <1>3, SumWithin
<1>9. SumFunctionOnSet(X, DOMAIN t) = SumFunctionOnSet(X, S)
  BY <1>1, <1>2, <1>3, SumWithin
<1>10. SumFunction(V) = Moved(t, S) /\ SumFunction(U) = Spent(t, S)
  BY <1>5, <1>6, <1>7, <1>8, <1>9 DEF Moved, Spent, W, X
<1> QED BY <1>10 DEF V, U

\* The log's tickets are such tickets.
LEMMA LogBooked == ASSUME SubmitInv PROVE Booked(tickets)
<1>1. \A k \in Ids : tickets[k] \in TicketType
  BY DEF SubmitInv, TypeOK, TicketType, Sides
<1> QED BY <1>1 DEF SubmitInv, Booked, Ids

\* What Shares and Value say of any of the tickets.
LEMMA SharesAre ==
  ASSUME SubmitInv, NEW S \in SUBSET Ids
  PROVE  /\ Shares(S) = Moved(tickets, S) /\ Shares(S) \in Int
         /\ Value(S) = Spent(tickets, S) /\ Value(S) \in Int
<1>1. Booked(tickets)
  BY LogBooked
<1>2. S \in SUBSET DOMAIN tickets
  BY DEF Ids
<1>3. Moved(tickets, S) \in Int /\ Spent(tickets, S) \in Int
  BY <1>1, MovesType
<1>4. Shares(S) = Moved(tickets, S) /\ Value(S) = Spent(tickets, S)
  BY <1>1, <1>2, MovedIs DEF Shares, Value
<1> QED BY <1>3, <1>4

\* What is held and what is on its way are numbers of shares.
LEMMA HeldType ==
  ASSUME SubmitInv, NEW s \in Symbols
  PROVE  /\ Held(s) \in Int /\ Pending(s) \in Int /\ Projected(s) \in Int
         /\ Held(s) = Initial[s] + Moved(tickets, Of(s) \cap Applied)
         /\ Pending(s) = Moved(tickets, Of(s) \cap Open)
         /\ Projected(s) = Held(s) + Pending(s) + Moved(tickets, Of(s) \cap Unapplied)
<1>1. /\ Of(s) \cap Applied \in SUBSET Ids /\ Of(s) \cap Open \in SUBSET Ids
      /\ Of(s) \cap Unapplied \in SUBSET Ids
  BY DEF Of
<1>2. Initial[s] \in Int
  BY SubmitAssumption
<1>3. Shares(Of(s) \cap Applied) \in Int /\ Shares(Of(s) \cap Open) \in Int
      /\ Shares(Of(s) \cap Unapplied) \in Int
  BY <1>1, SharesAre
<1>4. /\ Shares(Of(s) \cap Applied) = Moved(tickets, Of(s) \cap Applied)
      /\ Shares(Of(s) \cap Open) = Moved(tickets, Of(s) \cap Open)
      /\ Shares(Of(s) \cap Unapplied) = Moved(tickets, Of(s) \cap Unapplied)
  BY <1>1, SharesAre
<1> QED BY <1>2, <1>3, <1>4 DEF Held, Pending, Projected

-------------------------------------------------------------------------------
(* What the broker has executed, and what it may.                             *)

\* The tickets that count for what is offered of a symbol, bought with the
\* sleeve's cash, and held in the end if all orders execute.
Offered(t, s) ==
  {k \in DOMAIN t :
     /\ t[k].symbol = s
     /\ \/ t[k].broker = "executed" /\ ~(t[k].missed /\ t[k].side = "sell")
        \/ t[k].broker = "working" /\ t[k].side = "sell"}
Bought(t) ==
  {k \in DOMAIN t : \/ t[k].broker = "executed" /\ ~(t[k].missed /\ t[k].side = "buy")
                    \/ t[k].broker = "working" /\ t[k].side = "buy"}
Exposed(t, s) ==
  {k \in DOMAIN t : t[k].symbol = s /\ t[k].broker \in {"executed", "working"}}

\* The two coverage properties and Exposure in these terms, before and after a step.
LEMMA CoverageIs ==
  ASSUME Booked(tickets)
  PROVE  /\ NeverOversold <=>
              (~Paper => \A s \in Symbols :
                           Initial[s] + Moved(tickets, Offered(tickets, s)) >= 0)
         /\ CashCovered <=> (~Paper => Cash - Spent(tickets, Bought(tickets)) >= 0)
         /\ \A s \in Symbols :
              Exposure(s) = Initial[s] + Moved(tickets, Exposed(tickets, s))
<1>1. ASSUME NEW s \in Symbols
      PROVE  /\ Of(s) \cap ((Executed \ Missed("sell")) \cup (Working \cap Side("sell"))) = Offered(tickets, s)
             /\ Of(s) \cap (Executed \cup Working) = Exposed(tickets, s)
  <2>1. \A k : k \in Of(s) \cap ((Executed \ Missed("sell")) \cup (Working \cap Side("sell")))
                <=> k \in Offered(tickets, s)
    BY DEF Of, Executed, Working, Missed, Side, Offered, Ids
  <2>2. \A k : k \in Of(s) \cap (Executed \cup Working) <=> k \in Exposed(tickets, s)
    BY DEF Of, Executed, Working, Exposed, Ids
  <2> QED BY <2>1, <2>2
<1>2. (Executed \ Missed("buy")) \cup (Working \cap Side("buy")) = Bought(tickets)
  BY DEF Executed, Working, Missed, Side, Bought, Ids
<1>3. /\ \A s \in Symbols : Offered(tickets, s) \in SUBSET DOMAIN tickets
                           /\ Exposed(tickets, s) \in SUBSET DOMAIN tickets
      /\ Bought(tickets) \in SUBSET DOMAIN tickets
  BY DEF Offered, Bought, Exposed
<1>4. \A s \in Symbols : /\ Shares(Offered(tickets, s)) = Moved(tickets, Offered(tickets, s))
                         /\ Shares(Exposed(tickets, s)) = Moved(tickets, Exposed(tickets, s))
  BY <1>3, MovedIs DEF Shares
<1>5. Value(Bought(tickets)) = Spent(tickets, Bought(tickets))
  BY <1>3, MovedIs DEF Value
<1> QED BY <1>1, <1>2, <1>4, <1>5 DEF NeverOversold, CashCovered, Exposure

\* The same after a step.
LEMMA CoverageIsPrimed ==
  ASSUME Booked(tickets')
  PROVE  /\ NeverOversold' <=>
              (~Paper' => \A s \in Symbols :
                            Initial[s] + Moved(tickets', Offered(tickets', s)) >= 0)
         /\ CashCovered' <=> (~Paper' => Cash - Spent(tickets', Bought(tickets')) >= 0)
         /\ \A s \in Symbols :
              Exposure(s)' = Initial[s] + Moved(tickets', Exposed(tickets', s))
<1> DEFINE u == tickets'
<1>1. ASSUME NEW s \in Symbols
      PROVE  /\ (Of(s) \cap ((Executed \ Missed("sell")) \cup (Working \cap Side("sell"))))' = Offered(u, s)
             /\ (Of(s) \cap (Executed \cup Working))' = Exposed(u, s)
  <2>1. \A k : k \in (Of(s) \cap ((Executed \ Missed("sell")) \cup (Working \cap Side("sell"))))'
                <=> k \in Offered(u, s)
    BY DEF Of, Executed, Working, Missed, Side, Offered, Ids
  <2>2. \A k : k \in (Of(s) \cap (Executed \cup Working))' <=> k \in Exposed(u, s)
    BY DEF Of, Executed, Working, Exposed, Ids
  <2> QED BY <2>1, <2>2
<1>2. ((Executed \ Missed("buy")) \cup (Working \cap Side("buy")))' = Bought(u)
  BY DEF Executed, Working, Missed, Side, Bought, Ids
<1>3. /\ \A s \in Symbols : Offered(u, s) \in SUBSET DOMAIN u
                           /\ Exposed(u, s) \in SUBSET DOMAIN u
      /\ Bought(u) \in SUBSET DOMAIN u
  BY DEF Offered, Bought, Exposed
<1>4. \A s \in Symbols :
        /\ SumFunction([k \in Offered(u, s) |-> Signed(u[k])]) = Moved(u, Offered(u, s))
        /\ SumFunction([k \in Exposed(u, s) |-> Signed(u[k])]) = Moved(u, Exposed(u, s))
  BY <1>3, MovedIs
<1>5. SumFunction([k \in Bought(u) |-> Signed(u[k]) * Price[u[k].symbol]]) = Spent(u, Bought(u))
  BY <1>3, MovedIs
<1>6. ASSUME NEW s \in Symbols
      PROVE  /\ Shares(Of(s) \cap ((Executed \ Missed("sell")) \cup (Working \cap Side("sell"))))'
                 = Moved(u, Offered(u, s))
             /\ Shares(Of(s) \cap (Executed \cup Working))' = Moved(u, Exposed(u, s))
  BY <1>1, <1>4 DEF Shares
<1>7. Value((Executed \ Missed("buy")) \cup (Working \cap Side("buy")))' = Spent(u, Bought(u))
  BY <1>2, <1>5 DEF Value
<1> HIDE DEF u
<1>8. NeverOversold' <=>
        (~Paper' => \A s \in Symbols : Initial[s] + Moved(u, Offered(u, s)) >= 0)
  BY <1>6 DEF NeverOversold
<1>9. CashCovered' <=> (~Paper' => Cash - Spent(u, Bought(u)) >= 0)
  BY <1>7 DEF CashCovered
<1>10. \A s \in Symbols : Exposure(s)' = Initial[s] + Moved(u, Exposed(u, s))
  BY <1>6 DEF Exposure
<1> QED BY <1>8, <1>9, <1>10 DEF u

\* One ticket after another: what is offered does not grow and what is bought
\* does not either when orders execute or are closed.
Settles(t, u) ==
  /\ DOMAIN u = DOMAIN t
  /\ \A k \in DOMAIN t :
       /\ u[k].symbol = t[k].symbol /\ u[k].side = t[k].side /\ u[k].quantity = t[k].quantity
       /\ \/ u[k].broker = t[k].broker
          \/ t[k].broker = "working" /\ u[k].broker \in {"executed", "closed"}
       /\ t[k].missed => u[k].missed
       /\ Lost(u[k]) => Lost(t[k]) \/ u[k].missed

\* Then no less is offered and no more is bought with cash than was before.
LEMMA SettledCovered ==
  ASSUME NEW t, NEW u, Booked(t), Booked(u), Settles(t, u), NEW s
  PROVE  /\ Moved(t, Offered(t, s)) <= Moved(u, Offered(u, s))
         /\ Spent(u, Bought(u)) <= Spent(t, Bought(t))
<1> DEFINE V == Moves(t, Offered(t, s))
           W == Moves(u, Offered(u, s))
           X == Costs(t, Bought(t))
           Y == Costs(u, Bought(u))
<1>1. IsFiniteSet(DOMAIN t) /\ DOMAIN u = DOMAIN t
  BY DEF Booked, Settles
<1>2. \A k \in DOMAIN t : V[k] \in Int /\ X[k] \in Int /\ W[k] \in Int /\ Y[k] \in Int
  BY <1>1, MovesType
<1>3. ASSUME NEW k \in DOMAIN t PROVE V[k] <= W[k] /\ Y[k] <= X[k]
  <2> DEFINE q == t[k].quantity
             p == Price[t[k].symbol]
  <2>1. /\ q \in Nat /\ q > 0 /\ p \in Nat
        /\ u[k].symbol = t[k].symbol /\ u[k].side = t[k].side /\ u[k].quantity = q
        /\ t[k].side \in Sides
    BY SubmitAssumption DEF Booked, TicketType, Settles
  <2>2. Signed(t[k]) = (IF t[k].side = "buy" THEN q ELSE -q) /\ Signed(u[k]) = Signed(t[k])
    BY <2>1 DEF Signed
  <2>3. q * p \in Nat /\ (-q) * p = -(q * p)
    <3> HIDE DEF q, p
    <3> QED BY <2>1
  <2>6. /\ V[k] = (IF k \in Offered(t, s) THEN Signed(t[k]) ELSE 0)
        /\ W[k] = (IF k \in Offered(u, s) THEN Signed(t[k]) ELSE 0)
        /\ X[k] = (IF k \in Bought(t) THEN Signed(t[k]) * p ELSE 0)
        /\ Y[k] = (IF k \in Bought(u) THEN Signed(t[k]) * p ELSE 0)
    BY <1>1, <2>1, <2>2 DEF Moves, Costs
  <2>7. /\ k \in Offered(t, s) <=>
             /\ t[k].symbol = s
             /\ \/ t[k].broker = "executed" /\ ~(t[k].missed /\ t[k].side = "sell")
                \/ t[k].broker = "working" /\ t[k].side = "sell"
        /\ k \in Bought(t) <=>
             \/ t[k].broker = "executed" /\ ~(t[k].missed /\ t[k].side = "buy")
             \/ t[k].broker = "working" /\ t[k].side = "buy"
    BY DEF Offered, Bought
  <2>8. /\ k \in Offered(u, s) <=>
             /\ t[k].symbol = s
             /\ \/ u[k].broker = "executed" /\ ~(u[k].missed /\ t[k].side = "sell")
                \/ u[k].broker = "working" /\ t[k].side = "sell"
        /\ k \in Bought(u) <=>
             \/ u[k].broker = "executed" /\ ~(u[k].missed /\ t[k].side = "buy")
             \/ u[k].broker = "working" /\ t[k].side = "buy"
    BY <1>1, <2>1 DEF Offered, Bought
  <2>9. /\ t[k].broker = "executed" => u[k].broker = "executed"
        /\ u[k].broker = "working" => t[k].broker = "working"
        /\ u[k].broker = "executed" => t[k].broker = "executed" \/ t[k].broker = "working"
        /\ t[k].missed => u[k].missed
    BY DEF Settles
  <2> HIDE DEF V, W, X, Y
  <2>4. CASE t[k].side = "buy"
    <3>1. Signed(t[k]) = q
      BY <2>2, <2>4
    <3>2. k \in Offered(t, s) => k \in Offered(u, s)
      BY <2>4, <2>7, <2>8, <2>9
    <3>3. k \in Bought(u) => k \in Bought(t)
      BY <2>4, <2>7, <2>8, <2>9
    <3> HIDE DEF q, p
    <3> QED BY <2>1, <2>3, <2>6, <3>1, <3>2, <3>3
  <2>5. CASE t[k].side = "sell"
    <3>1. Signed(t[k]) = -q
      BY <2>2, <2>5
    <3>2. k \in Offered(u, s) => k \in Offered(t, s)
      BY <2>5, <2>7, <2>8, <2>9
    <3>3. k \in Bought(t) => k \in Bought(u)
      BY <2>5, <2>7, <2>8, <2>9
    <3> HIDE DEF q, p
    <3> QED BY <2>1, <2>3, <2>6, <3>1, <3>2, <3>3
  <2> QED BY <2>1, <2>4, <2>5 DEF Sides
<1> HIDE DEF V, W, X, Y
<1>4. SumFunctionOnSet(V, DOMAIN t) <= SumFunctionOnSet(W, DOMAIN t)
  BY <1>1, <1>2, <1>3, SumAtMost
<1>5. SumFunctionOnSet(Y, DOMAIN t) <= SumFunctionOnSet(X, DOMAIN t)
  BY <1>1, <1>2, <1>3, SumAtMost
<1> QED BY <1>1, <1>4, <1>5 DEF V, W, X, Y, Moved, Spent

\* So settling keeps both coverage properties.
LEMMA CoverageKept ==
  ASSUME SubmitInv, Booked(tickets'), Settles(tickets, tickets'), gateway' = gateway
  PROVE  NeverOversold' /\ CashCovered'
<1>1. Booked(tickets)
  BY LogBooked
<1>2. ASSUME ~Paper'
      PROVE  /\ \A s \in Symbols : Initial[s] + Moved(tickets', Offered(tickets', s)) >= 0
             /\ Cash - Spent(tickets', Bought(tickets')) >= 0
  <2>1. ~Paper
    BY <1>2 DEF Paper
  <2>2. /\ \A s \in Symbols : Initial[s] + Moved(tickets, Offered(tickets, s)) >= 0
        /\ Cash - Spent(tickets, Bought(tickets)) >= 0
    BY <1>1, <2>1, CoverageIs DEF SubmitInv
  <2>3. ASSUME NEW s \in Symbols
        PROVE  Initial[s] + Moved(tickets', Offered(tickets', s)) >= 0
    <3> DEFINE m == Moved(tickets, Offered(tickets, s))
               n == Moved(tickets', Offered(tickets', s))
    <3>1. m <= n
      BY <1>1, SettledCovered
    <3>2. m \in Int /\ n \in Int
      BY <1>1, MovesType
    <3>3. Initial[s] \in Int /\ Initial[s] + m >= 0
      BY <2>2, SubmitAssumption
    <3> HIDE DEF m, n
    <3>4. Initial[s] + n >= 0
      BY <3>1, <3>2, <3>3
    <3> QED BY <3>4 DEF n
  <2>4. Cash - Spent(tickets', Bought(tickets')) >= 0
    <3> DEFINE m == Spent(tickets, Bought(tickets))
               n == Spent(tickets', Bought(tickets'))
    <3>1. n <= m
      BY <1>1, SettledCovered
    <3>2. m \in Int /\ n \in Int
      BY <1>1, MovesType
    <3>3. Cash \in Int /\ Cash - m >= 0
      BY <2>2, SubmitAssumption
    <3> HIDE DEF m, n
    <3>4. Cash - n >= 0
      BY <3>1, <3>2, <3>3
    <3> QED BY <3>4 DEF n
  <2> QED BY <2>3, <2>4
<1> QED BY <1>2, CoverageIsPrimed

-------------------------------------------------------------------------------
(* The steps that send nothing.                                               *)

\* What a step leaves standing when it sends nothing and the tickets settle.
LEMMA SettledInv ==
  ASSUME SubmitInv, UNCHANGED <<gateway, artifact, placed>>,
         DOMAIN tickets' = Ids, \A k \in Ids : tickets'[k] \in TicketType,
         Settles(tickets, tickets'),
         supervisor' \in [pc: {"idle", "apply", "rows"}, todo: SUBSET Ids],
         crashes' \in 0..MaxCrashes,
         StagesInOrder', PassFits', AheadOnlyInPass'
  PROVE  SubmitInv'
<1>1. Ids' = Ids
  BY DEF Ids
<1>2. Booked(tickets')
  BY DEF SubmitInv, Booked
<1>3. NeverOversold' /\ CashCovered'
  BY <1>2, CoverageKept
<1>4. TypeOK'
  BY <1>1 DEF SubmitInv, TypeOK, TicketType, Sides
<1>5. IsFiniteSet(Ids)'
  BY <1>1 DEF SubmitInv
<1>6. BatchSound'
  BY DEF SubmitInv, BatchSound, OneWay
<1>7. PlacedLogged'
  BY <1>1 DEF SubmitInv, PlacedLogged
<1>8. LostIsMissed'
  <2> SUFFICES ASSUME NEW k \in Ids, Lost(tickets'[k]) PROVE tickets'[k].missed
    BY <1>1 DEF LostIsMissed
  <2>1. /\ tickets[k].missed => tickets'[k].missed
        /\ Lost(tickets[k]) \/ tickets'[k].missed
    BY DEF Settles, Ids
  <2> QED BY <2>1 DEF SubmitInv, LostIsMissed
<1> QED BY <1>3, <1>4, <1>5, <1>6, <1>7, <1>8 DEF SubmitInv

\* Nothing has happened to the tickets.
LEMMA SettledSame ==
  ASSUME SubmitInv, UNCHANGED tickets
  PROVE  /\ DOMAIN tickets' = Ids /\ \A k \in Ids : tickets'[k] \in TicketType
         /\ Settles(tickets, tickets')
BY DEF SubmitInv, TypeOK, TicketType, Sides, Settles, Ids

\* Something has happened to one ticket, and it is not lost by that.
LEMMA SettledOne ==
  ASSUME NEW k \in Ids, DOMAIN tickets' = Ids, \A l \in Ids : l # k => tickets'[l] = tickets[l],
         tickets'[k].symbol = tickets[k].symbol, tickets'[k].side = tickets[k].side,
         tickets'[k].quantity = tickets[k].quantity,
         \/ tickets'[k].broker = tickets[k].broker
         \/ tickets[k].broker = "working" /\ tickets'[k].broker \in {"executed", "closed"},
         tickets[k].missed => tickets'[k].missed,
         Lost(tickets'[k]) => tickets'[k].missed
  PROVE  Settles(tickets, tickets')
<1>1. ASSUME NEW l \in Ids
      PROVE  /\ tickets'[l].symbol = tickets[l].symbol /\ tickets'[l].side = tickets[l].side
             /\ tickets'[l].quantity = tickets[l].quantity
             /\ \/ tickets'[l].broker = tickets[l].broker
                \/ tickets[l].broker = "working" /\ tickets'[l].broker \in {"executed", "closed"}
             /\ tickets[l].missed => tickets'[l].missed
             /\ Lost(tickets'[l]) => Lost(tickets[l]) \/ tickets'[l].missed
  <2>1. CASE l = k
    BY <2>1
  <2>2. CASE l # k
    <3>1. tickets'[l] = tickets[l]
      BY <2>2
    <3> QED BY <3>1
  <2> QED BY <2>1, <2>2
<1> QED BY <1>1 DEF Settles, Ids

\* A field of one ticket is set.
LEMMA TicketSet ==
  ASSUME SubmitInv, NEW k \in Ids, NEW v
  PROVE  /\ v \in BOOLEAN /\ tickets' = SetAll({k}, "applied", v) =>
              /\ DOMAIN tickets' = Ids /\ \A l \in Ids : tickets'[l] \in TicketType
              /\ \A l \in Ids : l # k => tickets'[l] = tickets[l]
              /\ Stage(tickets'[k]) = <<tickets[k].log, tickets[k].broker, v>>
              /\ \A l \in Ids : /\ tickets'[l].broker = tickets[l].broker
                                /\ tickets'[l].symbol = tickets[l].symbol
                                /\ tickets'[l].side = tickets[l].side
                                /\ tickets'[l].quantity = tickets[l].quantity
                                /\ tickets'[l].missed = tickets[l].missed
         /\ v \in {"open", "filled", "closed"} /\ tickets' = SetAll({k}, "log", v) =>
              /\ DOMAIN tickets' = Ids /\ \A l \in Ids : tickets'[l] \in TicketType
              /\ \A l \in Ids : l # k => tickets'[l] = tickets[l]
              /\ Stage(tickets'[k]) = <<v, tickets[k].broker, tickets[k].applied>>
              /\ \A l \in Ids : /\ tickets'[l].broker = tickets[l].broker
                                /\ tickets'[l].symbol = tickets[l].symbol
                                /\ tickets'[l].side = tickets[l].side
                                /\ tickets'[l].quantity = tickets[l].quantity
                                /\ tickets'[l].missed = tickets[l].missed
         /\ v \in {"none", "working", "executed", "closed"} /\ tickets' = SetAll({k}, "broker", v) =>
              /\ DOMAIN tickets' = Ids /\ \A l \in Ids : tickets'[l] \in TicketType
              /\ \A l \in Ids : l # k => tickets'[l] = tickets[l]
              /\ Stage(tickets'[k]) = <<tickets[k].log, v, tickets[k].applied>>
              /\ tickets'[k].broker = v
              /\ \A l \in Ids : /\ tickets'[l].symbol = tickets[l].symbol
                                /\ tickets'[l].side = tickets[l].side
                                /\ tickets'[l].quantity = tickets[l].quantity
                                /\ tickets'[l].missed = tickets[l].missed
<1>1. \A l \in Ids : tickets[l] \in TicketType
  BY DEF SubmitInv, TypeOK, TicketType, Sides
<1>2. ASSUME v \in BOOLEAN, tickets' = SetAll({k}, "applied", v)
      PROVE  /\ DOMAIN tickets' = Ids /\ \A l \in Ids : tickets'[l] \in TicketType
             /\ \A l \in Ids : l # k => tickets'[l] = tickets[l]
             /\ Stage(tickets'[k]) = <<tickets[k].log, tickets[k].broker, v>>
             /\ \A l \in Ids : /\ tickets'[l].broker = tickets[l].broker
                               /\ tickets'[l].symbol = tickets[l].symbol
                               /\ tickets'[l].side = tickets[l].side
                               /\ tickets'[l].quantity = tickets[l].quantity
                               /\ tickets'[l].missed = tickets[l].missed
  BY <1>1, <1>2 DEF SetAll, TicketType, Stage
<1>3. ASSUME v \in {"open", "filled", "closed"}, tickets' = SetAll({k}, "log", v)
      PROVE  /\ DOMAIN tickets' = Ids /\ \A l \in Ids : tickets'[l] \in TicketType
             /\ \A l \in Ids : l # k => tickets'[l] = tickets[l]
             /\ Stage(tickets'[k]) = <<v, tickets[k].broker, tickets[k].applied>>
             /\ \A l \in Ids : /\ tickets'[l].broker = tickets[l].broker
                               /\ tickets'[l].symbol = tickets[l].symbol
                               /\ tickets'[l].side = tickets[l].side
                               /\ tickets'[l].quantity = tickets[l].quantity
                               /\ tickets'[l].missed = tickets[l].missed
  BY <1>1, <1>3 DEF SetAll, TicketType, Stage
<1>4. ASSUME v \in {"none", "working", "executed", "closed"}, tickets' = SetAll({k}, "broker", v)
      PROVE  /\ DOMAIN tickets' = Ids /\ \A l \in Ids : tickets'[l] \in TicketType
             /\ \A l \in Ids : l # k => tickets'[l] = tickets[l]
             /\ Stage(tickets'[k]) = <<tickets[k].log, v, tickets[k].applied>>
             /\ tickets'[k].broker = v
             /\ \A l \in Ids : /\ tickets'[l].symbol = tickets[l].symbol
                               /\ tickets'[l].side = tickets[l].side
                               /\ tickets'[l].quantity = tickets[l].quantity
                               /\ tickets'[l].missed = tickets[l].missed
  BY <1>1, <1>4 DEF SetAll, TicketType, Stage
<1> QED BY <1>2, <1>3, <1>4

\* A fill is applied: by the paper gateway's pass after it was logged, by the
\* live one's before.
LEMMA AppliedKept ==
  ASSUME SubmitInv, NEW k \in Ids, tickets' = SetAll({k}, "applied", TRUE),
         UNCHANGED <<gateway, artifact, placed, crashes>>,
         k \in supervisor.todo, tickets[k].broker = "executed",
         \/ Paper /\ tickets[k].log = "filled" /\ supervisor.pc = "apply"
            /\ (supervisor' = Idle \/ supervisor' = [supervisor EXCEPT !.todo = @ \ {k}])
         \/ ~Paper /\ supervisor.pc = "rows" /\ supervisor' = supervisor
  PROVE  SubmitInv'
<1>1. /\ DOMAIN tickets' = Ids /\ \A l \in Ids : tickets'[l] \in TicketType
      /\ \A l \in Ids : l # k => tickets'[l] = tickets[l]
      /\ Stage(tickets'[k]) = <<tickets[k].log, tickets[k].broker, TRUE>>
      /\ \A l \in Ids : /\ tickets'[l].broker = tickets[l].broker
                        /\ tickets'[l].symbol = tickets[l].symbol
                        /\ tickets'[l].side = tickets[l].side
                        /\ tickets'[l].quantity = tickets[l].quantity
                        /\ tickets'[l].missed = tickets[l].missed
  BY TicketSet
<1>2. Settles(tickets, tickets')
  <2>1. ~Lost(tickets'[k])
    <3>1. SUFFICES ASSUME Lost(tickets'[k]) PROVE FALSE
      OBVIOUS
    <3>2. <<tickets[k].log, tickets[k].broker, TRUE>> = <<"closed", "executed", FALSE>>
      BY <1>1, <3>1 DEF Lost
    <3> QED BY <3>2
  <2> QED BY <1>1, <2>1, SettledOne
<1>3. supervisor \in [pc: {"idle", "apply", "rows"}, todo: SUBSET Ids] /\ crashes \in 0..MaxCrashes
  BY DEF SubmitInv, TypeOK
<1>4. supervisor' \in [pc: {"idle", "apply", "rows"}, todo: SUBSET Ids]
  BY <1>3 DEF Idle
<1>5. StagesInOrder'
  <2>1. SUFFICES ASSUME NEW l \in Ids
                 PROVE  Stage(tickets'[l]) \in (IF Paper THEN PaperStages ELSE LiveStages)
    BY <1>1 DEF StagesInOrder, Ids, Paper
  <2>2. Stage(tickets[l]) \in (IF Paper THEN PaperStages ELSE LiveStages)
    BY DEF SubmitInv, StagesInOrder
  <2>3. CASE l # k
    BY <1>1, <2>2, <2>3
  <2>4. CASE l = k
    <3>1. CASE Paper
      BY <1>1, <2>4, <3>1 DEF PaperStages, PassFits, SubmitInv
    <3>2. CASE ~Paper
      <4>1. tickets[k].log \in {"open", "filled", "closed"}
        BY <2>2, <2>4, <3>2 DEF LiveStages, Stage
      <4> QED BY <1>1, <2>4, <3>2, <4>1 DEF LiveStages
    <3> QED BY <3>1, <3>2
  <2> QED BY <2>3, <2>4
<1>6. PassFits'
  <2>1. supervisor'.pc \in {"idle", supervisor.pc} /\ supervisor'.todo \subseteq supervisor.todo
    BY <1>3 DEF Idle
  <2>2. \A l \in supervisor.todo : l \in Ids /\ tickets'[l].broker = "executed"
    BY <1>1, <1>3 DEF SubmitInv, PassFits
  <2>3. IF Paper THEN supervisor'.pc # "rows" ELSE supervisor'.pc # "apply"
    BY <2>1 DEF SubmitInv, PassFits
  <2> QED BY <2>1, <2>2, <2>3 DEF PassFits, Paper
<1>7. AheadOnlyInPass'
  <2>1. SUFFICES ASSUME ~Paper, crashes = 0, NEW l \in Ids,
                        Stage(tickets'[l]) = <<"open", "executed", TRUE>>
                 PROVE  supervisor'.pc = "rows" /\ l \in supervisor'.todo
    BY <1>1 DEF AheadOnlyInPass, Ids, Paper
  <2>2. supervisor' = supervisor /\ supervisor.pc = "rows"
    BY <2>1
  <2>3. CASE l # k
    <3>1. Stage(tickets[l]) = <<"open", "executed", TRUE>>
      BY <1>1, <2>1, <2>3
    <3> QED BY <2>1, <2>2, <3>1 DEF SubmitInv, AheadOnlyInPass
  <2>4. CASE l = k
    BY <2>2, <2>4
  <2> QED BY <2>3, <2>4
<1> QED BY <1>1, <1>2, <1>3, <1>4, <1>5, <1>6, <1>7, SettledInv

\* Neither tickets nor what they are judged by: only the pass goes on or ends.
LEMMA PassKept ==
  ASSUME SubmitInv, UNCHANGED <<gateway, artifact, placed, tickets>>,
         supervisor' \in [pc: {"idle", "apply", "rows"}, todo: SUBSET Ids],
         crashes' \in 0..MaxCrashes, crashes' = 0 => crashes = 0,
         PassFits',
         ~Paper /\ crashes' = 0 =>
           \A k \in Ids : Stage(tickets[k]) = <<"open", "executed", TRUE>>
                             /\ supervisor.pc = "rows" /\ k \in supervisor.todo =>
                             supervisor'.pc = "rows" /\ k \in supervisor'.todo
  PROVE  SubmitInv'
<1>1. DOMAIN tickets' = Ids /\ (\A k \in Ids : tickets'[k] \in TicketType)
      /\ Settles(tickets, tickets')
  BY SettledSame
<1>2. StagesInOrder'
  BY DEF SubmitInv, StagesInOrder, Ids, Paper
<1>3. AheadOnlyInPass'
  BY DEF SubmitInv, AheadOnlyInPass, Ids, Paper
<1> QED BY <1>1, <1>2, <1>3, SettledInv

\* The paper gateway reports all open orders as executed; they are logged.
LEMMA PollKept == ASSUME SubmitInv, Poll PROVE SubmitInv'
<1>1. \A k \in Ids : tickets[k] \in TicketType
  BY DEF SubmitInv, TypeOK, TicketType, Sides
<1>2. /\ DOMAIN tickets' = Ids
      /\ \A k \in Ids :
           /\ tickets'[k] \in TicketType
           /\ k \notin Open => tickets'[k] = tickets[k]
           /\ k \in Open => Stage(tickets'[k]) = <<"filled", "executed", tickets[k].applied>>
           /\ k \in Open => tickets'[k].broker = "executed"
           /\ tickets'[k].symbol = tickets[k].symbol
           /\ tickets'[k].side = tickets[k].side
           /\ tickets'[k].quantity = tickets[k].quantity
           /\ tickets'[k].missed = tickets[k].missed
  BY <1>1 DEF Poll, TicketType, Stage
<1>3. Paper
  BY DEF Poll
<1>4. \A k \in Ids : Stage(tickets[k]) \in PaperStages
  BY <1>3 DEF SubmitInv, StagesInOrder
<1>5. \A k \in Open : Stage(tickets[k]) = <<"open", "working", FALSE>> /\ k \in Ids
  BY <1>4 DEF Open, Stage, PaperStages
<1>6. \A k \in Open : tickets[k].broker = "working" /\ tickets[k].applied = FALSE
  BY <1>5 DEF Stage
<1>7. Settles(tickets, tickets')
  <2>1. ASSUME NEW k \in Ids
        PROVE  \/ tickets'[k].broker = tickets[k].broker
               \/ tickets[k].broker = "working" /\ tickets'[k].broker \in {"executed", "closed"}
    <3>1. CASE k \in Open
      BY <1>2, <1>6, <3>1
    <3>2. CASE k \notin Open
      BY <1>2, <3>2
    <3> QED BY <3>1, <3>2
  <2>2. \A k \in Ids : /\ tickets'[k].symbol = tickets[k].symbol
                       /\ tickets'[k].side = tickets[k].side
                       /\ tickets'[k].quantity = tickets[k].quantity
                       /\ tickets'[k].missed = tickets[k].missed
    BY <1>2
  <2>3. ASSUME NEW k \in Ids, Lost(tickets'[k]) PROVE Lost(tickets[k])
    <3>1. k \notin Open
      BY <1>2, <2>3 DEF Lost
    <3> QED BY <1>2, <2>3, <3>1
  <2> QED BY <1>2, <2>1, <2>2, <2>3 DEF Settles, Ids
<1>8. supervisor' \in [pc: {"idle", "apply", "rows"}, todo: SUBSET Ids]
  BY <1>5 DEF Poll
<1>9. StagesInOrder'
  <2>1. ASSUME NEW k \in Ids PROVE Stage(tickets'[k]) \in PaperStages
    <3>1. CASE k \in Open
      <4>1. Stage(tickets'[k]) = <<"filled", "executed", FALSE>>
        BY <1>2, <1>6, <3>1
      <4> QED BY <4>1 DEF PaperStages
    <3>2. CASE k \notin Open
      BY <1>2, <1>4, <3>2
    <3> QED BY <3>1, <3>2
  <2>2. Paper'
    BY <1>3 DEF Poll, Paper
  <2> QED BY <1>2, <2>1, <2>2 DEF StagesInOrder, Ids
<1>10. PassFits' /\ AheadOnlyInPass'
  <2>1. supervisor'.todo = Open /\ supervisor'.pc = "apply" /\ Paper'
    BY <1>3 DEF Poll, Paper
  <2>2. \A k \in supervisor'.todo : tickets'[k].broker = "executed"
    BY <1>2, <1>5, <2>1
  <2> QED BY <2>1, <2>2 DEF PassFits, AheadOnlyInPass
<1>11. crashes' \in 0..MaxCrashes /\ UNCHANGED <<gateway, artifact, placed>>
  BY DEF Poll, SubmitInv, TypeOK
<1> QED BY <1>2, <1>7, <1>8, <1>9, <1>10, <1>11, SettledInv

\* A fill of the paper gateway is applied to the account, or refused.
LEMMA ApplyPolledKept == ASSUME SubmitInv, NEW k \in Ids, ApplyPolled(k) PROVE SubmitInv'
<1>1. supervisor.pc = "apply" /\ k \in supervisor.todo /\ Paper
  BY DEF ApplyPolled, SubmitInv, PassFits
<1>2. supervisor \in [pc: {"idle", "apply", "rows"}, todo: SUBSET Ids] /\ crashes \in 0..MaxCrashes
  BY DEF SubmitInv, TypeOK
<1>5. tickets[k].broker = "executed" /\ tickets[k].log = "filled"
  <2>1. tickets[k].broker = "executed"
    BY <1>1 DEF SubmitInv, PassFits
  <2>2. Stage(tickets[k]) \in PaperStages
    BY <1>1 DEF SubmitInv, StagesInOrder
  <2> QED BY <2>1, <2>2 DEF PaperStages, Stage
<1>3. CASE CanApply(k)
  <2>1. tickets' = SetAll({k}, "applied", TRUE) /\ supervisor' = Done(k)
    BY <1>3 DEF ApplyPolled
  <2>2. supervisor' = Idle \/ supervisor' = [supervisor EXCEPT !.todo = @ \ {k}]
    BY <2>1 DEF Done
  <2>3. UNCHANGED <<gateway, artifact, placed, crashes>>
    BY DEF ApplyPolled
  <2> QED BY <1>1, <1>5, <2>1, <2>2, <2>3, AppliedKept
<1>4. CASE ~CanApply(k)
  <2>1. UNCHANGED <<gateway, artifact, placed, tickets, crashes>> /\ supervisor' = Idle
    BY <1>4 DEF ApplyPolled
  <2>2. PassFits'
    BY <1>1, <2>1 DEF PassFits, Paper, Idle
  <2>3. supervisor' \in [pc: {"idle", "apply", "rows"}, todo: SUBSET Ids]
    BY <2>1 DEF Idle
  <2> QED BY <1>1, <1>2, <2>1, <2>2, <2>3, PassKept
<1> QED BY <1>3, <1>4

\* The live pass starts with the rows that are new to the account or the log.
LEMMA ReconcileKept == ASSUME SubmitInv, Reconcile PROVE SubmitInv'
<1>1. PICK rows : /\ rows = {k \in Executed : ~tickets[k].applied \/ tickets[k].log # "filled"}
                  /\ supervisor' = [pc |-> "rows", todo |-> rows]
  BY DEF Reconcile
<1>2. /\ UNCHANGED <<gateway, artifact, placed, tickets, crashes>> /\ ~Paper
      /\ supervisor = Idle
  BY DEF Reconcile
<1>3. \A k \in rows : k \in Ids /\ tickets[k].broker = "executed"
  BY <1>1 DEF Executed
<1>4. supervisor' \in [pc: {"idle", "apply", "rows"}, todo: SUBSET Ids]
      /\ crashes' \in 0..MaxCrashes
  BY <1>1, <1>2, <1>3 DEF SubmitInv, TypeOK
<1>5. PassFits'
  <2>1. supervisor'.todo = rows /\ supervisor'.pc = "rows"
    BY <1>1
  <2>2. tickets' = tickets /\ ~Paper'
    BY <1>2 DEF Paper
  <2> QED BY <1>3, <2>1, <2>2 DEF PassFits
<1>6. supervisor.pc # "rows"
  BY <1>2 DEF Idle
<1> QED BY <1>2, <1>4, <1>5, <1>6, PassKept

\* A row is imported into the account, or refused.
LEMMA ImportRowKept == ASSUME SubmitInv, NEW k \in Ids, ImportRow(k) PROVE SubmitInv'
<1>1. supervisor.pc = "rows" /\ k \in supervisor.todo /\ ~Paper /\ tickets[k].broker = "executed"
  BY DEF ImportRow, SubmitInv, PassFits
<1>2. supervisor \in [pc: {"idle", "apply", "rows"}, todo: SUBSET Ids] /\ crashes \in 0..MaxCrashes
  BY DEF SubmitInv, TypeOK
<1>3. UNCHANGED <<gateway, artifact, placed, crashes>> /\ ~tickets[k].applied
  BY DEF ImportRow
<1>4. CASE CanApply(k)
  <2>1. tickets' = SetAll({k}, "applied", TRUE) /\ supervisor' = supervisor
    BY <1>4 DEF ImportRow
  <2> QED BY <1>1, <1>3, <2>1, AppliedKept
<1>5. CASE ~CanApply(k)
  <2>1. tickets' = tickets /\ supervisor' = Done(k)
    BY <1>5 DEF ImportRow
  <2>2. supervisor' \in [pc: {"idle", "apply", "rows"}, todo: SUBSET Ids]
        /\ supervisor'.todo = supervisor.todo \ {k}
        /\ supervisor'.pc \in {"idle", "rows"}
        /\ (supervisor'.todo # {} => supervisor'.pc = "rows")
    BY <1>1, <1>2, <2>1 DEF Done, Idle
  <2>3. PassFits'
    <3>1. ~Paper' /\ supervisor'.pc # "apply"
      BY <1>1, <1>3, <2>2 DEF Paper
    <3>2. \A l \in supervisor'.todo : tickets'[l].broker = "executed"
      BY <2>1, <2>2 DEF SubmitInv, PassFits
    <3> QED BY <3>1, <3>2 DEF PassFits
  <2>4. ASSUME NEW l \in Ids, Stage(tickets[l]) = <<"open", "executed", TRUE>>,
               l \in supervisor.todo
        PROVE  supervisor'.pc = "rows" /\ l \in supervisor'.todo
    <3>1. l # k
      BY <1>3, <2>4 DEF Stage
    <3> QED BY <2>2, <2>4, <3>1
  <2> QED BY <1>2, <1>3, <2>1, <2>2, <2>3, <2>4, PassKept
<1> QED BY <1>4, <1>5

\* An imported row is written to the log.
LEMMA LogRowKept == ASSUME SubmitInv, NEW k \in Ids, LogRow(k) PROVE SubmitInv'
<1>1. supervisor.pc = "rows" /\ k \in supervisor.todo /\ ~Paper /\ tickets[k].broker = "executed"
      /\ tickets[k].applied
  BY DEF LogRow, SubmitInv, PassFits
<1>2. supervisor \in [pc: {"idle", "apply", "rows"}, todo: SUBSET Ids] /\ crashes \in 0..MaxCrashes
  BY DEF SubmitInv, TypeOK
<1>3. /\ UNCHANGED <<gateway, artifact, placed, crashes>>
      /\ tickets' = SetAll({k}, "log", "filled") /\ supervisor' = Done(k)
  BY DEF LogRow
<1>4. /\ DOMAIN tickets' = Ids /\ \A l \in Ids : tickets'[l] \in TicketType
      /\ \A l \in Ids : l # k => tickets'[l] = tickets[l]
      /\ Stage(tickets'[k]) = <<"filled", tickets[k].broker, tickets[k].applied>>
      /\ \A l \in Ids : /\ tickets'[l].broker = tickets[l].broker
                        /\ tickets'[l].symbol = tickets[l].symbol
                        /\ tickets'[l].side = tickets[l].side
                        /\ tickets'[l].quantity = tickets[l].quantity
                        /\ tickets'[l].missed = tickets[l].missed
  BY <1>3, TicketSet
<1>5. supervisor' \in [pc: {"idle", "apply", "rows"}, todo: SUBSET Ids]
      /\ supervisor'.todo = supervisor.todo \ {k}
      /\ supervisor'.pc \in {"idle", "rows"}
      /\ (supervisor'.todo # {} => supervisor'.pc = "rows")
  BY <1>1, <1>2, <1>3 DEF Done, Idle
<1>6. Settles(tickets, tickets')
  <2>1. ~Lost(tickets'[k])
    BY <1>4 DEF Lost
  <2> QED BY <1>4, <2>1, SettledOne
<1>7. tickets[k].applied = TRUE
  <2>1. tickets[k] \in TicketType
    BY DEF SubmitInv, TypeOK, TicketType, Sides
  <2> QED BY <1>1, <2>1 DEF TicketType
<1>8. StagesInOrder'
  <2>1. ASSUME NEW l \in Ids PROVE Stage(tickets'[l]) \in LiveStages
    <3>1. CASE l = k
      BY <1>1, <1>4, <1>7, <3>1 DEF LiveStages
    <3>2. CASE l # k
      BY <1>1, <1>4, <3>2 DEF SubmitInv, StagesInOrder
    <3> QED BY <3>1, <3>2
  <2>2. ~Paper'
    BY <1>1, <1>3 DEF Paper
  <2> QED BY <1>4, <2>1, <2>2 DEF StagesInOrder, Ids
<1>9. PassFits'
  <2>1. ~Paper' /\ supervisor'.pc # "apply"
    BY <1>1, <1>3, <1>5 DEF Paper
  <2>2. \A l \in supervisor'.todo : l \in Ids /\ tickets'[l].broker = "executed"
    BY <1>2, <1>4, <1>5 DEF SubmitInv, PassFits
  <2> QED BY <2>1, <2>2 DEF PassFits
<1>10. AheadOnlyInPass'
  <2>1. SUFFICES ASSUME crashes = 0, NEW l \in Ids,
                        Stage(tickets'[l]) = <<"open", "executed", TRUE>>
                 PROVE  supervisor'.pc = "rows" /\ l \in supervisor'.todo
    BY <1>3, <1>4 DEF AheadOnlyInPass, Ids
  <2>2. l # k
    BY <1>4, <2>1
  <2>3. l \in supervisor.todo
    BY <1>1, <1>4, <2>1, <2>2 DEF SubmitInv, AheadOnlyInPass
  <2> QED BY <1>5, <2>2, <2>3
<1>11. crashes' \in 0..MaxCrashes
  BY <1>2, <1>3
<1> QED BY <1>3, <1>4, <1>5, <1>6, <1>8, <1>9, <1>10, <1>11, SettledInv

\* A pass that is cut off leaves the log and the account as they are.
LEMMA CrashKept == ASSUME SubmitInv, Crash PROVE SubmitInv'
<1>1. /\ UNCHANGED <<gateway, artifact, placed, tickets>> /\ supervisor' = Idle
      /\ crashes' = crashes + 1 /\ crashes < MaxCrashes
  BY DEF Crash
<1>2. crashes \in 0..MaxCrashes /\ MaxCrashes \in Nat
  BY SubmitAssumption DEF SubmitInv, TypeOK
<1>3. crashes' \in 0..MaxCrashes /\ crashes' # 0
  BY <1>1, <1>2
<1>4. supervisor' \in [pc: {"idle", "apply", "rows"}, todo: SUBSET Ids]
  BY <1>1 DEF Idle
<1>5. PassFits'
  BY <1>1 DEF PassFits, Paper, Idle
<1> QED BY <1>1, <1>3, <1>4, <1>5, PassKept

\* Where no pass is under way nothing is to be done.
LEMMA CancelKept == ASSUME SubmitInv, NEW k \in Ids, Cancel(k) PROVE SubmitInv'
<1>1. /\ UNCHANGED <<gateway, artifact, placed, supervisor, crashes>> /\ ~Paper
      /\ supervisor = Idle /\ tickets[k].broker = "working"
      /\ tickets' = [tickets EXCEPT ![k].broker = "closed", ![k].log = "closed"]
  BY DEF Cancel, Working
<1>2. supervisor \in [pc: {"idle", "apply", "rows"}, todo: SUBSET Ids] /\ crashes \in 0..MaxCrashes
  BY DEF SubmitInv, TypeOK
<1>3. \A l \in Ids : tickets[l] \in TicketType
  BY DEF SubmitInv, TypeOK, TicketType, Sides
<1>4. Stage(tickets[k]) = <<"open", "working", FALSE>>
  <2>1. Stage(tickets[k]) \in LiveStages
    BY <1>1 DEF SubmitInv, StagesInOrder
  <2> QED BY <1>1, <2>1 DEF LiveStages, Stage
<1>5. DOMAIN tickets' = Ids /\ \A l \in Ids : l # k => tickets'[l] = tickets[l]
  BY <1>1 DEF Ids
<1>6. tickets'[k] = [[tickets[k] EXCEPT !.broker = "closed"] EXCEPT !.log = "closed"]
  BY <1>1 DEF Ids
<1>7. /\ tickets'[k] \in TicketType /\ Stage(tickets'[k]) = <<"closed", "closed", FALSE>>
      /\ tickets'[k].symbol = tickets[k].symbol /\ tickets'[k].side = tickets[k].side
      /\ tickets'[k].quantity = tickets[k].quantity /\ tickets'[k].broker = "closed"
      /\ tickets'[k].missed = tickets[k].missed
  BY <1>3, <1>4, <1>6 DEF TicketType, Stage
<1>8. Settles(tickets, tickets')
  <2>1. ~Lost(tickets'[k])
    BY <1>7 DEF Lost
  <2>2. tickets[k].broker = "working" /\ tickets'[k].broker \in {"executed", "closed"}
    BY <1>1, <1>7
  <2>3. tickets[k].missed => tickets'[k].missed
    BY <1>7
  <2> QED BY <1>5, <1>7, <2>1, <2>2, <2>3, SettledOne
<1>9. StagesInOrder'
  <2>1. ASSUME NEW l \in Ids PROVE Stage(tickets'[l]) \in LiveStages
    <3>1. CASE l = k
      BY <1>7, <3>1 DEF LiveStages
    <3>2. CASE l # k
      BY <1>1, <1>5, <3>2 DEF SubmitInv, StagesInOrder
    <3> QED BY <3>1, <3>2
  <2>2. ~Paper'
    BY <1>1 DEF Paper
  <2> QED BY <1>5, <2>1, <2>2 DEF StagesInOrder, Ids
<1>10. PassFits'
  BY <1>1 DEF PassFits, Paper, Idle
<1>11. AheadOnlyInPass'
  <2>1. SUFFICES ASSUME crashes = 0, NEW l \in Ids,
                        Stage(tickets'[l]) = <<"open", "executed", TRUE>>
                 PROVE  supervisor.pc = "rows" /\ l \in supervisor.todo
    BY <1>1, <1>5 DEF AheadOnlyInPass, Ids
  <2>2. l # k
    BY <1>7, <2>1
  <2> QED BY <1>1, <1>5, <2>1, <2>2 DEF SubmitInv, AheadOnlyInPass
<1>12. supervisor' \in [pc: {"idle", "apply", "rows"}, todo: SUBSET Ids]
       /\ crashes' \in 0..MaxCrashes
  BY <1>1, <1>2
<1>13. \A l \in Ids : tickets'[l] \in TicketType
  BY <1>3, <1>5, <1>7
<1> QED BY <1>1, <1>5, <1>8, <1>9, <1>10, <1>11, <1>12, <1>13, SettledInv

\* A ticket expires that has executed, and is then missed or applied, or has lapsed.
LEMMA ExpireKept == ASSUME SubmitInv, NEW k \in Ids, Expire(k) PROVE SubmitInv'
<1>1. /\ UNCHANGED <<gateway, artifact, placed, supervisor, crashes>> /\ ~Paper
      /\ supervisor = Idle /\ tickets[k].broker # "working" /\ tickets[k].log = "open"
      /\ tickets' = [tickets EXCEPT ![k].log = "closed",
                       ![k].missed = @ \/ (k \in Executed /\ ~tickets[k].applied)]
  BY DEF Expire, Working, Open
<1>2. supervisor \in [pc: {"idle", "apply", "rows"}, todo: SUBSET Ids] /\ crashes \in 0..MaxCrashes
  BY DEF SubmitInv, TypeOK
<1>3. \A l \in Ids : tickets[l] \in TicketType
  BY DEF SubmitInv, TypeOK, TicketType, Sides
<1>4. Stage(tickets[k]) \in {<<"open", "executed", FALSE>>, <<"open", "executed", TRUE>>,
                             <<"open", "closed", FALSE>>}
  <2>1. Stage(tickets[k]) \in LiveStages
    BY <1>1 DEF SubmitInv, StagesInOrder
  <2> QED BY <1>1, <2>1 DEF LiveStages, Stage
<1>5. DOMAIN tickets' = Ids /\ \A l \in Ids : l # k => tickets'[l] = tickets[l]
  BY <1>1 DEF Ids
<1> DEFINE missed == tickets[k].missed \/ (tickets[k].broker = "executed" /\ ~tickets[k].applied)
<1>6. tickets'[k] = [[tickets[k] EXCEPT !.log = "closed"] EXCEPT !.missed = missed]
  <2>1. k \in Executed <=> tickets[k].broker = "executed"
    BY DEF Executed
  <2> QED BY <1>1, <1>3, <2>1 DEF Ids, TicketType
<1>7. /\ tickets'[k] \in TicketType
      /\ Stage(tickets'[k]) = <<"closed", tickets[k].broker, tickets[k].applied>>
      /\ tickets'[k].symbol = tickets[k].symbol /\ tickets'[k].side = tickets[k].side
      /\ tickets'[k].quantity = tickets[k].quantity /\ tickets'[k].broker = tickets[k].broker
      /\ tickets'[k].missed = missed
  <2>1. missed \in BOOLEAN
    OBVIOUS
  <2> HIDE DEF missed
  <2> QED BY <1>3, <1>6, <2>1 DEF TicketType, Stage
<1>8. Settles(tickets, tickets')
  <2>1. Lost(tickets'[k]) => missed
    <3>1. SUFFICES ASSUME Lost(tickets'[k]) PROVE missed
      OBVIOUS
    <3>2. <<"closed", tickets[k].broker, tickets[k].applied>> = <<"closed", "executed", FALSE>>
      BY <1>7, <3>1 DEF Lost
    <3> QED BY <3>2
  <2> QED BY <1>5, <1>7, <2>1, SettledOne
<1>9. StagesInOrder'
  <2>1. ASSUME NEW l \in Ids PROVE Stage(tickets'[l]) \in LiveStages
    <3>1. CASE l = k
      BY <1>4, <1>7, <3>1 DEF LiveStages, Stage
    <3>2. CASE l # k
      BY <1>1, <1>5, <3>2 DEF SubmitInv, StagesInOrder
    <3> QED BY <3>1, <3>2
  <2>2. ~Paper'
    BY <1>1 DEF Paper
  <2> QED BY <1>5, <2>1, <2>2 DEF StagesInOrder, Ids
<1>10. PassFits'
  BY <1>1 DEF PassFits, Paper, Idle
<1>11. AheadOnlyInPass'
  <2>1. SUFFICES ASSUME crashes = 0, NEW l \in Ids,
                        Stage(tickets'[l]) = <<"open", "executed", TRUE>>
                 PROVE  supervisor.pc = "rows" /\ l \in supervisor.todo
    BY <1>1, <1>5 DEF AheadOnlyInPass, Ids
  <2>2. l # k
    BY <1>7, <2>1
  <2> QED BY <1>1, <1>5, <2>1, <2>2 DEF SubmitInv, AheadOnlyInPass
<1>12. supervisor' \in [pc: {"idle", "apply", "rows"}, todo: SUBSET Ids]
       /\ crashes' \in 0..MaxCrashes
  BY <1>1, <1>2
<1>13. \A l \in Ids : tickets'[l] \in TicketType
  BY <1>3, <1>5, <1>7
<1> QED BY <1>1, <1>5, <1>8, <1>9, <1>10, <1>11, <1>12, <1>13, SettledInv

\* The broker executes a working order.
LEMMA ExecuteKept == ASSUME SubmitInv, NEW k \in Ids, Execute(k) PROVE SubmitInv'
<1>1. /\ UNCHANGED <<gateway, artifact, placed, supervisor, crashes>> /\ ~Paper
      /\ tickets[k].broker = "working" /\ tickets' = SetAll({k}, "broker", "executed")
  BY DEF Execute, Working
<1>2. supervisor \in [pc: {"idle", "apply", "rows"}, todo: SUBSET Ids] /\ crashes \in 0..MaxCrashes
  BY DEF SubmitInv, TypeOK
<1>3. /\ DOMAIN tickets' = Ids /\ \A l \in Ids : tickets'[l] \in TicketType
      /\ \A l \in Ids : l # k => tickets'[l] = tickets[l]
      /\ Stage(tickets'[k]) = <<tickets[k].log, "executed", tickets[k].applied>>
      /\ tickets'[k].broker = "executed"
      /\ \A l \in Ids : /\ tickets'[l].symbol = tickets[l].symbol
                        /\ tickets'[l].side = tickets[l].side
                        /\ tickets'[l].quantity = tickets[l].quantity
                        /\ tickets'[l].missed = tickets[l].missed
  BY <1>1, TicketSet
<1>4. tickets[k].log = "open" /\ tickets[k].applied = FALSE
  <2>1. Stage(tickets[k]) \in LiveStages
    BY <1>1 DEF SubmitInv, StagesInOrder
  <2> QED BY <1>1, <2>1 DEF LiveStages, Stage
<1>5. Settles(tickets, tickets')
  <2>1. ~Lost(tickets'[k])
    BY <1>3, <1>4 DEF Lost
  <2> QED BY <1>1, <1>3, <2>1, SettledOne
<1>6. StagesInOrder'
  <2>1. ASSUME NEW l \in Ids PROVE Stage(tickets'[l]) \in LiveStages
    <3>1. CASE l = k
      BY <1>3, <1>4, <3>1 DEF LiveStages
    <3>2. CASE l # k
      BY <1>1, <1>3, <3>2 DEF SubmitInv, StagesInOrder
    <3> QED BY <3>1, <3>2
  <2>2. ~Paper'
    BY <1>1 DEF Paper
  <2> QED BY <1>3, <2>1, <2>2 DEF StagesInOrder, Ids
<1>7. PassFits'
  <2>1. ~Paper' /\ supervisor'.pc # "apply"
    BY <1>1 DEF SubmitInv, PassFits, Paper
  <2>2. \A l \in supervisor'.todo : tickets'[l].broker = "executed"
    <3>1. \A l \in supervisor.todo : l \in Ids /\ tickets[l].broker = "executed"
      BY <1>2 DEF SubmitInv, PassFits
    <3> QED BY <1>1, <1>3, <3>1
  <2> QED BY <2>1, <2>2 DEF PassFits
<1>8. AheadOnlyInPass'
  <2>1. SUFFICES ASSUME crashes = 0, NEW l \in Ids,
                        Stage(tickets'[l]) = <<"open", "executed", TRUE>>
                 PROVE  supervisor.pc = "rows" /\ l \in supervisor.todo
    BY <1>1, <1>3 DEF AheadOnlyInPass, Ids
  <2>2. l # k
    <3>1. SUFFICES ASSUME l = k PROVE FALSE
      OBVIOUS
    <3>2. <<tickets[k].log, "executed", tickets[k].applied>> = <<"open", "executed", TRUE>>
      BY <1>3, <2>1, <3>1
    <3>3. tickets[k].applied = TRUE
      BY <3>2
    <3> QED BY <1>4, <3>3
  <2> QED BY <1>1, <1>3, <2>1, <2>2 DEF SubmitInv, AheadOnlyInPass
<1>9. supervisor' \in [pc: {"idle", "apply", "rows"}, todo: SUBSET Ids]
      /\ crashes' \in 0..MaxCrashes
  BY <1>1, <1>2
<1> QED BY <1>1, <1>3, <1>5, <1>6, <1>7, <1>8, <1>9, SettledInv

\* A working order lapses at the broker.
LEMMA LapseKept == ASSUME SubmitInv, NEW k \in Ids, Lapse(k) PROVE SubmitInv'
<1>1. /\ UNCHANGED <<gateway, artifact, placed, supervisor, crashes>> /\ ~Paper
      /\ tickets[k].broker = "working" /\ tickets' = SetAll({k}, "broker", "closed")
  BY DEF Lapse, Working
<1>2. supervisor \in [pc: {"idle", "apply", "rows"}, todo: SUBSET Ids] /\ crashes \in 0..MaxCrashes
  BY DEF SubmitInv, TypeOK
<1>3. /\ DOMAIN tickets' = Ids /\ \A l \in Ids : tickets'[l] \in TicketType
      /\ \A l \in Ids : l # k => tickets'[l] = tickets[l]
      /\ Stage(tickets'[k]) = <<tickets[k].log, "closed", tickets[k].applied>>
      /\ tickets'[k].broker = "closed"
      /\ \A l \in Ids : /\ tickets'[l].symbol = tickets[l].symbol
                        /\ tickets'[l].side = tickets[l].side
                        /\ tickets'[l].quantity = tickets[l].quantity
                        /\ tickets'[l].missed = tickets[l].missed
  BY <1>1, TicketSet
<1>4. tickets[k].log = "open" /\ tickets[k].applied = FALSE
  <2>1. Stage(tickets[k]) \in LiveStages
    BY <1>1 DEF SubmitInv, StagesInOrder
  <2> QED BY <1>1, <2>1 DEF LiveStages, Stage
<1>5. Settles(tickets, tickets')
  <2>1. ~Lost(tickets'[k])
    BY <1>3, <1>4 DEF Lost
  <2> QED BY <1>1, <1>3, <2>1, SettledOne
<1>6. StagesInOrder'
  <2>1. ASSUME NEW l \in Ids PROVE Stage(tickets'[l]) \in LiveStages
    <3>1. CASE l = k
      BY <1>3, <1>4, <3>1 DEF LiveStages
    <3>2. CASE l # k
      BY <1>1, <1>3, <3>2 DEF SubmitInv, StagesInOrder
    <3> QED BY <3>1, <3>2
  <2>2. ~Paper'
    BY <1>1 DEF Paper
  <2> QED BY <1>3, <2>1, <2>2 DEF StagesInOrder, Ids
<1>7. PassFits'
  <2>1. ~Paper' /\ supervisor'.pc # "apply"
    BY <1>1 DEF SubmitInv, PassFits, Paper
  <2>2. \A l \in supervisor'.todo : tickets'[l].broker = "executed"
    <3>1. \A l \in supervisor.todo : l \in Ids /\ tickets[l].broker = "executed" /\ l # k
      BY <1>1, <1>2 DEF SubmitInv, PassFits
    <3> QED BY <1>1, <1>3, <3>1
  <2> QED BY <2>1, <2>2 DEF PassFits
<1>8. AheadOnlyInPass'
  <2>1. SUFFICES ASSUME crashes = 0, NEW l \in Ids,
                        Stage(tickets'[l]) = <<"open", "executed", TRUE>>
                 PROVE  supervisor.pc = "rows" /\ l \in supervisor.todo
    BY <1>1, <1>3 DEF AheadOnlyInPass, Ids
  <2>2. l # k
    BY <1>3, <2>1
  <2> QED BY <1>1, <1>3, <2>1, <2>2 DEF SubmitInv, AheadOnlyInPass
<1>9. supervisor' \in [pc: {"idle", "apply", "rows"}, todo: SUBSET Ids]
      /\ crashes' \in 0..MaxCrashes
  BY <1>1, <1>2
<1> QED BY <1>1, <1>3, <1>5, <1>6, <1>7, <1>8, <1>9, SettledInv

-------------------------------------------------------------------------------
(* The orders a run writes.                                                   *)

\* No slice of an order is empty.
LEMMA NumberFacts ==
  ASSUME NEW n \in Nat, NEW m \in Nat \ {0}, NEW i \in 1..((n + m - 1) \div m)
  PROVE  n - (i - 1) * m \in Nat \ {0}
<1>1. (n + m - 1) \div m \in Nat /\ ((n + m - 1) \div m) * m <= n + m - 1
  OBVIOUS
<1> DEFINE q == (n + m - 1) \div m
<1>2. q \in Nat /\ q * m <= n + m - 1 /\ i \in Nat /\ i <= q
  BY <1>1
<1> HIDE DEF q
<1>3. i * m <= q * m
  BY <1>2
<1>4. (i - 1) * m = i * m - m
  BY <1>2
<1>5. i * m \in Nat /\ q * m \in Nat
  BY <1>2
<1> QED BY <1>2, <1>3, <1>4, <1>5

\* The lesser of two numbers.
LEMMA SmallestOf ==
  ASSUME NEW x \in Int, NEW y \in Int
  PROVE  Min({x, y}) = IF x <= y THEN x ELSE y
BY DEF Min

\* The greater of two numbers.
LEMMA LargestOf ==
  ASSUME NEW x \in Int, NEW y \in Int
  PROVE  Max({x, y}) = IF x >= y THEN x ELSE y
BY DEF Max

\* The slices of a quantity all have its side.
LEMMA SlicesType ==
  ASSUME NEW s \in Symbols, NEW target \in Nat, NEW quantity \in Int,
         NEW side \in [Symbols -> Sides], NEW targets \in [Symbols -> Nat],
         side[s] = IF quantity > 0 THEN "buy" ELSE "sell", targets[s] = target
  PROVE  Slices(s, target, quantity) \in Seq(Asked(side, targets))
<1> DEFINE n == (Size(quantity) + SliceSize - 1) \div SliceSize
           slice(i) == [symbol |-> s, target |-> target,
                        side |-> IF quantity > 0 THEN "buy" ELSE "sell",
                        quantity |-> Min({SliceSize, Size(quantity) - (i - 1) * SliceSize}),
                        line |-> i]
<1>1. Size(quantity) \in Nat /\ SliceSize \in Nat \ {0}
  BY SubmitAssumption DEF Size
<1>2. n \in Nat
  <2> HIDE DEF Size
  <2> QED BY <1>1
<1>3. ASSUME NEW i \in 1..n PROVE slice(i) \in Asked(side, targets)
  <2> DEFINE rest == Size(quantity) - (i - 1) * SliceSize
  <2>1. rest \in Nat \ {0}
    <3> HIDE DEF Size
    <3> QED BY <1>1, NumberFacts
  <2>2. Min({SliceSize, rest}) \in Nat \ {0}
    <3> HIDE DEF rest
    <3>1. Min({SliceSize, rest}) = IF SliceSize <= rest THEN SliceSize ELSE rest
      BY <1>1, <2>1, SmallestOf
    <3> QED BY <1>1, <2>1, <3>1
  <2>3. i \in Nat \ {0}
    BY <1>2
  <2> HIDE DEF rest
  <2>4. slice(i) \in OrderType
    BY <2>2, <2>3 DEF rest, OrderType, Sides
  <2> QED BY <2>4 DEF Asked
<1>4. Slices(s, target, quantity) = [i \in 1..n |-> slice(i)]
  BY DEF Slices
<1> HIDE DEF n, slice
<1> QED BY <1>2, <1>3, <1>4

\* What is asked for of a symbol is a number of shares.
LEMMA WantedType ==
  ASSUME SubmitInv, NEW s \in Symbols, NEW target \in Nat, NEW urgent
  PROVE  Wanted(s, target, urgent) \in Int
<1>1. Held(s) \in Int /\ Pending(s) \in Int
  BY HeldType
<1>2. target - Held(s) \in Int /\ (target - Held(s)) - Pending(s) \in Int
  BY <1>1
<1> QED BY <1>2 DEF Wanted

\* Numbering the lines leaves the orders as they are otherwise.
LEMMA NumberedType ==
  ASSUME NEW side, NEW targets, NEW orders \in Seq(Asked(side, targets))
  PROVE  Numbered(orders) \in Seq(Asked(side, targets))
<1>1. DOMAIN orders = 1..Len(orders) /\ Len(orders) \in Nat
  OBVIOUS
<1>2. ASSUME NEW i \in DOMAIN orders
      PROVE  [orders[i] EXCEPT !.line = i] \in Asked(side, targets)
  <2>1. orders[i] \in Asked(side, targets) /\ i \in Nat \ {0}
    BY <1>1
  <2> QED BY <2>1 DEF Asked, OrderType
<1> QED BY <1>1, <1>2 DEF Numbered

\* A pipeline run writes a sound batch.
LEMMA ProduceKept == ASSUME SubmitInv, Produce PROVE SubmitInv'
<1>1. UNCHANGED <<gateway, tickets, placed, supervisor, crashes>> /\ artifact.batch < MaxBatches
  BY DEF Produce
<1>2. PICK target \in [Symbols -> UNION Range(Targets)], urgent \in BOOLEAN :
        artifact' = [batch |-> artifact.batch + 1,
                     orders |-> Numbered(FlattenSeq([i \in DOMAIN Listing |->
                       LET s == Listing[i]
                       IN Slices(s, target[s], Wanted(s, target[s], urgent))]))]
  BY DEF Produce
<1> DEFINE side == [s \in Symbols |-> IF Wanted(s, target[s], urgent) > 0 THEN "buy" ELSE "sell"]
           part(s) == Slices(s, target[s], Wanted(s, target[s], urgent))
           parts == [i \in DOMAIN Listing |-> part(Listing[i])]
<1>3. UNION Range(Targets) \subseteq Nat
  BY SubmitAssumption DEF Range
<1>4. target \in [Symbols -> Nat] /\ side \in [Symbols -> Sides]
  BY <1>3 DEF Sides
<1>5. \A s \in Symbols : part(s) \in Seq(Asked(side, target))
  <2> SUFFICES ASSUME NEW s \in Symbols PROVE part(s) \in Seq(Asked(side, target))
    OBVIOUS
  <2>1. target[s] \in Nat
    BY <1>4
  <2>2. Wanted(s, target[s], urgent) \in Int
    BY <2>1, WantedType
  <2>3. side[s] = IF Wanted(s, target[s], urgent) > 0 THEN "buy" ELSE "sell"
    OBVIOUS
  <2> HIDE DEF side
  <2> QED BY <1>4, <2>1, <2>2, <2>3, SlicesType
<1> HIDE DEF side, part
<1>6. parts \in Seq(Seq(Asked(side, target)))
  <2>1. Listing \in Seq(Symbols)
    BY SubmitAssumption
  <2>2. DOMAIN Listing = 1..Len(Listing) /\ Len(Listing) \in Nat
        /\ \A i \in DOMAIN Listing : Listing[i] \in Symbols
    BY <2>1
  <2> QED BY <1>5, <2>2
<1>7. artifact'.orders = Numbered(FlattenSeq(parts)) /\ artifact'.batch = artifact.batch + 1
  BY <1>2 DEF part
<1> HIDE DEF parts
<1>8. artifact'.orders \in Seq(Asked(side, target))
  BY <1>6, <1>7, FlattenedType, NumberedType
<1>9. artifact.batch \in 0..MaxBatches /\ MaxBatches \in Nat
  BY SubmitAssumption DEF SubmitInv, TypeOK
<1>10. artifact'.batch \in 0..MaxBatches /\ artifact'.batch # 0
  BY <1>1, <1>7, <1>9
<1>11. BatchSound'
  BY <1>4, <1>8, <1>10 DEF BatchSound, OneWay
<1>12. TypeOK'
  BY <1>1, <1>10 DEF SubmitInv, TypeOK, Ids
<1>13. IsFiniteSet(Ids)' /\ StagesInOrder' /\ PassFits' /\ AheadOnlyInPass'
  BY <1>1 DEF SubmitInv, StagesInOrder, PassFits, AheadOnlyInPass, Ids, Paper
<1>14. PlacedLogged'
  <2>1. ASSUME NEW l \in DOMAIN placed PROVE l[1] \in Nat /\ l[1] <= artifact.batch
    <3>1. l \in (1..MaxBatches) \X (Nat \ {0}) /\ l[1] <= artifact.batch
      BY DEF SubmitInv, PlacedLogged
    <3>2. l[1] \in 1..MaxBatches
      BY <3>1
    <3> QED BY <1>9, <3>1, <3>2
  <2>2. \A l \in DOMAIN placed : l[1] <= artifact'.batch
    BY <1>7, <1>9, <2>1
  <2> QED BY <1>1, <2>2 DEF SubmitInv, PlacedLogged, Ids
<1>15. Booked(tickets')
  BY <1>1, LogBooked
<1>16. Settles(tickets, tickets') /\ LostIsMissed'
  BY <1>1 DEF Settles, SubmitInv, LostIsMissed, Ids
<1>17. NeverOversold' /\ CashCovered'
  BY <1>1, <1>15, <1>16, CoverageKept
<1> QED BY <1>11, <1>12, <1>13, <1>14, <1>16, <1>17 DEF SubmitInv

-------------------------------------------------------------------------------
(* What the guard sees is what the broker has and may come to have.           *)

\* The stage of a ticket, field by field.
LEMMA StageFields ==
  ASSUME NEW t, NEW a, NEW b, NEW c, Stage(t) = <<a, b, c>>
  PROVE  t.log = a /\ t.broker = b /\ t.applied = c
BY DEF Stage

\* With the live gateway, what the account holds less what is on sale is no more
\* than what is there once all open sales have executed, and likewise for cash.
LEMMA HeldCovered ==
  ASSUME SubmitInv, ~Paper, NEW s \in Symbols
  PROVE  /\ Held(s) + Shares(Of(s) \cap Open \cap Side("sell"))
              <= Initial[s] + Moved(tickets, Offered(tickets, s))
         /\ Held(s) + Shares(Of(s) \cap Open \cap Side("sell")) \in Int
         /\ CashHeld - Value(Open \cap Side("buy")) <= Cash - Spent(tickets, Bought(tickets))
         /\ CashHeld - Value(Open \cap Side("buy")) \in Int
<1> DEFINE D == DOMAIN tickets
           SA == Of(s) \cap Applied
           SO == Of(s) \cap Open \cap Side("sell")
           SF == Offered(tickets, s)
           CO == Open \cap Side("buy")
           CF == Bought(tickets)
           A == Moves(tickets, SA)
           O == Moves(tickets, SO)
           F == Moves(tickets, SF)
           W == [k \in D |-> A[k] + O[k]]
           B == Costs(tickets, Applied)
           P == Costs(tickets, CO)
           G == Costs(tickets, CF)
           X == [k \in D |-> B[k] + P[k]]
<1>1. Booked(tickets) /\ IsFiniteSet(D)
  BY LogBooked DEF Booked
<1>2. \A k \in D : /\ A[k] \in Int /\ O[k] \in Int /\ F[k] \in Int
                   /\ B[k] \in Int /\ P[k] \in Int /\ G[k] \in Int
  BY <1>1, MovesType
<1>3. ASSUME NEW k \in D PROVE A[k] + O[k] <= F[k] /\ G[k] <= B[k] + P[k]
  <2> DEFINE t == tickets[k]
             q == t.quantity
             p == Price[t.symbol]
  <2>1. t \in TicketType /\ q \in Nat /\ q > 0 /\ p \in Nat /\ t.side \in Sides
    BY <1>1, SubmitAssumption DEF Booked, TicketType
  <2>2. Signed(t) = IF t.side = "buy" THEN q ELSE -q
    BY DEF Signed
  <2>3. q * p \in Nat /\ (-q) * p = -(q * p)
    <3> HIDE DEF q, p, t
    <3> QED BY <2>1
  <2>4. /\ A[k] = (IF k \in SA THEN Signed(t) ELSE 0)
        /\ O[k] = (IF k \in SO THEN Signed(t) ELSE 0)
        /\ F[k] = (IF k \in SF THEN Signed(t) ELSE 0)
        /\ B[k] = (IF k \in Applied THEN Signed(t) * p ELSE 0)
        /\ P[k] = (IF k \in CO THEN Signed(t) * p ELSE 0)
        /\ G[k] = (IF k \in CF THEN Signed(t) * p ELSE 0)
    BY DEF Moves, Costs
  <2>5. /\ k \in SA <=> t.symbol = s /\ t.applied
        /\ k \in Applied <=> t.applied
        /\ k \in SO <=> t.symbol = s /\ t.log = "open" /\ t.side = "sell"
        /\ k \in CO <=> t.log = "open" /\ t.side = "buy"
    BY DEF Of, Applied, Open, Side, Ids
  <2>6. /\ k \in SF <=> /\ t.symbol = s
                        /\ \/ t.broker = "executed" /\ ~(t.missed /\ t.side = "sell")
                           \/ t.broker = "working" /\ t.side = "sell"
        /\ k \in CF <=> \/ t.broker = "executed" /\ ~(t.missed /\ t.side = "buy")
                        \/ t.broker = "working" /\ t.side = "buy"
    BY DEF Offered, Bought
  <2>7. Stage(t) \in LiveStages /\ (Lost(t) => t.missed)
    BY DEF SubmitInv, StagesInOrder, LostIsMissed, Ids
  <2>8. /\ t.applied => t.broker = "executed"
        /\ t.broker = "working" => t.log = "open"
        /\ t.broker = "executed" /\ ~t.applied => t.log = "open" \/ t.missed
    BY <2>7 DEF LiveStages, Stage, Lost
  <2> HIDE DEF A, O, F, B, P, G, SA, SO, SF, CO, CF
  <2>9. CASE t.side = "buy"
    <3>1. Signed(t) = q /\ k \notin SO /\ (k \in SA => k \in SF)
      BY <2>2, <2>5, <2>6, <2>8, <2>9
    <3>2. k \in CF => k \in Applied \/ k \in CO
      BY <2>5, <2>6, <2>8, <2>9
    <3> HIDE DEF q, p, t
    <3> QED BY <2>1, <2>3, <2>4, <3>1, <3>2
  <2>10. CASE t.side = "sell"
    <3>1. Signed(t) = -q /\ k \notin CO
      BY <2>2, <2>5, <2>10
    <3>2. (k \in SF => k \in SA \/ k \in SO) /\ (k \in Applied => k \in CF)
      BY <2>5, <2>6, <2>8, <2>10
    <3> HIDE DEF q, p, t
    <3> QED BY <2>1, <2>3, <2>4, <3>1, <3>2
  <2> QED BY <2>1, <2>9, <2>10 DEF Sides
<1>4. \A k \in D : /\ W[k] = A[k] + O[k] /\ X[k] = B[k] + P[k]
                   /\ W[k] \in Int /\ X[k] \in Int
  <2> HIDE DEF A, O, B, P, D
  <2> QED BY <1>2
<1>5. /\ SA \in SUBSET Ids /\ SO \in SUBSET Ids /\ CO \in SUBSET Ids /\ Applied \in SUBSET Ids
  BY DEF Of, Open, Applied
<1>6. /\ Shares(SO) = Moved(tickets, SO) /\ Value(CO) = Spent(tickets, CO)
      /\ Value(Applied) = Spent(tickets, Applied)
      /\ Held(s) = Initial[s] + Moved(tickets, SA)
  BY <1>5, SharesAre, HeldType
<1>7. CashHeld = Cash - Spent(tickets, Applied)
  BY <1>6 DEF CashHeld
<1>8. Initial[s] \in Int /\ Cash \in Int
  BY SubmitAssumption
<1> DEFINE Sum(V) == SumFunctionOnSet(V, D)
<1>9. /\ Moved(tickets, SA) = Sum(A) /\ Moved(tickets, SO) = Sum(O)
      /\ Moved(tickets, SF) = Sum(F) /\ Spent(tickets, Applied) = Sum(B)
      /\ Spent(tickets, CO) = Sum(P) /\ Spent(tickets, CF) = Sum(G)
  BY DEF Moved, Spent
<1> HIDE DEF A, O, F, W, B, P, G, X, SA, SO, SF, CO, CF, D
<1>10. Sum(W) = Sum(A) + Sum(O) /\ Sum(X) = Sum(B) + Sum(P)
  BY <1>1, <1>2, <1>4, SumPlus
<1>11. Sum(W) <= Sum(F)
  BY <1>1, <1>2, <1>3, <1>4, SumAtMost
<1>12. Sum(G) <= Sum(X)
  BY <1>1, <1>2, <1>3, <1>4, SumAtMost
<1>13. /\ Sum(A) \in Int /\ Sum(O) \in Int /\ Sum(F) \in Int
       /\ Sum(B) \in Int /\ Sum(P) \in Int /\ Sum(G) \in Int
  BY <1>1, <1>2, SumType
<1> HIDE DEF Sum
<1>14. /\ Held(s) + Shares(SO) <= Initial[s] + Moved(tickets, SF)
       /\ Held(s) + Shares(SO) \in Int
  BY <1>6, <1>8, <1>9, <1>10, <1>11, <1>13
<1>15. /\ CashHeld - Value(CO) <= Cash - Spent(tickets, CF)
       /\ CashHeld - Value(CO) \in Int
  BY <1>6, <1>7, <1>8, <1>9, <1>10, <1>12, <1>13
<1> QED BY <1>14, <1>15 DEF SO, SF, CO, CF

\* Between passes the guard projects what the sleeve will hold of a symbol once all
\* its orders have executed, if log, account and broker tell the same of it.
LEMMA ProjectedIs ==
  ASSUME SubmitInv, supervisor = Idle, NEW s \in Symbols, InSync(s)
  PROVE  Projected(s) = Initial[s] + Moved(tickets, Exposed(tickets, s))
<1> DEFINE D == DOMAIN tickets
           SA == Of(s) \cap Applied
           SO == Of(s) \cap Open
           SU == Of(s) \cap Unapplied
           SE == Exposed(tickets, s)
           A == Moves(tickets, SA)
           O == Moves(tickets, SO)
           U == Moves(tickets, SU)
           E == Moves(tickets, SE)
           W == [k \in D |-> A[k] + O[k]]
<1>1. Booked(tickets) /\ IsFiniteSet(D)
  BY LogBooked DEF Booked
<1>2. \A k \in D : A[k] \in Int /\ O[k] \in Int /\ U[k] \in Int /\ E[k] \in Int
  BY <1>1, MovesType
<1>3. ASSUME NEW k \in D PROVE E[k] = (A[k] + O[k]) + U[k]
  <2> DEFINE t == tickets[k]
  <2>1. Signed(t) \in Int
    BY <1>1, TicketSigned
  <2>2. /\ A[k] = (IF k \in SA THEN Signed(t) ELSE 0)
        /\ O[k] = (IF k \in SO THEN Signed(t) ELSE 0)
        /\ U[k] = (IF k \in SU THEN Signed(t) ELSE 0)
        /\ E[k] = (IF k \in SE THEN Signed(t) ELSE 0)
    BY DEF Moves
  <2>3. /\ k \in SA <=> t.symbol = s /\ t.applied
        /\ k \in SO <=> t.symbol = s /\ t.log = "open"
        /\ k \in SU <=> t.symbol = s /\ t.log = "filled" /\ ~t.applied
        /\ k \in SE <=> t.symbol = s /\ t.broker \in {"executed", "working"}
    BY DEF Of, Applied, Open, Unapplied, Exposed, Ids
  <2>4. ASSUME t.symbol = s
        PROVE  /\ t.broker \in {"executed", "working"} <=>
                    t.applied \/ t.log = "open" \/ (t.log = "filled" /\ ~t.applied)
               /\ ~(t.applied /\ t.log = "open")
    <3>1. CASE Paper
      <4>1. Stage(t) \in PaperStages
        BY <3>1 DEF SubmitInv, StagesInOrder, Ids
      <4> QED BY <4>1 DEF PaperStages, Stage
    <3>2. CASE ~Paper
      <4>1. Stage(t) \in LiveStages /\ k \in Of(s)
        BY <2>4, <3>2 DEF SubmitInv, StagesInOrder, Ids, Of
      <4>2. Stage(t) # <<"open", "executed", TRUE>>
        <5>1. CASE crashes = 0
          BY <3>2, <5>1 DEF SubmitInv, AheadOnlyInPass, Idle, Ids
        <5>2. CASE Ahead(s) = {}
          BY <4>1, <5>2 DEF Ahead, Applied, Ids, Of, Stage
        <5> QED BY <3>2, <5>1, <5>2 DEF InSync
      <4>3. Stage(t) # <<"closed", "executed", FALSE>>
        BY <4>1 DEF InSync, Overlooked, Executed, Ids, Of, Stage
      <4>4. Stage(t) # <<"open", "closed", FALSE>>
        BY <4>1 DEF InSync, Lapsed, Open, Ids, Of, Stage
      <4>5. Stage(t) \in {<<"open", "working", FALSE>>, <<"open", "executed", FALSE>>,
                         <<"filled", "executed", TRUE>>, <<"closed", "closed", FALSE>>,
                         <<"closed", "none", FALSE>>, <<"closed", "executed", TRUE>>}
        BY <4>1, <4>2, <4>3, <4>4 DEF LiveStages
      <4> QED BY <4>5 DEF Stage
    <3> QED BY <3>1, <3>2
  <2> HIDE DEF A, O, U, E, SA, SO, SU, SE
  <2>5. CASE k \in SE
    <3>1. \/ k \in SA /\ k \notin SO /\ k \notin SU
          \/ k \notin SA /\ k \in SO /\ k \notin SU
          \/ k \notin SA /\ k \notin SO /\ k \in SU
      BY <2>3, <2>4, <2>5
    <3> HIDE DEF t
    <3> QED BY <2>1, <2>2, <2>5, <3>1
  <2>6. CASE k \notin SE
    <3>1. k \notin SA /\ k \notin SO /\ k \notin SU
      BY <2>3, <2>4, <2>6
    <3> QED BY <2>2, <2>6, <3>1
  <2> QED BY <2>5, <2>6
<1>4. \A k \in D : W[k] = A[k] + O[k] /\ W[k] \in Int
  <2> HIDE DEF A, O, D
  <2> QED BY <1>2
<1>5. /\ Held(s) = Initial[s] + Moved(tickets, SA) /\ Pending(s) = Moved(tickets, SO)
      /\ Projected(s) = Held(s) + Pending(s) + Moved(tickets, SU)
  BY HeldType
<1>6. Initial[s] \in Int
  BY SubmitAssumption
<1> DEFINE Sum(V) == SumFunctionOnSet(V, D)
<1>7. /\ Moved(tickets, SA) = Sum(A) /\ Moved(tickets, SO) = Sum(O)
      /\ Moved(tickets, SU) = Sum(U) /\ Moved(tickets, SE) = Sum(E)
  BY DEF Moved
<1> HIDE DEF A, O, U, E, W, SA, SO, SU, SE, D
<1>8. Sum(W) = Sum(A) + Sum(O)
  BY <1>1, <1>2, <1>4, SumPlus
<1>9. \A k \in D : E[k] = W[k] + U[k]
  BY <1>3, <1>4
<1>10. Sum(E) = Sum(W) + Sum(U)
  BY <1>1, <1>2, <1>4, <1>9, SumPlus
<1>11. Sum(A) \in Int /\ Sum(O) \in Int /\ Sum(U) \in Int
  BY <1>1, <1>2, SumType
<1> HIDE DEF Sum
<1>12. Projected(s) = Initial[s] + Moved(tickets, SE)
  BY <1>5, <1>6, <1>7, <1>8, <1>10, <1>11
<1> QED BY <1>12 DEF SE

-------------------------------------------------------------------------------
(* What the guard lets through.                                               *)

\* All orders for a symbol ask for its one target, and the guard measures what
\* is missing from it.
LEMMA UnreservedType ==
  ASSUME SubmitInv, NEW side \in [Symbols -> Sides], NEW targets \in [Symbols -> Nat],
         NEW orders \in Seq(Asked(side, targets)), NEW s \in Traded(orders)
  PROVE  /\ s \in Symbols /\ TargetOf(orders, s) = targets[s]
         /\ Unreserved(orders, s) = targets[s] - Projected(s)
         /\ Unreserved(orders, s) \in Int
<1>1. ASSUME NEW i \in DOMAIN orders
      PROVE  /\ orders[i] \in OrderType /\ orders[i].symbol \in Symbols
             /\ orders[i].target = targets[orders[i].symbol]
  <2>1. orders[i] \in Asked(side, targets)
    OBVIOUS
  <2> QED BY <2>1 DEF Asked, OrderType
<1>2. s \in Symbols /\ Lines(orders, s) # {}
  BY <1>1 DEF Traded, Lines
<1> DEFINE i == CHOOSE i \in Lines(orders, s) : TRUE
<1>3. i \in Lines(orders, s)
  BY <1>2
<1>4. TargetOf(orders, s) = orders[i].target
  BY DEF TargetOf
<1> HIDE DEF i
<1>5. TargetOf(orders, s) = targets[s]
  BY <1>1, <1>3, <1>4 DEF Lines
<1>6. Projected(s) \in Int /\ targets[s] \in Int
  <2>1. Projected(s) \in Int
    BY <1>2, HeldType
  <2>2. targets[s] \in Nat
    BY <1>2
  <2> QED BY <2>1, <2>2
<1> QED BY <1>2, <1>5, <1>6 DEF Unreserved

\* An order is cut down to what is left of the target, never to less than nothing.
LEMMA WithinType ==
  ASSUME SubmitInv, NEW side \in [Symbols -> Sides], NEW targets \in [Symbols -> Nat],
         NEW orders \in Seq(Asked(side, targets)), NEW i \in DOMAIN orders
  PROVE  Within(orders, i) \in Nat
<1> DEFINE s == orders[i].symbol
           before == {j \in Lines(orders, s) : j < i}
           taken == [j \in before |-> orders[j].quantity]
           left == Size(Unreserved(orders, s)) - SumFunction(taken)
<1>1. ASSUME NEW j \in DOMAIN orders PROVE orders[j].quantity \in Nat
  <2>1. orders[j] \in Asked(side, targets)
    OBVIOUS
  <2> QED BY <2>1 DEF Asked, OrderType
<1>2. s \in Traded(orders)
  BY DEF Traded
<1>3. Unreserved(orders, s) \in Int
  <2> HIDE DEF s
  <2> QED BY <1>2, UnreservedType
<1>4. SumFunction(taken) \in Nat
  <2>1. IsFiniteSet(DOMAIN orders)
    <3>1. DOMAIN orders = 1..Len(orders) /\ Len(orders) \in Nat
      OBVIOUS
    <3> QED BY <3>1, FS_Interval
  <2>2. before \subseteq DOMAIN orders
    BY DEF Lines
  <2>3. IsFiniteSet(before) /\ DOMAIN taken = before
    BY <2>1, <2>2, FS_Subset
  <2>4. \A j \in before : taken[j] \in Nat
    BY <1>1, <2>2
  <2> HIDE DEF taken, before
  <2> QED BY <2>3, <2>4, SumNat
<1>5. left \in Int
  <2> HIDE DEF s, taken
  <2> QED BY <1>3, <1>4 DEF Size
<1>6. Within(orders, i) = IF ~Exceeding(orders, s) THEN orders[i].quantity
                          ELSE Max({0, Min({orders[i].quantity, left})})
  BY DEF Within
<1> HIDE DEF left, s
<1>7. Min({orders[i].quantity, left}) \in Int
  <2>1. orders[i].quantity \in Int
    BY <1>1
  <2>2. Min({orders[i].quantity, left}) = IF orders[i].quantity <= left THEN orders[i].quantity ELSE left
    BY <1>5, <2>1, SmallestOf
  <2> QED BY <1>5, <2>1, <2>2
<1>8. Max({0, Min({orders[i].quantity, left})}) \in Nat
  <2> DEFINE m == Min({orders[i].quantity, left})
  <2>1. m \in Int /\ 0 \in Int
    BY <1>7
  <2> HIDE DEF m
  <2>2. Max({0, m}) = IF 0 >= m THEN 0 ELSE m
    BY <2>1, LargestOf
  <2>3. Max({0, m}) \in Nat
    BY <2>1, <2>2
  <2> QED BY <2>3 DEF m
<1> QED BY <1>1, <1>6, <1>8

\* What the repair leaves of a batch is a batch of the same sides and targets.
LEMMA RepairedType ==
  ASSUME SubmitInv, NEW side \in [Symbols -> Sides], NEW targets \in [Symbols -> Nat],
         NEW orders \in Seq(Asked(side, targets))
  PROVE  Repaired(orders) \in Seq(Asked(side, targets))
<1> DEFINE T == Asked(side, targets)
           part(i) == IF orders[i].symbol \in Dropped(orders) \/ Within(orders, i) = 0 THEN << >>
                      ELSE <<CutDown(orders, i)>>
           parts == [i \in DOMAIN orders |-> part(i)]
<1>1. DOMAIN orders = 1..Len(orders) /\ Len(orders) \in Nat
  OBVIOUS
<1>2. ASSUME NEW i \in DOMAIN orders PROVE part(i) \in Seq(T)
  <2>1. CASE orders[i].symbol \in Dropped(orders) \/ Within(orders, i) = 0
    <3>1. part(i) = << >>
      BY <2>1
    <3> QED BY <3>1
  <2>2. CASE ~(orders[i].symbol \in Dropped(orders) \/ Within(orders, i) = 0)
    <3>1. Within(orders, i) \in Nat \ {0}
      BY <2>2, WithinType
    <3>2. orders[i] \in T
      OBVIOUS
    <3>3. CutDown(orders, i) \in T
      BY <3>1, <3>2 DEF CutDown, Asked, OrderType
    <3>4. part(i) = <<CutDown(orders, i)>>
      BY <2>2
    <3> HIDE DEF T, part
    <3> QED BY <3>3, <3>4
  <2> QED BY <2>1, <2>2
<1>3. Repaired(orders) = FlattenSeq(parts)
  BY DEF Repaired
<1>4. parts \in Seq(Seq(T))
  <2> HIDE DEF part, T
  <2> QED BY <1>1, <1>2
<1> HIDE DEF parts, T
<1>5. Repaired(orders) \in Seq(T)
  BY <1>3, <1>4, FlattenedType
<1> QED BY <1>5 DEF T

\* So is what the guard admits, and the guard rejects none of it.
LEMMA AdmittedType ==
  ASSUME SubmitInv, NEW side \in [Symbols -> Sides], NEW targets \in [Symbols -> Nat],
         NEW orders \in Seq(Asked(side, targets)), Admitted(orders) # << >>
  PROVE  Admitted(orders) \in Seq(Asked(side, targets)) /\ ~Rejected(Admitted(orders))
BY RepairedType DEF Admitted

-------------------------------------------------------------------------------
(* A submit.                                                                  *)

\* What a submit does once it is known what is sent and what is accepted.
SentIds(orders) == {<<artifact.batch, i>> : i \in DOMAIN orders}
\* What a submit does with the orders it sends and those the broker accepts.
SentLines(orders) == {<<artifact.batch, orders[i].line>> : i \in DOMAIN orders}
Sends(orders, accepted) ==
  /\ supervisor = Idle
  /\ orders = Admitted(artifact.orders) /\ orders # << >>
  /\ accepted \in SUBSET DOMAIN orders
  /\ Paper => accepted = DOMAIN orders
  /\ tickets' = [k \in Ids \cup SentIds(orders) |->
                   IF k \notin SentIds(orders) THEN tickets[k]
                   ELSE Sent(orders[k[2]], k[2] \in accepted)]
  /\ placed' = [l \in DOMAIN placed \cup SentLines(orders) |->
                  Count(l) + (IF l \in SentLines(orders) THEN 1 ELSE 0)]
  /\ UNCHANGED <<gateway, artifact, supervisor, crashes>>

\* A submit is such a step.
LEMMA SubmitSends == ASSUME Submit PROVE \E orders, accepted : Sends(orders, accepted)
BY DEF Submit, Sends, SentIds, SentLines

\* What is sent agrees with the batch, passed the guard and gets new tickets.
LEMMA SentFacts ==
  ASSUME SubmitInv, NEW orders, NEW accepted, Sends(orders, accepted),
         NEW side \in [Symbols -> Sides], NEW targets \in [Symbols -> Nat],
         artifact.orders \in Seq(Asked(side, targets))
  PROVE  /\ orders \in Seq(Asked(side, targets)) /\ ~Rejected(orders)
         /\ DOMAIN orders = 1..Len(orders) /\ Len(orders) \in Nat \ {0}
         /\ artifact.batch \in 1..MaxBatches
         /\ SentIds(orders) \cap Ids = {} /\ IsFiniteSet(SentIds(orders))
         /\ DOMAIN tickets' = Ids \cup SentIds(orders)
         /\ \A k \in Ids : tickets'[k] = tickets[k]
         /\ \A i \in DOMAIN orders :
              tickets'[<<artifact.batch, i>>] = Sent(orders[i], i \in accepted)
         /\ Booked(tickets')
<1>1. orders \in Seq(Asked(side, targets)) /\ ~Rejected(orders) /\ orders # << >>
  BY AdmittedType DEF Sends
<1>2. DOMAIN orders = 1..Len(orders) /\ Len(orders) \in Nat \ {0}
  BY <1>1
<1>3. artifact.batch \in 1..MaxBatches
  <2>1. artifact.batch \in 0..MaxBatches /\ MaxBatches \in Nat
    BY SubmitAssumption DEF SubmitInv, TypeOK
  <2>2. artifact.batch # 0
    <3>1. SUFFICES ASSUME artifact.orders = << >> PROVE FALSE
      BY DEF SubmitInv, BatchSound
    <3>2. Len(Repaired(<< >>)) = 0
      <4>1. Repaired(<< >>) = FlattenSeq([i \in DOMAIN << >> |->
              IF << >>[i].symbol \in Dropped(<< >>) \/ Within(<< >>, i) = 0 THEN << >>
              ELSE <<CutDown(<< >>, i)>>])
        BY DEF Repaired
      <4>2. [i \in DOMAIN << >> |->
              IF << >>[i].symbol \in Dropped(<< >>) \/ Within(<< >>, i) = 0 THEN << >>
              ELSE <<CutDown(<< >>, i)>>] = << >>
        OBVIOUS
      <4>3. FlattenSeq(<< >>) = << >>
        BY DEF FlattenSeq
      <4> QED BY <4>1, <4>2, <4>3
    <3>3. Repaired(<< >>) \in Seq(Asked(side, targets))
      BY <3>1, RepairedType
    <3>4. Repaired(<< >>) = << >>
      BY <3>2, <3>3
    <3>5. Admitted(<< >>) = << >>
      BY <3>4 DEF Admitted
    <3> QED BY <3>1, <3>5 DEF Sends
  <2> QED BY <2>1, <2>2
<1>4. SentIds(orders) \cap Ids = {}
  BY <1>1 DEF Rejected, Duplicate, SentIds
<1>5. IsFiniteSet(SentIds(orders))
  <2> DEFINE f == [i \in DOMAIN orders |-> <<artifact.batch, i>>]
  <2>1. IsFiniteSet(DOMAIN orders) /\ DOMAIN f = DOMAIN orders
    BY <1>2, FS_Interval
  <2>2. SentIds(orders) = {f[i] : i \in DOMAIN orders}
    BY DEF SentIds
  <2> HIDE DEF f
  <2>3. IsFiniteSet({f[i] : i \in DOMAIN orders})
    BY <2>1, ImageFinite
  <2> QED BY <2>2, <2>3
<1>6. DOMAIN tickets' = Ids \cup SentIds(orders) /\ \A k \in Ids : tickets'[k] = tickets[k]
  BY <1>4 DEF Sends
<1>7. ASSUME NEW i \in DOMAIN orders
      PROVE  tickets'[<<artifact.batch, i>>] = Sent(orders[i], i \in accepted)
  <2>1. <<artifact.batch, i>> \in SentIds(orders) /\ <<artifact.batch, i>>[2] = i
    BY DEF SentIds
  <2> QED BY <2>1 DEF Sends
<1>8. Booked(tickets')
  <2>1. IsFiniteSet(DOMAIN tickets')
    BY <1>5, <1>6, FS_Union DEF SubmitInv
  <2>2. \A k \in Ids : tickets'[k] \in TicketType
    BY <1>6, LogBooked DEF Booked, Ids
  <2>3. ASSUME NEW i \in DOMAIN orders PROVE tickets'[<<artifact.batch, i>>] \in TicketType
    <3>1. orders[i] \in OrderType
      <4>1. orders[i] \in Asked(side, targets)
        BY <1>1
      <4> QED BY <4>1 DEF Asked
    <3>2. (i \in accepted) \in BOOLEAN
      OBVIOUS
    <3>3. Sent(orders[i], i \in accepted) \in TicketType
      BY <3>1 DEF Sent, OrderType, TicketType
    <3> QED BY <1>7, <3>3
  <2>4. \A k \in SentIds(orders) : tickets'[k] \in TicketType
    BY <2>3 DEF SentIds
  <2> QED BY <1>6, <2>1, <2>2, <2>4 DEF Booked
<1> QED BY <1>1, <1>2, <1>3, <1>4, <1>5, <1>6, <1>7, <1>8

\* The ids of a batch of n orders.
BatchIds(b, n) == {<<b, i>> : i \in 1..n}

\* A sum over the tickets after a submit is the sum over the old ones plus the
\* sum over the orders that were sent.
Extends(D, n, b, X, W, V) ==
  /\ IsFiniteSet(D) /\ n \in Nat /\ BatchIds(b, n) \cap D = {}
  /\ \A k \in D : W[k] = X[k] /\ X[k] \in Int
  /\ \A i \in 1..n : V[i] = W[<<b, i>>] /\ V[i] \in Int

\* The sum over the old tickets and a batch is the sum of the two sums.
LEMMA SumOverSent ==
  ASSUME NEW D, NEW n, NEW b, NEW X, NEW W, NEW V, Extends(D, n, b, X, W, V)
  PROVE  /\ SumFunctionOnSet(W, D \cup BatchIds(b, n))
              = SumFunctionOnSet(X, D) + SumFunctionOnSet(V, 1..n)
         /\ SumFunctionOnSet(X, D) \in Int /\ SumFunctionOnSet(V, 1..n) \in Int
<1> USE DEF Extends
<1> DEFINE f == [i \in 1..n |-> <<b, i>>]
           N == {f[i] : i \in 1..n}
<1>1. N = BatchIds(b, n)
  BY DEF BatchIds
<1>2. IsFiniteSet(1..n) /\ DOMAIN f = 1..n
  BY FS_Interval
<1>3. \A i, j \in 1..n : f[i] = f[j] => i = j
  OBVIOUS
<1>4. \A i \in 1..n : V[i] = W[f[i]] /\ V[i] \in Int
  OBVIOUS
<1>5. N \cap D = {}
  BY <1>1
<1> HIDE DEF f
<1>6. IsFiniteSet(N)
  BY <1>2, ImageFinite
<1>7. SumFunctionOnSet(W, N) = SumFunctionOnSet(V, 1..n)
  <2> DEFINE I == 1..n
  <2>1. IsFiniteSet(I) /\ DOMAIN f = I /\ (\A x, y \in I : f[x] = f[y] => x = y)
        /\ (\A x \in I : V[x] = W[f[x]] /\ V[x] \in Int)
    BY <1>2, <1>3, <1>4
  <2> HIDE DEF I
  <2>2. SumFunctionOnSet(W, {f[x] : x \in I}) = SumFunctionOnSet(V, I)
    BY ONLY <2>1, SumRenamed
  <2> QED BY <2>2 DEF I
<1>8. \A k \in N : W[k] \in Int
  BY <1>4
<1> HIDE DEF N
<1>9. \A k \in D \cup N : W[k] \in Int
  BY <1>8
<1>10. D \cap N = {}
  BY <1>5
<1>11. SumFunctionOnSet(W, D \cup N) = SumFunctionOnSet(W, D) + SumFunctionOnSet(W, N)
  BY <1>6, <1>9, <1>10, SumDisjoint
<1>12. SumFunctionOnSet(W, D) = SumFunctionOnSet(X, D)
  BY SumSame
<1>13. SumFunctionOnSet(X, D) \in Int
  BY SumType
<1>14. SumFunctionOnSet(V, 1..n) \in Int
  BY <1>2, <1>4, SumType
<1> QED BY <1>1, <1>7, <1>11, <1>12, <1>13, <1>14

\* What the orders sent weigh in a set of tickets.
SentMoves(orders, S) ==
  [i \in DOMAIN orders |-> IF <<artifact.batch, i>> \in S THEN Signed(orders[i]) ELSE 0]
SentCosts(orders, S) ==
  [i \in DOMAIN orders |->
     IF <<artifact.batch, i>> \in S THEN Signed(orders[i]) * Price[orders[i].symbol] ELSE 0]

\* A submit adds to what is moved and spent the orders of its batch.
LEMMA MovedBySubmit ==
  ASSUME SubmitInv, NEW orders, NEW accepted, Sends(orders, accepted),
         NEW side \in [Symbols -> Sides], NEW targets \in [Symbols -> Nat],
         artifact.orders \in Seq(Asked(side, targets)),
         NEW R, NEW S, \A k \in Ids : k \in S <=> k \in R
  PROVE  /\ Moved(tickets', S) = Moved(tickets, R)
                                   + SumFunctionOnSet(SentMoves(orders, S), DOMAIN orders)
         /\ Spent(tickets', S) = Spent(tickets, R)
                                   + SumFunctionOnSet(SentCosts(orders, S), DOMAIN orders)
         /\ Moved(tickets, R) \in Int /\ Spent(tickets, R) \in Int
         /\ \A i \in DOMAIN orders : /\ SentMoves(orders, S)[i] \in Int
                                     /\ SentCosts(orders, S)[i] \in Int
<1> DEFINE n == Len(orders)
           b == artifact.batch
           u == tickets'
           W == Moves(u, S)
           X == Moves(tickets, R)
           V == SentMoves(orders, S)
           Y == Costs(u, S)
           Z == Costs(tickets, R)
           P == SentCosts(orders, S)
           N == BatchIds(b, n)
<1>1. /\ orders \in Seq(Asked(side, targets)) /\ DOMAIN orders = 1..n /\ n \in Nat
      /\ N \cap Ids = {} /\ DOMAIN u = Ids \cup N /\ Booked(u)
      /\ \A k \in Ids : u[k] = tickets[k]
      /\ \A i \in 1..n : u[<<b, i>>] = Sent(orders[i], i \in accepted)
  <2>1. SentIds(orders) = N
    BY SentFacts DEF SentIds, BatchIds
  <2> HIDE DEF N, b, n
  <2> QED BY <2>1, SentFacts DEF b, n
<1>2. Booked(tickets) /\ IsFiniteSet(Ids)
  BY LogBooked DEF SubmitInv
<1>3. /\ \A k \in DOMAIN u : W[k] \in Int /\ Y[k] \in Int
      /\ \A k \in Ids : X[k] \in Int /\ Z[k] \in Int
  BY <1>1, <1>2, MovesType DEF Ids
<1>4. \A k \in Ids : W[k] = X[k] /\ Y[k] = Z[k]
  <2> SUFFICES ASSUME NEW k \in Ids PROVE W[k] = X[k] /\ Y[k] = Z[k]
    OBVIOUS
  <2>1. k \in DOMAIN u /\ k \in DOMAIN tickets /\ u[k] = tickets[k]
    BY <1>1 DEF Ids
  <2> QED BY <2>1 DEF Moves, Costs
<1>5. ASSUME NEW i \in 1..n PROVE V[i] = W[<<b, i>>] /\ P[i] = Y[<<b, i>>]
  <2>1. <<b, i>> \in DOMAIN u /\ u[<<b, i>>] = Sent(orders[i], i \in accepted)
    BY <1>1 DEF BatchIds
  <2>2. /\ Signed(u[<<b, i>>]) = Signed(orders[i])
        /\ u[<<b, i>>].symbol = orders[i].symbol
    BY <2>1 DEF Sent, Signed
  <2> HIDE DEF u
  <2>3. /\ W[<<b, i>>] = (IF <<b, i>> \in S THEN Signed(orders[i]) ELSE 0)
        /\ Y[<<b, i>>] = (IF <<b, i>> \in S THEN Signed(orders[i]) * Price[orders[i].symbol] ELSE 0)
    BY <2>1, <2>2 DEF Moves, Costs
  <2> QED BY <1>1, <2>3 DEF SentMoves, SentCosts
<1>6. \A i \in 1..n : V[i] \in Int /\ P[i] \in Int
  <2> HIDE DEF V, P, W, Y, u, n, b
  <2>1. ASSUME NEW i \in 1..n PROVE <<b, i>> \in DOMAIN u
    BY <1>1 DEF BatchIds
  <2> QED BY <1>3, <1>5, <2>1
<1>7. Moved(u, S) = SumFunctionOnSet(W, Ids \cup N) /\ Spent(u, S) = SumFunctionOnSet(Y, Ids \cup N)
      /\ Moved(tickets, R) = SumFunctionOnSet(X, Ids) /\ Spent(tickets, R) = SumFunctionOnSet(Z, Ids)
  BY <1>1 DEF Moved, Spent, Ids
<1>11. \A k \in Ids : W[k] = X[k] /\ X[k] \in Int
  BY <1>3, <1>4
<1>12. \A k \in Ids : Y[k] = Z[k] /\ Z[k] \in Int
  BY <1>3, <1>4
<1>13. \A i \in 1..n : V[i] = W[<<b, i>>] /\ V[i] \in Int
  BY <1>5, <1>6
<1>14. \A i \in 1..n : P[i] = Y[<<b, i>>] /\ P[i] \in Int
  BY <1>5, <1>6
<1>15. IsFiniteSet(Ids) /\ BatchIds(b, n) \cap Ids = {} /\ n \in Nat
  BY <1>1, <1>2
<1> HIDE DEF u, W, X, V, Y, Z, P, b, n, N
<1>8. /\ SumFunctionOnSet(W, Ids \cup BatchIds(b, n))
           = SumFunctionOnSet(X, Ids) + SumFunctionOnSet(V, 1..n)
      /\ SumFunctionOnSet(X, Ids) \in Int /\ SumFunctionOnSet(V, 1..n) \in Int
  <2>1. Extends(Ids, n, b, X, W, V)
    BY ONLY <1>11, <1>13, <1>15 DEF Extends
  <2> QED BY ONLY <2>1, SumOverSent
<1>9. /\ SumFunctionOnSet(Y, Ids \cup BatchIds(b, n))
           = SumFunctionOnSet(Z, Ids) + SumFunctionOnSet(P, 1..n)
      /\ SumFunctionOnSet(Z, Ids) \in Int /\ SumFunctionOnSet(P, 1..n) \in Int
  <2>1. Extends(Ids, n, b, Z, Y, P)
    BY ONLY <1>12, <1>14, <1>15 DEF Extends
  <2> QED BY ONLY <2>1, SumOverSent
<1>10. /\ Moved(u, S) = Moved(tickets, R) + SumFunctionOnSet(V, DOMAIN orders)
       /\ Spent(u, S) = Spent(tickets, R) + SumFunctionOnSet(P, DOMAIN orders)
       /\ Moved(tickets, R) \in Int /\ Spent(tickets, R) \in Int
  BY <1>1, <1>7, <1>8, <1>9 DEF N
<1> QED BY <1>1, <1>6, <1>10 DEF u, V, P

\* What the orders of a batch ask for and would cost, order by order.
Asks(orders, s) ==
  [i \in DOMAIN orders |-> IF orders[i].symbol = s THEN Signed(orders[i]) ELSE 0]
Pays(orders) ==
  [i \in DOMAIN orders |->
     IF orders[i].side = "buy" THEN orders[i].quantity * Price[orders[i].symbol] ELSE 0]

\* An order of a batch that agrees with one side and one target for each symbol.
LEMMA OrderFields ==
  ASSUME NEW side \in [Symbols -> Sides], NEW targets \in [Symbols -> Nat],
         NEW orders \in Seq(Asked(side, targets)), NEW i \in DOMAIN orders
  PROVE  /\ orders[i].symbol \in Symbols /\ orders[i].side = side[orders[i].symbol]
         /\ orders[i].side \in Sides
         /\ orders[i].quantity \in Nat /\ orders[i].quantity > 0
         /\ Price[orders[i].symbol] \in Nat /\ Price[orders[i].symbol] > 0
         /\ orders[i].quantity * Price[orders[i].symbol] \in Nat
         /\ orders[i].quantity * Price[orders[i].symbol] > 0
         /\ Signed(orders[i]) = IF orders[i].side = "buy" THEN orders[i].quantity
                                ELSE -orders[i].quantity
<1>1. orders[i] \in Asked(side, targets)
  OBVIOUS
<1>2. /\ orders[i].symbol \in Symbols /\ orders[i].side = side[orders[i].symbol]
      /\ orders[i].side \in Sides /\ orders[i].quantity \in Nat \ {0}
  BY <1>1 DEF Asked, OrderType
<1>3. Price[orders[i].symbol] \in Nat \ {0}
  BY <1>2, SubmitAssumption
<1> DEFINE q == orders[i].quantity
           p == Price[orders[i].symbol]
<1>4. q \in Nat \ {0} /\ p \in Nat \ {0}
  BY <1>2, <1>3
<1> HIDE DEF q, p
<1>5. q * p \in Nat /\ q * p > 0
  BY <1>4
<1> QED BY <1>2, <1>3, <1>5 DEF q, p, Signed

\* What is requested of a symbol and paid for purchases are sums over all orders.
LEMMA RequestedIs ==
  ASSUME NEW side \in [Symbols -> Sides], NEW targets \in [Symbols -> Nat],
         NEW orders \in Seq(Asked(side, targets)), NEW s
  PROVE  /\ Requested(orders, s) = SumFunctionOnSet(Asks(orders, s), DOMAIN orders)
         /\ Notional(orders) = SumFunctionOnSet(Pays(orders), DOMAIN orders)
         /\ Requested(orders, s) \in Int /\ Notional(orders) \in Nat
         /\ IsFiniteSet(DOMAIN orders)
         /\ \A i \in DOMAIN orders : Asks(orders, s)[i] \in Int /\ Pays(orders)[i] \in Nat
<1> DEFINE D == DOMAIN orders
           L == Lines(orders, s)
           B == Buys(orders)
           A == Asks(orders, s)
           P == Pays(orders)
           V == [i \in L |-> Signed(orders[i])]
           W == [i \in B |-> orders[i].quantity * Price[orders[i].symbol]]
<1>1. IsFiniteSet(D)
  <2>1. D = 1..Len(orders) /\ Len(orders) \in Nat
    OBVIOUS
  <2> QED BY <2>1, FS_Interval
<1>2. \A i \in D : A[i] \in Int /\ P[i] \in Nat
  <2> SUFFICES ASSUME NEW i \in D PROVE A[i] \in Int /\ P[i] \in Nat
    OBVIOUS
  <2>1. Signed(orders[i]) \in Int /\ orders[i].quantity * Price[orders[i].symbol] \in Nat
    BY OrderFields
  <2>2. A[i] = (IF orders[i].symbol = s THEN Signed(orders[i]) ELSE 0)
    BY DEF Asks
  <2>3. P[i] = (IF orders[i].side = "buy" THEN orders[i].quantity * Price[orders[i].symbol] ELSE 0)
    BY DEF Pays
  <2> HIDE DEF A, P
  <2> QED BY <2>1, <2>2, <2>3
<1>3. L \in SUBSET D /\ B \in SUBSET D /\ IsFiniteSet(L) /\ IsFiniteSet(B)
  BY <1>1, FS_Subset DEF Lines, Buys
<1>4. /\ \A i \in L : V[i] = A[i]
      /\ \A i \in B : W[i] = P[i]
      /\ \A i \in D \ L : A[i] = 0
      /\ \A i \in D \ B : P[i] = 0
  BY DEF Lines, Buys, Asks, Pays
<1>5. Requested(orders, s) = SumFunctionOnSet(V, L) /\ Notional(orders) = SumFunctionOnSet(W, B)
  BY DEF Requested, Notional, SumFunction
<1> HIDE DEF V, W, A, P, D, L, B
<1>6. SumFunctionOnSet(V, L) = SumFunctionOnSet(A, L)
  BY <1>3, <1>4, SumSame
<1>7. SumFunctionOnSet(W, B) = SumFunctionOnSet(P, B)
  BY <1>3, <1>4, SumSame
<1>8. SumFunctionOnSet(A, D) = SumFunctionOnSet(A, L)
  BY <1>1, <1>2, <1>3, <1>4, SumWithin
<1>9. SumFunctionOnSet(P, D) = SumFunctionOnSet(P, B)
  <2>1. \A i \in D : P[i] \in Int
    BY <1>2
  <2> QED BY <1>1, <1>3, <1>4, <2>1, SumWithin
<1>10. SumFunctionOnSet(A, D) \in Int
  BY <1>1, <1>2, SumType
<1>11. SumFunctionOnSet(P, D) \in Nat
  BY <1>1, <1>2, SumNatOn
<1> QED BY <1>1, <1>2, <1>5, <1>6, <1>7, <1>8, <1>9, <1>10, <1>11 DEF A, P, D

\* Which of the tickets of a submit count as offered, bought or exposed.
LEMMA SentIn ==
  ASSUME SubmitInv, NEW orders, NEW accepted, Sends(orders, accepted),
         NEW side \in [Symbols -> Sides], NEW targets \in [Symbols -> Nat],
         artifact.orders \in Seq(Asked(side, targets)), NEW s
  PROVE  /\ \A k \in Ids : /\ k \in Offered(tickets', s) <=> k \in Offered(tickets, s)
                           /\ k \in Exposed(tickets', s) <=> k \in Exposed(tickets, s)
                           /\ k \in Bought(tickets') <=> k \in Bought(tickets)
         /\ \A i \in DOMAIN orders :
              /\ <<artifact.batch, i>> \in Offered(tickets', s) <=>
                   orders[i].symbol = s /\ i \in accepted /\ orders[i].side = "sell"
              /\ <<artifact.batch, i>> \in Exposed(tickets', s) <=>
                   orders[i].symbol = s /\ i \in accepted
              /\ <<artifact.batch, i>> \in Bought(tickets') <=>
                   i \in accepted /\ orders[i].side = "buy"
<1> DEFINE u == tickets'
<1>1. /\ DOMAIN u = Ids \cup SentIds(orders) /\ \A k \in Ids : u[k] = tickets[k]
      /\ \A i \in DOMAIN orders : u[<<artifact.batch, i>>] = Sent(orders[i], i \in accepted)
  BY SentFacts
<1> HIDE DEF u
<1>2. ASSUME NEW k \in Ids
      PROVE  /\ k \in Offered(u, s) <=> k \in Offered(tickets, s)
             /\ k \in Exposed(u, s) <=> k \in Exposed(tickets, s)
             /\ k \in Bought(u) <=> k \in Bought(tickets)
  <2>1. k \in DOMAIN u /\ u[k] = tickets[k] /\ k \in DOMAIN tickets
    BY <1>1 DEF Ids
  <2> QED BY <2>1 DEF Offered, Exposed, Bought
<1>3. ASSUME NEW i \in DOMAIN orders
      PROVE  /\ <<artifact.batch, i>> \in Offered(u, s) <=>
                  orders[i].symbol = s /\ i \in accepted /\ orders[i].side = "sell"
             /\ <<artifact.batch, i>> \in Exposed(u, s) <=>
                  orders[i].symbol = s /\ i \in accepted
             /\ <<artifact.batch, i>> \in Bought(u) <=>
                  i \in accepted /\ orders[i].side = "buy"
  <2> DEFINE k == <<artifact.batch, i>>
  <2>1. k \in DOMAIN u
    BY <1>1 DEF SentIds
  <2>2. /\ u[k].symbol = orders[i].symbol /\ u[k].side = orders[i].side
        /\ u[k].broker = IF i \in accepted THEN "working" ELSE "none"
    <3>1. u[k] = Sent(orders[i], i \in accepted)
      BY <1>1
    <3> HIDE DEF k
    <3>2. u[k].symbol = orders[i].symbol /\ u[k].side = orders[i].side
      BY <3>1 DEF Sent
    <3>3. u[k].broker = IF i \in accepted THEN "working" ELSE "none"
      BY <3>1 DEF Sent
    <3> QED BY <3>2, <3>3
  <2> HIDE DEF k
  <2>3. /\ k \in Offered(u, s) <=> orders[i].symbol = s /\ i \in accepted /\ orders[i].side = "sell"
        /\ k \in Exposed(u, s) <=> orders[i].symbol = s /\ i \in accepted
        /\ k \in Bought(u) <=> i \in accepted /\ orders[i].side = "buy"
    BY <2>1, <2>2 DEF Offered, Exposed, Bought
  <2> QED BY <2>3 DEF k
<1> QED BY <1>2, <1>3 DEF u

\* A batch the guard let through is covered: by the shares that are there once
\* all open sales have executed, and by the cash that is left then.
LEMMA SubmitCovered ==
  ASSUME SubmitInv, NEW orders, NEW accepted, Sends(orders, accepted),
         NEW side \in [Symbols -> Sides], NEW targets \in [Symbols -> Nat],
         artifact.orders \in Seq(Asked(side, targets)), ~Paper
  PROVE  /\ \A s \in Symbols : Initial[s] + Moved(tickets', Offered(tickets', s)) >= 0
         /\ Cash - Spent(tickets', Bought(tickets')) >= 0
<1> DEFINE D == DOMAIN orders
           u == tickets'
<1>1. orders \in Seq(Asked(side, targets)) /\ ~Rejected(orders)
  BY SentFacts
<1>2. /\ \A s \in Symbols : Initial[s] + Moved(tickets, Offered(tickets, s)) >= 0
      /\ Cash - Spent(tickets, Bought(tickets)) >= 0
  BY LogBooked, CoverageIs DEF SubmitInv
<1>3. ASSUME NEW s \in Symbols PROVE Initial[s] + Moved(u, Offered(u, s)) >= 0
  <2> DEFINE S == Offered(u, s)
             R == Offered(tickets, s)
             V == SentMoves(orders, S)
             A == Asks(orders, s)
             sum == SumFunctionOnSet(V, D)
             held == Held(s) + Shares(Of(s) \cap Open \cap Side("sell"))
  <2>1. \A k \in Ids : k \in S <=> k \in R
    BY SentIn
  <2>2. /\ Moved(u, S) = Moved(tickets, R) + sum /\ Moved(tickets, R) \in Int
        /\ \A i \in D : V[i] \in Int
    <3> HIDE DEF S, R
    <3> QED BY <2>1, MovedBySubmit
  <2>3. /\ Requested(orders, s) = SumFunctionOnSet(A, D) /\ Requested(orders, s) \in Int
        /\ IsFiniteSet(D) /\ \A i \in D : A[i] \in Int
    BY <1>1, RequestedIs
  <2>4. held <= Initial[s] + Moved(tickets, R) /\ held \in Int
    BY HeldCovered
  <2>5. Initial[s] \in Int
    BY SubmitAssumption
  <2>6. sum \in Int
    <3> HIDE DEF V
    <3> QED BY <2>2, <2>3, SumType
  <2>7. \A i \in D : V[i] = IF orders[i].symbol = s /\ i \in accepted /\ orders[i].side = "sell"
                            THEN Signed(orders[i]) ELSE 0
    <3>1. ASSUME NEW i \in D
          PROVE  <<artifact.batch, i>> \in S <=>
                   orders[i].symbol = s /\ i \in accepted /\ orders[i].side = "sell"
      BY SentIn
    <3> HIDE DEF S
    <3> QED BY <3>1 DEF SentMoves
  <2>8. CASE s \in Traded(orders) /\ side[s] = "sell"
    <3>1. \A i \in D : A[i] <= V[i]
      <4> SUFFICES ASSUME NEW i \in D PROVE A[i] <= V[i]
        OBVIOUS
      <4>1. A[i] = (IF orders[i].symbol = s THEN Signed(orders[i]) ELSE 0)
        BY DEF Asks
      <4>2. /\ orders[i].side = side[orders[i].symbol] /\ orders[i].quantity \in Nat
            /\ Signed(orders[i]) = IF orders[i].side = "buy" THEN orders[i].quantity
                                   ELSE -orders[i].quantity
        BY <1>1, OrderFields
      <4> HIDE DEF A, V
      <4>3. CASE orders[i].symbol = s
        <5>1. Signed(orders[i]) = -orders[i].quantity /\ A[i] = -orders[i].quantity
          BY <2>8, <4>1, <4>2, <4>3
        <5>2. V[i] = -orders[i].quantity \/ V[i] = 0
          BY <2>7, <5>1
        <5> QED BY <4>2, <5>1, <5>2
      <4>4. CASE orders[i].symbol # s
        <5>1. A[i] = 0 /\ V[i] = 0
          BY <2>7, <4>1, <4>4
        <5> QED BY <5>1
      <4> QED BY <4>3, <4>4
    <3>2. Requested(orders, s) <= sum
      <4> HIDE DEF A, V, D
      <4> QED BY <2>2, <2>3, <3>1, SumAtMost
    <3>3. ~Oversold(orders, s)
      BY <1>1, <2>8 DEF Rejected
    <3>4. -Requested(orders, s) <= held
      <4>1. ~(-Requested(orders, s) > held)
        BY <3>3 DEF Oversold
      <4> HIDE DEF held
      <4> QED BY <2>3, <2>4, <4>1
    <3> HIDE DEF sum, held, S, R
    <3>5. Initial[s] + Moved(u, S) >= 0
      BY <2>2, <2>3, <2>4, <2>5, <2>6, <3>2, <3>4
    <3> QED BY <3>5 DEF S
  <2>9. CASE ~(s \in Traded(orders) /\ side[s] = "sell")
    <3>1. \A i \in D : V[i] = 0
      <4> SUFFICES ASSUME NEW i \in D PROVE V[i] = 0
        OBVIOUS
      <4>1. orders[i].side = side[orders[i].symbol]
        BY <1>1, OrderFields
      <4>2. orders[i].symbol \in Traded(orders)
        BY DEF Traded
      <4> HIDE DEF V
      <4> QED BY <2>7, <2>9, <4>1, <4>2
    <3>2. sum = 0
      <4> HIDE DEF V, D
      <4> QED BY <2>3, <3>1, SumZero
    <3>3. Initial[s] + Moved(tickets, R) >= 0
      BY <1>2
    <3> HIDE DEF sum, S, R
    <3>4. Initial[s] + Moved(u, S) >= 0
      BY <2>2, <2>5, <3>2, <3>3
    <3> QED BY <3>4 DEF S
  <2> QED BY <2>8, <2>9
<1>4. Cash - Spent(u, Bought(u)) >= 0
  <2> DEFINE S == Bought(u)
             R == Bought(tickets)
             V == SentCosts(orders, S)
             P == Pays(orders)
             sum == SumFunctionOnSet(V, D)
             free == CashHeld - Value(Open \cap Side("buy"))
  <2>1. \A k \in Ids : k \in S <=> k \in R
    BY SentIn
  <2>2. /\ Spent(u, S) = Spent(tickets, R) + sum /\ Spent(tickets, R) \in Int
        /\ \A i \in D : V[i] \in Int
    <3> HIDE DEF S, R
    <3> QED BY <2>1, MovedBySubmit
  <2>3. /\ Notional(orders) = SumFunctionOnSet(P, D) /\ Notional(orders) \in Nat
        /\ IsFiniteSet(D) /\ \A i \in D : P[i] \in Int
    <3>1. /\ Notional(orders) = SumFunctionOnSet(P, D) /\ Notional(orders) \in Nat
          /\ IsFiniteSet(D) /\ \A i \in D : P[i] \in Nat
      BY <1>1, RequestedIs
    <3> HIDE DEF P, D
    <3> QED BY <3>1
  <2>4. \A i \in D : V[i] <= P[i]
    <3> SUFFICES ASSUME NEW i \in D PROVE V[i] <= P[i]
      OBVIOUS
    <3>1. <<artifact.batch, i>> \in S <=> i \in accepted /\ orders[i].side = "buy"
      BY SentIn
    <3>2. /\ Signed(orders[i]) = (IF orders[i].side = "buy" THEN orders[i].quantity
                                  ELSE -orders[i].quantity)
          /\ orders[i].quantity * Price[orders[i].symbol] \in Nat
      BY <1>1, OrderFields
    <3>3. V[i] = IF <<artifact.batch, i>> \in S
                 THEN Signed(orders[i]) * Price[orders[i].symbol] ELSE 0
      <4> HIDE DEF S
      <4> QED BY DEF SentCosts
    <3>4. P[i] = IF orders[i].side = "buy"
                 THEN orders[i].quantity * Price[orders[i].symbol] ELSE 0
      BY DEF Pays
    <3> HIDE DEF V, P, S
    <3>5. CASE orders[i].side = "buy"
      <4>1. P[i] = orders[i].quantity * Price[orders[i].symbol]
        BY <3>4, <3>5
      <4>2. V[i] = orders[i].quantity * Price[orders[i].symbol] \/ V[i] = 0
        BY <3>2, <3>3, <3>5
      <4> QED BY <3>2, <4>1, <4>2
    <3>6. CASE orders[i].side # "buy"
      <4>1. P[i] = 0 /\ V[i] = 0
        BY <3>1, <3>3, <3>4, <3>6
      <4> QED BY <4>1
    <3> QED BY <3>5, <3>6
  <2>5. sum <= Notional(orders)
    <3> HIDE DEF V, P, D
    <3> QED BY <2>2, <2>3, <2>4, SumAtMost
  <2>6. sum \in Int
    <3> HIDE DEF V, D
    <3> QED BY <2>2, <2>3, SumType
  <2>7. Symbols # {}
    <3>0. DOMAIN orders = 1..Len(orders) /\ Len(orders) \in Nat \ {0}
      BY SentFacts
    <3>1. 1 \in DOMAIN orders
      BY <3>0
    <3>2. orders[1].symbol \in Symbols
      BY <1>1, <3>1, OrderFields
    <3> QED BY <3>2
  <2>8. free <= Cash - Spent(tickets, R) /\ free \in Int
    BY <2>7, HeldCovered
  <2>9. Cash \in Int /\ Cash - Spent(tickets, R) >= 0
    BY <1>2, SubmitAssumption
  <2>10. ~(Notional(orders) > free /\ Notional(orders) > 0)
    BY <1>1 DEF Rejected, Overspent
  <2> HIDE DEF sum, free, S, R
  <2>11. sum <= Cash - Spent(tickets, R)
    BY <2>2, <2>3, <2>5, <2>6, <2>8, <2>9, <2>10
  <2>12. Cash - Spent(u, S) >= 0
    BY <2>2, <2>6, <2>9, <2>11
  <2> QED BY <2>12 DEF S
<1> QED BY <1>3, <1>4

\* A submit keeps the invariant.
LEMMA SubmitKept == ASSUME SubmitInv, Submit PROVE SubmitInv'
<1>1. PICK orders, accepted : Sends(orders, accepted)
  BY SubmitSends
<1>2. PICK side \in [Symbols -> Sides], targets \in [Symbols -> Nat] :
        artifact.orders \in Seq(Asked(side, targets))
  BY DEF SubmitInv, BatchSound, OneWay
<1> DEFINE b == artifact.batch
           New == SentIds(orders)
<1>3. /\ orders \in Seq(Asked(side, targets)) /\ DOMAIN orders = 1..Len(orders)
      /\ Len(orders) \in Nat \ {0} /\ b \in 1..MaxBatches
      /\ New \cap Ids = {} /\ IsFiniteSet(New) /\ DOMAIN tickets' = Ids \cup New
      /\ \A k \in Ids : tickets'[k] = tickets[k]
      /\ \A i \in DOMAIN orders : tickets'[<<b, i>>] = Sent(orders[i], i \in accepted)
      /\ Booked(tickets')
  BY <1>1, <1>2, SentFacts
<1>4. /\ UNCHANGED <<gateway, artifact, supervisor, crashes>> /\ supervisor = Idle
      /\ (Paper => accepted = DOMAIN orders)
  BY <1>1 DEF Sends
<1>5. Ids' = Ids \cup New /\ IsFiniteSet(Ids')
  <2>1. Ids' = Ids \cup New
    BY <1>3 DEF Ids
  <2>2. IsFiniteSet(Ids)
    BY DEF SubmitInv
  <2> HIDE DEF New
  <2> QED BY <1>3, <2>1, <2>2, FS_Union
<1>6. ASSUME NEW k \in New
      PROVE  /\ k \in (1..MaxBatches) \X (Nat \ {0})
             /\ Stage(tickets'[k]) \in {<<"open", "working", FALSE>>, <<"closed", "none", FALSE>>}
             /\ Paper => Stage(tickets'[k]) = <<"open", "working", FALSE>>
  <2>1. PICK i \in DOMAIN orders : k = <<b, i>>
    BY DEF SentIds
  <2>2. i \in Nat \ {0}
    BY <1>3
  <2>3. tickets'[k] = Sent(orders[i], i \in accepted)
    BY <1>3, <2>1
  <2>4. k \in (1..MaxBatches) \X (Nat \ {0})
    BY <1>3, <2>1, <2>2
  <2>5. CASE i \in accepted
    <3>1. Stage(tickets'[k]) = <<"open", "working", FALSE>>
      BY <2>3, <2>5 DEF Sent, Stage
    <3> QED BY <2>4, <3>1
  <2>6. CASE i \notin accepted
    <3>1. Stage(tickets'[k]) = <<"closed", "none", FALSE>> /\ ~Paper
      BY <1>4, <2>3, <2>6 DEF Sent, Stage
    <3> QED BY <2>4, <3>1
  <2> QED BY <2>5, <2>6
<1>7. TypeOK'
  <2>1. Ids' \subseteq (1..MaxBatches) \X (Nat \ {0})
    BY <1>5, <1>6 DEF SubmitInv, TypeOK
  <2>2. \A k \in Ids' : tickets'[k] \in TicketType
    BY <1>3, <1>5 DEF Booked
  <2>3. /\ gateway' \in Gateways /\ artifact'.batch \in 0..MaxBatches /\ crashes' \in 0..MaxCrashes
        /\ supervisor' \in [pc: {"idle", "apply", "rows"}, todo: SUBSET Ids']
    BY <1>4, <1>5 DEF SubmitInv, TypeOK
  <2> QED BY <2>1, <2>2, <2>3 DEF TypeOK, TicketType, Sides
<1>8. BatchSound'
  BY <1>4 DEF SubmitInv, BatchSound, OneWay
<1>9. StagesInOrder'
  <2>1. ASSUME NEW k \in Ids'
        PROVE  Stage(tickets'[k]) \in (IF Paper THEN PaperStages ELSE LiveStages)
    <3>1. CASE k \in Ids
      BY <1>3, <3>1 DEF SubmitInv, StagesInOrder
    <3>2. CASE k \in New
      BY <1>6, <3>2 DEF PaperStages, LiveStages
    <3> QED BY <1>5, <3>1, <3>2
  <2> QED BY <1>4, <2>1 DEF StagesInOrder, Paper
<1>10. PassFits' /\ LostIsMissed'
  <2>1. PassFits'
    BY <1>4 DEF PassFits, Paper, Idle
  <2>2. ASSUME NEW k \in Ids', Lost(tickets'[k]) PROVE tickets'[k].missed
    <3>1. CASE k \in Ids
      BY <1>3, <2>2, <3>1 DEF SubmitInv, LostIsMissed
    <3>2. CASE k \in New
      <4>1. \/ <<"closed", "executed", FALSE>> = <<"open", "working", FALSE>>
            \/ <<"closed", "executed", FALSE>> = <<"closed", "none", FALSE>>
        BY <1>6, <2>2, <3>2 DEF Lost
      <4> QED BY <4>1
    <3> QED BY <1>5, <3>1, <3>2
  <2> QED BY <2>1, <2>2 DEF LostIsMissed
<1>11. AheadOnlyInPass'
  <2>1. SUFFICES ASSUME ~Paper, crashes = 0, NEW k \in Ids',
                        Stage(tickets'[k]) = <<"open", "executed", TRUE>>
                 PROVE  supervisor.pc = "rows" /\ k \in supervisor.todo
    BY <1>4 DEF AheadOnlyInPass, Paper
  <2>2. CASE k \in Ids
    BY <1>3, <2>1, <2>2 DEF SubmitInv, AheadOnlyInPass
  <2>3. CASE k \in New
    <3>1. \/ <<"open", "executed", TRUE>> = <<"open", "working", FALSE>>
          \/ <<"open", "executed", TRUE>> = <<"closed", "none", FALSE>>
      BY <1>6, <2>1, <2>3
    <3> QED BY <3>1
  <2> QED BY <1>5, <2>2, <2>3
<1>12. PlacedLogged'
  <2> DEFINE lines == SentLines(orders)
  <2>1. placed' = [l \in DOMAIN placed \cup lines |-> Count(l) + (IF l \in lines THEN 1 ELSE 0)]
    BY <1>1 DEF Sends
  <2>2. <<b, 1>> \in New /\ <<b, 1>> \notin Ids
    BY <1>3 DEF SentIds
  <2>3. ASSUME NEW l \in lines
        PROVE  l \in (1..MaxBatches) \X (Nat \ {0}) /\ l[1] = b /\ l \notin DOMAIN placed
    <3>1. PICK i \in DOMAIN orders : l = <<b, orders[i].line>>
      BY DEF SentLines
    <3>2. orders[i].line \in Nat \ {0}
      <4>1. orders[i] \in Asked(side, targets)
        BY <1>3
      <4> QED BY <4>1 DEF Asked, OrderType
    <3>3. l[1] = b
      BY <3>1
    <3>4. l \notin DOMAIN placed
      BY <2>2, <3>3 DEF SubmitInv, PlacedLogged
    <3> QED BY <1>3, <3>1, <3>2, <3>3, <3>4
  <2>4. DOMAIN placed' = DOMAIN placed \cup lines
    BY <2>1
  <2>5. b \in Nat
    BY <1>3
  <2>6. ASSUME NEW l \in DOMAIN placed'
        PROVE  placed'[l] = 1 /\ l[1] <= b /\ <<l[1], 1>> \in Ids'
    <3>1. CASE l \in lines
      <4>1. Count(l) = 0
        BY <2>3, <3>1 DEF Count
      <4>2. placed'[l] = 1
        BY <2>1, <2>4, <3>1, <4>1
      <4> QED BY <1>5, <2>2, <2>3, <2>5, <3>1, <4>2
    <3>2. CASE l \notin lines
      <4>1. l \in DOMAIN placed /\ placed[l] = 1 /\ l[1] <= b /\ <<l[1], 1>> \in Ids
        BY <2>4, <3>2 DEF SubmitInv, PlacedLogged
      <4>2. placed'[l] = 1
        BY <2>1, <2>4, <3>2, <4>1 DEF Count
      <4> QED BY <1>5, <4>1, <4>2
    <3> QED BY <3>1, <3>2
  <2>7. DOMAIN placed' \subseteq (1..MaxBatches) \X (Nat \ {0})
    BY <2>3, <2>4 DEF SubmitInv, PlacedLogged
  <2> QED BY <1>4, <2>6, <2>7 DEF PlacedLogged
<1>13. NeverOversold' /\ CashCovered'
  <2>1. CASE Paper
    BY <1>4, <2>1 DEF NeverOversold, CashCovered, Paper
  <2>2. CASE ~Paper
    <3>1. /\ \A s \in Symbols : Initial[s] + Moved(tickets', Offered(tickets', s)) >= 0
          /\ Cash - Spent(tickets', Bought(tickets')) >= 0
      BY <1>1, <1>2, <2>2, SubmitCovered
    <3> QED BY <1>3, <3>1, CoverageIsPrimed
  <2> QED BY <2>1, <2>2
<1> QED BY <1>5, <1>7, <1>8, <1>9, <1>10, <1>11, <1>12, <1>13 DEF SubmitInv

-------------------------------------------------------------------------------
(* How far a submit moves a symbol.                                           *)

\* Of two numbers whose product is positive the second has the first one's sign.
LEMMA SameSign ==
  ASSUME NEW r \in Int, NEW d \in Int, r * d > 0
  PROVE  /\ r >= 0 => d > 0
         /\ r <= 0 => d < 0
<1>1. ASSUME r >= 0, d <= 0 PROVE FALSE
  <2>1. r * d <= 0
    BY <1>1
  <2> QED BY <2>1
<1>2. ASSUME r <= 0, d >= 0 PROVE FALSE
  <2>1. r * d <= 0
    BY <1>2
  <2> QED BY <2>1
<1> QED BY <1>1, <1>2

\* What a batch the guard let through asks of a symbol lies between nothing and
\* what is missing for the target.
LEMMA AskedFits ==
  ASSUME SubmitInv, NEW side \in [Symbols -> Sides], NEW targets \in [Symbols -> Nat],
         NEW orders \in Seq(Asked(side, targets)), ~Rejected(orders),
         NEW s \in Traded(orders)
  PROVE  /\ Requested(orders, s) >= 0 => Requested(orders, s) <= Unreserved(orders, s)
         /\ Requested(orders, s) <= 0 => Requested(orders, s) >= Unreserved(orders, s)
<1> DEFINE R == Requested(orders, s)
           U == Unreserved(orders, s)
<1>1. U \in Int
  BY UnreservedType
<1>2. R \in Int
  BY RequestedIs
<1>3. ~Covered(orders, s) /\ ~Conflicting(orders, s) /\ ~Exceeding(orders, s)
  BY DEF Rejected
<1>4. ~(R * U <= 0) /\ ~(R * U > 0 /\ Size(R) > Size(U))
  BY <1>3 DEF Conflicting, Exceeding
<1> HIDE DEF R, U
<1>5. R * U \in Int
  BY <1>1, <1>2
<1>6. R * U > 0
  BY <1>4, <1>5
<1>7. Size(R) \in Int /\ Size(U) \in Int
  BY <1>1, <1>2 DEF Size
<1>8. Size(R) <= Size(U)
  BY <1>4, <1>6, <1>7
<1>9. (R >= 0 => U > 0) /\ (R <= 0 => U < 0)
  BY <1>1, <1>2, <1>6, SameSign
<1>10. (R >= 0 => R <= U) /\ (R <= 0 => R >= U)
  BY <1>1, <1>2, <1>8, <1>9 DEF Size
<1> QED BY <1>10 DEF R, U

\* The accepted orders for a symbol move its exposure by a part of what is asked.
LEMMA SentFits ==
  ASSUME SubmitInv, NEW orders, NEW accepted, Sends(orders, accepted),
         NEW side \in [Symbols -> Sides], NEW targets \in [Symbols -> Nat],
         artifact.orders \in Seq(Asked(side, targets)), NEW s
  PROVE  LET sum == SumFunctionOnSet(SentMoves(orders, Exposed(tickets', s)), DOMAIN orders)
             r == Requested(orders, s)
         IN /\ sum \in Int /\ r \in Int
            /\ (0 <= sum /\ sum <= r) \/ (r <= sum /\ sum <= 0)
            /\ s \notin Traded(orders) => sum = 0
<1> DEFINE D == DOMAIN orders
           S == Exposed(tickets', s)
           V == SentMoves(orders, S)
           A == Asks(orders, s)
           Z == [i \in D |-> 0]
           sum == SumFunctionOnSet(V, D)
           r == Requested(orders, s)
<1>1. orders \in Seq(Asked(side, targets))
  BY SentFacts
<1>2. /\ r = SumFunctionOnSet(A, D) /\ r \in Int
      /\ IsFiniteSet(D) /\ \A i \in D : A[i] \in Int
  BY <1>1, RequestedIs
<1>3. ASSUME NEW i \in D
      PROVE  /\ orders[i].side = side[orders[i].symbol] /\ orders[i].side \in Sides
             /\ orders[i].quantity \in Nat
             /\ Signed(orders[i]) = IF orders[i].side = "buy" THEN orders[i].quantity
                                    ELSE -orders[i].quantity
             /\ V[i] = IF orders[i].symbol = s /\ i \in accepted THEN Signed(orders[i]) ELSE 0
             /\ A[i] = IF orders[i].symbol = s THEN Signed(orders[i]) ELSE 0
             /\ Z[i] = 0
  <2>1. /\ orders[i].side = side[orders[i].symbol] /\ orders[i].side \in Sides
        /\ orders[i].quantity \in Nat
        /\ Signed(orders[i]) = IF orders[i].side = "buy" THEN orders[i].quantity
                               ELSE -orders[i].quantity
    BY <1>1, OrderFields
  <2>2. <<artifact.batch, i>> \in S <=> orders[i].symbol = s /\ i \in accepted
    BY SentIn
  <2>3. V[i] = IF <<artifact.batch, i>> \in S THEN Signed(orders[i]) ELSE 0
    <3> HIDE DEF S
    <3> QED BY DEF SentMoves
  <2>4. V[i] = IF orders[i].symbol = s /\ i \in accepted THEN Signed(orders[i]) ELSE 0
    <3> HIDE DEF S, V
    <3> QED BY <2>2, <2>3
  <2>5. A[i] = (IF orders[i].symbol = s THEN Signed(orders[i]) ELSE 0) /\ Z[i] = 0
    BY DEF Asks
  <2> HIDE DEF A, V, Z
  <2> QED BY <2>1, <2>4, <2>5
<1>4. \A i \in D : Z[i] = 0
  OBVIOUS
<1> HIDE DEF A, V, Z
<1>5. ASSUME NEW i \in D PROVE Signed(orders[i]) \in Int /\ V[i] \in Int
  <2>1. Signed(orders[i]) \in Int
    BY <1>3
  <2> QED BY <1>3, <2>1
<1>6. SumFunctionOnSet(Z, D) = 0
  BY <1>2, <1>4, SumZero
<1>7. sum \in Int
  BY <1>2, <1>5, SumType
<1>8. ASSUME side[s] = "buy" PROVE 0 <= sum /\ sum <= r
  <2>1. ASSUME NEW i \in D PROVE 0 <= V[i] /\ V[i] <= A[i]
    <3>1. CASE orders[i].symbol = s
      <4>1. Signed(orders[i]) = orders[i].quantity
        BY <1>3, <1>8, <3>1
      <4> QED BY <1>3, <3>1, <4>1
    <3>2. CASE orders[i].symbol # s
      BY <1>3, <3>2
    <3> QED BY <3>1, <3>2
  <2>2. sum <= r
    BY <1>2, <1>5, <2>1, SumAtMost
  <2>3. SumFunctionOnSet(Z, D) <= sum
    <3>1. \A i \in D : Z[i] \in Int /\ V[i] \in Int /\ Z[i] <= V[i]
      BY <1>4, <1>5, <2>1
    <3> QED BY <1>2, <3>1, SumAtMost
  <2> QED BY <1>6, <2>2, <2>3
<1>9. ASSUME side[s] # "buy" PROVE r <= sum /\ sum <= 0
  <2>1. ASSUME NEW i \in D PROVE V[i] <= 0 /\ A[i] <= V[i]
    <3>1. CASE orders[i].symbol = s
      <4>1. Signed(orders[i]) = -orders[i].quantity
        BY <1>3, <1>9, <3>1
      <4> QED BY <1>3, <3>1, <4>1
    <3>2. CASE orders[i].symbol # s
      BY <1>3, <3>2
    <3> QED BY <3>1, <3>2
  <2>2. r <= sum
    BY <1>2, <1>5, <2>1, SumAtMost
  <2>3. sum <= SumFunctionOnSet(Z, D)
    <3>1. \A i \in D : Z[i] \in Int /\ V[i] \in Int /\ V[i] <= Z[i]
      BY <1>4, <1>5, <2>1
    <3> QED BY <1>2, <3>1, SumAtMost
  <2> QED BY <1>6, <2>2, <2>3
<1>10. s \notin Traded(orders) => sum = 0
  <2> SUFFICES ASSUME s \notin Traded(orders) PROVE sum = 0
    OBVIOUS
  <2>1. \A i \in D : V[i] = 0
    BY <1>3 DEF Traded
  <2> QED BY <1>2, <2>1, SumZero
<1>11. (0 <= sum /\ sum <= r) \/ (r <= sum /\ sum <= 0)
  BY <1>8, <1>9
<1> HIDE DEF sum, r
<1>12. /\ sum \in Int /\ r \in Int
       /\ (0 <= sum /\ sum <= r) \/ (r <= sum /\ sum <= 0)
       /\ s \notin Traded(orders) => sum = 0
  BY <1>2, <1>7, <1>10, <1>11
<1> QED BY <1>12 DEF sum, r, V, S

\* A submit moves a symbol of its batch towards its target, as long as what the
\* guard reckons with is what is held and on its way.
LEMMA SubmitApproaches ==
  ASSUME SubmitInv, Submit, NEW s \in Traded(artifact.orders), InSync(s)
  PROVE  MovesTowards(s)
<1>1. PICK orders, accepted : Sends(orders, accepted)
  BY SubmitSends
<1>2. PICK side \in [Symbols -> Sides], targets \in [Symbols -> Nat] :
        artifact.orders \in Seq(Asked(side, targets))
  BY DEF SubmitInv, BatchSound, OneWay
<1>3. orders \in Seq(Asked(side, targets)) /\ ~Rejected(orders) /\ Booked(tickets')
  BY <1>1, <1>2, SentFacts
<1>4. supervisor = Idle
  BY <1>1 DEF Sends
<1> SUFFICES LET target == TargetOf(artifact.orders, s)
             IN \/ Exposure(s) <= Exposure(s)' /\ Exposure(s)' <= target
                \/ target <= Exposure(s)' /\ Exposure(s)' <= Exposure(s)
                \/ Exposure(s)' = Exposure(s)
  BY DEF MovesTowards
<1>5. s \in Symbols /\ TargetOf(artifact.orders, s) = targets[s] /\ targets[s] \in Nat
  BY <1>2, UnreservedType
<1> DEFINE S == Exposed(tickets', s)
           R == Exposed(tickets, s)
           sum == SumFunctionOnSet(SentMoves(orders, S), DOMAIN orders)
           r == Requested(orders, s)
           d == Unreserved(orders, s)
           e == Exposure(s)
<1>6. e = Initial[s] + Moved(tickets, R) /\ Exposure(s)' = Initial[s] + Moved(tickets', S)
  BY <1>3, <1>5, LogBooked, CoverageIs, CoverageIsPrimed
<1>7. Moved(tickets', S) = Moved(tickets, R) + sum /\ Moved(tickets, R) \in Int
  <2>1. \A k \in Ids : k \in S <=> k \in R
    BY <1>1, <1>2, SentIn
  <2> HIDE DEF S, R
  <2> QED BY <1>1, <1>2, <2>1, MovedBySubmit
<1>8. Initial[s] \in Int
  BY <1>5, SubmitAssumption
<1>9. /\ sum \in Int /\ r \in Int
      /\ (0 <= sum /\ sum <= r) \/ (r <= sum /\ sum <= 0)
      /\ s \notin Traded(orders) => sum = 0
  BY <1>1, <1>2, SentFits
<1>10. Projected(s) = e
  BY <1>4, <1>5, <1>6, ProjectedIs
<1>11. CASE s \in Traded(orders)
  <2>1. d = targets[s] - e
    BY <1>3, <1>10, <1>11, UnreservedType
  <2>2. (r >= 0 => r <= d) /\ (r <= 0 => r >= d)
    BY <1>3, <1>11, AskedFits
  <2> HIDE DEF sum, r, d, S, R
  <2>3. e \in Int /\ Exposure(s)' = e + sum
    <3> HIDE DEF e
    <3> QED BY <1>6, <1>7, <1>8, <1>9
  <2> HIDE DEF e
  <2>4. \/ e <= e + sum /\ e + sum <= targets[s]
        \/ targets[s] <= e + sum /\ e + sum <= e
    BY <1>5, <1>9, <2>1, <2>2, <2>3
  <2>5. \/ e <= Exposure(s)' /\ Exposure(s)' <= targets[s]
        \/ targets[s] <= Exposure(s)' /\ Exposure(s)' <= e
    BY <2>3, <2>4
  <2> QED BY <1>5, <2>5 DEF e
<1>12. CASE s \notin Traded(orders)
  <2>1. sum = 0
    BY <1>9, <1>12
  <2> HIDE DEF sum, r, d, S, R
  <2>2. Exposure(s)' = e
    BY <1>6, <1>7, <1>8, <2>1
  <2> QED BY <2>2 DEF e
<1> QED BY <1>11, <1>12

-------------------------------------------------------------------------------
(* The invariant, and what follows from it.                                   *)

\* It holds at the start, when nothing is ordered.
LEMMA InitInv == ASSUME Init PROVE SubmitInv
<1>1. Ids = {} /\ DOMAIN placed = {}
  BY DEF Init, Ids
<1>2. artifact = [batch |-> 0, orders |-> << >>] /\ supervisor = Idle /\ crashes = 0
  BY DEF Init
<1>3. IsFiniteSet(Ids) /\ Booked(tickets)
  BY <1>1, FS_EmptySet DEF Booked, Ids
<1>4. TypeOK
  <2>1. supervisor \in [pc: {"idle", "apply", "rows"}, todo: SUBSET Ids]
    BY <1>2 DEF Idle
  <2>2. gateway \in Gateways
    BY DEF Init
  <2> QED BY <1>1, <1>2, <2>1, <2>2, SubmitAssumption DEF TypeOK
<1>5. BatchSound
  <2>1. << >> \in Seq(Asked([s \in Symbols |-> "buy"], [s \in Symbols |-> 0]))
    OBVIOUS
  <2>2. /\ [s \in Symbols |-> "buy"] \in [Symbols -> Sides]
        /\ [s \in Symbols |-> 0] \in [Symbols -> Nat]
    BY DEF Sides
  <2>3. OneWay(<< >>)
    BY <2>1, <2>2 DEF OneWay
  <2> QED BY <1>2, <2>3 DEF BatchSound
<1>6. StagesInOrder /\ LostIsMissed /\ AheadOnlyInPass /\ PlacedLogged
  BY <1>1 DEF StagesInOrder, LostIsMissed, AheadOnlyInPass, PlacedLogged
<1>7. PassFits
  BY <1>2 DEF PassFits, Idle
<1>8. NeverOversold /\ CashCovered
  <2>1. ASSUME NEW S PROVE Moved(tickets, S) = 0 /\ Spent(tickets, S) = 0
    BY <1>1, SumEmpty DEF Moved, Spent, Ids
  <2>2. Cash \in Nat /\ \A s \in Symbols : Initial[s] \in Nat
    BY SubmitAssumption
  <2>3. Cash - Spent(tickets, Bought(tickets)) >= 0
    BY <2>1, <2>2
  <2>4. \A s \in Symbols : Initial[s] + Moved(tickets, Offered(tickets, s)) >= 0
    BY <2>1, <2>2
  <2> QED BY <1>3, <2>3, <2>4, CoverageIs
<1> QED BY <1>3, <1>4, <1>5, <1>6, <1>7, <1>8 DEF SubmitInv

\* Every step keeps it.
LEMMA NextKept == ASSUME SubmitInv, [Next]_vars PROVE SubmitInv'
<1>1. CASE Produce
  BY <1>1, ProduceKept
<1>2. CASE Submit
  BY <1>2, SubmitKept
<1>3. CASE Poll
  BY <1>3, PollKept
<1>4. CASE Reconcile
  BY <1>4, ReconcileKept
<1>5. CASE Crash
  BY <1>5, CrashKept
<1>6. ASSUME NEW k \in Ids,
             \/ ApplyPolled(k) \/ ImportRow(k) \/ LogRow(k)
             \/ Cancel(k) \/ Expire(k) \/ Execute(k) \/ Lapse(k)
      PROVE  SubmitInv'
  BY <1>6, ApplyPolledKept, ImportRowKept, LogRowKept, CancelKept, ExpireKept, ExecuteKept,
     LapseKept
<1>7. CASE UNCHANGED vars
  <2>1. UNCHANGED <<gateway, artifact, placed, tickets, supervisor, crashes>>
    BY <1>7 DEF vars
  <2>2. /\ supervisor' \in [pc: {"idle", "apply", "rows"}, todo: SUBSET Ids]
        /\ crashes' \in 0..MaxCrashes /\ (crashes' = 0 => crashes = 0) /\ PassFits'
    BY <2>1 DEF SubmitInv, TypeOK, PassFits, Paper
  <2>3. ~Paper /\ crashes' = 0 =>
          \A k \in Ids : Stage(tickets[k]) = <<"open", "executed", TRUE>>
                            /\ supervisor.pc = "rows" /\ k \in supervisor.todo =>
                            supervisor'.pc = "rows" /\ k \in supervisor'.todo
    BY <2>1
  <2> QED BY <2>1, <2>2, <2>3, PassKept
<1> QED BY <1>1, <1>2, <1>3, <1>4, <1>5, <1>6, <1>7 DEF Next

\* The invariant of a sleeve's orders, whatever the constants are.
LEMMA SubmitInvHolds == Spec => []SubmitInv
<1>1. Init => SubmitInv
  BY InitInv
<1>2. SubmitInv /\ [Next]_vars => SubmitInv'
  BY NextKept
<1> QED BY <1>1, <1>2, PTL DEF Spec

\* No line of a batch is sent to the broker twice, however often the batch is
\* submitted, whatever the guard drops or cuts down in between, and wherever
\* supervise passes are cut off.
THEOREM LinesArePlacedOnce == Spec => []LinePlacedOnce
<1>1. SubmitInv => LinePlacedOnce
  <2> SUFFICES ASSUME SubmitInv, NEW l \in DOMAIN placed PROVE placed[l] <= 1
    BY DEF LinePlacedOnce
  <2>1. placed[l] = 1
    BY DEF SubmitInv, PlacedLogged
  <2> QED BY <2>1
<1> QED BY <1>1, SubmitInvHolds, PTL

\* No order is for no shares; with the live gateway the orders that work are
\* covered by the shares and the cash the sleeve has at the broker, even while
\* fills are still to be logged or applied; what is short of it are executions that
\* were missed when their tickets expired, and no more than those.
THEOREM OrdersAreCovered == Spec => []OrdersCovered
<1>1. SubmitInv => OrdersCovered
  BY DEF SubmitInv, OrdersCovered
<1> QED BY <1>1, SubmitInvHolds, PTL

\* A submit moves each symbol of its batch towards its target and not beyond it, as
\* long as nothing of that symbol is overlooked, lapsed or ahead of the log; without a
\* pass that was cut off nothing is ahead of the log.
THEOREM TargetsApproached == Spec => TowardsTargetInSync
<1>1. SubmitInv /\ [Next]_vars
        => [placed' # placed =>
              \A s \in Traded(artifact.orders) : InSync(s) => MovesTowards(s)]_vars
  <2> SUFFICES ASSUME SubmitInv, Next, placed' # placed, NEW s \in Traded(artifact.orders),
                      InSync(s)
               PROVE  MovesTowards(s)
    OBVIOUS
  <2>1. Submit
    BY DEF Next, Produce, Poll, Reconcile, Crash, ApplyPolled, ImportRow, LogRow, Cancel,
           Expire, Execute, Lapse
  <2> QED BY <2>1, SubmitApproaches
<1> QED BY <1>1, SubmitInvHolds, PTL DEF Spec, TowardsTargetInSync

===============================================================================
