-------------------------- MODULE SleeveRuntimeProofs --------------------------
(* Proofs about SleeveRuntime, for every set of sleeves, symbols, indicators and *)
(* quotes, every outage and every order of the steps of a process, the account    *)
(* and the clock.                                                                *)
EXTENDS SleeveRuntime, InductionLemmas

--------------------------------------------------------------------------------
(* The last days of a history.                                                   *)

\* Of at least k days, k are among the last k.
LEMMA LastDaysCounted ==
  ASSUME NEW S, IsFiniteSet(S), S \subseteq Nat, NEW k \in Nat, Cardinality(S) >= k
  PROVE  Cardinality({d \in S : Cardinality({e \in S : e >= d}) <= k}) = k
<1> DEFINE From(T, d) == {e \in T : e >= d}
           Late(T) == {d \in T : Cardinality(From(T, d)) <= k}
           F == {T \in SUBSET S : Cardinality(T) >= k => Cardinality(Late(T)) = k}
<1>1. ASSUME NEW T \in SUBSET S, \A x \in T : T \ {x} \in F PROVE T \in F
  <2> SUFFICES ASSUME Cardinality(T) >= k PROVE Cardinality(Late(T)) = k
    OBVIOUS
  <2>1. IsFiniteSet(T) /\ Cardinality(T) \in Nat /\ T \subseteq Nat
    BY FS_Subset, FS_CardinalityType
  <2>2. \A d \in T : IsFiniteSet(From(T, d)) /\ Cardinality(From(T, d)) \in Nat
                     /\ Cardinality(From(T, d)) <= Cardinality(T)
    <3> TAKE d \in T
    <3>1. From(T, d) \subseteq T
      OBVIOUS
    <3> HIDE DEF From
    <3> QED BY <2>1, <3>1, FS_Subset, FS_CardinalityType
  <2>3. CASE Cardinality(T) = k
    <3>1. Late(T) = T
      <4> HIDE DEF From
      <4> QED BY <2>1, <2>2, <2>3
    <3> QED BY <2>3, <3>1
  <2>4. CASE Cardinality(T) # k
    <3>1. Cardinality(T) > k /\ T # {}
      BY <2>1, <2>4, FS_EmptySet
    <3>2. PICK m \in T : \A e \in T : m <= e
      BY <2>1, <3>1, LeastNumber
    <3>3. From(T, m) = T
      BY <3>2
    <3>4. \A d \in T \ {m} : From(T, d) = From(T \ {m}, d)
      <4> TAKE d \in T \ {m}
      <4>1. m < d
        BY <2>1, <3>2
      <4> QED BY <2>1, <4>1
    <3>5. Late(T) = Late(T \ {m})
      <4> HIDE DEF From
      <4>1. m \notin Late(T)
        BY <2>1, <3>1, <3>3
      <4> QED BY <3>4, <4>1
    <3>6. Cardinality(T \ {m}) = Cardinality(T) - 1
      BY <2>1, <3>2, FS_RemoveElement
    <3>7. Cardinality(T \ {m}) >= k
      BY <2>1, <3>1, <3>6
    <3>8. T \ {m} \in F
      BY <1>1, <3>2
    <3> HIDE DEF Late
    <3> QED BY <3>5, <3>7, <3>8
  <2> QED BY <2>3, <2>4
<1>2. SUBSET S \subseteq F
  <2> HIDE DEF F
  <2> QED BY <1>1, SubsetsInduct
<1>3. S \in F
  BY <1>2
<1> QED BY <1>3

\* The days kept are days that were there, and as many as asked for if there were enough.
LEMMA KeptDays ==
  ASSUME NEW S, IsFiniteSet(S), S \subseteq Nat, NEW k \in Nat
  PROVE  /\ KeepDays(S, k) \subseteq S
         /\ IsFiniteSet(KeepDays(S, k))
         /\ Cardinality(S) >= k => Cardinality(KeepDays(S, k)) = k
<1>1. KeepDays(S, k) \subseteq S
  BY DEF KeepDays
<1>2. IsFiniteSet(KeepDays(S, k))
  BY <1>1, FS_Subset
<1>3. ASSUME Cardinality(S) >= k PROVE Cardinality(KeepDays(S, k)) = k
  <2>1. Cardinality(S) \in Nat
    BY FS_CardinalityType
  <2>2. CASE Cardinality(S) > k
    BY <1>3, <2>2, LastDaysCounted DEF KeepDays
  <2>3. CASE Cardinality(S) = k
    BY <2>1, <2>3 DEF KeepDays
  <2> QED BY <1>3, <2>1, <2>2, <2>3
<1> QED BY <1>1, <1>2, <1>3

\* A temporal window is empty, or whole and of no day after the snapshot's.
LEMMA WindowWhole ==
  ASSUME NEW S, IsFiniteSet(S), S \subseteq Nat, NEW asOf \in Nat,
         TemporalWindow(S, asOf, NeededBars, Lookback) # {}
  PROVE  /\ Cardinality(TemporalWindow(S, asOf, NeededBars, Lookback)) = Lookback
         /\ \A d \in TemporalWindow(S, asOf, NeededBars, Lookback) : d \in Nat /\ d <= asOf
<1> DEFINE through == {d \in S : d <= asOf}
<1>1. through \subseteq Nat /\ IsFiniteSet(through)
  BY FS_Subset
<1>2. Cardinality(through) \in Nat /\ NeededBars \in Nat /\ Lookback \in Nat /\ Lookback <= NeededBars
  BY <1>1, FS_CardinalityType, DaysAssumption
<1>3. ~(Cardinality(through) < NeededBars)
        /\ TemporalWindow(S, asOf, NeededBars, Lookback) = KeepDays(through, Lookback)
  BY DEF TemporalWindow
<1> DEFINE kept == KeepDays(through, Lookback)
<1>4. kept \subseteq through /\ (Cardinality(through) >= Lookback => Cardinality(kept) = Lookback)
  BY <1>1, <1>2, KeptDays
<1>5. \A d \in kept : d \in Nat /\ d <= asOf
  BY <1>1, <1>4
<1> HIDE DEF through, kept
<1> QED BY <1>2, <1>3, <1>4, <1>5 DEF kept

--------------------------------------------------------------------------------
(* The windows of a symbol while its history goes in.                            *)

DayBars == [day : Nat, res : {"daily"}]
Names == {ind.name : ind \in Indicators}
Tables == [Names -> Seq(DayBars)]

\* A window of days in order, none of them after `last`.
Rising(window, last) ==
  /\ window \in Seq(DayBars)
  /\ \A n \in 1..Len(window) : window[n].day <= last
  /\ \A m, n \in 1..Len(window) : m < n => window[m].day < window[n].day

\* The windows of the daily indicators are such windows.
TableRising(windows, last) ==
  /\ DOMAIN windows = Names
  /\ \A ind \in Indicators : ind.res \in Daily => Rising(windows[ind.name], last)

\* The next day goes to the end, and what falls out is the first.
LEMMA TakeRising ==
  ASSUME NEW d \in Nat \ {0}, NEW w, Rising(w, d - 1), NEW period
  PROVE  Rising(Take(w, [day |-> d, res |-> "daily"], period), d)
<1> DEFINE bar == [day |-> d, res |-> "daily"]
           longer == Append(w, bar)
<1>1. w \in Seq(DayBars) /\ bar \in DayBars /\ bar.day = d /\ Len(w) \in Nat
  BY DEF Rising, DayBars
<1>2. [day |-> bar.day, res |-> bar.res] = bar
  OBVIOUS
<1>3. longer \in Seq(DayBars) /\ Len(longer) = Len(w) + 1
  BY <1>1
<1>4. \A n \in 1..Len(w) : longer[n] = w[n] /\ w[n] \in DayBars
  BY <1>1
<1>5. longer[Len(w) + 1] = bar
  BY <1>1
<1>6. \A n \in 1..Len(longer) : longer[n].day <= d /\ longer[n].day \in Nat
  <2> SUFFICES ASSUME NEW n \in 1..Len(longer) PROVE longer[n].day <= d /\ longer[n].day \in Nat
    OBVIOUS
  <2>1. CASE n = Len(w) + 1
    BY <1>1, <1>5, <2>1
  <2>2. CASE n # Len(w) + 1
    <3>1. n \in 1..Len(w)
      BY <1>1, <1>3, <2>2
    <3>2. w[n].day <= d - 1 /\ w[n].day \in Nat
      BY <1>4, <3>1 DEF Rising, DayBars
    <3> HIDE DEF longer
    <3> QED BY <1>4, <3>1, <3>2
  <2> QED BY <2>1, <2>2
<1>7. \A m, n \in 1..Len(longer) : m < n => longer[m].day < longer[n].day
  <2> SUFFICES ASSUME NEW m \in 1..Len(longer), NEW n \in 1..Len(longer), m < n
               PROVE  longer[m].day < longer[n].day
    OBVIOUS
  <2>1. m \in 1..Len(w)
    BY <1>1, <1>3
  <2>2. CASE n = Len(w) + 1
    <3>1. w[m].day <= d - 1 /\ w[m].day \in Nat
      BY <1>4, <2>1 DEF Rising, DayBars
    <3>2. longer[m] = w[m] /\ longer[n].day = d
      BY <1>1, <1>4, <1>5, <2>1, <2>2
    <3> HIDE DEF longer
    <3> QED BY <3>1, <3>2
  <2>3. CASE n # Len(w) + 1
    <3>1. n \in 1..Len(w)
      BY <1>1, <1>3, <2>3
    <3>2. w[m].day < w[n].day
      BY <2>1, <3>1 DEF Rising
    <3>3. longer[m] = w[m] /\ longer[n] = w[n]
      BY <1>4, <2>1, <3>1
    <3> HIDE DEF longer
    <3> QED BY <3>2, <3>3
  <2> QED BY <2>2, <2>3
<1> HIDE DEF longer, bar
<1>8. Rising(longer, d)
  BY <1>3, <1>6, <1>7 DEF Rising
<1>9. Rising(Tail(longer), d)
  <2>1. longer # << >>
    BY <1>1, <1>3
  <2>2. Tail(longer) \in Seq(DayBars) /\ Len(Tail(longer)) = Len(longer) - 1
        /\ \A n \in 1..Len(Tail(longer)) : Tail(longer)[n] = longer[n + 1]
    BY <1>3, <2>1
  <2>3. \A n \in 1..Len(Tail(longer)) : n \in Int /\ n + 1 \in 1..Len(longer)
    BY <1>1, <1>3, <2>2
  <2> QED BY <1>6, <1>7, <2>2, <2>3 DEF Rising
<1>10. Take(w, bar, period) = longer \/ Take(w, bar, period) = Tail(longer)
  BY <1>2 DEF Take, longer, bar
<1> QED BY <1>8, <1>9, <1>10 DEF bar

\* An indicator is the one of its name.
LEMMA NamedIs ==
  ASSUME NEW ind \in Indicators
  PROVE  Named(ind.name) = ind
BY IndicatorsAssumption DEF Named

\* A day of history goes into the windows of the daily indicators.
LEMMA UpdateRising ==
  ASSUME NEW d \in Nat \ {0}, NEW ws \in Tables, TableRising(ws, d - 1)
  PROVE  /\ UpdateWindows(ws, [day |-> d, res |-> "daily"]) \in Tables
         /\ TableRising(UpdateWindows(ws, [day |-> d, res |-> "daily"]), d)
<1> DEFINE bar == [day |-> d, res |-> "daily"]
           new == UpdateWindows(ws, bar)
<1>1. bar \in DayBars /\ bar.res = "daily" /\ DOMAIN ws = Names
  BY DEF DayBars, Tables
<1>2. \A w \in Seq(DayBars) : \A period : Take(w, bar, period) \in Seq(DayBars)
  <2> SUFFICES ASSUME NEW w \in Seq(DayBars), NEW period PROVE Take(w, bar, period) \in Seq(DayBars)
    OBVIOUS
  <2>1. [day |-> bar.day, res |-> bar.res] = bar
    OBVIOUS
  <2> HIDE DEF bar
  <2> DEFINE longer == Append(w, bar)
  <2>2. longer \in Seq(DayBars) /\ longer # << >>
    BY <1>1
  <2>3. Tail(longer) \in Seq(DayBars)
    BY <2>2
  <2>4. Take(w, bar, period) = longer \/ Take(w, bar, period) = Tail(longer)
    BY <2>1 DEF Take
  <2> QED BY <2>2, <2>3, <2>4
<1>3. DOMAIN new = Names
  BY <1>1 DEF UpdateWindows
<1>4. \A name \in Names : new[name] = IF ResolutionMatches(Named(name).res, bar.res)
                                      THEN Take(ws[name], bar, Named(name).period) ELSE ws[name]
  BY <1>1 DEF UpdateWindows
<1>5. new \in Tables
  <2>1. \A name \in Names : new[name] \in Seq(DayBars)
    <3> SUFFICES ASSUME NEW name \in Names PROVE new[name] \in Seq(DayBars)
      OBVIOUS
    <3>1. ws[name] \in Seq(DayBars)
      BY DEF Tables
    <3> HIDE DEF new, bar
    <3> QED BY <1>2, <1>4, <3>1
  <2>2. new = [name \in Names |-> new[name]]
    BY <1>1 DEF UpdateWindows
  <2> HIDE DEF new
  <2> QED BY <2>1, <2>2 DEF Tables
<1>6. ASSUME NEW ind \in Indicators, ind.res \in Daily PROVE Rising(new[ind.name], d)
  <2>1. ind.name \in Names /\ Named(ind.name) = ind
    BY NamedIs DEF Names
  <2>2. ResolutionMatches(ind.res, bar.res)
    BY <1>1, <1>6 DEF ResolutionMatches, Daily
  <2>3. Rising(ws[ind.name], d - 1)
    BY <1>6 DEF TableRising
  <2>4. new[ind.name] = Take(ws[ind.name], bar, ind.period)
    <3> HIDE DEF new, bar
    <3> QED BY <1>4, <2>1, <2>2
  <2>5. Rising(Take(ws[ind.name], bar, ind.period), d)
    BY <2>3, TakeRising
  <2> HIDE DEF new, bar
  <2> QED BY <2>4, <2>5
<1> HIDE DEF new
<1>7. TableRising(new, d)
  BY <1>3, <1>6 DEF TableRising
<1> QED BY <1>5, <1>7 DEF new

\* A window of days up to one day is a window of days up to a later one.
LEMMA RisingLater ==
  ASSUME NEW d \in Nat, NEW e \in Nat, d <= e, NEW ws, TableRising(ws, d)
  PROVE  TableRising(ws, e)
<1>1. ASSUME NEW w, Rising(w, d) PROVE Rising(w, e)
  <2>1. \A n \in 1..Len(w) : w[n] \in DayBars /\ w[n].day <= d
    BY <1>1 DEF Rising
  <2>2. \A n \in 1..Len(w) : w[n].day <= e
    BY <2>1 DEF DayBars
  <2> QED BY <1>1, <2>2 DEF Rising
<1> QED BY <1>1 DEF TableRising

\* The history that goes into new windows leaves them in the order of the days.
LEMMA FedRising ==
  ASSUME NEW m \in Nat, NEW days \in SUBSET (1..m), NEW ws \in Tables, TableRising(ws, 0)
  PROVE  TableRising(Fed(ws, days), m)
<1> DEFINE last == Max({0} \cup days)
<1>1. last \in 0..m
  <2>1. {0} \cup days \subseteq 0..m /\ {0} \cup days # {}
    OBVIOUS
  <2>2. \E x \in {0} \cup days : \A y \in {0} \cup days : x >= y
    BY <2>1, GreatestNumber
  <2>3. last \in {0} \cup days
    BY <2>2 DEF Max
  <2> QED BY <2>1, <2>3
<1> HIDE DEF last
<1> DEFINE D == Tables
           Updated(t, d) == UpdateWindows(t, [day |-> d, res |-> "daily"])
           step == [x \in D \X Nat |->
                      IF x[2] \in days THEN (IF Updated(x[1], x[2]) \in D THEN Updated(x[1], x[2]) ELSE ws)
                      ELSE x[1]]
           Row(f) == [d \in 0..last |->
                        IF d = 0 THEN ws
                        ELSE IF d \in days THEN UpdateWindows(f[d - 1], [day |-> d, res |-> "daily"])
                        ELSE f[d - 1]]
<1>2. step \in [D \X Nat -> D]
  <2> HIDE DEF Updated
  <2> QED BY DEF D
<1>3. PICK f \in [0..last -> D] : Run(f, ws, step, last)
  <2>1. ws \in D
    OBVIOUS
  <2> HIDE DEF D, step
  <2>2. \A k \in Nat : \E f \in [0..k -> D] : Run(f, ws, step, k)
    BY <1>2, <2>1, Repeated
  <2> QED BY <1>1, <2>2
<1> DEFINE Good(g) == {d \in 0..last : g[d] \in Tables /\ TableRising(g[d], d)}
<1>4. ASSUME NEW d \in 1..last, d - 1 \in Good(f)
      PROVE  d \in Good(f) /\ f[d] = IF d \in days THEN Updated(f[d - 1], d) ELSE f[d - 1]
  <2>1. d \in Nat \ {0} /\ d - 1 \in Nat /\ d \in 0..last
    BY <1>1
  <2>2. f[d - 1] \in Tables /\ TableRising(f[d - 1], d - 1)
    BY <1>4
  <2>3. f[d] = step[<<f[d - 1], d>>]
    BY <1>3 DEF Run
  <2>4. Updated(f[d - 1], d) \in Tables /\ TableRising(Updated(f[d - 1], d), d)
    BY <2>1, <2>2, UpdateRising
  <2>5. TableRising(f[d - 1], d)
    <3>1. d - 1 <= d /\ d \in Nat
      BY <2>1
    <3> QED BY <2>1, <2>2, <3>1, RisingLater
  <2> HIDE DEF Updated
  <2>6. f[d] = IF d \in days THEN Updated(f[d - 1], d) ELSE f[d - 1]
    BY <2>1, <2>2, <2>3, <2>4
  <2> QED BY <2>1, <2>2, <2>4, <2>5, <2>6
<1>5. 0..last \subseteq Good(f)
  <2>1. 0 \in Good(f)
    BY <1>1, <1>3 DEF Run
  <2>2. last \in Nat
    BY <1>1
  <2> HIDE DEF Good
  <2> QED BY <1>4, <2>1, <2>2, UpTo
<1>6. f = Row(f)
  <2>1. ASSUME NEW d \in 0..last
        PROVE  f[d] = IF d = 0 THEN ws ELSE IF d \in days THEN Updated(f[d - 1], d) ELSE f[d - 1]
    <3>1. CASE d = 0
      BY <1>3, <3>1 DEF Run
    <3>2. CASE d # 0
      <4>1. d \in 1..last /\ d - 1 \in 0..last
        BY <1>1, <3>2
      <4> HIDE DEF Good, Updated
      <4> QED BY <1>4, <1>5, <3>2, <4>1
    <3> QED BY <3>1, <3>2
  <2>2. f = [d \in 0..last |-> f[d]]
    OBVIOUS
  <2> QED BY <2>1, <2>2
<1> DEFINE g == CHOOSE g : g = Row(g)
<1>7. g = Row(g)
  <2> HIDE DEF Row
  <2> QED BY <1>6
<1>8. Fed(ws, days) = g[last]
  BY DEF Fed, last
<1> HIDE DEF g
<1>9. \A d \in 0..last : g[d] = IF d = 0 THEN ws ELSE IF d \in days THEN Updated(g[d - 1], d) ELSE g[d - 1]
  BY <1>7
<1> HIDE DEF Row
<1>10. 0 \in Good(g)
  <2>1. 0 \in 0..last
    BY <1>1
  <2>2. g[0] = ws
    BY <1>9, <2>1
  <2> QED BY <2>1, <2>2
<1>11. ASSUME NEW d \in 1..last, d - 1 \in Good(g) PROVE d \in Good(g)
  <2>1. d \in Nat \ {0} /\ d - 1 \in Nat /\ d \in 0..last /\ d # 0
    BY <1>1
  <2>2. g[d - 1] \in Tables /\ TableRising(g[d - 1], d - 1)
    BY <1>11
  <2>3. Updated(g[d - 1], d) \in Tables /\ TableRising(Updated(g[d - 1], d), d)
    BY <2>1, <2>2, UpdateRising
  <2>4. TableRising(g[d - 1], d)
    <3>1. d - 1 <= d /\ d \in Nat
      BY <2>1
    <3> QED BY <2>1, <2>2, <3>1, RisingLater
  <2> HIDE DEF Updated
  <2>5. g[d] = IF d \in days THEN Updated(g[d - 1], d) ELSE g[d - 1]
    BY <1>9, <2>1
  <2> QED BY <2>1, <2>2, <2>3, <2>4, <2>5
<1>12. last \in Good(g)
  <2>1. last \in Nat /\ last \in 0..last
    BY <1>1
  <2> HIDE DEF Good
  <2> QED BY <1>10, <1>11, <2>1, UpTo
<1>13. last \in Nat /\ last <= m
  BY <1>1
<1> QED BY <1>8, <1>12, <1>13, RisingLater

--------------------------------------------------------------------------------
(* The engine.                                                                   *)

\* An engine has windows, an active universe and routes, and its routes lead to a sleeve
\* exactly for the symbols of the sleeve's active universe.
EngineSound(e) ==
  /\ e = [windows |-> e.windows, live |-> e.live, routes |-> e.routes]
  /\ e.windows = [s \in Sleeves |-> e.windows[s]]
  /\ e.live \in [Sleeves -> SUBSET Instruments]
  /\ e.routes \in [Instruments -> SUBSET Sleeves]
  /\ \A s \in Sleeves, y \in Instruments : s \in e.routes[y] <=> y \in e.live[s]

\* A new engine knows nothing.
LEMMA NewEngineSound ==
  EngineSound(NewEngine) /\ \A s \in Sleeves : DOMAIN NewEngine.windows[s] = {}
<1>1. DOMAIN << >> = {}
  OBVIOUS
<1> QED BY <1>1 DEF EngineSound, NewEngine

\* Registering adds windows, live symbols and routes of one sleeve.
LEMMA RegisterSound ==
  ASSUME NEW e, EngineSound(e), NEW s \in Sleeves, NEW symbols \in SUBSET Instruments
  PROVE  LET e2 == RegisterUniverse(e, s, symbols) IN
         /\ EngineSound(e2)
         /\ e2.windows[s] = WithWindows(e.windows[s], symbols)
         /\ \A t \in Sleeves : t # s => e2.windows[t] = e.windows[t] /\ e2.live[t] = e.live[t]
         /\ e2.live[s] = e.live[s] \cup symbols
<1> DEFINE e2 == [windows |-> [e.windows EXCEPT ![s] = WithWindows(@, symbols)],
                  live |-> [e.live EXCEPT ![s] = @ \cup symbols],
                  routes |-> [y \in Instruments |-> IF y \in symbols THEN e.routes[y] \cup {s}
                                                    ELSE e.routes[y]]]
<1>1. RegisterUniverse(e, s, symbols) = e2
  <2> DEFINE r == [windows |-> e.windows, live |-> e.live, routes |-> e.routes]
  <2> DEFINE w == [e.windows EXCEPT ![s] = WithWindows(@, symbols)]
             l == e2.live
             t == e2.routes
             q == RegisterUniverse(r, s, symbols)
  <2>1. q = [r EXCEPT !.windows = w, !.live = l, !.routes = t]
    BY DEF RegisterUniverse
  <2> HIDE DEF w, l, t, q
  <2>2. q = [windows |-> w, live |-> l, routes |-> t]
    BY <2>1
  <2>3. [windows |-> w, live |-> l, routes |-> t] = e2
    BY DEF w, l, t
  <2> QED BY <2>2, <2>3 DEF EngineSound, q
<1>2. /\ e2.windows = [t \in Sleeves |-> e2.windows[t]]
      /\ e2.live \in [Sleeves -> SUBSET Instruments]
      /\ e2.routes \in [Instruments -> SUBSET Sleeves]
  BY DEF EngineSound
<1>3. \A t \in Sleeves, y \in Instruments : t \in e2.routes[y] <=> y \in e2.live[t]
  BY DEF EngineSound
<1>4. /\ e2.windows[s] = WithWindows(e.windows[s], symbols)
      /\ \A t \in Sleeves : t # s => e2.windows[t] = e.windows[t] /\ e2.live[t] = e.live[t]
      /\ e2.live[s] = e.live[s] \cup symbols
  BY DEF EngineSound
<1> QED BY <1>1, <1>2, <1>3, <1>4 DEF EngineSound

\* A new active universe replaces the live symbols of one sleeve and their routes.
LEMMA SetActiveSound ==
  ASSUME NEW e, EngineSound(e), NEW s \in Sleeves, NEW symbols \in SUBSET Instruments
  PROVE  LET e2 == SetActiveUniverse(e, s, symbols) IN
         /\ EngineSound(e2)
         /\ e2.windows[s] = WithWindows(e.windows[s], symbols)
         /\ \A t \in Sleeves : t # s => e2.windows[t] = e.windows[t] /\ e2.live[t] = e.live[t]
         /\ e2.live[s] = symbols
<1> DEFINE e2 == [windows |-> [e.windows EXCEPT ![s] = WithWindows(@, symbols)],
                  live |-> [e.live EXCEPT ![s] = symbols],
                  routes |-> [y \in Instruments |-> IF y \in symbols THEN e.routes[y] \cup {s}
                                                    ELSE IF y \in e.live[s] THEN e.routes[y] \ {s}
                                                    ELSE e.routes[y]]]
<1>1. SetActiveUniverse(e, s, symbols) = e2
  <2> DEFINE r == [windows |-> e.windows, live |-> e.live, routes |-> e.routes]
  <2> DEFINE w == [e.windows EXCEPT ![s] = WithWindows(@, symbols)]
             l == e2.live
             t == e2.routes
             q == SetActiveUniverse(r, s, symbols)
  <2>1. q = [r EXCEPT !.windows = w, !.live = l, !.routes = t]
    BY DEF SetActiveUniverse
  <2> HIDE DEF w, l, t, q
  <2>2. q = [windows |-> w, live |-> l, routes |-> t]
    BY <2>1
  <2>3. [windows |-> w, live |-> l, routes |-> t] = e2
    BY DEF w, l, t
  <2> QED BY <2>2, <2>3 DEF EngineSound, q
<1>2. /\ e2.windows = [t \in Sleeves |-> e2.windows[t]]
      /\ e2.live \in [Sleeves -> SUBSET Instruments]
      /\ e2.routes \in [Instruments -> SUBSET Sleeves]
  BY DEF EngineSound
<1>3. \A t \in Sleeves, y \in Instruments : t \in e2.routes[y] <=> y \in e2.live[t]
  BY DEF EngineSound
<1>4. /\ e2.windows[s] = WithWindows(e.windows[s], symbols)
      /\ \A t \in Sleeves : t # s => e2.windows[t] = e.windows[t] /\ e2.live[t] = e.live[t]
      /\ e2.live[s] = symbols
  BY DEF EngineSound
<1> QED BY <1>1, <1>2, <1>3, <1>4 DEF EngineSound

\* History goes into windows of one sleeve.
LEMMA WarmUpSound ==
  ASSUME NEW e, EngineSound(e), NEW s \in Sleeves, NEW history
  PROVE  LET e2 == WarmUp(e, s, history) IN
         /\ EngineSound(e2)
         /\ e2.live = e.live
         /\ \A t \in Sleeves : t # s => e2.windows[t] = e.windows[t]
         /\ e2.windows[s] = [y \in DOMAIN e.windows[s] |->
                               IF y \in e.live[s] /\ y \in DOMAIN history
                               THEN Fed(e.windows[s][y], history[y]) ELSE e.windows[s][y]]
<1> DEFINE fed == [y \in DOMAIN e.windows[s] |->
                     IF y \in e.live[s] /\ y \in DOMAIN history
                     THEN Fed(e.windows[s][y], history[y]) ELSE e.windows[s][y]]
           e2 == [windows |-> [e.windows EXCEPT ![s] = fed], live |-> e.live, routes |-> e.routes]
<1>1. WarmUp(e, s, history) = e2
  BY DEF WarmUp, EngineSound
<1> HIDE DEF fed
<1>2. e2.windows = [t \in Sleeves |-> e2.windows[t]] /\ e2.windows[s] = fed
      /\ \A t \in Sleeves : t # s => e2.windows[t] = e.windows[t]
  BY DEF EngineSound
<1>3. EngineSound(e2)
  BY <1>2 DEF EngineSound
<1> QED BY <1>1, <1>2, <1>3 DEF fed

\* Quotes leave live symbols and routes alone.
LEMMA OnDataSound ==
  ASSUME NEW e, EngineSound(e), NEW bars
  PROVE  /\ EngineSound(OnData(e, bars))
         /\ OnData(e, bars).live = e.live
         /\ \A s \in Sleeves : DOMAIN OnData(e, bars).windows[s] = DOMAIN e.windows[s]
<1> DEFINE moved == [s \in Sleeves |-> [y \in DOMAIN e.windows[s] |->
                       IF y \in SymbolsIn(bars) /\ s \in e.routes[y]
                       THEN UpdateWindows(e.windows[s][y], CHOOSE bar \in bars : bar.symbol = y)
                       ELSE e.windows[s][y]]]
           e2 == [windows |-> moved, live |-> e.live, routes |-> e.routes]
<1>1. OnData(e, bars) = e2
  <2>1. OnData(e, bars) = [e EXCEPT !.windows = moved]
    BY Zenon DEF OnData, moved
  <2> HIDE DEF moved
  <2>2. [e EXCEPT !.windows = moved] = [windows |-> moved, live |-> e.live, routes |-> e.routes]
    BY DEF EngineSound
  <2> QED BY <2>1, <2>2
<1>2. \A s \in Sleeves : DOMAIN moved[s] = DOMAIN e.windows[s]
  OBVIOUS
<1>3. moved = [s \in Sleeves |-> moved[s]]
  OBVIOUS
<1> HIDE DEF moved
<1>4. EngineSound(e2)
  BY <1>3 DEF EngineSound
<1> QED BY <1>1, <1>2, <1>4

--------------------------------------------------------------------------------
(* Daily windows of a sleeve in the process that trades.                         *)

\* Every symbol of a sleeve has windows of confirmed days in order.
WindowsRising(known, last) == \A y \in DOMAIN known : TableRising(known[y], last)

\* New windows are empty.
LEMMA NewWindowsRising ==
  ASSUME NEW d \in Nat
  PROVE  NewWindows \in Tables /\ TableRising(NewWindows, d)
<1>1. << >> \in Seq(DayBars) /\ Len(<< >>) = 0 /\ 1..0 = {}
  OBVIOUS
<1>2. Rising(<< >>, d)
  BY <1>1 DEF Rising
<1>3. NewWindows = [name \in Names |-> << >>]
  BY DEF NewWindows, Names
<1>4. \A ind \in Indicators : ind.name \in Names
  BY DEF Names
<1>5. NewWindows \in Tables
  BY <1>1, <1>3 DEF Tables
<1> QED BY <1>2, <1>3, <1>4, <1>5 DEF TableRising

\* Adding symbols adds empty windows.
LEMMA AddedRising ==
  ASSUME NEW known, NEW symbols, NEW d \in Nat, WindowsRising(known, d)
  PROVE  WindowsRising(WithWindows(known, symbols), d)
BY NewWindowsRising DEF WindowsRising, WithWindows

\* A quote is of no daily resolution and leaves the daily windows alone.
LEMMA QuoteKeepsRising ==
  ASSUME NEW ws, NEW d, TableRising(ws, d), NEW bar, bar.res \notin Daily
  PROVE  TableRising(UpdateWindows(ws, bar), d)
<1> DEFINE new == UpdateWindows(ws, bar)
<1>1. DOMAIN new = Names
  BY DEF UpdateWindows, TableRising
<1>2. ASSUME NEW ind \in Indicators, ind.res \in Daily PROVE new[ind.name] = ws[ind.name]
  <2>1. ind.name \in Names /\ Named(ind.name) = ind
    BY NamedIs DEF Names
  <2>2. ~ResolutionMatches(ind.res, bar.res)
    BY <1>2 DEF ResolutionMatches, Daily, Intraday
  <2>3. DOMAIN ws = Names
    BY DEF TableRising
  <2> QED BY <2>1, <2>2, <2>3 DEF UpdateWindows
<1> HIDE DEF new
<1>3. TableRising(new, d)
  BY <1>1, <1>2 DEF TableRising
<1> QED BY <1>3 DEF new

--------------------------------------------------------------------------------
(* The bootstrap of a sleeve.                                                    *)

DaysSound(days) ==
  days \in [Instruments -> SUBSET Nat] /\ \A y \in Instruments : IsFiniteSet(days[y])

\* A sleeve's runtime follows what it held live, and keeps finitely many days.
RuntimeSound(r) ==
  /\ r = [live |-> r.live, forced |-> r.forced, blocks |-> r.blocks, selection |-> r.selection,
          warm |-> r.warm, heldThen |-> r.heldThen, bootDay |-> r.bootDay, days |-> r.days]
  /\ r.live \subseteq Instruments /\ r.forced \subseteq Instruments
  /\ r.heldThen \subseteq r.live
  /\ r.bootDay \in Nat \ {0}
  /\ DaysSound(r.days)

\* The days of a request are finitely many, from the first day with a bar.
LEMMA DaysFinite ==
  ASSUME NEW end \in Int, NEW y \in Instruments
  PROVE  /\ DaysThrough(end)[y] = FirstDay[y]..end
         /\ IsFiniteSet(DaysThrough(end)[y])
         /\ DaysThrough(end)[y] \subseteq 1..end
<1>1. FirstDay[y] \in Nat \ {0}
  BY DaysAssumption
<1>2. DaysThrough(end)[y] = FirstDay[y]..end
  BY DEF DaysThrough
<1>3. IsFiniteSet(FirstDay[y]..end)
  BY <1>1, FS_Interval
<1> QED BY <1>1, <1>2, <1>3

\* Days added to a history leave finitely many.
LEMMA TemporalTakeSound ==
  ASSUME NEW history, DaysSound(history), NEW end \in Int, NEW symbols \in SUBSET Instruments
  PROVE  DaysSound(TemporalTake(history, [y \in symbols |-> DaysThrough(end)[y]], KeepBars))
<1> DEFINE asked == [y \in symbols |-> DaysThrough(end)[y]]
           longer(y) == history[y] \cup (IF y \in DOMAIN asked THEN asked[y] ELSE {})
           new == TemporalTake(history, asked, KeepBars)
<1>1. new = [y \in Instruments |-> KeepDays(longer(y), KeepBars)]
  BY DEF TemporalTake
<1>2. ASSUME NEW y \in Instruments
      PROVE  IsFiniteSet(KeepDays(longer(y), KeepBars)) /\ KeepDays(longer(y), KeepBars) \subseteq Nat
  <2>1. IsFiniteSet(history[y]) /\ history[y] \subseteq Nat
    BY DEF DaysSound
  <2>2. IsFiniteSet(DaysThrough(end)[y]) /\ DaysThrough(end)[y] \subseteq Nat
    BY DaysFinite
  <2>3. longer(y) = history[y] \cup DaysThrough(end)[y] \/ longer(y) = history[y]
    OBVIOUS
  <2>4. IsFiniteSet(longer(y)) /\ longer(y) \subseteq Nat
    BY <2>1, <2>2, <2>3, FS_Union
  <2>5. KeepBars \in Nat
    BY DaysAssumption
  <2> HIDE DEF longer
  <2>6. KeepDays(longer(y), KeepBars) \subseteq longer(y) /\ IsFiniteSet(KeepDays(longer(y), KeepBars))
    BY <2>4, <2>5, KeptDays
  <2> QED BY <2>4, <2>6
<1> HIDE DEF longer, new
<1>3. DaysSound(new)
  BY <1>1, <1>2 DEF DaysSound
<1> QED BY <1>3 DEF new

\* A model selects from its universe.
LEMMA SelectedWithin ==
  ASSUME NEW model, NEW universe, NEW order, NEW snapshot
  PROVE  SelectedBy(model, universe, order, snapshot) \subseteq universe
BY DEF SelectedBy, StaticSelection, MomentumSelection, Eligible

\* What is selected from known symbols is known, and what is held is live.
ActiveSound(active, heldNow) ==
  active.live \subseteq Instruments /\ active.forced \subseteq Instruments /\ heldNow \subseteq active.live
LEMMA SelectActiveSound ==
  ASSUME NEW universe \in SUBSET Instruments, NEW order, NEW snapshot, NEW models,
         NEW heldNow \in SUBSET Instruments, NEW manual \in SUBSET Instruments, NEW given,
         given = SelectActive(universe, order, snapshot, models, Context(heldNow, manual))
  PROVE  ActiveSound(given, heldNow)
<1> DEFINE context == Context(heldNow, manual)
           active == SelectActive(universe, order, snapshot, models, context)
           chosen == UNION {SelectedBy(models[n], universe, order, snapshot) : n \in DOMAIN models}
<1>1. active = [forced |-> Forced(context), live |-> chosen \cup Forced(context)]
  BY DEF SelectActive
<1>2. Forced(context) = heldNow \cup manual
  BY DEF Forced, Context
<1>3. chosen \subseteq Instruments
  BY SelectedWithin
<1> HIDE DEF chosen, context, active
<1>4. active.live = chosen \cup (heldNow \cup manual) /\ active.forced = heldNow \cup manual
  BY <1>1, <1>2
<1>5. active = given
  BY DEF active, context
<1> QED BY <1>3, <1>4, <1>5 DEF ActiveSound

\* The base of the selection is part of the coarse universe.
LEMMA BaseWithin ==
  ASSUME NEW s \in Sleeves, NEW unquoted
  PROVE  SelectionBase(s, unquoted) \subseteq Instruments
<1>1. Coarse[s] \in Seq(Instruments)
  BY SleevesAssumption
<1>2. ToSet(Coarse[s]) \subseteq Instruments
  BY <1>1 DEF ToSet
<1> QED BY <1>2 DEF SelectionBase, FineUniverse

\* The warm-up leaves an engine and, where there were no windows, confirmed days in order.
LEMMA WarmupSound ==
  ASSUME NEW e, EngineSound(e), NEW s \in Sleeves, NEW symbols \in SUBSET Instruments,
         NEW end \in Int, NEW outage, NEW ratio, NEW given,
         given = DailyWarmup(e, s, symbols, DaysThrough(end), outage, ratio).engine
  PROVE  /\ EngineSound(given)
         /\ given.live[s] = e.live[s] \cup symbols
         /\ \A t \in Sleeves : t # s => given.windows[t] = e.windows[t] /\ given.live[t] = e.live[t]
         /\ end \in Nat /\ DOMAIN e.windows[s] = {} => WindowsRising(given.windows[s], end)
<1> DEFINE e1 == RegisterUniverse(e, s, symbols)
           history == [y \in symbols \ outage |-> DaysThrough(end)[y]]
           e2 == WarmUp(e1, s, history)
<1>1. given = e2
  BY DEF DailyWarmup, Reported
<1>2. /\ EngineSound(e1) /\ e1.live[s] = e.live[s] \cup symbols
      /\ e1.windows[s] = WithWindows(e.windows[s], symbols)
      /\ \A t \in Sleeves : t # s => e1.windows[t] = e.windows[t] /\ e1.live[t] = e.live[t]
  BY RegisterSound
<1> HIDE DEF e1
<1>3. /\ EngineSound(e2) /\ e2.live = e1.live
      /\ \A t \in Sleeves : t # s => e2.windows[t] = e1.windows[t]
      /\ e2.windows[s] = [y \in DOMAIN e1.windows[s] |->
                            IF y \in e1.live[s] /\ y \in DOMAIN history
                            THEN Fed(e1.windows[s][y], history[y]) ELSE e1.windows[s][y]]
  <2> HIDE DEF history
  <2> QED BY <1>2, WarmUpSound
<1> HIDE DEF e2
<1>4. ASSUME end \in Nat, DOMAIN e.windows[s] = {} PROVE WindowsRising(e2.windows[s], end)
  <2>1. DOMAIN e1.windows[s] = symbols /\ \A y \in symbols : e1.windows[s][y] = NewWindows
    BY <1>2, <1>4 DEF WithWindows
  <2>2. NewWindows \in Tables /\ TableRising(NewWindows, 0) /\ TableRising(NewWindows, end)
    BY <1>4, NewWindowsRising
  <2>3. ASSUME NEW y \in symbols PROVE TableRising(e2.windows[s][y], end)
    <3>1. CASE y \in e1.live[s] /\ y \in DOMAIN history
      <4>1. history[y] \in SUBSET (1..end)
        BY <3>1, DaysFinite
      <4>2. TableRising(Fed(NewWindows, history[y]), end)
        <5> HIDE DEF history
        <5> QED BY <1>4, <2>2, <4>1, FedRising
      <4>3. e2.windows[s][y] = Fed(NewWindows, history[y])
        <5> HIDE DEF history
        <5> QED BY <1>3, <2>1, <3>1
      <4> QED BY <4>2, <4>3
    <3>2. CASE ~(y \in e1.live[s] /\ y \in DOMAIN history)
      <4>1. e2.windows[s][y] = NewWindows
        <5> HIDE DEF history
        <5> QED BY <1>3, <2>1, <3>2
      <4> QED BY <2>2, <4>1
    <3> QED BY <3>1, <3>2
  <2>4. DOMAIN e2.windows[s] = symbols
    <3> HIDE DEF history
    <3> QED BY <1>3, <2>1
  <2> QED BY <2>3, <2>4 DEF WindowsRising
<1>5. /\ EngineSound(e2)
      /\ e2.live[s] = e.live[s] \cup symbols
      /\ \A t \in Sleeves : t # s => e2.windows[t] = e.windows[t] /\ e2.live[t] = e.live[t]
      /\ end \in Nat /\ DOMAIN e.windows[s] = {} => WindowsRising(e2.windows[s], end)
  BY <1>2, <1>3, <1>4
<1> QED BY <1>1, <1>5

\* A bootstrap leaves a sound engine and a sound runtime that agree, and touches no other
\* sleeve; a sleeve that had no windows has confirmed days in order.
LEMMA BootstrapSound ==
  ASSUME NEW e, EngineSound(e), NEW s \in Sleeves, NEW heldNow \in SUBSET Instruments,
         NEW outage, NEW unquoted, today \in Nat \ {0}
  PROVE  LET boot == Bootstrap(e, s, heldNow, outage, unquoted) IN
         /\ boot = [engine |-> boot.engine, runtime |-> boot.runtime]
         /\ EngineSound(boot.engine) /\ RuntimeSound(boot.runtime)
         /\ boot.engine.live[s] = boot.runtime.live
         /\ boot.runtime.bootDay = today
         /\ \A t \in Sleeves : t # s => /\ boot.engine.windows[t] = e.windows[t]
                                        /\ boot.engine.live[t] = e.live[t]
         /\ DOMAIN e.windows[s] = {} => WindowsRising(boot.engine.windows[s], today - 1)
<1> DEFINE base == SelectionBase(s, unquoted)
           warm == DailyWarmup(e, s, base, DaysThrough(ConfirmedEnd), outage, MinReadyRatio)
           snapshot == IndicatorSnapshot(warm.engine, s, 0, "daily_confirmed",
                                         IF warm.report.isReady THEN "fresh" ELSE "degraded")
           active == SelectActive(base, Coarse[s], snapshot, Models[s], Context(heldNow, {}))
           days == TemporalTake([y \in Instruments |-> {}],
                                [y \in base \ outage |-> DaysThrough(ConfirmedEnd)[y]], KeepBars)
           e3 == SetActiveUniverse(warm.engine, s, active.live)
           r == [live |-> active.live, forced |-> active.forced, blocks |-> WarmupBlocks(warm.report),
                 selection |-> snapshot, warm |-> warm.report.ready, heldThen |-> heldNow,
                 bootDay |-> today, days |-> days]
           boot == Bootstrap(e, s, heldNow, outage, unquoted)
<1>1. boot = [engine |-> e3, runtime |-> r]
  BY DEF Bootstrap, Started
<1>2. base \in SUBSET Instruments
  BY BaseWithin
<1>3. ConfirmedEnd \in Int /\ ConfirmedEnd = today - 1 /\ today - 1 \in Nat
  BY DEF ConfirmedEnd
<1> HIDE DEF base, e3, r, boot
<1>4. /\ EngineSound(warm.engine)
      /\ \A t \in Sleeves : t # s => warm.engine.windows[t] = e.windows[t] /\ warm.engine.live[t] = e.live[t]
      /\ DOMAIN e.windows[s] = {} => WindowsRising(warm.engine.windows[s], today - 1)
  <2> DEFINE end == ConfirmedEnd
             ee == DailyWarmup(e, s, base, DaysThrough(end), outage, MinReadyRatio).engine
  <2>1. ee = warm.engine
    OBVIOUS
  <2> HIDE DEF end, warm
  <2>2. /\ EngineSound(ee)
        /\ \A t \in Sleeves : t # s => ee.windows[t] = e.windows[t] /\ ee.live[t] = e.live[t]
        /\ end \in Nat /\ DOMAIN e.windows[s] = {} => WindowsRising(ee.windows[s], end)
    <3>1. end \in Int
      BY <1>3 DEF end
    <3>2. ee = DailyWarmup(e, s, base, DaysThrough(end), outage, MinReadyRatio).engine
      OBVIOUS
    <3> HIDE DEF ee
    <3> QED BY <1>2, <3>1, <3>2, WarmupSound
  <2>3. end = today - 1 /\ end \in Nat
    BY <1>3 DEF end
  <2> HIDE DEF ee
  <2> QED BY <2>1, <2>2, <2>3
<1>5. active.live \in SUBSET Instruments /\ active.forced \subseteq Instruments /\ heldNow \subseteq active.live
  <2> HIDE DEF snapshot
  <2>1. {} \in SUBSET Instruments
    OBVIOUS
  <2>2. /\ active.live \subseteq Instruments /\ active.forced \subseteq Instruments
        /\ heldNow \subseteq active.live
    <3>1. PICK order, models : order = Coarse[s] /\ models = Models[s]
      OBVIOUS
    <3>2. active = SelectActive(base, order, snapshot, models, Context(heldNow, {}))
      BY <3>1
    <3> HIDE DEF active
    <3>3. ActiveSound(active, heldNow)
      BY ONLY <1>2, <2>1, <3>2, heldNow \in SUBSET Instruments, SelectActiveSound
    <3> QED BY <3>3 DEF ActiveSound
  <2> HIDE DEF active
  <2> QED BY <2>2
<1>6. DaysSound(days)
  <2>1. DaysSound([y \in Instruments |-> {}])
    BY FS_EmptySet DEF DaysSound
  <2>2. base \ outage \in SUBSET Instruments
    BY <1>2
  <2> QED BY <1>3, <2>1, <2>2, TemporalTakeSound
<1> HIDE DEF days, active, warm
<1>7. /\ EngineSound(e3) /\ e3.live[s] = active.live
      /\ e3.windows[s] = WithWindows(warm.engine.windows[s], active.live)
      /\ \A t \in Sleeves : t # s => /\ e3.windows[t] = warm.engine.windows[t]
                                     /\ e3.live[t] = warm.engine.live[t]
  BY <1>4, <1>5, SetActiveSound DEF e3
<1>8. RuntimeSound(r) /\ r.live = active.live /\ r.bootDay = today
  BY <1>5, <1>6 DEF RuntimeSound, r
<1>9. DOMAIN e.windows[s] = {} => WindowsRising(e3.windows[s], today - 1)
  BY <1>3, <1>4, <1>7, AddedRising
<1>10. boot.engine = e3 /\ boot.runtime = r /\ boot = [engine |-> boot.engine, runtime |-> boot.runtime]
  BY <1>1
<1> QED BY <1>4, <1>7, <1>8, <1>9, <1>10 DEF boot

--------------------------------------------------------------------------------
(* One cycle of a framework.                                                     *)

\* What FeedSound says of a single cycle.
CycleGood(c) ==
  /\ c.data # NoSnapshot => /\ c.data.id = c.snapshot.source
                            /\ SymbolsIn(c.data.bars) \subseteq c.runtime.live
  /\ DOMAIN c.snapshot.ready = c.runtime.live
  /\ AllowsNewEntries(c.snapshot.quality) =>
       /\ c.data # NoSnapshot
       /\ SymbolsIn(c.data.bars) \subseteq c.runtime.live
       /\ Cardinality(SymbolsIn(c.data.bars)) * 100 >= FreshRatio * Cardinality(c.runtime.live)
       /\ \A bar \in c.data.bars : bar.usable
       /\ c.runtime.blocks = {}
  /\ (/\ c.data # NoSnapshot /\ c.runtime.blocks = {}
      /\ SymbolsIn(c.data.bars) = c.runtime.live
      /\ \A bar \in c.data.bars : bar.usable) => AllowsNewEntries(c.snapshot.quality)
  /\ c.runtime.heldThen \subseteq c.runtime.live
  /\ \A w \in c.snapshot.enriched :
       w[2] # {} => Cardinality(w[2]) = Lookback /\ \A d \in w[2] : d <= c.at

\* A ratio of at least so many percent, before it is rounded down.
LEMMA RatioReached ==
  ASSUME NEW k \in Nat, NEW n \in Nat \ {0}, NEW p \in Nat, (k * 100) \div n >= p
  PROVE  k * 100 >= p * n
<1> DEFINE q == (k * 100) \div n
           r == (k * 100) % n
<1>1. k * 100 \in Nat
  OBVIOUS
<1>2. k * 100 = q * n + r /\ q \in Nat /\ r \in Nat
  <2> DEFINE a == k * 100
  <2>1. a \in Nat
    OBVIOUS
  <2> HIDE DEF a
  <2>2. a = (a \div n) * n + (a % n) /\ a \div n \in Nat /\ a % n \in Nat
    BY <2>1
  <2> QED BY <2>2 DEF a
<1>3. \A x, y, z \in Nat : x >= y => x * z >= y * z
  OBVIOUS
<1>4. q * n >= p * n
  <2> HIDE DEF q
  <2> QED BY <1>2, <1>3
<1> HIDE DEF q, r
<1>5. q * n \in Nat /\ p * n \in Nat
  BY <1>2
<1> QED BY <1>2, <1>4, <1>5

\* The quality of a sleeve's own data: fresh only if enough of its symbols are quoted at
\* usable prices and its warm-up blocks nothing, and then if all of them are.
LEMMA QualityMeans ==
  ASSUME NEW s, NEW r, RuntimeSound(r), NEW own, own = {bar \in taken.bars : bar.symbol \in r.live}
  PROVE  /\ SymbolsIn(own) \subseteq r.live
         /\ AllowsNewEntries(QualityFor(s, r)) =>
              /\ own # {} /\ r.blocks = {} /\ \A bar \in own : bar.usable
              /\ Cardinality(SymbolsIn(own)) * 100 >= FreshRatio * Cardinality(r.live)
         /\ own # {} /\ r.blocks = {} /\ SymbolsIn(own) = r.live /\ (\A bar \in own : bar.usable)
              => AllowsNewEntries(QualityFor(s, r))
<1> DEFINE mine == r.live
           n == Cardinality(mine)
           k == Cardinality(SymbolsIn(own))
           reasons == r.blocks \cup PriceBlocks(taken.bars, mine)
           status == EvaluateQuality(n, k, FALSE, FALSE)
<1>1. SymbolsIn(own) = mine \cap SymbolsIn(taken.bars)
  BY DEF SymbolsIn
<1>2. QualityFor(s, r) = WithEntryBlocks(status, reasons)
  BY <1>1 DEF QualityFor
<1>3. IsFiniteSet(mine) /\ n \in Nat /\ k \in Nat /\ k <= n
  <2>1. IsFiniteSet(mine)
    BY SleevesAssumption, FS_Subset DEF RuntimeSound
  <2>2. SymbolsIn(own) \subseteq mine
    BY <1>1
  <2> QED BY <2>1, <2>2, FS_Subset, FS_CardinalityType
<1>4. reasons = {} <=> r.blocks = {} /\ \A bar \in own : bar.usable
  BY DEF PriceBlocks
<1>5. AllowsNewEntries(QualityFor(s, r)) <=> status = "fresh" /\ reasons = {}
  BY <1>2 DEF AllowsNewEntries, WithEntryBlocks
<1>6. status = "fresh" => k # 0 /\ n # 0 /\ k * 100 >= FreshRatio * n
  <2> SUFFICES ASSUME status = "fresh" PROVE k # 0 /\ n # 0 /\ k * 100 >= FreshRatio * n
    OBVIOUS
  <2> HIDE DEF n, k, mine
  <2>1. k # 0 /\ n # 0
    BY <1>3 DEF EvaluateQuality
  <2>2. ~((k * 100) \div n < FreshRatio)
    BY <1>3, <2>1 DEF EvaluateQuality
  <2>3. (k * 100) \div n >= 95
    <3>1. (k * 100) \div n \in Int
      BY <1>3, <2>1
    <3> QED BY <2>2, <3>1 DEF FreshRatio
  <2>4. k * 100 >= 95 * n
    BY <1>3, <2>1, <2>3, RatioReached
  <2> QED BY <2>1, <2>4 DEF FreshRatio
<1>7. k = n /\ n # 0 => status = "fresh"
  <2> SUFFICES ASSUME k = n, n # 0 PROVE status = "fresh"
    OBVIOUS
  <2> HIDE DEF n, k, mine
  <2>1. (n * 100) \div n = 100
    BY <1>3
  <2> QED BY <1>3, <2>1 DEF EvaluateQuality, FreshRatio, DegradedRatio
<1>8. k # 0 => own # {}
  <2>1. own = {} => SymbolsIn(own) = {}
    BY DEF SymbolsIn
  <2> QED BY <2>1, FS_EmptySet
<1>9. own # {} /\ SymbolsIn(own) = mine => n # 0
  <2>1. own # {} => SymbolsIn(own) # {}
    BY DEF SymbolsIn
  <2> QED BY <1>3, <2>1, FS_EmptySet
<1> HIDE DEF status, reasons
<1>10. AllowsNewEntries(QualityFor(s, r)) =>
         /\ own # {} /\ r.blocks = {} /\ \A bar \in own : bar.usable
         /\ k * 100 >= FreshRatio * n
  BY <1>4, <1>5, <1>6, <1>8
<1>11. own # {} /\ r.blocks = {} /\ SymbolsIn(own) = mine /\ (\A bar \in own : bar.usable)
         => AllowsNewEntries(QualityFor(s, r))
  BY <1>4, <1>5, <1>7, <1>9
<1> QED BY <1>1, <1>10, <1>11

\* The snapshot a framework is given, enriched with the sleeve's days.
Shown(s, r, asOf) ==
  Enriched(IndicatorSnapshot(engine, s, taken.snapshot.id, taken.snapshot.lane, QualityFor(s, r)),
           r.days, asOf, NeededBars, Lookback)

\* A cycle on that snapshot and the sleeve's part of the quotes is good.
LEMMA CycleSound ==
  ASSUME NEW s, NEW r, RuntimeSound(r), engine.live[s] = r.live,
         NEW asOf \in Nat, NEW now \in Nat, asOf <= now,
         NEW own, own = {bar \in taken.bars : bar.symbol \in r.live},
         NEW market, market = [id |-> taken.snapshot.id, bars |-> own, lane |-> taken.snapshot.lane],
         market # NoSnapshot,
         NEW c, c.snapshot = Shown(s, r, asOf), c.runtime = r, c.at = now,
         c.data = IF own # {} THEN market ELSE NoSnapshot
  PROVE  CycleGood(c)
<1> DEFINE raw == IndicatorSnapshot(engine, s, taken.snapshot.id, taken.snapshot.lane, QualityFor(s, r))
           windows == {<<y, TemporalWindow(r.days[y], asOf, NeededBars, Lookback)>> : y \in DOMAIN raw.ready}
<1>1. /\ c.snapshot.source = taken.snapshot.id /\ c.snapshot.quality = QualityFor(s, r)
      /\ DOMAIN c.snapshot.ready = r.live /\ c.snapshot.enriched = windows /\ DOMAIN raw.ready = r.live
  BY DEF Shown, Enriched, IndicatorSnapshot
<1> HIDE DEF raw
<1>2. ASSUME NEW w \in windows, w[2] # {}
      PROVE  Cardinality(w[2]) = Lookback /\ \A d \in w[2] : d <= now
  <2>1. PICK y \in r.live : w = <<y, TemporalWindow(r.days[y], asOf, NeededBars, Lookback)>>
    BY <1>1
  <2>2. IsFiniteSet(r.days[y]) /\ r.days[y] \subseteq Nat
    BY DEF RuntimeSound, DaysSound
  <2>3. w[2] = TemporalWindow(r.days[y], asOf, NeededBars, Lookback)
    BY <2>1
  <2>4. Cardinality(w[2]) = Lookback /\ \A d \in w[2] : d \in Nat /\ d <= asOf
    BY <1>2, <2>2, <2>3, WindowWhole
  <2> QED BY <2>4
<1>3. /\ SymbolsIn(own) \subseteq r.live
      /\ AllowsNewEntries(QualityFor(s, r)) =>
           /\ own # {} /\ r.blocks = {} /\ \A bar \in own : bar.usable
           /\ Cardinality(SymbolsIn(own)) * 100 >= FreshRatio * Cardinality(r.live)
      /\ own # {} /\ r.blocks = {} /\ SymbolsIn(own) = r.live /\ (\A bar \in own : bar.usable)
           => AllowsNewEntries(QualityFor(s, r))
  BY ONLY RuntimeSound(r), own = {bar \in taken.bars : bar.symbol \in r.live}, QualityMeans
<1>4. market.id = taken.snapshot.id /\ market.bars = own
  OBVIOUS
<1>5. r.heldThen \subseteq r.live
  BY DEF RuntimeSound
<1> HIDE DEF windows
<1> QED BY <1>1, <1>2, <1>3, <1>4, <1>5 DEF CycleGood

--------------------------------------------------------------------------------
(* The inductive invariant.                                                      *)

Booted(s) == RuntimeSound(runtimes[s]) /\ engine.live[s] = runtimes[s].live

StoreSound(store) ==
  /\ store = [active |-> store.active, pending |-> store.pending, activeLane |-> store.activeLane,
              pendingLane |-> store.pendingLane]
  /\ store.active = [l \in Lanes |-> store.active[l]]

\* Quotes taken together: one snapshot, of one lane, with the bars that were taken.
TakenSound ==
  /\ taken.bars \subseteq QuoteBars
  /\ taken.snapshot = [id |-> taken.snapshot.id, bars |-> taken.bars, lane |-> taken.snapshot.lane]
  /\ taken.snapshot.id \in Nat /\ taken.snapshot.lane \in Lanes

WorldSound == today \in Nat \ {0} /\ nextId \in Nat /\ held \in [Sleeves -> SUBSET Instruments]

MemorySound ==
  /\ EngineSound(engine)
  /\ stores = [s \in Sleeves |-> stores[s]] /\ \A s \in Sleeves : StoreSound(stores[s])
  /\ latest = [s \in Sleeves |-> latest[s]]
  /\ \A s \in Sleeves : latest[s] = [l \in Lanes |-> latest[s][l]]
  /\ runtimes = [s \in Sleeves |-> runtimes[s]] /\ seen = [s \in Sleeves |-> seen[s]]

RuntimesSound == \A s \in Sleeves : runtimes[s] # NoSnapshot => Booted(s)

StagedSound ==
  staged # NoSnapshot => /\ EngineSound(staged.engine) /\ RuntimeSound(staged.runtime)
                         /\ staged.engine.live[Solo] = staged.runtime.live

SeenSound == \A s \in Sleeves : seen[s] # NoSnapshot => CycleGood(seen[s])

\* What a sleeve's store has active before it is enriched.
Raw(s) == IndicatorSnapshot(engine, s, taken.snapshot.id, taken.snapshot.lane, QualityFor(s, runtimes[s]))

\* The process that runs all sleeves: those before `at` are booted, the others untouched.
BootSound ==
  pc.step = "boot" =>
    /\ pc.at \in 1..Len(SleeveOrder)
    /\ \A j \in 1..Len(SleeveOrder) :
         IF j < pc.at THEN Booted(SleeveOrder[j])
         ELSE runtimes[SleeveOrder[j]] = NoSnapshot /\ DOMAIN engine.windows[SleeveOrder[j]] = {}
MultiSound ==
  pc.mode = "multi" =>
    /\ pc.step \in {"boot", "collect", "feed", "cycle", "save"}
    /\ \A s \in Sleeves : WindowsRising(engine.windows[s], runtimes[s].bootDay - 1)
    /\ BootSound
    /\ pc.step # "boot" => \A s \in Sleeves : Booted(s)
    /\ pc.step \in {"feed", "cycle"} => TakenSound
    /\ pc.step = "cycle" =>
         /\ pc.at \in 1..Len(SleeveOrder)
         /\ \A j \in pc.at..Len(SleeveOrder) : Active(stores[SleeveOrder[j]]) = Raw(SleeveOrder[j])

\* The process of one sleeve: from the quotes to the cycle nothing else comes between.
SoloSound ==
  pc.mode = "solo" =>
    /\ pc.step \in {"idle", "warm", "collect", "publish", "report"}
    /\ Booted(Solo)
    /\ \A s \in Sleeves : s # Solo => runtimes[s] = NoSnapshot
    /\ pc.step \in {"publish", "report"} =>
         /\ TakenSound /\ SymbolsIn(taken.bars) \subseteq runtimes[Solo].live
         /\ latest[Solo][taken.snapshot.lane] = taken.snapshot
    /\ pc.step = "report" =>
         \E d \in 1..today : Active(stores[Solo]) = Shown(Solo, runtimes[Solo], d)

ProcessSound ==
  /\ pc = [mode |-> pc.mode, step |-> pc.step, at |-> pc.at]
  /\ pc.mode \in {"none", "multi", "solo"}
  /\ pc.mode = "none" => pc = Down /\ engine = NewEngine /\ runtimes = NoRuntimes
  /\ MultiSound /\ SoloSound

FeedInv ==
  /\ WorldSound /\ MemorySound /\ RuntimesSound /\ StagedSound /\ SeenSound /\ ProcessSound

--------------------------------------------------------------------------------
(* Quotes and stores.                                                            *)

\* A quote with no resolution is a live quote.
LEMMA LiveBarSound ==
  ASSUME NEW bar \in QuoteBars
  PROVE  /\ AsLiveBar(bar) \in QuoteBars /\ AsLiveBar(bar).symbol = bar.symbol
         /\ AsLiveBar(bar).res \in {"live", "quote", "tick", "second", "minute", "intraday"}
<1>1. /\ bar = [symbol |-> bar.symbol, day |-> bar.day, res |-> bar.res, usable |-> bar.usable]
      /\ bar.symbol \in Instruments /\ bar.day \in Nat /\ bar.res \in QuoteResolutions /\ bar.usable \in BOOLEAN
  BY DEF QuoteBars
<1>2. CASE bar.res \in Unset
  <2>1. AsLiveBar(bar) = [symbol |-> bar.symbol, day |-> bar.day, res |-> "live", usable |-> bar.usable]
    BY <1>1, <1>2 DEF AsLiveBar
  <2> QED BY <1>1, <2>1 DEF QuoteBars, QuoteResolutions
<1>3. CASE bar.res \notin Unset
  <2>1. AsLiveBar(bar) = bar
    BY <1>3 DEF AsLiveBar
  <2> QED BY <1>1, <1>3, <2>1 DEF QuoteResolutions
<1> QED BY <1>2, <1>3

\* What is collected are quotes of the symbols asked for, in one snapshot of one lane.
LEMMA CollectionSound ==
  ASSUME NEW feed \in Feeds, NEW symbols \in SUBSET Instruments, NEW id \in Nat,
         NEW c, c = Collection(id, symbols, feed)
  PROVE  /\ c.bars \subseteq QuoteBars /\ SymbolsIn(c.bars) \subseteq symbols
         /\ c.snapshot = [id |-> id, bars |-> c.bars, lane |-> c.snapshot.lane]
         /\ c.snapshot.lane \in Lanes
<1> DEFINE bars == {AsLiveBar(feed[y]) : y \in {z \in symbols : feed[z].res # "failed"}}
<1>1. c.bars = bars /\ c.snapshot = [id |-> id, bars |-> bars, lane |-> InferLane(bars)]
  BY DEF Collection, MarketSnapshot
<1>2. ASSUME NEW bar \in bars
      PROVE  /\ bar \in QuoteBars /\ bar.symbol \in symbols
             /\ bar.res \in {"live", "quote", "tick", "second", "minute", "intraday"}
  <2>1. PICK y \in symbols : feed[y].res # "failed" /\ bar = AsLiveBar(feed[y])
    OBVIOUS
  <2>2. feed[y] \in QuoteBars \cup FailedQuotes /\ feed[y].symbol = y
    BY QuotesAssumption
  <2>3. feed[y] \in QuoteBars
    BY <2>1, <2>2 DEF FailedQuotes
  <2> QED BY <2>1, <2>2, <2>3, LiveBarSound
<1> HIDE DEF bars
<1>3. LanesOf(bars) \subseteq Lanes
  <2> SUFFICES ASSUME NEW bar \in bars PROVE Lane(bar.res) \in Lanes
    BY DEF LanesOf
  <2> QED BY <1>2 DEF Lane, Lanes
<1>4. InferLane(bars) \in Lanes
  <2>1. CASE LanesOf(bars) = {}
    BY <2>1 DEF InferLane, Lanes
  <2>2. CASE LanesOf(bars) # {}
    <3>1. (CHOOSE lane \in LanesOf(bars) : TRUE) \in LanesOf(bars)
      BY <2>2
    <3> QED BY <1>3, <2>2, <3>1 DEF InferLane
  <2> QED BY <2>1, <2>2
<1>5. SymbolsIn(bars) \subseteq symbols
  BY <1>2 DEF SymbolsIn
<1> QED BY <1>1, <1>2, <1>4, <1>5

\* A published snapshot is the active one.
LEMMA PublishSound ==
  ASSUME NEW store, StoreSound(store), NEW snapshot, snapshot.lane \in Lanes,
         NEW q, q = PublishActive(store, snapshot)
  PROVE  StoreSound(q) /\ Active(q) = snapshot
<1> DEFINE lane == snapshot.lane
           active == [store.active EXCEPT ![lane] = snapshot]
           pending == [store.pending EXCEPT ![lane] = NoSnapshot]
           after == IF store.pendingLane = lane THEN NoSnapshot ELSE store.pendingLane
<1>1. q = [active |-> active, pending |-> pending, activeLane |-> lane, pendingLane |-> after]
  <2>1. q = [store EXCEPT !.active[lane] = snapshot, !.pending[lane] = NoSnapshot,
                          !.activeLane = lane,
                          !.pendingLane = IF @ = lane THEN NoSnapshot ELSE @]
    BY Zenon DEF PublishActive
  <2>2. store = [active |-> store.active, pending |-> store.pending, activeLane |-> store.activeLane,
                 pendingLane |-> store.pendingLane]
    BY DEF StoreSound
  <2> HIDE DEF lane
  <2> QED BY ONLY <2>1, <2>2
<1>2. active[lane] = snapshot /\ active = [l \in Lanes |-> active[l]]
  BY DEF StoreSound
<1>3. lane # NoSnapshot
  BY QuotesAssumption
<1> HIDE DEF active, pending, after
<1>4. q.active = active /\ q.activeLane = lane /\ q = [active |-> q.active, pending |-> q.pending,
                                        activeLane |-> q.activeLane, pendingLane |-> q.pendingLane]
  BY ONLY <1>1
<1> QED BY <1>2, <1>3, <1>4 DEF StoreSound, Active

LEMMA EmptyStoreSound == StoreSound(EmptyStore)
<1>1. /\ EmptyStore.active = [l \in Lanes |-> NoSnapshot]
      /\ EmptyStore = [active |-> EmptyStore.active, pending |-> EmptyStore.pending,
            activeLane |-> EmptyStore.activeLane, pendingLane |-> EmptyStore.pendingLane]
  BY DEF EmptyStore
<1> QED BY <1>1 DEF StoreSound

\* Quotes leave the daily windows of an engine alone.
LEMMA OnQuotesRising ==
  ASSUME NEW e, EngineSound(e), NEW bars, bars \subseteq QuoteBars,
         NEW s \in Sleeves, NEW d, WindowsRising(e.windows[s], d)
  PROVE  WindowsRising(OnData(e, bars).windows[s], d)
<1> DEFINE BarOf(y) == CHOOSE bar \in bars : bar.symbol = y
           Takes(t, y) == y \in SymbolsIn(bars) /\ t \in e.routes[y]
           after == OnData(e, bars).windows
<1>1. after = [t \in Sleeves |-> [y \in DOMAIN e.windows[t] |->
           IF Takes(t, y) THEN UpdateWindows(e.windows[t][y], BarOf(y)) ELSE e.windows[t][y]]]
  BY DEF OnData, EngineSound
<1>2. after[s] = [y \in DOMAIN e.windows[s] |->
           IF Takes(s, y) THEN UpdateWindows(e.windows[s][y], BarOf(y)) ELSE e.windows[s][y]]
  BY ONLY <1>1, s \in Sleeves
<1>3. ASSUME NEW y \in DOMAIN e.windows[s] PROVE TableRising(after[s][y], d)
  <2>1. TableRising(e.windows[s][y], d)
    BY DEF WindowsRising
  <2>2. after[s][y] = IF Takes(s, y) THEN UpdateWindows(e.windows[s][y], BarOf(y)) ELSE e.windows[s][y]
    BY <1>2
  <2>3. CASE Takes(s, y)
    <3>1. BarOf(y) \in bars
      BY <2>3 DEF SymbolsIn
    <3>2. BarOf(y).res \notin Daily
      BY <3>1 DEF QuoteBars, QuoteResolutions, Daily, Unset
    <3> QED BY <2>1, <2>2, <2>3, <3>2, QuoteKeepsRising
  <2> QED BY <2>1, <2>2, <2>3
<1> QED BY <1>2, <1>3 DEF WindowsRising

--------------------------------------------------------------------------------
(* Each step preserves the invariant.                                            *)

LEMMA SoloIsSleeve == Solo \in Sleeves /\ \A n \in 1..Len(SleeveOrder) : SleeveOrder[n] \in Sleeves
<1>1. SleeveOrder \in Seq(Sleeves) /\ Len(SleeveOrder) \in Nat /\ Len(SleeveOrder) # 0
  BY SleevesAssumption
<1> QED BY <1>1 DEF Solo

LEMMA SleevesOrdered ==
  /\ \A s \in Sleeves : \E n \in 1..Len(SleeveOrder) : SleeveOrder[n] = s
  /\ \A m, n \in 1..Len(SleeveOrder) : SleeveOrder[m] = SleeveOrder[n] => m = n
<1>1. SleeveOrder \in Seq(Sleeves) /\ DOMAIN SleeveOrder = 1..Len(SleeveOrder)
  BY SleevesAssumption
<1>2. Sleeves = {SleeveOrder[n] : n \in DOMAIN SleeveOrder}
  BY SleevesAssumption DEF ToSet, Range
<1> QED BY <1>1, <1>2, SleevesAssumption DEF IsInjective

\* Nothing runs: no memory to speak of.
LEMMA DownSound ==
  ASSUME pc = Down, engine = NewEngine, stores = EmptyStores, runtimes = NoRuntimes,
         latest = NoLatest, staged = NoSnapshot, seen = NothingSeen
  PROVE  MemorySound /\ RuntimesSound /\ StagedSound /\ SeenSound /\ ProcessSound
<1>1. MemorySound
  BY NewEngineSound, EmptyStoreSound DEF MemorySound, EmptyStores, NoLatest, NoRuntimes, NothingSeen
<1>2. RuntimesSound /\ StagedSound /\ SeenSound
  BY DEF RuntimesSound, StagedSound, SeenSound, NoRuntimes, NothingSeen
<1>3. ProcessSound
  BY DEF ProcessSound, MultiSound, SoloSound, Down
<1> QED BY <1>1, <1>2, <1>3

LEMMA EndedKeeps == Ended => (MemorySound /\ RuntimesSound /\ StagedSound /\ SeenSound /\ ProcessSound)'
<1>1. Ended => /\ pc' = Down /\ engine' = NewEngine /\ stores' = EmptyStores /\ runtimes' = NoRuntimes
               /\ latest' = NoLatest /\ staged' = NoSnapshot /\ seen' = NothingSeen
  BY DEF Ended
<1> SUFFICES ASSUME Ended PROVE (MemorySound /\ RuntimesSound /\ StagedSound /\ SeenSound /\ ProcessSound)'
  OBVIOUS
<1>2. MemorySound'
  BY <1>1, NewEngineSound, EmptyStoreSound DEF MemorySound, EmptyStores, NoLatest, NoRuntimes, NothingSeen
<1>3. (RuntimesSound /\ StagedSound /\ SeenSound)'
  BY <1>1 DEF RuntimesSound, StagedSound, SeenSound, NoRuntimes, NothingSeen
<1>4. ProcessSound'
  BY <1>1 DEF ProcessSound, MultiSound, SoloSound, Down
<1> QED BY <1>2, <1>3, <1>4

LEMMA InitSound == FeedInit => FeedInv
<1> SUFFICES ASSUME FeedInit PROVE FeedInv
  OBVIOUS
<1>1. WorldSound
  BY DaysAssumption DEF FeedInit, WorldSound
<1>2. MemorySound /\ RuntimesSound /\ StagedSound /\ SeenSound /\ ProcessSound
  BY DownSound DEF FeedInit
<1> QED BY <1>1, <1>2 DEF FeedInv

\* While the memory of the process stays, so does what holds of it.
LEMMA ProcessUnmoved ==
  ASSUME FeedInv, WorldSound', today' >= today,
         UNCHANGED <<pc, engine, stores, runtimes, taken, latest, staged, seen>>
  PROVE  FeedInv'
<1>1. MemorySound' /\ RuntimesSound' /\ StagedSound' /\ SeenSound'
  BY DEF FeedInv, MemorySound, RuntimesSound, Booted, StagedSound, SeenSound
<1>2. MultiSound'
  BY DEF FeedInv, ProcessSound, MultiSound, BootSound, Booted, TakenSound, Raw, QualityFor
<1>3. SoloSound'
  <2> SUFFICES ASSUME pc.mode = "solo" PROVE SoloSound'
    BY DEF SoloSound
  <2>1. /\ pc.step \in {"idle", "warm", "collect", "publish", "report"} /\ Booted(Solo)
        /\ \A s \in Sleeves : s # Solo => runtimes[s] = NoSnapshot
        /\ pc.step \in {"publish", "report"} =>
             /\ TakenSound /\ SymbolsIn(taken.bars) \subseteq runtimes[Solo].live
             /\ latest[Solo][taken.snapshot.lane] = taken.snapshot
    BY DEF FeedInv, ProcessSound, SoloSound
  <2>2. ASSUME pc.step = "report"
        PROVE  \E d \in 1..today' : Active(stores[Solo]) = Shown(Solo, runtimes[Solo], d)
    <3>1. PICK d \in 1..today : Active(stores[Solo]) = Shown(Solo, runtimes[Solo], d)
      BY <2>2 DEF FeedInv, ProcessSound, SoloSound
    <3>2. d \in 1..today'
      BY <3>1 DEF FeedInv, WorldSound
    <3> QED BY <3>1, <3>2
  <2> HIDE DEF Solo
  <2>3. Booted(Solo)' /\ (TakenSound' <=> TakenSound) /\ \A d : Shown(Solo, runtimes[Solo], d)' = Shown(Solo, runtimes[Solo], d)
    BY <2>1 DEF Booted, TakenSound, Shown, QualityFor
  <2> QED BY <2>1, <2>2, <2>3 DEF SoloSound, Shown, QualityFor
<1>4. ProcessSound'
  BY <1>2, <1>3 DEF FeedInv, ProcessSound
<1>5. WorldSound'
  OBVIOUS
<1> QED BY <1>1, <1>4, <1>5 DEF FeedInv

LEMMA StartMultiSound == FeedInv /\ StartMulti => FeedInv'
<1> SUFFICES ASSUME FeedInv, StartMulti PROVE FeedInv'
  OBVIOUS
<1>1. /\ pc = Down /\ pc' = [mode |-> "multi", step |-> "boot", at |-> 1]
      /\ UNCHANGED <<today, held, nextId, engine, stores, runtimes, taken, latest, staged, seen>>
  BY DEF StartMulti
<1>2. engine = NewEngine /\ runtimes = NoRuntimes
  BY <1>1 DEF FeedInv, ProcessSound, Down
<1>3. (WorldSound /\ MemorySound /\ RuntimesSound /\ StagedSound /\ SeenSound)'
  BY <1>1 DEF FeedInv, WorldSound, MemorySound, RuntimesSound, Booted, StagedSound, SeenSound
<1>4. \A s \in Sleeves : runtimes'[s] = NoSnapshot /\ DOMAIN engine'.windows[s] = {}
  BY <1>1, <1>2, NewEngineSound DEF NoRuntimes
<1>5. BootSound'
  <2>1. Len(SleeveOrder) \in Nat \ {0}
    BY SleevesAssumption
  <2> QED BY <1>1, <1>4, <2>1, SoloIsSleeve DEF BootSound
<1>6. MultiSound'
  BY <1>1, <1>4, <1>5 DEF MultiSound, WindowsRising
<1>7. ProcessSound'
  BY <1>1, <1>6 DEF ProcessSound, SoloSound
<1> QED BY <1>3, <1>7 DEF FeedInv

\* The next sleeve is booted into the shared engine; what was booted before stays so.
LEMMA BootNextSound ==
  ASSUME NEW outage, NEW unquoted
  PROVE  FeedInv /\ BootNext(outage, unquoted) => FeedInv'
<1> SUFFICES ASSUME FeedInv, BootNext(outage, unquoted) PROVE FeedInv'
  OBVIOUS
<1>1. /\ pc.mode = "multi" /\ pc.step = "boot"
      /\ pc' = IF pc.at < Len(SleeveOrder) THEN [pc EXCEPT !.at = @ + 1] ELSE [pc EXCEPT !.step = "collect"]
      /\ UNCHANGED <<today, held, nextId, stores, taken, latest, staged, seen>>
  BY DEF BootNext
<1>2. /\ pc.at \in 1..Len(SleeveOrder) /\ Len(SleeveOrder) \in Nat
      /\ \A j \in 1..Len(SleeveOrder) :
           IF j < pc.at THEN Booted(SleeveOrder[j])
           ELSE runtimes[SleeveOrder[j]] = NoSnapshot /\ DOMAIN engine.windows[SleeveOrder[j]] = {}
  BY <1>1, SleevesAssumption DEF FeedInv, ProcessSound, MultiSound, BootSound
<1>3. pc = [mode |-> "multi", step |-> "boot", at |-> pc.at]
  <2>1. pc = [mode |-> pc.mode, step |-> pc.step, at |-> pc.at]
    BY DEF FeedInv, ProcessSound
  <2> QED BY ONLY <1>1, <2>1
<1>4. PICK s \in Sleeves : s = SleeveOrder[pc.at]
  BY <1>2, SoloIsSleeve
<1>5. PICK boot : /\ boot = Bootstrap(engine, s, held[s], outage, unquoted)
                  /\ engine' = boot.engine /\ runtimes' = [runtimes EXCEPT ![s] = boot.runtime]
  BY <1>4 DEF BootNext
<1>6. held[s] \in SUBSET Instruments /\ DOMAIN engine.windows[s] = {}
  <2>1. ~(pc.at < pc.at)
    BY <1>2
  <2>2. DOMAIN engine.windows[SleeveOrder[pc.at]] = {}
    BY ONLY <1>2, <2>1
  <2>3. held[s] \in SUBSET Instruments
    BY DEF FeedInv, WorldSound
  <2> QED BY ONLY <2>2, <2>3, <1>4
<1>7. /\ EngineSound(engine') /\ RuntimeSound(boot.runtime)
      /\ engine'.live[s] = boot.runtime.live /\ boot.runtime.bootDay = today
      /\ \A t \in Sleeves : t # s => engine'.windows[t] = engine.windows[t] /\ engine'.live[t] = engine.live[t]
      /\ WindowsRising(engine'.windows[s], today - 1)
  <2>1. EngineSound(engine) /\ today \in Nat \ {0}
    BY DEF FeedInv, WorldSound, MemorySound
  <2> QED BY ONLY <2>1, <1>6, <1>5, BootstrapSound, s \in Sleeves
<1>8. /\ runtimes' = [t \in Sleeves |-> IF t = s THEN boot.runtime ELSE runtimes[t]]
      /\ runtimes'[s] = boot.runtime
      /\ \A t \in Sleeves : t # s => runtimes'[t] = runtimes[t]
  BY <1>5 DEF FeedInv, MemorySound
<1>9. Booted(s)' /\ \A t \in Sleeves : t # s => (Booted(t) => Booted(t)')
  BY <1>7, <1>8 DEF Booted
<1>10. MemorySound'
  BY <1>1, <1>7, <1>8 DEF FeedInv, MemorySound
<1>11. (WorldSound /\ StagedSound /\ SeenSound)'
  BY <1>1 DEF FeedInv, WorldSound, StagedSound, SeenSound
<1>12. RuntimesSound'
  BY <1>8, <1>9 DEF FeedInv, RuntimesSound
<1>13. \A t \in Sleeves : WindowsRising(engine'.windows[t], runtimes'[t].bootDay - 1)
  <2>1. \A t \in Sleeves : WindowsRising(engine.windows[t], runtimes[t].bootDay - 1)
    BY <1>1 DEF FeedInv, ProcessSound, MultiSound
  <2> QED BY <1>7, <1>8, <2>1
<1>14. \A j \in 1..Len(SleeveOrder) :
         IF j < pc.at + 1 THEN Booted(SleeveOrder[j])'
         ELSE runtimes'[SleeveOrder[j]] = NoSnapshot /\ DOMAIN engine'.windows[SleeveOrder[j]] = {}
  <2> SUFFICES ASSUME NEW j \in 1..Len(SleeveOrder)
               PROVE  IF j < pc.at + 1 THEN Booted(SleeveOrder[j])'
                      ELSE runtimes'[SleeveOrder[j]] = NoSnapshot /\ DOMAIN engine'.windows[SleeveOrder[j]] = {}
    OBVIOUS
  <2>1. SleeveOrder[j] \in Sleeves /\ (SleeveOrder[j] = s => j = pc.at)
    BY <1>2, <1>4, SoloIsSleeve, SleevesOrdered
  <2>2. CASE j = pc.at
    <3>1. SleeveOrder[j] = s /\ j < pc.at + 1
      BY <1>2, <1>4, <2>2
    <3> QED BY <3>1, <1>9
  <2>3. CASE j < pc.at
    <3>1. Booted(SleeveOrder[j]) /\ SleeveOrder[j] # s /\ j < pc.at + 1
      BY <1>2, <2>1, <2>3
    <3> QED BY <1>9, <2>1, <3>1
  <2>4. CASE j > pc.at
    <3>1. ~(j < pc.at) /\ ~(j < pc.at + 1) /\ j # pc.at
      BY <1>2, <2>4
    <3>2. runtimes[SleeveOrder[j]] = NoSnapshot /\ DOMAIN engine.windows[SleeveOrder[j]] = {}
      BY ONLY <1>2, <3>1, j \in 1..Len(SleeveOrder)
    <3> QED BY <1>7, <1>8, <2>1, <3>1, <3>2
  <2> QED BY <1>2, <2>2, <2>3, <2>4
<1>15. CASE pc.at < Len(SleeveOrder)
  <2>1. pc' = [mode |-> "multi", step |-> "boot", at |-> pc.at + 1]
    BY <1>1, <1>3, <1>15
  <2>2. BootSound'
    BY <1>2, <1>14, <1>15, <2>1 DEF BootSound
  <2>3. MultiSound'
    BY <1>13, <2>1, <2>2 DEF MultiSound
  <2>4. ProcessSound'
    BY <2>1, <2>3 DEF ProcessSound, SoloSound
  <2> QED BY <1>10, <1>11, <1>12, <2>4 DEF FeedInv
<1>16. CASE ~(pc.at < Len(SleeveOrder))
  <2>1. pc' = [mode |-> "multi", step |-> "collect", at |-> pc.at]
    BY <1>1, <1>3, <1>16
  <2>2. \A t \in Sleeves : Booted(t)'
    <3> SUFFICES ASSUME NEW t \in Sleeves PROVE Booted(t)'
      OBVIOUS
    <3>1. PICK n \in 1..Len(SleeveOrder) : SleeveOrder[n] = t
      BY SleevesOrdered
    <3>2. n < pc.at + 1
      BY <1>2, <1>16
    <3> QED BY <1>14, <3>1, <3>2
  <2>3. MultiSound'
    BY <1>13, <2>1, <2>2 DEF MultiSound, BootSound
  <2>4. ProcessSound'
    BY <2>1, <2>3 DEF ProcessSound, SoloSound
  <2> QED BY <1>10, <1>11, <1>12, <2>4 DEF FeedInv
<1> QED BY <1>15, <1>16

\* The quotes of the union are taken together; two lanes end the process.
LEMMA CollectUnionSound ==
  ASSUME NEW feed \in Feeds
  PROVE  FeedInv /\ CollectUnion(feed) => FeedInv'
<1> SUFFICES ASSUME FeedInv, CollectUnion(feed) PROVE FeedInv'
  OBVIOUS
<1>1. pc.mode = "multi" /\ pc.step = "collect" /\ UNCHANGED <<today, held>>
  BY DEF CollectUnion
<1>2. PICK c : /\ c = Collection(nextId, UnionUniverse, feed)
               /\ IF c.mixed THEN Ended /\ UNCHANGED nextId
                  ELSE /\ taken' = c /\ nextId' = nextId + 1
                       /\ pc' = [pc EXCEPT !.step = "feed"]
                       /\ UNCHANGED <<engine, stores, runtimes, latest, staged, seen>>
  BY DEF CollectUnion
<1>3. WorldSound'
  BY <1>1, <1>2 DEF FeedInv, WorldSound
<1>4. CASE c.mixed
  BY <1>2, <1>3, <1>4, EndedKeeps DEF FeedInv
<1>5. CASE ~c.mixed
  <2>1. \A s \in Sleeves : Booted(s) /\ WindowsRising(engine.windows[s], runtimes[s].bootDay - 1)
    BY <1>1 DEF FeedInv, ProcessSound, MultiSound
  <2>2. UnionUniverse \in SUBSET Instruments
    BY <2>1 DEF UnionUniverse, Booted, RuntimeSound
  <2>3. /\ c.bars \subseteq QuoteBars /\ c.snapshot.lane \in Lanes
        /\ c.snapshot = [id |-> nextId, bars |-> c.bars, lane |-> c.snapshot.lane]
    <3>1. nextId \in Nat
      BY DEF FeedInv, WorldSound
    <3>2. c = Collection(nextId, UnionUniverse, feed)
      BY <1>2
    <3> HIDE DEF UnionUniverse
    <3> QED BY <2>2, <3>1, <3>2, CollectionSound
  <2>4. c.snapshot.id = nextId /\ nextId \in Nat
    BY <2>3 DEF FeedInv, WorldSound
  <2>5. TakenSound'
    BY <1>2, <1>5, <2>3, <2>4 DEF TakenSound
  <2>6. pc' = [mode |-> "multi", step |-> "feed", at |-> pc.at]
    <3>1. pc = [mode |-> pc.mode, step |-> pc.step, at |-> pc.at]
      BY DEF FeedInv, ProcessSound
    <3> QED BY <1>1, <1>2, <1>5, <3>1
  <2>7. MultiSound'
    BY <1>2, <1>5, <2>1, <2>5, <2>6 DEF MultiSound, BootSound, Booted
  <2>8. ProcessSound'
    BY <2>6, <2>7 DEF ProcessSound, SoloSound
  <2>9. (MemorySound /\ RuntimesSound /\ StagedSound /\ SeenSound)'
    BY <1>2, <1>5 DEF FeedInv, MemorySound, RuntimesSound, Booted, StagedSound, SeenSound
  <2> QED BY <1>3, <2>8, <2>9 DEF FeedInv
<1> QED BY <1>4, <1>5

\* The bars go through the engine once, and every store has the sleeve's part active.
LEMMA FeedEngineSound == FeedInv /\ FeedEngine => FeedInv'
<1> SUFFICES ASSUME FeedInv, FeedEngine PROVE FeedInv'
  OBVIOUS
<1>1. /\ pc.mode = "multi" /\ pc.step = "feed" /\ engine' = OnData(engine, taken.bars)
      /\ stores' = [s \in Sleeves |->
           PublishActive(stores[s], IndicatorSnapshot(engine', s, taken.snapshot.id,
                                      taken.snapshot.lane, QualityFor(s, runtimes[s])))]
      /\ pc' = [pc EXCEPT !.step = "cycle", !.at = 1]
      /\ UNCHANGED <<today, held, nextId, runtimes, taken, latest, staged, seen>>
  BY DEF FeedEngine
<1>2. /\ TakenSound
      /\ \A s \in Sleeves : Booted(s) /\ WindowsRising(engine.windows[s], runtimes[s].bootDay - 1)
  BY <1>1 DEF FeedInv, ProcessSound, MultiSound
<1>3. EngineSound(engine) /\ EngineSound(engine') /\ engine'.live = engine.live
  BY <1>1, OnDataSound DEF FeedInv, MemorySound
<1>4. \A s \in Sleeves : Booted(s)' /\ WindowsRising(engine'.windows[s], runtimes'[s].bootDay - 1)
  BY <1>1, <1>2, <1>3, OnQuotesRising DEF Booted, TakenSound
<1>5. ASSUME NEW s \in Sleeves
      PROVE  StoreSound(stores'[s]) /\ Active(stores'[s]) = Raw(s)'
  <2> DEFINE raw == IndicatorSnapshot(engine', s, taken.snapshot.id, taken.snapshot.lane, QualityFor(s, runtimes[s]))
  <2>1. raw.lane \in Lanes
    BY <1>2 DEF IndicatorSnapshot, TakenSound
  <2>2. raw = Raw(s)'
    BY <1>1 DEF Raw, QualityFor
  <2>3. StoreSound(stores[s])
    BY DEF FeedInv, MemorySound
  <2>4. stores'[s] = PublishActive(stores[s], raw)
    BY <1>1
  <2> HIDE DEF raw
  <2> QED BY <2>1, <2>2, <2>3, <2>4, PublishSound
<1>6. MemorySound'
  BY <1>1, <1>3, <1>5 DEF FeedInv, MemorySound
<1>7. (WorldSound /\ StagedSound /\ SeenSound)'
  BY <1>1 DEF FeedInv, WorldSound, StagedSound, SeenSound
<1>8. RuntimesSound'
  BY <1>4 DEF RuntimesSound
<1>9. pc' = [mode |-> "multi", step |-> "cycle", at |-> 1]
  <2>1. pc = [mode |-> pc.mode, step |-> pc.step, at |-> pc.at]
    BY DEF FeedInv, ProcessSound
  <2> QED BY ONLY <1>1, <2>1
<1>10. MultiSound'
  <2>1. TakenSound'
    BY <1>1, <1>2 DEF TakenSound
  <2>2. Len(SleeveOrder) \in Nat \ {0}
    BY SleevesAssumption
  <2>3. \A j \in 1..Len(SleeveOrder) : Active(stores'[SleeveOrder[j]]) = Raw(SleeveOrder[j])'
    BY <1>5, SoloIsSleeve
  <2> QED BY <1>4, <1>9, <2>1, <2>2, <2>3 DEF MultiSound, BootSound
<1>11. ProcessSound'
  BY <1>9, <1>10 DEF ProcessSound, SoloSound
<1> QED BY <1>6, <1>7, <1>8, <1>11 DEF FeedInv

\* The next sleeve's framework is run, on its own part of the quotes.
LEMMA CycleNextSound == FeedInv /\ CycleNext => FeedInv'
<1> SUFFICES ASSUME FeedInv, CycleNext PROVE FeedInv'
  OBVIOUS
<1>1. /\ pc.mode = "multi" /\ pc.step = "cycle"
      /\ pc' = IF pc.at < Len(SleeveOrder) THEN [pc EXCEPT !.at = @ + 1] ELSE [pc EXCEPT !.step = "save"]
      /\ UNCHANGED <<today, held, nextId, engine, runtimes, taken, staged>>
  BY DEF CycleNext
<1>2. /\ pc.at \in 1..Len(SleeveOrder) /\ Len(SleeveOrder) \in Nat
      /\ \A j \in pc.at..Len(SleeveOrder) : Active(stores[SleeveOrder[j]]) = Raw(SleeveOrder[j])
  BY <1>1, SleevesAssumption DEF FeedInv, ProcessSound, MultiSound
<1>3. /\ TakenSound
      /\ \A t \in Sleeves : Booted(t) /\ WindowsRising(engine.windows[t], runtimes[t].bootDay - 1)
  BY <1>1 DEF FeedInv, ProcessSound, MultiSound
<1>4. PICK s \in Sleeves : s = SleeveOrder[pc.at]
  BY <1>2, SoloIsSleeve
<1>5. PICK own, enriched :
        /\ own = Filtered(taken.snapshot, runtimes[s].live)
        /\ enriched = Enriched(Active(stores[s]), runtimes[s].days, today, NeededBars, Lookback)
        /\ stores' = [stores EXCEPT ![s] = PublishActive(@, enriched)]
        /\ latest' = [latest EXCEPT ![s][own.lane] = own]
        /\ seen' = [seen EXCEPT ![s] = Given(s, stores'[s], latest', runtimes[s])]
  BY <1>4 DEF CycleNext
<1> DEFINE bars == {bar \in taken.bars : bar.symbol \in runtimes[s].live}
<1>6. /\ own = [id |-> taken.snapshot.id, bars |-> bars, lane |-> taken.snapshot.lane]
      /\ own.lane = taken.snapshot.lane /\ own.bars = bars /\ own.lane \in Lanes
      /\ own # NoSnapshot
  <2>1. /\ taken.snapshot = [id |-> taken.snapshot.id, bars |-> taken.bars, lane |-> taken.snapshot.lane]
        /\ taken.snapshot.id \in Nat /\ taken.snapshot.lane \in Lanes /\ taken.bars \subseteq QuoteBars
    BY <1>3 DEF TakenSound
  <2>2. Filtered(taken.snapshot, runtimes[s].live) = [taken.snapshot EXCEPT !.bars = bars]
    BY <2>1 DEF Filtered
  <2>3. bars \subseteq QuoteBars
    BY <2>1
  <2> HIDE DEF bars
  <2>4. own = [id |-> taken.snapshot.id, bars |-> bars, lane |-> taken.snapshot.lane]
    BY ONLY <1>5, <2>1, <2>2
  <2>5. own \in [id : Nat, bars : SUBSET QuoteBars, lane : Lanes]
    BY ONLY <2>1, <2>3, <2>4
  <2>6. own # NoSnapshot
    BY <2>5, QuotesAssumption
  <2> QED BY ONLY <2>1, <2>4, <2>6
<1>7. enriched = Shown(s, runtimes[s], today) /\ enriched.lane = taken.snapshot.lane
  <2>1. Active(stores[s]) = Raw(s)
    BY <1>2, <1>4
  <2>2. enriched = Shown(s, runtimes[s], today)
    BY Zenon, <1>5, <2>1 DEF Shown, Raw
  <2>3. Shown(s, runtimes[s], today).lane = taken.snapshot.lane
    BY DEF Shown, Enriched, IndicatorSnapshot
  <2> QED BY <2>2, <2>3
<1>8. /\ StoreSound(stores'[s]) /\ Active(stores'[s]) = enriched
      /\ stores' = [t \in Sleeves |-> stores'[t]]
      /\ \A t \in Sleeves : t # s => stores'[t] = stores[t]
  <2>1. stores = [t \in Sleeves |-> stores[t]] /\ StoreSound(stores[s])
    BY DEF FeedInv, MemorySound
  <2>2. stores'[s] = PublishActive(stores[s], enriched)
    BY <1>5, <2>1
  <2>3. enriched.lane \in Lanes
    BY <1>6, <1>7
  <2>4. StoreSound(stores'[s]) /\ Active(stores'[s]) = enriched
    BY ONLY <2>1, <2>2, <2>3, PublishSound
  <2> QED BY ONLY <1>5, <2>1, <2>4, s \in Sleeves
<1>9. /\ latest'[s][taken.snapshot.lane] = own
      /\ latest' = [t \in Sleeves |-> latest'[t]]
      /\ \A t \in Sleeves : latest'[t] = [l \in Lanes |-> latest'[t][l]]
  <2>1. latest = [t \in Sleeves |-> latest[t]] /\ \A t \in Sleeves : latest[t] = [l \in Lanes |-> latest[t][l]]
    BY DEF FeedInv, MemorySound
  <2>2. latest' = [t \in Sleeves |-> IF t = s THEN [latest[s] EXCEPT ![own.lane] = own] ELSE latest[t]]
    BY ONLY <1>5, <2>1, s \in Sleeves
  <2> QED BY ONLY <1>6, <2>1, <2>2, s \in Sleeves
<1>10. CycleGood(seen'[s]) /\ seen' = [t \in Sleeves |-> seen'[t]]
       /\ \A t \in Sleeves : t # s => seen'[t] = seen[t]
  <2>1. seen = [t \in Sleeves |-> seen[t]]
    BY DEF FeedInv, MemorySound
  <2>2. PICK c : c = Given(s, stores'[s], latest', runtimes[s])
    OBVIOUS
  <2>3. seen'[s] = c /\ seen' = [t \in Sleeves |-> seen'[t]] /\ \A t \in Sleeves : t # s => seen'[t] = seen[t]
    <3>1. seen' = [seen EXCEPT ![s] = c]
      BY Zenon, <1>5, <2>2
    <3> QED BY ONLY <2>1, <3>1, s \in Sleeves
  <2>4. /\ c.snapshot = Shown(s, runtimes[s], today) /\ c.runtime = runtimes[s] /\ c.at = today
        /\ c.data = IF bars # {} THEN own ELSE NoSnapshot
    <3>1. /\ c.snapshot = enriched /\ c.runtime = runtimes[s] /\ c.at = today
          /\ c.data = IF latest'[s][enriched.lane] # NoSnapshot /\ latest'[s][enriched.lane].bars # {}
                      THEN latest'[s][enriched.lane] ELSE NoSnapshot
      BY <1>8, <2>2 DEF Given
    <3>2. latest'[s][enriched.lane] = own
      BY <1>7, <1>9
    <3> HIDE DEF bars
    <3> QED BY ONLY <1>6, <1>7, <3>1, <3>2
  <2>5. RuntimeSound(runtimes[s]) /\ engine.live[s] = runtimes[s].live /\ today \in Nat /\ today <= today
    BY <1>3 DEF Booted, FeedInv, WorldSound
  <2>6. CycleGood(c)
    BY ONLY <1>6, <2>4, <2>5, CycleSound
  <2> QED BY <2>3, <2>6
<1>11. MemorySound'
  BY <1>1, <1>8, <1>9, <1>10 DEF FeedInv, MemorySound
<1>12. (WorldSound /\ StagedSound)'
  BY <1>1 DEF FeedInv, WorldSound, StagedSound
<1>13. SeenSound'
  BY <1>10 DEF FeedInv, SeenSound
<1>14. \A t \in Sleeves : Booted(t)' /\ Raw(t)' = Raw(t) /\ WindowsRising(engine'.windows[t], runtimes'[t].bootDay - 1)
  BY <1>1, <1>3 DEF Booted, Raw, QualityFor
<1>15. RuntimesSound'
  BY <1>14 DEF RuntimesSound
<1>16. TakenSound'
  BY <1>1, <1>3 DEF TakenSound
<1>17. pc = [mode |-> "multi", step |-> "cycle", at |-> pc.at]
  <2>1. pc = [mode |-> pc.mode, step |-> pc.step, at |-> pc.at]
    BY DEF FeedInv, ProcessSound
  <2> QED BY ONLY <1>1, <2>1
<1>18. MultiSound' /\ pc' = [mode |-> "multi", step |-> pc'.step, at |-> pc'.at]
  <2>1. CASE pc.at < Len(SleeveOrder)
    <3>1. pc' = [mode |-> "multi", step |-> "cycle", at |-> pc.at + 1]
      BY <1>1, <1>17, <2>1
    <3>2. ASSUME NEW j \in (pc.at + 1)..Len(SleeveOrder)
          PROVE  Active(stores'[SleeveOrder[j]]) = Raw(SleeveOrder[j])'
      <4>1. j \in 1..Len(SleeveOrder) /\ j \in pc.at..Len(SleeveOrder) /\ j # pc.at
        BY <1>2
      <4>2. SleeveOrder[j] \in Sleeves /\ SleeveOrder[j] # s
        BY <1>2, <1>4, <4>1, SoloIsSleeve, SleevesOrdered
      <4>3. Active(stores[SleeveOrder[j]]) = Raw(SleeveOrder[j])
        BY <1>2, <4>1
      <4> QED BY <1>8, <1>14, <4>2, <4>3
    <3> QED BY <1>2, <1>14, <1>16, <2>1, <3>1, <3>2 DEF MultiSound, BootSound
  <2>2. CASE ~(pc.at < Len(SleeveOrder))
    <3>1. pc' = [mode |-> "multi", step |-> "save", at |-> pc.at]
      BY <1>1, <1>17, <2>2
    <3> QED BY <1>14, <3>1 DEF MultiSound, BootSound
  <2> QED BY <2>1, <2>2
<1>19. ProcessSound'
  BY <1>18 DEF ProcessSound, SoloSound
<1> QED BY <1>11, <1>12, <1>13, <1>15, <1>19 DEF FeedInv

\* A process of one sleeve starts with an engine of its own.
LEMMA StartSoloSound ==
  ASSUME NEW outage, NEW unquoted
  PROVE  FeedInv /\ StartSolo(outage, unquoted) => FeedInv'
<1> SUFFICES ASSUME FeedInv, StartSolo(outage, unquoted) PROVE FeedInv'
  OBVIOUS
<1>1. /\ pc = Down /\ pc' = [mode |-> "solo", step |-> "idle", at |-> 1]
      /\ UNCHANGED <<today, held, nextId, stores, taken, latest, staged, seen>>
  BY DEF StartSolo
<1>2. PICK boot : /\ boot = Bootstrap(NewEngine, Solo, held[Solo], outage, unquoted)
                  /\ engine' = boot.engine /\ runtimes' = [NoRuntimes EXCEPT ![Solo] = boot.runtime]
  BY DEF StartSolo
<1>3. /\ EngineSound(engine') /\ RuntimeSound(boot.runtime) /\ engine'.live[Solo] = boot.runtime.live
  <2>1. Solo \in Sleeves /\ held[Solo] \in SUBSET Instruments /\ today \in Nat \ {0}
    BY SoloIsSleeve DEF FeedInv, WorldSound
  <2> HIDE DEF Solo
  <2> QED BY ONLY <1>2, <2>1, NewEngineSound, BootstrapSound
<1>4. /\ runtimes' = [s \in Sleeves |-> runtimes'[s]] /\ runtimes'[Solo] = boot.runtime
      /\ \A s \in Sleeves : s # Solo => runtimes'[s] = NoSnapshot
  <2> HIDE DEF Solo
  <2> QED BY <1>2, SoloIsSleeve DEF NoRuntimes
<1> HIDE DEF Solo
<1>5. Booted(Solo)'
  <2>1. RuntimeSound(runtimes'[Solo]) /\ engine'.live[Solo] = runtimes'[Solo].live
    BY <1>3, <1>4
  <2> QED BY <2>1 DEF Booted
<1>6. RuntimesSound'
  BY <1>4, <1>5 DEF RuntimesSound
<1>7. (WorldSound /\ MemorySound /\ StagedSound /\ SeenSound)'
  BY <1>1, <1>3, <1>4 DEF FeedInv, WorldSound, MemorySound, StagedSound, SeenSound
<1>8. ProcessSound'
  BY <1>1, <1>4, <1>5 DEF ProcessSound, MultiSound, SoloSound
<1> QED BY <1>6, <1>7, <1>8 DEF FeedInv

\* Before quotes are taken only the sleeve's runtime and its engine matter.
LEMMA SoloMoves ==
  ASSUME FeedInv, pc.mode = "solo", EngineSound(engine'), Booted(Solo)',
         runtimes' = [s \in Sleeves |-> runtimes'[s]],
         \A s \in Sleeves : s # Solo => runtimes'[s] = runtimes[s],
         UNCHANGED <<today, held, nextId, stores, taken, latest, staged, seen>>,
         pc' = [mode |-> "solo", step |-> pc'.step, at |-> pc'.at],
         pc'.step \in {"idle", "warm", "collect"}
  PROVE  FeedInv'
<1> HIDE DEF Solo
<1>1. \A s \in Sleeves : s # Solo => runtimes'[s] = NoSnapshot
  BY DEF FeedInv, ProcessSound, SoloSound
<1>2. RuntimesSound'
  BY <1>1 DEF RuntimesSound
<1>3. (WorldSound /\ MemorySound /\ StagedSound /\ SeenSound)'
  BY DEF FeedInv, WorldSound, MemorySound, StagedSound, SeenSound
<1>4. ProcessSound'
  BY <1>1 DEF ProcessSound, MultiSound, SoloSound
<1> QED BY <1>2, <1>3, <1>4 DEF FeedInv

\* A refreshed runtime is one of the symbols chosen and of what is held.
LEMMA RefreshedSound ==
  ASSUME today \in Nat, NEW r, RuntimeSound(r), NEW active, NEW heldNow, ActiveSound(active, heldNow),
         NEW q, q = Refreshed(r, active, heldNow)
  PROVE  RuntimeSound(q) /\ q.live = active.live
<1> DEFINE days == TemporalTake(r.days, [y \in active.live |-> DaysThrough(today)[y]], KeepBars)
<1>1. r = [live |-> r.live, forced |-> r.forced, blocks |-> r.blocks, selection |-> r.selection,
           warm |-> r.warm, heldThen |-> r.heldThen, bootDay |-> r.bootDay, days |-> r.days]
  BY DEF RuntimeSound
<1>2. q = [r EXCEPT !.live = active.live, !.forced = active.forced, !.heldThen = heldNow, !.days = days]
  BY <1>1 DEF Refreshed
<1>3. DaysSound(days)
  <2>1. active.live \in SUBSET Instruments /\ today \in Int /\ DaysSound(r.days)
    BY DEF ActiveSound, RuntimeSound
  <2> QED BY ONLY <2>1, TemporalTakeSound
<1> HIDE DEF days
<1>4. q = [live |-> active.live, forced |-> active.forced, blocks |-> r.blocks, selection |-> r.selection,
           warm |-> r.warm, heldThen |-> heldNow, bootDay |-> r.bootDay, days |-> days]
  BY ONLY <1>1, <1>2
<1>5. /\ q.live = active.live /\ q.forced = active.forced /\ q.heldThen = heldNow
      /\ q.bootDay = r.bootDay /\ q.days = days
      /\ q = [live |-> q.live, forced |-> q.forced, blocks |-> q.blocks, selection |-> q.selection,
              warm |-> q.warm, heldThen |-> q.heldThen, bootDay |-> q.bootDay, days |-> q.days]
  BY ONLY <1>4
<1> QED BY <1>3, <1>5 DEF RuntimeSound, ActiveSound

\* A reselection keeps what is held live, and the engine follows it.
LEMMA RefreshSound == FeedInv /\ RefreshIfDue => FeedInv'
<1> SUFFICES ASSUME FeedInv, RefreshIfDue PROVE FeedInv'
  OBVIOUS
<1>1. /\ pc.mode = "solo" /\ pc.step = "idle" /\ pc' = [pc EXCEPT !.step = "warm"]
      /\ UNCHANGED <<today, held, nextId, stores, taken, latest, staged, seen>>
  BY DEF RefreshIfDue
<1>2. pc' = [mode |-> "solo", step |-> "warm", at |-> pc.at]
  <2>1. pc = [mode |-> pc.mode, step |-> pc.step, at |-> pc.at]
    BY DEF FeedInv, ProcessSound
  <2> QED BY ONLY <1>1, <2>1
<1>3. pc' = [mode |-> "solo", step |-> pc'.step, at |-> pc'.at] /\ pc'.step \in {"idle", "warm", "collect"}
  BY <1>2
<1>4. Booted(Solo) /\ Solo \in Sleeves /\ held[Solo] \in SUBSET Instruments /\ today \in Nat
      /\ EngineSound(engine) /\ runtimes = [s \in Sleeves |-> runtimes[s]]
  BY <1>1, SoloIsSleeve DEF FeedInv, ProcessSound, SoloSound, WorldSound, MemorySound
<1>5. CASE UNCHANGED <<engine, runtimes>>
  <2>1. Booted(Solo)'
    BY <1>4, <1>5 DEF Booted
  <2> QED BY <1>1, <1>3, <1>4, <1>5, <2>1, SoloMoves
<1>6. CASE ~UNCHANGED <<engine, runtimes>>
  <2>1. PICK active :
          /\ active = Reselected
          /\ engine' = SetActiveUniverse(engine, Solo, active.live)
          /\ runtimes' = [runtimes EXCEPT ![Solo] = Refreshed(@, active, held[Solo])]
    BY <1>6 DEF RefreshIfDue
  <2>2. ActiveSound(active, held[Solo])
    <3>1. PICK coarse, order, models, snapshot, now, forced :
            /\ coarse = ToSet(order) /\ order = Coarse[Solo] /\ models = Models[Solo]
            /\ snapshot = IF Active(stores[Solo]) = NoSnapshot THEN runtimes[Solo].selection
                          ELSE Active(stores[Solo])
            /\ now = held[Solo] /\ forced = runtimes[Solo].forced
      OBVIOUS
    <3>2. active = SelectActive(coarse, order, snapshot, models, Context(now, forced))
      BY <2>1, <3>1 DEF Reselected
    <3>3. coarse \in SUBSET Instruments /\ now \in SUBSET Instruments /\ forced \in SUBSET Instruments
      <4>1. order \in Seq(Instruments)
        BY <1>4, <3>1, SleevesAssumption
      <4>2. coarse \in SUBSET Instruments
        BY <3>1, <4>1 DEF ToSet
      <4> QED BY <1>4, <3>1, <4>2 DEF Booted, RuntimeSound
    <3>4. ActiveSound(active, now)
      BY ONLY <3>2, <3>3, SelectActiveSound
    <3> QED BY <3>1, <3>4
  <2>3. PICK q : q = Refreshed(runtimes[Solo], active, held[Solo])
    OBVIOUS
  <2> HIDE DEF Solo
  <2>4. /\ runtimes'[Solo] = q /\ runtimes' = [s \in Sleeves |-> runtimes'[s]]
        /\ \A s \in Sleeves : s # Solo => runtimes'[s] = runtimes[s]
    <3>1. runtimes' = [runtimes EXCEPT ![Solo] = q]
      BY <2>1, <2>3
    <3> QED BY ONLY <1>4, <3>1
  <2>5. RuntimeSound(q) /\ q.live = active.live
    <3>1. RuntimeSound(runtimes[Solo])
      BY <1>4 DEF Booted
    <3> QED BY ONLY <1>4, <2>2, <2>3, <3>1, RefreshedSound
  <2>6. EngineSound(engine') /\ engine'.live[Solo] = active.live
    <3>1. active.live \in SUBSET Instruments
      BY <2>2 DEF ActiveSound
    <3> QED BY ONLY <1>4, <2>1, <3>1, SetActiveSound
  <2>7. Booted(Solo)'
    <3>1. RuntimeSound(runtimes'[Solo]) /\ engine'.live[Solo] = runtimes'[Solo].live
      BY <2>4, <2>5, <2>6
    <3> QED BY <3>1 DEF Booted
  <2> QED BY <1>1, <1>3, <2>4, <2>6, <2>7, SoloMoves
<1> QED BY <1>5, <1>6

LEMMA WarmedSound ==
  ASSUME today \in Nat, NEW r, RuntimeSound(r), NEW report, NEW loaded \in SUBSET Instruments,
         NEW q, q = Warmed(r, report, loaded)
  PROVE  RuntimeSound(q) /\ q.live = r.live
<1> DEFINE days == TemporalTake(r.days, [y \in loaded |-> DaysThrough(today)[y]], KeepBars)
<1>1. r = [live |-> r.live, forced |-> r.forced, blocks |-> r.blocks, selection |-> r.selection,
           warm |-> r.warm, heldThen |-> r.heldThen, bootDay |-> r.bootDay, days |-> r.days]
  BY DEF RuntimeSound
<1>2. q = [r EXCEPT !.blocks = WarmupBlocks(report), !.warm = report.ready, !.days = days]
  BY <1>1 DEF Warmed
<1>3. DaysSound(days)
  <2>1. today \in Int /\ DaysSound(r.days)
    BY DEF RuntimeSound
  <2> QED BY ONLY <2>1, TemporalTakeSound, loaded \in SUBSET Instruments
<1> HIDE DEF days
<1>4. q = [live |-> r.live, forced |-> r.forced, blocks |-> WarmupBlocks(report), selection |-> r.selection,
           warm |-> report.ready, heldThen |-> r.heldThen, bootDay |-> r.bootDay, days |-> days]
  BY ONLY <1>1, <1>2
<1>5. /\ q.live = r.live /\ q.forced = r.forced /\ q.heldThen = r.heldThen
      /\ q.bootDay = r.bootDay /\ q.days = days
      /\ q = [live |-> q.live, forced |-> q.forced, blocks |-> q.blocks, selection |-> q.selection,
              warm |-> q.warm, heldThen |-> q.heldThen, bootDay |-> q.bootDay, days |-> q.days]
  BY ONLY <1>4
<1> QED BY <1>3, <1>5 DEF RuntimeSound

\* The worker warms what is live, so the engine still follows the runtime.
LEMMA WarmWorkerSound ==
  ASSUME NEW outage
  PROVE  FeedInv /\ WarmWorker(outage) => FeedInv'
<1> SUFFICES ASSUME FeedInv, WarmWorker(outage) PROVE FeedInv'
  OBVIOUS
<1>1. /\ pc.mode = "solo" /\ pc.step = "warm" /\ pc' = [pc EXCEPT !.step = "collect"]
      /\ UNCHANGED <<today, held, nextId, stores, taken, latest, staged, seen>>
  BY DEF WarmWorker
<1>2. pc' = [mode |-> "solo", step |-> "collect", at |-> pc.at]
  <2>1. pc = [mode |-> pc.mode, step |-> pc.step, at |-> pc.at]
    BY DEF FeedInv, ProcessSound
  <2> QED BY ONLY <1>1, <2>1
<1>3. pc' = [mode |-> "solo", step |-> pc'.step, at |-> pc'.at] /\ pc'.step \in {"idle", "warm", "collect"}
  BY <1>2
<1>4. Booted(Solo) /\ Solo \in Sleeves /\ today \in Nat
      /\ EngineSound(engine) /\ runtimes = [s \in Sleeves |-> runtimes[s]]
  BY <1>1, SoloIsSleeve DEF FeedInv, ProcessSound, SoloSound, WorldSound, MemorySound
<1>5. PICK symbols, warm :
        /\ symbols = runtimes[Solo].live
        /\ warm = DailyWarmup(engine, Solo, symbols, DaysThrough(today), outage, MinReadyRatio)
        /\ engine' = warm.engine
        /\ runtimes' = [runtimes EXCEPT ![Solo] = Warmed(@, warm.report, symbols \ outage)]
  BY DEF WarmWorker
<1>6. symbols \in SUBSET Instruments /\ engine.live[Solo] = symbols /\ RuntimeSound(runtimes[Solo])
  BY <1>4, <1>5 DEF Booted, RuntimeSound
<1> HIDE DEF Solo
<1>7. EngineSound(engine') /\ engine'.live[Solo] = symbols
  <2>1. engine' = DailyWarmup(engine, Solo, symbols, DaysThrough(today), outage, MinReadyRatio).engine
        /\ today \in Int
    BY <1>4, <1>5
  <2>2. EngineSound(engine') /\ engine'.live[Solo] = engine.live[Solo] \cup symbols
    BY ONLY <1>4, <1>6, <2>1, WarmupSound
  <2> QED BY ONLY <1>6, <2>2
<1>8. PICK q, report, loaded : q = Warmed(runtimes[Solo], report, loaded)
                               /\ report = warm.report /\ loaded = symbols \ outage
  OBVIOUS
<1>9. RuntimeSound(q) /\ q.live = symbols
  <2>1. loaded \in SUBSET Instruments
    BY <1>6, <1>8
  <2> QED BY ONLY <1>4, <1>5, <1>6, <1>8, <2>1, WarmedSound
<1>10. /\ runtimes'[Solo] = q /\ runtimes' = [s \in Sleeves |-> runtimes'[s]]
       /\ \A s \in Sleeves : s # Solo => runtimes'[s] = runtimes[s]
  <2>1. runtimes' = [runtimes EXCEPT ![Solo] = q]
    BY <1>5, <1>8
  <2> QED BY ONLY <1>4, <2>1
<1>11. Booted(Solo)'
  <2>1. RuntimeSound(runtimes'[Solo]) /\ engine'.live[Solo] = runtimes'[Solo].live
    BY <1>7, <1>9, <1>10
  <2> QED BY <2>1 DEF Booted
<1> QED BY <1>1, <1>3, <1>7, <1>10, <1>11, SoloMoves

\* What is taken for the sleeve is kept as the last market data of its lane.
LEMMA CollectOwnSound ==
  ASSUME NEW feed \in Feeds
  PROVE  FeedInv /\ CollectOwn(feed) => FeedInv'
<1> SUFFICES ASSUME FeedInv, CollectOwn(feed) PROVE FeedInv'
  OBVIOUS
<1>1. /\ pc.mode = "solo" /\ pc.step = "collect"
      /\ UNCHANGED <<today, held, engine, stores, runtimes, staged, seen>>
  BY DEF CollectOwn
<1>2. PICK c, lane :
        /\ c = Collection(nextId, runtimes[Solo].live, feed) /\ lane = c.snapshot.lane
        /\ \/ pc' = [pc EXCEPT !.step = "idle"] /\ UNCHANGED <<taken, nextId, latest>>
           \/ /\ taken' = c /\ nextId' = nextId + 1
              /\ latest' = [latest EXCEPT ![Solo][lane] = c.snapshot]
              /\ pc' = [pc EXCEPT !.step = "publish"]
  BY DEF CollectOwn
<1>3. /\ Booted(Solo) /\ Solo \in Sleeves /\ nextId \in Nat /\ EngineSound(engine)
      /\ runtimes = [s \in Sleeves |-> runtimes[s]] /\ runtimes[Solo].live \in SUBSET Instruments
      /\ \A s \in Sleeves : s # Solo => runtimes[s] = NoSnapshot
      /\ pc = [mode |-> pc.mode, step |-> pc.step, at |-> pc.at]
  BY <1>1, SoloIsSleeve DEF FeedInv, ProcessSound, SoloSound, WorldSound, MemorySound, Booted, RuntimeSound
<1> HIDE DEF Solo
<1>4. CASE pc' = [pc EXCEPT !.step = "idle"] /\ UNCHANGED <<taken, nextId, latest>>
  <2>1. pc' = [mode |-> "solo", step |-> "idle", at |-> pc.at]
    BY ONLY <1>1, <1>3, <1>4
  <2>2. pc' = [mode |-> "solo", step |-> pc'.step, at |-> pc'.at] /\ pc'.step \in {"idle", "warm", "collect"}
    BY <2>1
  <2>3. Booted(Solo)'
    BY <1>1, <1>3 DEF Booted
  <2>4. EngineSound(engine') /\ runtimes' = [s \in Sleeves |-> runtimes'[s]]
    BY <1>1, <1>3
  <2> QED BY <1>1, <1>4, <2>2, <2>3, <2>4, SoloMoves
<1>5. CASE /\ taken' = c /\ nextId' = nextId + 1
           /\ latest' = [latest EXCEPT ![Solo][lane] = c.snapshot]
           /\ pc' = [pc EXCEPT !.step = "publish"]
  <2>1. pc' = [mode |-> "solo", step |-> "publish", at |-> pc.at]
    BY ONLY <1>1, <1>3, <1>5
  <2>2. PICK live : live = runtimes[Solo].live
    OBVIOUS
  <2>3. /\ c.bars \subseteq QuoteBars /\ SymbolsIn(c.bars) \subseteq live
        /\ c.snapshot = [id |-> nextId, bars |-> c.bars, lane |-> c.snapshot.lane]
        /\ c.snapshot.lane \in Lanes
    <3>1. c = Collection(nextId, live, feed) /\ live \in SUBSET Instruments
      BY <1>2, <1>3, <2>2
    <3> QED BY <1>3, <3>1, CollectionSound
  <2>4. c.snapshot.id = nextId
    BY <2>3
  <2>5. TakenSound' /\ SymbolsIn(taken'.bars) \subseteq runtimes'[Solo].live
    BY <1>1, <1>3, <1>5, <2>2, <2>3, <2>4 DEF TakenSound
  <2>6. /\ latest' = [t \in Sleeves |-> latest'[t]]
        /\ \A t \in Sleeves : latest'[t] = [l \in Lanes |-> latest'[t][l]]
        /\ latest'[Solo][lane] = c.snapshot
    <3>1. latest = [t \in Sleeves |-> latest[t]] /\ \A t \in Sleeves : latest[t] = [l \in Lanes |-> latest[t][l]]
      BY DEF FeedInv, MemorySound
    <3>2. latest' = [t \in Sleeves |-> IF t = Solo THEN [latest[Solo] EXCEPT ![lane] = c.snapshot] ELSE latest[t]]
      BY ONLY <1>3, <1>5, <3>1
    <3>3. lane \in Lanes
      BY <1>2, <2>3
    <3> QED BY ONLY <1>3, <3>1, <3>2, <3>3
  <2>7. (WorldSound /\ StagedSound /\ SeenSound)'
    BY <1>1, <1>3, <1>5 DEF FeedInv, WorldSound, StagedSound, SeenSound
  <2>8. MemorySound'
    BY <1>1, <2>6 DEF FeedInv, MemorySound
  <2>9. RuntimesSound' /\ Booted(Solo)'
    BY <1>1, <1>3 DEF FeedInv, RuntimesSound, Booted
  <2>10. latest'[Solo][taken'.snapshot.lane] = taken'.snapshot
    BY <1>2, <1>5, <2>6
  <2>11. SoloSound'
    BY <1>1, <1>3, <2>1, <2>5, <2>9, <2>10 DEF SoloSound
  <2>12. ProcessSound'
    BY <2>1, <2>11 DEF ProcessSound, MultiSound
  <2> QED BY <2>7, <2>8, <2>9, <2>12 DEF FeedInv
<1> QED BY <1>2, <1>4, <1>5

\* The bars go through the engine, and the snapshot of the same bars becomes active.
LEMMA PublishOwnSound == FeedInv /\ PublishOwn => FeedInv'
<1> SUFFICES ASSUME FeedInv, PublishOwn PROVE FeedInv'
  OBVIOUS
<1>1. /\ pc.mode = "solo" /\ pc.step = "publish" /\ pc' = [pc EXCEPT !.step = "report"]
      /\ engine' = OnData(engine, taken.bars)
      /\ UNCHANGED <<today, held, nextId, runtimes, taken, latest, staged, seen>>
  BY DEF PublishOwn
<1>2. PICK raw, enriched :
        /\ raw = IndicatorSnapshot(engine', Solo, taken.snapshot.id, taken.snapshot.lane,
                                   QualityFor(Solo, runtimes[Solo]))
        /\ enriched = Enriched(raw, runtimes[Solo].days, today, NeededBars, Lookback)
        /\ stores' = [stores EXCEPT ![Solo] = PublishActive(PublishActive(@, raw), enriched)]
  BY DEF PublishOwn
<1>3. /\ Booted(Solo) /\ Solo \in Sleeves /\ today \in Nat \ {0} /\ EngineSound(engine)
      /\ \A s \in Sleeves : s # Solo => runtimes[s] = NoSnapshot
      /\ pc = [mode |-> pc.mode, step |-> pc.step, at |-> pc.at]
      /\ TakenSound /\ SymbolsIn(taken.bars) \subseteq runtimes[Solo].live
      /\ latest[Solo][taken.snapshot.lane] = taken.snapshot
      /\ stores = [s \in Sleeves |-> stores[s]] /\ \A s \in Sleeves : StoreSound(stores[s])
  BY <1>1, SoloIsSleeve DEF FeedInv, ProcessSound, SoloSound, WorldSound, MemorySound
<1> HIDE DEF Solo
<1>4. pc' = [mode |-> "solo", step |-> "report", at |-> pc.at]
  BY ONLY <1>1, <1>3
<1>5. EngineSound(engine') /\ engine'.live = engine.live
  BY <1>1, <1>3, OnDataSound
<1>6. raw.lane \in Lanes /\ enriched.lane \in Lanes
  <2>1. raw.lane = taken.snapshot.lane
    BY <1>2 DEF IndicatorSnapshot
  <2>2. enriched.lane = raw.lane
    BY <1>2 DEF Enriched, IndicatorSnapshot
  <2> QED BY <1>3, <2>1, <2>2 DEF TakenSound
<1>7. PICK first, second : first = PublishActive(stores[Solo], raw) /\ second = PublishActive(first, enriched)
  OBVIOUS
<1>8. StoreSound(second) /\ Active(second) = enriched
  <2>1. StoreSound(first)
    BY <1>3, <1>6, <1>7, PublishSound
  <2> QED BY <1>6, <1>7, <2>1, PublishSound
<1>9. /\ stores'[Solo] = second /\ stores' = [s \in Sleeves |-> stores'[s]]
      /\ \A s \in Sleeves : s # Solo => stores'[s] = stores[s]
  <2>1. stores' = [stores EXCEPT ![Solo] = second]
    BY <1>2, <1>7
  <2> QED BY ONLY <1>3, <2>1
<1>10. enriched = Shown(Solo, runtimes[Solo], today)'
  <2>1. QualityFor(Solo, runtimes[Solo])' = QualityFor(Solo, runtimes[Solo])
    BY <1>1 DEF QualityFor
  <2> QED BY <1>1, <1>2, <2>1 DEF Shown
<1>11. \E d \in 1..today' : Active(stores'[Solo]) = Shown(Solo, runtimes[Solo], d)'
  <2>1. PICK d : d = today
    OBVIOUS
  <2>2. d \in 1..today' /\ Shown(Solo, runtimes[Solo], d)' = Shown(Solo, runtimes[Solo], today)'
    BY <1>1, <1>3, <2>1
  <2> QED BY <1>8, <1>9, <1>10, <2>2
<1>12. MemorySound'
  BY <1>1, <1>5, <1>8, <1>9 DEF FeedInv, MemorySound
<1>13. (WorldSound /\ StagedSound /\ SeenSound)'
  BY <1>1 DEF FeedInv, WorldSound, StagedSound, SeenSound
<1>14. RuntimesSound' /\ Booted(Solo)' /\ TakenSound'
  BY <1>1, <1>3, <1>5 DEF FeedInv, RuntimesSound, Booted, TakenSound
<1>15. SoloSound'
  BY <1>1, <1>3, <1>4, <1>11, <1>14 DEF SoloSound
<1>16. ProcessSound'
  BY <1>4, <1>15 DEF ProcessSound, MultiSound
<1> QED BY <1>12, <1>13, <1>14, <1>16 DEF FeedInv

\* The framework is run on that snapshot and the quotes it was made of.
LEMMA ReportOwnSound == FeedInv /\ ReportOwn => FeedInv'
<1> SUFFICES ASSUME FeedInv, ReportOwn PROVE FeedInv'
  OBVIOUS
<1>1. /\ pc.mode = "solo" /\ pc.step = "report" /\ pc' = [pc EXCEPT !.step = "idle"]
      /\ seen' = [seen EXCEPT ![Solo] = Given(Solo, stores[Solo], latest, runtimes[Solo])]
      /\ UNCHANGED <<today, held, nextId, engine, stores, runtimes, taken, latest, staged>>
  BY DEF ReportOwn
<1>2. /\ Booted(Solo) /\ Solo \in Sleeves /\ today \in Nat \ {0}
      /\ \A s \in Sleeves : s # Solo => runtimes[s] = NoSnapshot
      /\ pc = [mode |-> pc.mode, step |-> pc.step, at |-> pc.at]
      /\ TakenSound /\ SymbolsIn(taken.bars) \subseteq runtimes[Solo].live
      /\ latest[Solo][taken.snapshot.lane] = taken.snapshot
      /\ seen = [s \in Sleeves |-> seen[s]]
  BY <1>1, SoloIsSleeve DEF FeedInv, ProcessSound, SoloSound, WorldSound, MemorySound
<1>3. PICK d \in 1..today : Active(stores[Solo]) = Shown(Solo, runtimes[Solo], d)
  BY <1>1 DEF FeedInv, ProcessSound, SoloSound
<1> HIDE DEF Solo
<1>4. pc' = [mode |-> "solo", step |-> "idle", at |-> pc.at]
  BY ONLY <1>1, <1>2
<1>5. PICK c, own, market :
        /\ c = Given(Solo, stores[Solo], latest, runtimes[Solo])
        /\ own = {bar \in taken.bars : bar.symbol \in runtimes[Solo].live}
        /\ market = taken.snapshot
  OBVIOUS
<1>6. own = taken.bars
  BY <1>2, <1>5 DEF SymbolsIn
<1>7. /\ market = [id |-> taken.snapshot.id, bars |-> own, lane |-> taken.snapshot.lane]
      /\ market.bars = own /\ market # NoSnapshot
  <2>1. /\ market = [id |-> taken.snapshot.id, bars |-> own, lane |-> taken.snapshot.lane]
        /\ taken.snapshot.id \in Nat /\ taken.snapshot.lane \in Lanes /\ own \in SUBSET QuoteBars
    BY <1>2, <1>5, <1>6 DEF TakenSound
  <2>2. market \in [id : Nat, bars : SUBSET QuoteBars, lane : Lanes] /\ market.bars = own
    BY ONLY <2>1
  <2> QED BY <2>1, <2>2, QuotesAssumption
<1>8. /\ c.snapshot = Shown(Solo, runtimes[Solo], d) /\ c.runtime = runtimes[Solo] /\ c.at = today
      /\ c.data = IF own # {} THEN market ELSE NoSnapshot
  <2>1. Shown(Solo, runtimes[Solo], d).lane = taken.snapshot.lane
    BY DEF Shown, Enriched, IndicatorSnapshot
  <2>2. /\ c.snapshot = Active(stores[Solo]) /\ c.runtime = runtimes[Solo] /\ c.at = today
        /\ c.data = IF latest[Solo][Active(stores[Solo]).lane] # NoSnapshot
                       /\ latest[Solo][Active(stores[Solo]).lane].bars # {}
                    THEN latest[Solo][Active(stores[Solo]).lane] ELSE NoSnapshot
    BY <1>5 DEF Given
  <2>3. latest[Solo][Active(stores[Solo]).lane] = market
    BY <1>2, <1>3, <1>5, <2>1
  <2> QED BY ONLY <1>3, <1>7, <2>2, <2>3
<1>9. CycleGood(c)
  <2>1. /\ RuntimeSound(runtimes[Solo]) /\ engine.live[Solo] = runtimes[Solo].live
        /\ d \in Nat /\ today \in Nat /\ d <= today
    BY <1>2, <1>3 DEF Booted
  <2> QED BY ONLY <1>5, <1>7, <1>8, <2>1, CycleSound
<1>10. seen' = [s \in Sleeves |-> seen'[s]] /\ \A s \in Sleeves : seen'[s] = IF s = Solo THEN c ELSE seen[s]
  <2>1. seen' = [seen EXCEPT ![Solo] = c]
    BY Zenon, <1>1, <1>5
  <2> QED BY ONLY <1>2, <2>1
<1>11. (WorldSound /\ StagedSound /\ MemorySound)'
  BY <1>1, <1>10 DEF FeedInv, WorldSound, StagedSound, MemorySound
<1>12. SeenSound'
  BY <1>9, <1>10 DEF FeedInv, SeenSound
<1>13. RuntimesSound' /\ Booted(Solo)'
  BY <1>1, <1>2 DEF FeedInv, RuntimesSound, Booted
<1>14. ProcessSound'
  BY <1>1, <1>2, <1>4, <1>13 DEF ProcessSound, SoloSound, MultiSound
<1> QED BY <1>11, <1>12, <1>13, <1>14 DEF FeedInv

\* A reload is bootstrapped beside what runs.
LEMMA StageSound ==
  ASSUME NEW outage, NEW unquoted
  PROVE  FeedInv /\ StageReload(outage, unquoted) => FeedInv'
<1> SUFFICES ASSUME FeedInv, StageReload(outage, unquoted) PROVE FeedInv'
  OBVIOUS
<1>1. /\ pc.mode = "solo" /\ pc.step = "idle"
      /\ UNCHANGED <<today, held, nextId, pc, engine, stores, runtimes, taken, latest, seen>>
  BY DEF StageReload
<1>2. PICK now : /\ now = held[Solo] \cup runtimes[Solo].heldThen
                 /\ staged' = Bootstrap(NewEngine, Solo, now, outage, unquoted)
  BY DEF StageReload
<1>3. Booted(Solo) /\ Solo \in Sleeves /\ today \in Nat \ {0} /\ held[Solo] \in SUBSET Instruments
  BY <1>1, SoloIsSleeve DEF FeedInv, ProcessSound, SoloSound, WorldSound
<1> HIDE DEF Solo
<1>4. now \in SUBSET Instruments
  BY <1>2, <1>3 DEF Booted, RuntimeSound
<1>5. EngineSound(staged'.engine) /\ RuntimeSound(staged'.runtime)
      /\ staged'.engine.live[Solo] = staged'.runtime.live
  BY ONLY <1>2, <1>3, <1>4, NewEngineSound, BootstrapSound
<1>6. StagedSound'
  BY <1>5 DEF StagedSound
<1>7. (WorldSound /\ MemorySound /\ SeenSound /\ RuntimesSound)'
  BY <1>1 DEF FeedInv, WorldSound, MemorySound, SeenSound, RuntimesSound, Booted
<1>8. ProcessSound'
  <2>1. Booted(Solo)'
    BY <1>1, <1>3 DEF Booted
  <2> QED BY <1>1, <2>1 DEF FeedInv, ProcessSound, SoloSound, MultiSound
<1> QED BY <1>6, <1>7, <1>8 DEF FeedInv

\* Everything changes hands at once.
LEMMA ActivateSound == FeedInv /\ ActivateReload => FeedInv'
<1> SUFFICES ASSUME FeedInv, ActivateReload PROVE FeedInv'
  OBVIOUS
<1>1. /\ pc.mode = "solo" /\ pc.step = "idle" /\ staged # NoSnapshot
      /\ engine' = staged.engine /\ runtimes' = [runtimes EXCEPT ![Solo] = staged.runtime]
      /\ stores' = EmptyStores /\ latest' = NoLatest /\ staged' = NoSnapshot
      /\ UNCHANGED <<today, held, nextId, pc, taken, seen>>
  BY DEF ActivateReload
<1>2. /\ EngineSound(staged.engine) /\ RuntimeSound(staged.runtime) /\ Solo \in Sleeves
      /\ staged.engine.live[Solo] = staged.runtime.live
      /\ \A s \in Sleeves : s # Solo => runtimes[s] = NoSnapshot
      /\ runtimes = [s \in Sleeves |-> runtimes[s]] /\ seen = [s \in Sleeves |-> seen[s]]
  BY <1>1, SoloIsSleeve DEF FeedInv, StagedSound, ProcessSound, SoloSound, MemorySound
<1> HIDE DEF Solo
<1>3. /\ runtimes'[Solo] = staged.runtime /\ runtimes' = [s \in Sleeves |-> runtimes'[s]]
      /\ \A s \in Sleeves : s # Solo => runtimes'[s] = NoSnapshot
  BY ONLY <1>1, <1>2
<1>4. Booted(Solo)'
  <2>1. RuntimeSound(runtimes'[Solo]) /\ engine'.live[Solo] = runtimes'[Solo].live
    BY <1>1, <1>2, <1>3
  <2> QED BY <2>1 DEF Booted
<1>5. MemorySound'
  BY <1>1, <1>2, <1>3, EmptyStoreSound DEF MemorySound, EmptyStores, NoLatest
<1>6. (WorldSound /\ StagedSound /\ SeenSound)'
  BY <1>1 DEF FeedInv, WorldSound, StagedSound, SeenSound
<1>7. RuntimesSound'
  BY <1>3, <1>4 DEF RuntimesSound
<1>8. ProcessSound'
  BY <1>1, <1>3, <1>4 DEF FeedInv, ProcessSound, SoloSound, MultiSound
<1> QED BY <1>5, <1>6, <1>7, <1>8 DEF FeedInv

\* Neither the clock nor the accounts reach into a process.
LEMMA WorldMoves ==
  /\ FeedInv /\ Midnight => FeedInv'
  /\ \A s \in Sleeves, holding \in Fills : FeedInv /\ AccountMoves(s, holding) => FeedInv'
<1>1. ASSUME FeedInv, Midnight PROVE FeedInv'
  <2>1. /\ today' = today + 1
        /\ UNCHANGED <<held, nextId, pc, engine, stores, runtimes, taken, latest, staged, seen>>
    BY <1>1 DEF Midnight
  <2>2. WorldSound' /\ today' >= today
    BY <1>1, <2>1 DEF FeedInv, WorldSound
  <2> QED BY <1>1, <2>1, <2>2, ProcessUnmoved
<1>2. ASSUME NEW s \in Sleeves, NEW holding \in Fills, FeedInv, AccountMoves(s, holding) PROVE FeedInv'
  <2>1. /\ held' = [held EXCEPT ![s] = holding]
        /\ UNCHANGED <<today, nextId, pc, engine, stores, runtimes, taken, latest, staged, seen>>
    BY <1>2 DEF AccountMoves
  <2>2. WorldSound' /\ today' >= today
    BY <1>2, <2>1, SleevesAssumption DEF FeedInv, WorldSound
  <2> QED BY <1>2, <2>1, <2>2, ProcessUnmoved
<1> QED BY <1>1, <1>2

LEMMA StepSound == FeedInv /\ [FeedNext]_feedVars => FeedInv'
<1> SUFFICES ASSUME FeedInv, [FeedNext]_feedVars PROVE FeedInv'
  OBVIOUS
<1>1. CASE UNCHANGED feedVars
  <2>1. UNCHANGED <<today, held, nextId, pc, engine, stores, runtimes, taken, latest, staged, seen>>
    BY <1>1 DEF feedVars
  <2>2. WorldSound' /\ today' >= today
    BY <2>1 DEF FeedInv, WorldSound
  <2> QED BY <2>1, <2>2, ProcessUnmoved
<1>2. CASE SaveAll \/ KillRuntime
  <2>1. Ended /\ UNCHANGED <<today, held, nextId>>
    BY <1>2 DEF SaveAll, KillRuntime
  <2>2. WorldSound'
    BY <2>1 DEF FeedInv, WorldSound
  <2> QED BY <2>1, <2>2, EndedKeeps DEF FeedInv
<1>3. ASSUME FeedNext, ~(SaveAll \/ KillRuntime) PROVE FeedInv'
  BY <1>3, StartMultiSound, BootNextSound, StartSoloSound, StageSound, CollectUnionSound, CollectOwnSound,
     FeedEngineSound, CycleNextSound, RefreshSound, PublishOwnSound, ReportOwnSound, ActivateSound,
     WarmWorkerSound, WorldMoves DEF FeedNext
<1> QED BY <1>1, <1>2, <1>3

--------------------------------------------------------------------------------
(* What the frameworks may rely on.                                              *)

\* A window whose days rise holds every day once.
LEMMA RisingOnce ==
  ASSUME NEW window, NEW last, Rising(window, last)
  PROVE  IsInjective(window) /\ \A n \in DOMAIN window : window[n].day \in Nat /\ window[n].day <= last
<1>1. DOMAIN window = 1..Len(window) /\ Len(window) \in Nat
  BY DEF Rising
<1>2. \A n \in 1..Len(window) : window[n] \in DayBars
  BY DEF Rising
<1>3. \A n \in 1..Len(window) : window[n].day \in Nat /\ window[n].day <= last
  BY <1>2 DEF Rising, DayBars
<1>4. ASSUME NEW m \in 1..Len(window), NEW n \in 1..Len(window), window[m] = window[n] PROVE m = n
  <2>1. m < n => window[m].day < window[n].day
    BY DEF Rising
  <2>2. n < m => window[n].day < window[m].day
    BY DEF Rising
  <2> QED BY <1>1, <1>3, <1>4, <2>1, <2>2
<1> QED BY <1>1, <1>3, <1>4 DEF IsInjective

LEMMA InvMeansSound == FeedInv => FeedSound
<1> SUFFICES ASSUME FeedInv PROVE FeedSound
  OBVIOUS
<1>1. RoutesAgree
  BY DEF FeedInv, MemorySound, EngineSound, RoutesAgree
<1>2. DailyFromConfirmedDays
  <2> SUFFICES ASSUME pc.mode = "multi", NEW s \in Sleeves, runtimes[s] # NoSnapshot,
                      NEW y \in DOMAIN engine.windows[s], NEW ind \in Indicators, ind.res \in Daily
               PROVE  /\ IsInjective(Windows(s, y)[ind.name])
                      /\ \A n \in DOMAIN Windows(s, y)[ind.name] :
                           Windows(s, y)[ind.name][n].day < runtimes[s].bootDay
    BY DEF DailyFromConfirmedDays, Confirmed, Distinct
  <2>1. runtimes[s].bootDay \in Nat \ {0} /\ WindowsRising(engine.windows[s], runtimes[s].bootDay - 1)
    BY DEF FeedInv, RuntimesSound, Booted, RuntimeSound, ProcessSound, MultiSound
  <2>2. TableRising(Windows(s, y), runtimes[s].bootDay - 1)
    BY <2>1 DEF WindowsRising, Windows
  <2>3. Rising(Windows(s, y)[ind.name], runtimes[s].bootDay - 1)
    BY <2>2 DEF TableRising
  <2>4. /\ IsInjective(Windows(s, y)[ind.name])
        /\ \A n \in DOMAIN Windows(s, y)[ind.name] :
             /\ Windows(s, y)[ind.name][n].day \in Nat
             /\ Windows(s, y)[ind.name][n].day <= runtimes[s].bootDay - 1
    BY <2>3, RisingOnce
  <2> QED BY <2>1, <2>4
<1>3. OnePicture
  BY DEF FeedInv, SeenSound, CycleGood, OnePicture
<1>4. EntriesOnOwnData /\ NotHeldUpByOthers /\ HeldStayLive /\ WindowsWhole
  <2>1. \A c \in Cycles : CycleGood(c)
    BY DEF FeedInv, SeenSound, Cycles
  <2> QED BY <2>1 DEF CycleGood, EntriesOnOwnData, NotHeldUpByOthers, HeldStayLive, WindowsWhole
<1> QED BY <1>1, <1>2, <1>3, <1>4 DEF FeedSound

(* For every number of sleeves, symbols and indicators, every outage and every feed, in  *)
(* every order of the steps of a process, of the clock and of fills: what a sleeve's     *)
(* framework is given is one picture of its own universe, its daily windows are of       *)
(* confirmed days, and new positions are only allowed on enough usable quotes of its own *)
(* (runtime_bootstrap.py, runtime_multi.py, snapshot_worker.py, indicator_runtime.py).   *)
THEOREM FeedIsSound == FeedSpec => []FeedSound
<1>1. FeedInit => FeedInv
  BY InitSound
<1>2. FeedInv /\ [FeedNext]_feedVars => FeedInv'
  BY StepSound
<1>3. FeedInv => FeedSound
  BY InvMeansSound
<1> QED BY <1>1, <1>2, <1>3, PTL DEF FeedSpec

================================================================================
