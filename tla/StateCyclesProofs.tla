--------------------------- MODULE StateCyclesProofs --------------------------
(***************************************************************************)
(* Theorems about ModelState and StateCycles for all constants.            *)
(*                                                                         *)
(* The store: as long as no two calls whose batches share a key are under  *)
(* way together, it implements the versioned map, although it reads and    *)
(* writes in two transactions, and its audit trail, replayed from the      *)
(* start, gives the records.  Whatever is under way together, the last     *)
(* audit event of a key describes its record.  The first never unfolds     *)
(* what a batch does to a record: store and map compute it by the same     *)
(* operator, from the same records.  The others do, patch by patch.        *)
(*                                                                         *)
(* The cycles: if no two commands on the same sleeve are under way         *)
(* together, no two calls share a key, which is what the theorems of the   *)
(* store ask for; then pipeline runs and seed commands together implement  *)
(* the versioned map, their trail gives the records, no trailing-stop      *)
(* watermark falls, and no day's universe is selected twice.               *)
(***************************************************************************)
EXTENDS StateCycles, InductionLemmas


(* What a call has read of the keys it is about to write is still so.          *)
Fresh ==
  /\ pending \in [Writers -> Batches \cup {<<>>}]
  /\ DOMAIN seen = Writers
  /\ \A w \in Writers : \A k \in KeysOf(pending[w]) : seen[w][k] = records[k]

\* A batch writes keys of the store only.
LEMMA BatchKeys ==
  ASSUME NEW batch \in Batches
  PROVE  KeysOf(batch) \subseteq Keys
<1>1. batch \in Seq(Patch)
  BY BatchAssumption
<1>2. \A i \in DOMAIN batch : batch[i] \in Patch
  BY <1>1
<1> QED
  BY <1>2 DEF KeysOf, Patch

\* An empty batch writes none.
LEMMA NoKeys == KeysOf(<<>>) = {}
  BY DEF KeysOf

(* Events depend on what was read of the keys of the batch only. *)
LEMMA SameEvents ==
  ASSUME NEW batch \in Batches, NEW read, NEW table,
         \A k \in KeysOf(batch) : read[k] = table[k]
  PROVE  EventsOf(read, batch) = EventsOf(table, batch)
<1>1. batch \in Seq(Patch)
  BY BatchAssumption
<1>2. ASSUME NEW i \in 1..Len(batch)
      PROVE  EventOf(read, batch, i) = EventOf(table, batch, i)
  <2>1. batch[i].key \in KeysOf(batch)
    BY <1>1 DEF KeysOf
  <2>2. read[batch[i].key] = table[batch[i].key]
    BY <2>1
  <2> QED
    BY <2>2 DEF EventOf
<1> QED
  BY <1>2 DEF EventsOf

(* The table of events is a sequence: needed only to add up lengths. *)
EventsListed == \E S : events \in Seq(S)

\* A commit appends one event for each patch of its batch.
LEMMA AppendedEvents ==
  ASSUME EventsListed, NEW batch \in Batches, NEW read
  PROVE  LET all == events \o EventsOf(read, batch) IN
         /\ \E S : all \in Seq(S)
         /\ Len(all) = Len(events) + Len(batch)
<1>1. PICK S : events \in Seq(S)
  BY DEF EventsListed
<1>2. batch \in Seq(Patch)
  BY BatchAssumption
<1> DEFINE T == {EventOf(read, batch, i) : i \in 1..Len(batch)}
           new == EventsOf(read, batch)
<1>3. new \in Seq(T) /\ Len(new) = Len(batch)
  BY <1>2 DEF EventsOf
<1> HIDE DEF new, T
<1>4. events \in Seq(S \cup T) /\ new \in Seq(S \cup T)
  BY <1>1, <1>3
<1>5. events \o new \in Seq(S \cup T) /\ Len(events \o new) = Len(events) + Len(new)
  BY <1>4
<1> QED
  BY <1>3, <1>5 DEF new

\* Records depend on what was read of the keys of the batch only.
LEMMA SameRecords ==
  ASSUME NEW batch, NEW read, NEW table,
         \A k \in KeysOf(batch) : read[k] = table[k]
  PROVE  Updated(table, read, batch) = Updated(table, table, batch)
  BY DEF Updated

\* At first nothing is read,
LEMMA FreshInit == StoreInit => Fresh
<1> SUFFICES ASSUME StoreInit PROVE Fresh
  OBVIOUS
<1> QED
  BY NoKeys DEF StoreInit, Fresh

\* and as long as no two calls overlap on a key every step keeps what was read true.
LEMMA FreshNext == Fresh /\ Isolated /\ [StoreNext]_storeVars => Fresh'
<1> SUFFICES ASSUME Fresh, Isolated, [StoreNext]_storeVars PROVE Fresh'
  OBVIOUS
<1>1. ASSUME NEW w \in Writers, NEW batch \in Batches, ReadAll(w, batch)
      PROVE  Fresh'
  <2>1. /\ pending' = [pending EXCEPT ![w] = batch]
        /\ seen' = [seen EXCEPT ![w] = records]
        /\ records' = records
    BY <1>1 DEF ReadAll
  <2>2. ASSUME NEW v \in Writers, NEW k \in KeysOf(pending'[v])
        PROVE  seen'[v][k] = records'[k]
    <3>1. CASE v = w
      BY <2>1, <3>1 DEF Fresh
    <3>2. CASE v # w
      <4>1. pending'[v] = pending[v] /\ seen'[v] = seen[v]
        BY <2>1, <3>2 DEF Fresh
      <4> QED
        BY <4>1, <2>1, <2>2 DEF Fresh
    <3> QED
      BY <3>1, <3>2
  <2> QED
    BY <2>1, <2>2 DEF Fresh
<1>2. ASSUME NEW w \in Writers, Commit(w)
      PROVE  Fresh'
  <2>1. /\ pending' = [pending EXCEPT ![w] = <<>>]
        /\ seen' = [seen EXCEPT ![w] = NothingSeen]
        /\ records' = Updated(records, seen[w], pending[w])
    BY <1>2 DEF Commit, Finished, Written
  <2>2. ASSUME NEW v \in Writers, NEW k \in KeysOf(pending'[v])
        PROVE  seen'[v][k] = records'[k]
    <3>1. v # w
      BY <2>1, <2>2, NoKeys DEF Fresh
    <3>2. pending'[v] = pending[v] /\ seen'[v] = seen[v]
      BY <2>1, <3>1 DEF Fresh
    <3>3. pending[v] \in Batches
      BY <3>2, <2>2, NoKeys DEF Fresh
    <3>4. k \in Keys
      BY <3>3, <3>2, <2>2, BatchKeys
    <3>5. k \notin KeysOf(pending[w])
      BY <3>1, <3>2, <2>2 DEF Isolated
    <3>6. records'[k] = records[k]
      BY <2>1, <3>4, <3>5 DEF Updated
    <3> QED
      BY <3>2, <3>6, <2>2 DEF Fresh
  <2> QED
    BY <2>1, <2>2 DEF Fresh
<1>3. ASSUME NEW w \in Writers, Abort(w)
      PROVE  Fresh'
  <2>1. /\ pending' = [pending EXCEPT ![w] = <<>>]
        /\ seen' = [seen EXCEPT ![w] = NothingSeen]
        /\ records' = records
    BY <1>3 DEF Abort, Finished
  <2>2. ASSUME NEW v \in Writers, NEW k \in KeysOf(pending'[v])
        PROVE  seen'[v][k] = records'[k]
    <3>1. v # w
      BY <2>1, <2>2, NoKeys DEF Fresh
    <3> QED
      BY <2>1, <2>2, <3>1 DEF Fresh
  <2> QED
    BY <2>1, <2>2 DEF Fresh
<1>4. CASE UNCHANGED storeVars
  BY <1>4 DEF Fresh, storeVars
<1> QED
  BY <1>1, <1>2, <1>3, <1>4 DEF StoreNext

\* The table is empty at first,
LEMMA ListedInit == StoreInit => EventsListed
<1> SUFFICES ASSUME StoreInit PROVE events \in Seq({})
  BY DEF EventsListed
<1> QED
  BY DEF StoreInit, MapInit

\* and grows by whole batches.
LEMMA ListedNext == Fresh /\ EventsListed /\ [StoreNext]_storeVars => EventsListed'
<1> SUFFICES ASSUME Fresh, EventsListed, [StoreNext]_storeVars PROVE EventsListed'
  OBVIOUS
<1>1. ASSUME NEW w \in Writers, Commit(w)
      PROVE  EventsListed'
  <2>1. pending[w] \in Batches
    BY <1>1 DEF Commit, Idle, Fresh
  <2>2. events' = events \o EventsOf(seen[w], pending[w])
    BY <1>1 DEF Commit
  <2> QED
    BY <2>1, <2>2, AppendedEvents DEF EventsListed
<1>2. CASE events' = events
  BY <1>2 DEF EventsListed
<1>3. ASSUME NEW w \in Writers, NEW batch \in Batches, ReadAll(w, batch)
      PROVE  events' = events
  BY <1>3 DEF ReadAll
<1>4. ASSUME NEW w \in Writers, Abort(w)
      PROVE  events' = events
  BY <1>4 DEF Abort
<1> QED
  BY <1>1, <1>2, <1>3, <1>4 DEF StoreNext, storeVars

(* A commit is one step of the map; every other step leaves the tables alone. *)
LEMMA StepImplements ==
  Fresh /\ EventsListed /\ [StoreNext]_storeVars => [MapNext]_<<records, events>>
<1> SUFFICES ASSUME Fresh, EventsListed, [StoreNext]_storeVars
             PROVE  [MapNext]_<<records, events>>
  OBVIOUS
<1>1. ASSUME NEW w \in Writers, Commit(w)
      PROVE  MapNext
  <2> DEFINE batch == pending[w]
  <2>1. batch \in Batches /\ batch # <<>>
    BY <1>1 DEF Commit, Idle, Fresh
  <2>2. \A k \in KeysOf(batch) : seen[w][k] = records[k]
    BY DEF Fresh
  <2>3. records' = Updated(records, records, batch)
    BY <1>1, <2>2, SameRecords DEF Commit, Written
  <2>4. events' = events \o EventsOf(records, batch)
    BY <1>1, <2>1, <2>2, SameEvents DEF Commit
  <2>5. Len(events') = Len(events) + Len(batch)
    BY <2>1, <2>4, AppendedEvents
  <2> QED
    BY <2>1, <2>3, <2>4, <2>5 DEF MapNext, Apply
<1>2. ASSUME NEW w \in Writers, NEW batch \in Batches, ReadAll(w, batch)
      PROVE  UNCHANGED <<records, events>>
  BY <1>2 DEF ReadAll
<1>3. ASSUME NEW w \in Writers, Abort(w)
      PROVE  UNCHANGED <<records, events>>
  BY <1>3 DEF Abort
<1>4. CASE UNCHANGED storeVars
  BY <1>4 DEF storeVars
<1> QED
  BY <1>1, <1>2, <1>3, <1>4 DEF StoreNext

(* Patches of concurrent runs are as good as applied one batch after another,  *)
(* as long as runs that share a key do not overlap (SQLiteRuntimeStateStore as *)
(* against InMemoryRuntimeStateStore).                                         *)
THEOREM IsolatedImplementsMap == StoreSpec /\ []Isolated => MapSpec
<1>1. StoreInit => Fresh /\ EventsListed /\ MapInit
  BY FreshInit, ListedInit DEF StoreInit
<1>2. Fresh /\ EventsListed /\ Isolated /\ [StoreNext]_storeVars => Fresh' /\ EventsListed'
  BY FreshNext, ListedNext
<1>3. Fresh /\ EventsListed /\ [StoreNext]_storeVars => [MapNext]_<<records, events>>
  BY StepImplements
<1> QED
  BY <1>1, <1>2, <1>3, PTL DEF StoreSpec, MapSpec

-----------------------------------------------------------------------------
(* What a batch does to a record, patch by patch. *)

\* The function that After takes its result from.
Steps(g, record, k, batch, n) ==
  g = [i \in 0..n |-> IF i = 0 THEN record
                      ELSE IF batch[i].key = k THEN Applied(g[i - 1], batch[i])
                      ELSE g[i - 1]]

\* A record after n patches is looked up in that function.
LEMMA AfterUnfold ==
  ASSUME NEW record, NEW k, NEW batch, NEW n
  PROVE  After(record, k, batch, n) = (CHOOSE g : Steps(g, record, k, batch, n))[n]
BY DEF After, Steps

\* It exists for every number of patches.
LEMMA StepsExist ==
  ASSUME NEW record, NEW k, NEW batch
  PROVE  \A n \in Nat : \E g : Steps(g, record, k, batch, n)
<1> DEFINE S == {n \in Nat : \E g : Steps(g, record, k, batch, n)}
<1>1. 0 \in S
  <2>1. Steps([i \in 0..0 |-> record], record, k, batch, 0)
    BY DEF Steps
  <2> QED BY <2>1
<1>2. ASSUME NEW n \in Nat, n \in S PROVE n + 1 \in S
  <2>1. PICK g : Steps(g, record, k, batch, n)
    BY <1>2
  <2> DEFINE h == [i \in 0..(n + 1) |->
                     IF i \in 0..n THEN g[i]
                     ELSE IF batch[i].key = k THEN Applied(g[n], batch[i])
                     ELSE g[n]]
  <2>2. ASSUME NEW i \in 0..(n + 1)
        PROVE  h[i] = IF i = 0 THEN record
                      ELSE IF batch[i].key = k THEN Applied(h[i - 1], batch[i])
                      ELSE h[i - 1]
    <3>1. CASE i \in 0..n
      <4>1. h[i] = g[i] /\ (i # 0 => h[i - 1] = g[i - 1])
        BY <3>1
      <4>2. g[i] = IF i = 0 THEN record
                   ELSE IF batch[i].key = k THEN Applied(g[i - 1], batch[i])
                   ELSE g[i - 1]
        BY <2>1, <3>1 DEF Steps
      <4> QED BY <4>1, <4>2
    <3>2. CASE i = n + 1
      <4>1. h[i - 1] = g[n] /\ i # 0
        BY <3>2
      <4> QED BY <3>2, <4>1
    <3> QED BY <3>1, <3>2
  <2>3. Steps(h, record, k, batch, n + 1)
    <3>1. h = [i \in 0..(n + 1) |-> h[i]]
      OBVIOUS
    <3> HIDE DEF h
    <3> QED BY <2>2, <3>1 DEF Steps
  <2> QED BY <2>3
<1>3. Nat \subseteq S
  <2> HIDE DEF S
  <2> QED BY <1>1, <1>2, NumbersInduct
<1> QED BY <1>3

\* Two of them agree as far as both go.
LEMMA StepsAlike ==
  ASSUME NEW record, NEW k, NEW batch, NEW n \in Nat, NEW m \in Nat, n <= m,
         NEW g, Steps(g, record, k, batch, n), NEW h, Steps(h, record, k, batch, m)
  PROVE  \A i \in 0..n : g[i] = h[i]
<1> DEFINE S == {i \in Nat : i <= n => g[i] = h[i]}
<1>0. /\ \A i \in 0..n : g[i] = IF i = 0 THEN record
                   ELSE IF batch[i].key = k THEN Applied(g[i - 1], batch[i])
                   ELSE g[i - 1]
      /\ \A i \in 0..m : h[i] = IF i = 0 THEN record
                   ELSE IF batch[i].key = k THEN Applied(h[i - 1], batch[i])
                   ELSE h[i - 1]
  BY DEF Steps
<1>1. 0 \in S
  BY <1>0
<1>2. ASSUME NEW i \in Nat, i \in S PROVE i + 1 \in S
  <2>1. CASE i + 1 <= n
    <3>1. i + 1 \in 0..n /\ i + 1 \in 0..m /\ i + 1 # 0 /\ (i + 1) - 1 = i /\ g[i] = h[i]
      BY <1>2, <2>1
    <3> QED BY <1>0, <3>1
  <2> QED BY <2>1
<1>3. Nat \subseteq S
  <2> HIDE DEF S
  <2> QED BY <1>1, <1>2, NumbersInduct
<1> QED BY <1>3

\* So any of them can be used.
LEMMA AfterIs ==
  ASSUME NEW record, NEW k, NEW batch, NEW n \in Nat, NEW g, Steps(g, record, k, batch, n)
  PROVE  \A i \in 0..n : After(record, k, batch, i) = g[i]
<1> SUFFICES ASSUME NEW i \in 0..n PROVE After(record, k, batch, i) = g[i]
  OBVIOUS
<1> DEFINE h == CHOOSE h : Steps(h, record, k, batch, i)
<1>1. i \in Nat /\ i <= n /\ i \in 0..i
  OBVIOUS
<1>2. Steps(h, record, k, batch, i)
  BY <1>1, StepsExist
<1>3. After(record, k, batch, i) = h[i]
  BY AfterUnfold
<1> HIDE DEF h
<1> QED BY <1>1, <1>2, <1>3, StepsAlike

\* Before the first patch a record is the one that was read ...
LEMMA AfterZero ==
  ASSUME NEW record, NEW k, NEW batch
  PROVE  After(record, k, batch, 0) = record
<1>1. PICK g : Steps(g, record, k, batch, 0)
  BY StepsExist
<1>2. After(record, k, batch, 0) = g[0]
  BY <1>1, AfterIs
<1> QED BY <1>1, <1>2 DEF Steps

\* ... and each patch of its key is applied to what the ones before it left.
LEMMA AfterNext ==
  ASSUME NEW record, NEW k, NEW batch, NEW n \in Nat
  PROVE  After(record, k, batch, n + 1) =
           IF batch[n + 1].key = k THEN Applied(After(record, k, batch, n), batch[n + 1])
           ELSE After(record, k, batch, n)
<1>1. PICK g : Steps(g, record, k, batch, n + 1)
  BY StepsExist
<1>2. After(record, k, batch, n + 1) = g[n + 1] /\ After(record, k, batch, n) = g[n]
  BY <1>1, AfterIs
<1>3. g[n + 1] = IF batch[n + 1].key = k THEN Applied(g[n], batch[n + 1]) ELSE g[n]
  <2>1. n + 1 \in 0..(n + 1) /\ n + 1 # 0 /\ (n + 1) - 1 = n
    OBVIOUS
  <2> QED BY <1>1, <2>1 DEF Steps
<1> QED BY <1>2, <1>3

\* What every patch of a key keeps holds of its record after any of them.
LEMMA AfterKeeps ==
  ASSUME NEW Good, NEW record \in Good, NEW k, NEW S, NEW batch \in Seq(S),
         \A i \in DOMAIN batch : \A rec \in Good :
           batch[i].key = k => Applied(rec, batch[i]) \in Good
  PROVE  \A n \in 0..Len(batch) : After(record, k, batch, n) \in Good
<1> DEFINE T == {n \in Nat : n <= Len(batch) => After(record, k, batch, n) \in Good}
<1>1. 0 \in T
  BY AfterZero
<1>2. ASSUME NEW n \in Nat, n \in T PROVE n + 1 \in T
  <2>1. CASE n + 1 <= Len(batch)
    <3>1. n + 1 \in DOMAIN batch /\ After(record, k, batch, n) \in Good
      BY <1>2, <2>1
    <3> QED BY <3>1, AfterNext
  <2> QED BY <2>1
<1>3. Nat \subseteq T
  <2> HIDE DEF T
  <2> QED BY <1>1, <1>2, NumbersInduct
<1> QED BY <1>3

\* Patches of other keys change nothing.
LEMMA AfterSame ==
  ASSUME NEW record, NEW k, NEW batch, NEW m \in Nat, NEW n \in Nat, m <= n,
         \A i \in (m + 1)..n : batch[i].key # k
  PROVE  After(record, k, batch, n) = After(record, k, batch, m)
<1> DEFINE T == {i \in Nat : m + i <= n =>
                   After(record, k, batch, m + i) = After(record, k, batch, m)}
<1>1. 0 \in T
  OBVIOUS
<1>2. ASSUME NEW i \in Nat, i \in T PROVE i + 1 \in T
  <2>1. CASE m + (i + 1) <= n
    <3>1. /\ m + i \in Nat /\ (m + i) + 1 \in (m + 1)..n /\ m + (i + 1) = (m + i) + 1
          /\ After(record, k, batch, m + i) = After(record, k, batch, m)
      BY <1>2, <2>1
    <3> QED BY <3>1, AfterNext
  <2> QED BY <2>1
<1>3. n - m \in T
  <2>1. Nat \subseteq T
    <3> HIDE DEF T
    <3> QED BY <1>1, <1>2, NumbersInduct
  <2> QED BY <2>1
<1> QED BY <1>3

\* Nothing is a value, and fields put over a value make one.
LEMMA ValuesMerge ==
  /\ NoRecord \in Record
  /\ \A old, new \in Values : Merged(old, new) \in Values
<1>1. <<>> \in Values
  <2>1. <<>> \in [{} -> Data]
    OBVIOUS
  <2> QED BY <2>1 DEF Values
<1>2. ASSUME NEW old \in Values, NEW new \in Values PROVE Merged(old, new) \in Values
  <2>1. PICK S \in SUBSET Fields : old \in [S -> Data]
    BY DEF Values
  <2>2. PICK T \in SUBSET Fields : new \in [T -> Data]
    BY DEF Values
  <2>3. Merged(old, new) \in [S \cup T -> Data]
    BY <2>1, <2>2 DEF Merged
  <2> QED BY <2>1, <2>2, <2>3 DEF Values
<1> QED BY <1>1, <1>2 DEF NoRecord, Record

\* A patch makes a record of a record, and so does a batch.
LEMMA AppliedType ==
  ASSUME NEW record \in Record, NEW patch \in Patch
  PROVE  Applied(record, patch) \in Record
BY ValuesMerge DEF Applied, Record, Patch

\* A batch makes records of records, patch by patch.
LEMMA AfterType ==
  ASSUME NEW record \in Record, NEW k, NEW batch \in Batches
  PROVE  \A n \in 0..Len(batch) : After(record, k, batch, n) \in Record
<1>1. batch \in Seq(Patch) /\ \A i \in DOMAIN batch : batch[i] \in Patch
  BY BatchAssumption
<1> QED BY <1>1, AppliedType, AfterKeeps

\* An event of the audit table.
EventType == [key: Keys, operation: Operations, value: Values, prior: Nat, new: Nat]

\* A batch has one event for each patch, well typed.
LEMMA EventsOfType ==
  ASSUME NEW read \in [Keys -> Record], NEW batch \in Batches
  PROVE  /\ EventsOf(read, batch) \in Seq(EventType)
         /\ Len(EventsOf(read, batch)) = Len(batch)
<1>1. batch \in Seq(Patch) /\ Len(batch) \in Nat
  BY BatchAssumption
<1>2. ASSUME NEW i \in 1..Len(batch) PROVE EventOf(read, batch, i) \in EventType
  <2>1. batch[i] \in Patch
    BY <1>1
  <2>2. i - 1 \in 0..Len(batch) /\ i \in 0..Len(batch) /\ read[batch[i].key] \in Record
    BY <2>1 DEF Patch
  <2>3. /\ After(read[batch[i].key], batch[i].key, batch, i - 1) \in Record
        /\ After(read[batch[i].key], batch[i].key, batch, i) \in Record
    BY <2>2, AfterType
  <2> QED BY <2>1, <2>3 DEF EventOf, EventType, Patch, Record
<1> DEFINE all == EventsOf(read, batch)
<1>3. all \in [1..Len(batch) -> EventType]
  BY <1>2 DEF EventsOf
<1> HIDE DEF all
<1>4. all \in Seq(EventType) /\ Len(all) = Len(batch)
  BY <1>1, <1>3
<1> QED BY <1>4 DEF all

\* The table stays one of records.
LEMMA UpdatedType ==
  ASSUME NEW table \in [Keys -> Record], NEW read \in [Keys -> Record], NEW batch \in Batches
  PROVE  Updated(table, read, batch) \in [Keys -> Record]
<1>1. Len(batch) \in Nat
  BY BatchAssumption
<1>2. \A k \in Keys : Patched(read[k], k, batch) \in Record
  BY <1>1, AfterType DEF Patched
<1> QED BY <1>2 DEF Updated

-----------------------------------------------------------------------------
(* The types of the store, with events as the sequence they are. *)
StoreTypeOK == TypeOK /\ events \in Seq(EventType)

\* The empty store is well typed, and every step keeps it so.
LEMMA StoreTypeInit == ASSUME StoreInit PROVE StoreTypeOK
BY ValuesMerge DEF StoreInit, MapInit, StoreTypeOK, TypeOK, NothingSeen

\* Every step keeps the store well typed.
LEMMA StoreTypeStep == ASSUME StoreTypeOK, [StoreNext]_storeVars PROVE StoreTypeOK'
<1>0. /\ records \in [Keys -> Record] /\ events \in Seq(EventType)
      /\ pending \in [Writers -> Batches \cup {<<>>}] /\ seen \in [Writers -> [Keys -> Record]]
  BY DEF StoreTypeOK, TypeOK
<1> DEFINE Typed == /\ records' \in [Keys -> Record] /\ events' \in Seq(EventType)
                    /\ pending' \in [Writers -> Batches \cup {<<>>}]
                    /\ seen' \in [Writers -> [Keys -> Record]]
<1>1. ASSUME NEW w \in Writers, NEW batch \in Batches, ReadAll(w, batch)
      PROVE  Typed
  BY <1>0, <1>1 DEF ReadAll
<1>2. ASSUME NEW w \in Writers, Finished(w)
      PROVE  /\ pending' \in [Writers -> Batches \cup {<<>>}]
             /\ seen' \in [Writers -> [Keys -> Record]]
  BY <1>0, <1>2, ValuesMerge DEF Finished, NothingSeen
<1>3. ASSUME NEW w \in Writers, Commit(w)
      PROVE  Typed
  <2>1. pending[w] \in Batches /\ seen[w] \in [Keys -> Record]
    BY <1>0, <1>3 DEF Commit, Idle
  <2>2. /\ Updated(records, seen[w], pending[w]) \in [Keys -> Record]
        /\ EventsOf(seen[w], pending[w]) \in Seq(EventType)
    BY <1>0, <2>1, UpdatedType, EventsOfType
  <2>3. records' \in [Keys -> Record] /\ events' \in Seq(EventType)
    BY <1>0, <1>3, <2>2 DEF Commit, Written
  <2> QED BY <1>2, <1>3, <2>3 DEF Commit
<1>4. ASSUME NEW w \in Writers, Abort(w)
      PROVE  Typed
  BY <1>0, <1>2, <1>4 DEF Abort
<1>5. Typed
  <2>1. CASE UNCHANGED storeVars
    BY <1>0, <2>1 DEF storeVars
  <2> HIDE DEF Typed
  <2> QED BY <1>1, <1>3, <1>4, <2>1 DEF StoreNext
<1>6. \A i \in DOMAIN events' : events'[i] \in EventType
  BY <1>5
<1> QED BY <1>5, <1>6 DEF StoreTypeOK, TypeOK, EventType

-----------------------------------------------------------------------------
\* The greatest number of a set that has one.
LEMMA MaxIs ==
  ASSUME NEW S, S \subseteq Int, NEW x \in S, \A y \in S : x >= y
  PROVE  Max(S) = x
<1>1. \A y \in S : (\A z \in S : y >= z) => y = x
  OBVIOUS
<1> QED BY <1>1 DEF Max

\* The positions of a list at which a key occurs.
At(list, k) == {i \in DOMAIN list : list[i].key = k}

\* The last of them is the greatest.
LEMMA LastAt ==
  ASSUME NEW S, NEW list \in Seq(S), NEW k, At(list, k) # {}
  PROVE  /\ Max(At(list, k)) \in At(list, k)
         /\ \A i \in At(list, k) : i <= Max(At(list, k))
<1>1. Len(list) \in Nat /\ At(list, k) \subseteq 0..Len(list) /\ At(list, k) \subseteq Int
  BY DEF At
<1>2. PICK x \in At(list, k) : \A y \in At(list, k) : x >= y
  BY <1>1, GreatestNumber
<1>3. Max(At(list, k)) = x
  BY <1>1, <1>2, MaxIs
<1> QED BY <1>1, <1>2, <1>3

\* RecordsExplained of one key, for a table and a list of events.
Explained(k, table, list) ==
  IF At(list, k) = {}
  THEN table[k] = NoRecord
  ELSE LET event == list[Max(At(list, k))] IN
       /\ table[k].version = event.new
       /\ event.operation # "delete" =>
            \A f \in DOMAIN event.value : table[k].value[f] = event.value[f]

\* RecordsExplained is that for every key.
LEMMA ExplainedState ==
  /\ RecordsExplained <=> \A k \in Keys : Explained(k, records, events)
  /\ RecordsExplained' <=> \A k \in Keys : Explained(k, records', events')
BY DEF RecordsExplained, Explained, EventsFor, At

\* The entries of two lists put one after the other.
LEMMA Longer ==
  ASSUME NEW S, NEW list \in Seq(S), NEW more \in Seq(S)
  PROVE  /\ DOMAIN (list \o more) = 1..(Len(list) + Len(more))
         /\ \A i \in 1..Len(list) : (list \o more)[i] = list[i]
         /\ \A i \in 1..Len(more) : (list \o more)[Len(list) + i] = more[i]
         /\ \A i \in DOMAIN (list \o more) :
              i \in 1..Len(list) \/ \E j \in 1..Len(more) : i = Len(list) + j
<1>1. ASSUME NEW i \in DOMAIN (list \o more), i \notin 1..Len(list)
      PROVE  \E j \in 1..Len(more) : i = Len(list) + j
  <2>1. i - Len(list) \in 1..Len(more) /\ i = Len(list) + (i - Len(list))
    BY <1>1
  <2> QED BY <2>1
<1> QED BY <1>1

\* A key that a batch does not touch keeps its record and its last event.
LEMMA UntouchedExplained ==
  ASSUME NEW S, NEW list \in Seq(S), NEW more \in Seq(S), NEW k,
         NEW table, NEW new, new[k] = table[k], Explained(k, table, list), At(more, k) = {}
  PROVE  Explained(k, new, list \o more)
<1>1. At(list \o more, k) = At(list, k)
  <2>1. \A j \in 1..Len(more) : more[j].key # k
    BY DEF At
  <2>2. DOMAIN list = 1..Len(list) /\ Len(list) \in Nat /\ Len(more) \in Nat
    OBVIOUS
  <2> DEFINE all == list \o more
  <2>3. /\ DOMAIN all = 1..(Len(list) + Len(more))
        /\ \A i \in 1..Len(list) : all[i] = list[i]
        /\ \A i \in 1..Len(more) : all[Len(list) + i] = more[i]
        /\ \A i \in DOMAIN all : i \in 1..Len(list) \/ \E j \in 1..Len(more) : i = Len(list) + j
    BY Longer
  <2> HIDE DEF all
  <2>4. At(all, k) = At(list, k)
    BY <2>1, <2>2, <2>3 DEF At
  <2> QED BY <2>4 DEF all
<1>2. At(list, k) # {} => (list \o more)[Max(At(list, k))] = list[Max(At(list, k))]
  <2>1. ASSUME At(list, k) # {} PROVE Max(At(list, k)) \in 1..Len(list)
    <3>1. Max(At(list, k)) \in At(list, k)
      BY <2>1, LastAt
    <3>2. DOMAIN list = 1..Len(list)
      OBVIOUS
    <3> QED BY <3>1, <3>2 DEF At
  <2> QED BY <2>1, Longer
<1> QED BY <1>1, <1>2 DEF Explained

\* An event tells its patch and the version that the patch left.
LEMMA EventIs ==
  ASSUME NEW read, NEW batch, NEW i \in 1..Len(batch)
  PROVE  /\ EventsOf(read, batch)[i].key = batch[i].key
         /\ EventsOf(read, batch)[i].operation = batch[i].operation
         /\ EventsOf(read, batch)[i].value = batch[i].value
         /\ EventsOf(read, batch)[i].new
              = After(read[batch[i].key], batch[i].key, batch, i).version
<1>1. EventsOf(read, batch)[i] = EventOf(read, batch, i)
  BY DEF EventsOf
<1> QED BY <1>1 DEF EventOf

\* The record that a batch leaves is explained by the batch's last patch of its key.
LEMMA WrittenExplained ==
  ASSUME NEW list \in Seq(EventType), NEW read \in [Keys -> Record], NEW batch \in Batches,
         NEW k \in KeysOf(batch), NEW new, new[k] = Patched(read[k], k, batch)
  PROVE  Explained(k, new, list \o EventsOf(read, batch))
<1> DEFINE more == EventsOf(read, batch)
           m == Max(At(batch, k))
<1>1. /\ batch \in Seq(Patch) /\ Len(batch) \in Nat /\ DOMAIN batch = 1..Len(batch)
      /\ \A i \in DOMAIN batch : batch[i] \in Patch
  BY BatchAssumption
<1>2. At(batch, k) # {}
  BY DEF KeysOf, At
<1>3. m \in 1..Len(batch) /\ batch[m].key = k /\ \A i \in At(batch, k) : i <= m
  BY <1>1, <1>2, LastAt DEF At
<1>4. more \in Seq(EventType) /\ Len(more) = Len(batch)
  BY EventsOfType
<1>5. \A i \in 1..Len(batch) :
        /\ more[i].key = batch[i].key /\ more[i].operation = batch[i].operation
        /\ more[i].value = batch[i].value
        /\ more[i].new = After(read[batch[i].key], batch[i].key, batch, i).version
  BY EventIs
<1> HIDE DEF m, more
<1>6. \A i \in 1..Len(batch) : more[i].key = batch[i].key
  BY <1>5
<1>7. /\ Len(list) + m \in At(list \o more, k)
      /\ (list \o more)[Len(list) + m] = more[m]
      /\ \A i \in At(list \o more, k) : Len(list) + m >= i
  <2> DEFINE all == list \o more
  <2>1. /\ DOMAIN all = 1..(Len(list) + Len(more))
        /\ \A i \in 1..Len(more) : all[Len(list) + i] = more[i]
        /\ \A i \in DOMAIN all : i \in 1..Len(list) \/ \E j \in 1..Len(more) : i = Len(list) + j
    <3>1. list \in Seq(EventType) /\ more \in Seq(EventType)
      BY <1>4
    <3> QED BY <3>1, Longer
  <2> HIDE DEF all
  <2>2. Len(list) \in Nat /\ Len(list) + m \in DOMAIN all /\ all[Len(list) + m] = more[m]
    BY <1>1, <1>3, <1>4, <2>1
  <2>3. ASSUME NEW i \in At(all, k) PROVE Len(list) + m >= i
    <3>1. CASE i \in 1..Len(list)
      BY <1>3, <2>2, <3>1
    <3>2. ASSUME NEW j \in 1..Len(more), i = Len(list) + j PROVE j <= m
      <4>1. more[j].key = k
        BY <2>1, <3>2 DEF At
      <4>2. j \in At(batch, k)
        BY <1>1, <1>4, <1>6, <4>1 DEF At
      <4> QED BY <1>3, <4>2
    <3> QED BY <1>3, <2>1, <2>2, <3>1, <3>2 DEF At
  <2>4. Len(list) + m \in At(all, k)
    BY <1>3, <1>6, <2>2 DEF At
  <2> QED BY <2>2, <2>3, <2>4 DEF all
<1>8. At(list \o more, k) \subseteq Int
  BY <1>4, Longer DEF At
<1>9. Max(At(list \o more, k)) = Len(list) + m
  BY <1>7, <1>8, MaxIs
<1>10. new[k] = After(read[k], k, batch, m)
  <2>1. \A i \in (m + 1)..Len(batch) : batch[i].key # k
    BY <1>1, <1>3 DEF At
  <2> QED BY <1>1, <1>3, <2>1, AfterSame DEF Patched
<1>11. new[k] = Applied(After(read[k], k, batch, m - 1), batch[m])
  <2>1. m - 1 \in Nat /\ (m - 1) + 1 = m
    BY <1>1, <1>3
  <2> QED BY <1>3, <1>10, <2>1, AfterNext
<1>12. more[m].new = new[k].version /\ more[m].operation = batch[m].operation
       /\ more[m].value = batch[m].value
  BY <1>3, <1>5, <1>10
<1>13. batch[m].operation # "delete" =>
         \A f \in DOMAIN batch[m].value : new[k].value[f] = batch[m].value[f]
  BY <1>11 DEF Applied, Merged
<1>14. Explained(k, new, list \o more)
  BY <1>7, <1>9, <1>12, <1>13 DEF Explained
<1> QED BY <1>14 DEF more

\* Every step of the store keeps records explained.
LEMMA ExplainedStep ==
  ASSUME StoreTypeOK, RecordsExplained, [StoreNext]_storeVars
  PROVE  RecordsExplained'
<1>1. ASSUME UNCHANGED <<records, events>> PROVE RecordsExplained'
  BY <1>1, ExplainedState
<1>2. ASSUME NEW w \in Writers, Commit(w) PROVE RecordsExplained'
  <2>1. /\ pending[w] \in Batches /\ seen[w] \in [Keys -> Record]
        /\ records \in [Keys -> Record] /\ events \in Seq(EventType)
    BY <1>2 DEF StoreTypeOK, TypeOK, Commit, Idle
  <2>2. /\ records' = Updated(records, seen[w], pending[w])
        /\ events' = events \o EventsOf(seen[w], pending[w])
    BY <1>2 DEF Commit, Written
  <2>3. /\ EventsOf(seen[w], pending[w]) \in Seq(EventType)
        /\ Len(EventsOf(seen[w], pending[w])) = Len(pending[w])
    BY <2>1, EventsOfType
  <2>4. ASSUME NEW k \in Keys PROVE Explained(k, records', events')
    <3>1. CASE k \in KeysOf(pending[w])
      <4>1. records'[k] = Patched(seen[w][k], k, pending[w])
        BY <2>2, <3>1 DEF Updated
      <4> QED BY <2>1, <2>2, <3>1, <4>1, WrittenExplained
    <3>2. CASE k \notin KeysOf(pending[w])
      <4>1. records'[k] = records[k]
        BY <2>2, <3>2 DEF Updated
      <4>2. At(EventsOf(seen[w], pending[w]), k) = {}
        <5>1. pending[w] \in Seq(Patch)
          BY <2>1, BatchAssumption
        <5>2. ASSUME NEW i \in 1..Len(pending[w])
              PROVE  EventsOf(seen[w], pending[w])[i].key # k
          BY <3>2, <5>1, EventIs DEF KeysOf
        <5> QED BY <2>3, <5>1, <5>2 DEF At
      <4> QED
        BY <2>1, <2>2, <2>3, <4>1, <4>2, UntouchedExplained, ExplainedState
    <3> QED BY <3>1, <3>2
  <2> QED BY <2>4, ExplainedState
<1> QED BY <1>1, <1>2 DEF StoreNext, ReadAll, Abort, storeVars

\* However the writers' reads and transactions interleave, the tables are well
\* typed and the last audit event of a key describes its record.
THEOREM RecordsAreExplained == StoreSpec => [](TypeOK /\ RecordsExplained)
<1>1. StoreInit => StoreTypeOK /\ RecordsExplained
  <2>1. StoreInit => RecordsExplained
    BY DEF StoreInit, MapInit, RecordsExplained, EventsFor
  <2> QED BY <2>1, StoreTypeInit
<1>2. StoreTypeOK /\ RecordsExplained /\ [StoreNext]_storeVars => (StoreTypeOK /\ RecordsExplained)'
  BY StoreTypeStep, ExplainedStep
<1>3. StoreTypeOK => TypeOK
  BY DEF StoreTypeOK
<1> QED BY <1>1, <1>2, <1>3, PTL DEF StoreSpec

-----------------------------------------------------------------------------
(* The trail as a whole, when no two calls that share a key overlap. *)

\* Undeleted, Lasting and TrailReplays for the first n entries of a list.
Within(list, n, k) == {i \in 1..n : list[i].key = k}
UndeletedTo(list, n, k) ==
  {i \in Within(list, n, k) : \A j \in Within(list, n, k) : j >= i => list[j].operation # "delete"}
LastingTo(list, n, k) ==
  {i \in UndeletedTo(list, n, k) : \A j \in Within(list, n, k) : j > i => list[j].operation = "merge"}
Latest(list, n, k, i, f) ==
  \A j \in LastingTo(list, n, k) : j > i => f \notin DOMAIN list[j].value

Replayed(record, list, n, k) ==
  /\ record.version = Cardinality(UndeletedTo(list, n, k))
  /\ \A f : f \in DOMAIN record.value <=> \E i \in LastingTo(list, n, k) : f \in DOMAIN list[i].value
  /\ \A i \in LastingTo(list, n, k) : \A f \in DOMAIN list[i].value :
       Latest(list, n, k, i, f) => record.value[f] = list[i].value[f]

\* Lists that begin alike replay alike.
LEMMA ReplayedAlike ==
  ASSUME NEW list, NEW more, NEW n \in Nat, \A i \in 1..n : more[i] = list[i],
         NEW k, NEW record, Replayed(record, list, n, k)
  PROVE  Replayed(record, more, n, k)
<1>1. Within(more, n, k) = Within(list, n, k)
  BY DEF Within
<1>2. \A i \in Within(list, n, k) : more[i] = list[i]
  BY DEF Within
<1>3. UndeletedTo(more, n, k) = UndeletedTo(list, n, k)
  BY <1>1, <1>2 DEF UndeletedTo
<1>4. LastingTo(more, n, k) = LastingTo(list, n, k)
  BY <1>1, <1>2, <1>3 DEF LastingTo, UndeletedTo
<1>5. \A i \in LastingTo(list, n, k) : more[i] = list[i]
  BY <1>2 DEF LastingTo, UndeletedTo
<1> QED BY <1>3, <1>4, <1>5 DEF Replayed, Latest

\* An entry of another key changes nothing.
LEMMA ReplayOther ==
  ASSUME NEW list, NEW n \in Nat, NEW k, list[n + 1].key # k,
         NEW record, Replayed(record, list, n, k)
  PROVE  Replayed(record, list, n + 1, k)
<1>1. Within(list, n + 1, k) = Within(list, n, k)
  BY DEF Within
<1>2. /\ UndeletedTo(list, n + 1, k) = UndeletedTo(list, n, k)
      /\ LastingTo(list, n + 1, k) = LastingTo(list, n, k)
  BY <1>1 DEF LastingTo, UndeletedTo
<1> QED BY <1>2 DEF Replayed, Latest

\* One more entry of the key ends all that was there with a delete, replaces the values
\* with a set, and lays its own over them with a merge.
OneMore(list, n, k, operation) ==
  /\ UndeletedTo(list, n, k) \subseteq 1..n
  /\ LastingTo(list, n, k) \subseteq UndeletedTo(list, n, k)
  /\ operation = "delete" => UndeletedTo(list, n + 1, k) = {} /\ LastingTo(list, n + 1, k) = {}
  /\ operation # "delete" =>
       UndeletedTo(list, n + 1, k) = UndeletedTo(list, n, k) \cup {n + 1}
  /\ operation = "set" => LastingTo(list, n + 1, k) = {n + 1}
  /\ operation = "merge" => LastingTo(list, n + 1, k) = LastingTo(list, n, k) \cup {n + 1}

\* So the three operations work on what is left of a list.
LEMMA ReplayNext ==
  ASSUME NEW list, NEW n \in Nat, NEW k, list[n + 1].key = k,
         NEW operation \in Operations, list[n + 1].operation = operation
  PROVE  OneMore(list, n, k, operation)
<1> DEFINE at == Within(list, n, k)
           at2 == Within(list, n + 1, k)
           op == operation
           und2 == UndeletedTo(list, n + 1, k)
           lasting2 == LastingTo(list, n + 1, k)
<1>1. at2 = at \cup {n + 1} /\ at \subseteq 1..n
  BY DEF Within
<1>2. \A i \in at : i \in Nat /\ i <= n /\ ~(i > n + 1) /\ ~(i >= n + 1) /\ n + 1 > i /\ n + 1 >= i
  BY <1>1
<1>3. UndeletedTo(list, n, k) \subseteq 1..n /\ LastingTo(list, n, k) \subseteq UndeletedTo(list, n, k)
  BY <1>1 DEF UndeletedTo, LastingTo
<1> HIDE DEF at, at2
<1>4. UndeletedTo(list, n, k) = {i \in at : \A j \in at : j >= i => list[j].operation # "delete"}
  BY DEF UndeletedTo, at
<1>5. und2 = {i \in at2 : \A j \in at2 : j >= i => list[j].operation # "delete"}
  BY DEF UndeletedTo, at2
<1>6. LastingTo(list, n, k)
        = {i \in UndeletedTo(list, n, k) : \A j \in at : j > i => list[j].operation = "merge"}
  BY DEF LastingTo, at
<1>7. lasting2 = {i \in und2 : \A j \in at2 : j > i => list[j].operation = "merge"}
  BY DEF LastingTo, at2
<1> HIDE DEF und2, lasting2, op
<1>8. op = "delete" => und2 = {} /\ lasting2 = {}
  <2>1. \A i \in at2 : n + 1 >= i
    BY <1>1, <1>2
  <2>2. n + 1 \in at2
    BY <1>1
  <2>3. op = "delete" => und2 = {}
    BY <1>5, <2>1, <2>2 DEF op
  <2>4. lasting2 \subseteq und2
    BY <1>7
  <2> QED BY <2>3, <2>4
<1>9. op # "delete" => und2 = UndeletedTo(list, n, k) \cup {n + 1}
  BY <1>1, <1>2, <1>4, <1>5 DEF op
<1>10. ASSUME op # "delete"
       PROVE  /\ n + 1 \in lasting2
              /\ \A i \in at : i \in lasting2 <=> /\ i \in UndeletedTo(list, n, k) /\ op = "merge"
                                                /\ \A j \in at : j > i => list[j].operation = "merge"
  <2>1. und2 = UndeletedTo(list, n, k) \cup {n + 1}
    BY <1>9, <1>10
  <2>2. \A j \in at2 : ~(j > n + 1)
    BY <1>1, <1>2
  <2>3. n + 1 \in lasting2
    BY <1>7, <2>1, <2>2
  <2> SUFFICES ASSUME NEW i \in at
               PROVE  i \in lasting2 <=> /\ i \in UndeletedTo(list, n, k) /\ op = "merge"
                                        /\ \A j \in at : j > i => list[j].operation = "merge"
    BY <2>3
  <2>4. i # n + 1 /\ n + 1 > i
    BY <1>2
  <2>5. i \in lasting2 <=> /\ i \in UndeletedTo(list, n, k)
                          /\ \A j \in at2 : j > i => list[j].operation = "merge"
    BY <1>7, <2>1, <2>4
  <2> QED BY <1>1, <2>4, <2>5 DEF op
<1>11. lasting2 \subseteq at2 /\ UndeletedTo(list, n, k) \subseteq at
  BY <1>4, <1>5, <1>7
<1>12. op = "set" => lasting2 = {n + 1}
  BY <1>1, <1>10, <1>11
<1>13. op = "merge" => lasting2 = LastingTo(list, n, k) \cup {n + 1}
  BY <1>1, <1>6, <1>10, <1>11
<1> QED BY <1>3, <1>8, <1>9, <1>12, <1>13 DEF und2, lasting2, op, OneMore

\* So a record that replays the entries so far replays one more, patched by it.
LEMMA ReplayPatch ==
  ASSUME NEW list, NEW n \in Nat, NEW k, NEW patch \in Patch, list[n + 1].key = k,
         list[n + 1].operation = patch.operation, list[n + 1].value = patch.value,
         NEW record \in Record, Replayed(record, list, n, k)
  PROVE  Replayed(Applied(record, patch), list, n + 1, k)
<1> DEFINE und == UndeletedTo(list, n, k)
           lasting == LastingTo(list, n, k)
           und2 == UndeletedTo(list, n + 1, k)
           lasting2 == LastingTo(list, n + 1, k)
           new == Applied(record, patch)
<1>1. /\ und \subseteq 1..n /\ lasting \subseteq und
      /\ patch.operation = "delete" => und2 = {} /\ lasting2 = {}
      /\ patch.operation # "delete" => und2 = und \cup {n + 1}
      /\ patch.operation = "set" => lasting2 = {n + 1}
      /\ patch.operation = "merge" => lasting2 = lasting \cup {n + 1}
  <2>1. patch.operation \in Operations
    BY DEF Patch
  <2>2. OneMore(list, n, k, patch.operation)
    BY <2>1, ReplayNext
  <2> QED BY <2>2 DEF OneMore
<1>2. /\ record.version = Cardinality(und)
      /\ \A f : f \in DOMAIN record.value <=> \E i \in lasting : f \in DOMAIN list[i].value
      /\ \A i \in lasting : \A f \in DOMAIN list[i].value :
           Latest(list, n, k, i, f) => record.value[f] = list[i].value[f]
  BY DEF Replayed
<1>3. n + 1 \notin und /\ n + 1 \notin lasting
  BY <1>1
<1>4. patch.operation # "delete" => Cardinality(und2) = Cardinality(und) + 1
  <2>1. IsFiniteSet(und)
    <3>1. IsFiniteSet(1..n)
      BY FS_Interval
    <3> HIDE DEF und
    <3> QED BY <1>1, <3>1, FS_Subset
  <2> HIDE DEF und, und2
  <2> QED BY <1>1, <1>3, <2>1, FS_AddElement
<1>5. \A i \in lasting2 : \A f : Latest(list, n + 1, k, i, f)
                             <=> \A j \in lasting2 : j > i => f \notin DOMAIN list[j].value
  BY DEF Latest
<1>6. \A i \in lasting : \A f : Latest(list, n, k, i, f)
                            <=> \A j \in lasting : j > i => f \notin DOMAIN list[j].value
  BY DEF Latest
<1>7. Replayed(new, list, n + 1, k) <=>
        /\ new.version = Cardinality(und2)
        /\ \A f : f \in DOMAIN new.value <=> \E i \in lasting2 : f \in DOMAIN list[i].value
        /\ \A i \in lasting2 : \A f \in DOMAIN list[i].value :
             Latest(list, n + 1, k, i, f) => new.value[f] = list[i].value[f]
  BY DEF Replayed
<1>8. \A i \in lasting : i < n + 1
  BY <1>1
<1>9. record.value = [f \in DOMAIN record.value |-> record.value[f]]
  BY DEF Record, Values
<1> HIDE DEF und, lasting, und2, lasting2
<1>10. CASE patch.operation = "delete"
  <2>1. new = [value |-> <<>>, version |-> 0] /\ DOMAIN <<>> = {}
    BY <1>10 DEF Applied, NoRecord
  <2> HIDE DEF new
  <2>2. new.version = Cardinality(und2)
    BY <1>1, <1>10, <2>1, FS_EmptySet
  <2>3. lasting2 = {}
    BY <1>1, <1>10
  <2>4. Replayed(new, list, n + 1, k)
    BY <1>7, <2>1, <2>2, <2>3
  <2> QED BY <2>4 DEF new
<1>11. CASE patch.operation = "set"
  <2>1. new.value = patch.value /\ new.version = record.version + 1
    BY <1>11 DEF Applied
  <2> HIDE DEF new
  <2>2. new.version = Cardinality(und2) /\ lasting2 = {n + 1}
    BY <1>1, <1>2, <1>4, <1>11, <2>1
  <2>3. \A f : f \in DOMAIN new.value <=> \E i \in lasting2 : f \in DOMAIN list[i].value
    BY <2>1, <2>2
  <2>4. \A i \in lasting2 : \A f \in DOMAIN list[i].value : new.value[f] = list[i].value[f]
    BY <2>1, <2>2
  <2>5. Replayed(new, list, n + 1, k)
    BY <1>7, <2>2, <2>3, <2>4
  <2> QED BY <2>5 DEF new
<1>12. CASE patch.operation = "merge"
  <2>1. /\ new.version = record.version + 1
        /\ new.value = [f \in DOMAIN record.value \cup DOMAIN patch.value |->
                          IF f \in DOMAIN patch.value THEN patch.value[f] ELSE record.value[f]]
    BY <1>12 DEF Applied, Merged
  <2> HIDE DEF new
  <2>2. new.version = Cardinality(und2) /\ lasting2 = lasting \cup {n + 1}
    BY <1>1, <1>2, <1>4, <1>12, <2>1
  <2>3. \A f : f \in DOMAIN new.value <=> \E i \in lasting2 : f \in DOMAIN list[i].value
    <3>1. \A f : f \in DOMAIN new.value <=> f \in DOMAIN record.value \/ f \in DOMAIN patch.value
      BY <2>1
    <3> QED BY <1>2, <2>2, <3>1
  <2>4. ASSUME NEW i \in lasting2, NEW f \in DOMAIN list[i].value, Latest(list, n + 1, k, i, f)
        PROVE  new.value[f] = list[i].value[f]
    <3>1. f \in DOMAIN new.value
      BY <2>3
    <3>2. CASE i = n + 1
      BY <2>1, <3>1, <3>2
    <3>3. CASE i # n + 1
      <4>1. i \in lasting /\ n + 1 > i
        BY <1>8, <2>2, <3>3
      <4>2. f \notin DOMAIN patch.value
        BY <1>5, <2>2, <2>4, <4>1
      <4>3. Latest(list, n, k, i, f)
        BY <1>5, <1>6, <2>2, <2>4, <4>1
      <4> QED BY <1>2, <2>1, <2>4, <3>1, <4>1, <4>2, <4>3
    <3> QED BY <3>2, <3>3
  <2>5. Replayed(new, list, n + 1, k)
    BY <1>7, <2>2, <2>3, <2>4
  <2> QED BY <2>5 DEF new
<1> QED BY <1>10, <1>11, <1>12 DEF Patch, Operations

\* A batch writes what its events, appended to the list, add to the trail.
LEMMA ReplayBatch ==
  ASSUME NEW table \in [Keys -> Record], NEW batch \in Batches, NEW list \in Seq(EventType),
         NEW k \in Keys, Replayed(table[k], list, Len(list), k)
  PROVE  Replayed(Patched(table[k], k, batch), list \o EventsOf(table, batch),
                  Len(list) + Len(batch), k)
<1> DEFINE more == EventsOf(table, batch)
           all == list \o more
           T == {i \in Nat : i <= Len(batch) =>
                   Replayed(After(table[k], k, batch, i), all, Len(list) + i, k)}
<1>1. Len(batch) \in Nat /\ Len(list) \in Nat /\ \A i \in 1..Len(batch) : batch[i] \in Patch
  <2>1. batch \in Seq(Patch)
    BY BatchAssumption
  <2> QED BY <2>1
<1>2. more \in Seq(EventType) /\ Len(more) = Len(batch)
  BY EventsOfType
<1>3. /\ \A i \in 1..Len(list) : all[i] = list[i]
      /\ \A i \in 1..Len(batch) : all[Len(list) + i] = more[i]
  <2> HIDE DEF more
  <2> QED BY <1>2, Longer
<1>4. \A i \in 1..Len(batch) :
        /\ more[i].key = batch[i].key /\ more[i].operation = batch[i].operation
        /\ more[i].value = batch[i].value
  BY EventIs
<1>5. \A i \in 0..Len(batch) : After(table[k], k, batch, i) \in Record
  BY AfterType
<1> HIDE DEF more, all
<1>6. 0 \in T
  <2>1. After(table[k], k, batch, 0) = table[k] /\ Len(list) + 0 = Len(list)
    BY <1>1, AfterZero
  <2>2. Replayed(table[k], all, Len(list), k)
    BY <1>1, <1>3, ReplayedAlike
  <2> QED BY <2>1, <2>2
<1>7. ASSUME NEW i \in Nat, i \in T PROVE i + 1 \in T
  <2> SUFFICES ASSUME i + 1 <= Len(batch)
               PROVE  Replayed(After(table[k], k, batch, i + 1), all, Len(list) + (i + 1), k)
    OBVIOUS
  <2> DEFINE n == Len(list) + i
             record == After(table[k], k, batch, i)
             patch == batch[i + 1]
  <2>1. i <= Len(batch) /\ i + 1 \in 1..Len(batch) /\ i \in 0..Len(batch)
    BY <1>1
  <2>2. n \in Nat /\ Len(list) + (i + 1) = n + 1
    BY <1>1
  <2>3. Replayed(record, all, n, k) /\ record \in Record /\ patch \in Patch
    BY <1>1, <1>5, <1>7, <2>1
  <2>4. /\ all[n + 1].key = patch.key /\ all[n + 1].operation = patch.operation
        /\ all[n + 1].value = patch.value
    BY <1>3, <1>4, <2>1, <2>2
  <2>5. After(table[k], k, batch, i + 1) = IF patch.key = k THEN Applied(record, patch) ELSE record
    BY AfterNext
  <2> HIDE DEF n, record, patch
  <2>6. Replayed(IF patch.key = k THEN Applied(record, patch) ELSE record, all, n + 1, k)
    <3>1. CASE patch.key = k
      BY <2>2, <2>3, <2>4, <3>1, ReplayPatch
    <3>2. CASE patch.key # k
      BY <2>2, <2>3, <2>4, <3>2, ReplayOther
    <3> QED BY <3>1, <3>2
  <2> QED BY <2>2, <2>5, <2>6
<1>8. Nat \subseteq T
  <2> HIDE DEF T
  <2> QED BY <1>6, <1>7, NumbersInduct
<1> QED BY <1>1, <1>8 DEF Patched, all, more

\* TrailReplays for a table and a list of events.
Trail(table, list) == \A k \in Keys : Replayed(table[k], list, Len(list), k)

\* TrailReplays is that for the tables of the store.
LEMMA TrailState ==
  ASSUME events \in Seq(EventType), Trail(records, events)
  PROVE  TrailReplays
<1> SUFFICES ASSUME NEW k \in Keys
             PROVE  /\ records[k].version = Cardinality(Undeleted(k))
                    /\ DOMAIN records[k].value = UNION {DOMAIN events[i].value : i \in Lasting(k)}
                    /\ \A i \in Lasting(k) : \A f \in DOMAIN events[i].value :
                         (\A j \in Lasting(k) : j > i => f \notin DOMAIN events[j].value)
                         => records[k].value[f] = events[i].value[f]
  BY DEF TrailReplays
<1>1. EventsFor(k) = Within(events, Len(events), k)
  BY DEF EventsFor, Within
<1>2. Undeleted(k) = UndeletedTo(events, Len(events), k)
  BY <1>1 DEF Undeleted, UndeletedTo
<1>3. Lasting(k) = LastingTo(events, Len(events), k)
  BY <1>1, <1>2 DEF Lasting, LastingTo
<1>4. Replayed(records[k], events, Len(events), k)
  BY DEF Trail
<1>5. /\ records[k].version = Cardinality(Undeleted(k))
      /\ \A f : f \in DOMAIN records[k].value <=> \E i \in Lasting(k) : f \in DOMAIN events[i].value
      /\ \A i \in Lasting(k) : \A f \in DOMAIN events[i].value :
           (\A j \in Lasting(k) : j > i => f \notin DOMAIN events[j].value)
           => records[k].value[f] = events[i].value[f]
  BY <1>2, <1>3, <1>4 DEF Replayed, Latest
<1>6. DOMAIN records[k].value = UNION {DOMAIN events[i].value : i \in Lasting(k)}
  <2> DEFINE D == DOMAIN records[k].value
             L == Lasting(k)
  <2>1. \A f : f \in D <=> \E i \in L : f \in DOMAIN events[i].value
    BY <1>5
  <2> HIDE DEF D, L
  <2>2. D = UNION {DOMAIN events[i].value : i \in L}
    BY <2>1
  <2> QED BY <2>2 DEF D, L
<1> QED BY <1>5, <1>6

\* The tables of the map, well typed, and the trail that gives the records.
MapInv ==
  /\ records \in [Keys -> Record]
  /\ events \in Seq(EventType)
  /\ Trail(records, events)

\* The empty trail gives the empty map, ...
LEMMA MapInvInit == ASSUME MapInit PROVE MapInv
<1>1. \A k \in Keys : records[k] = NoRecord /\ events = <<>> /\ Len(events) = 0
  BY DEF MapInit
<1>2. \A k : Within(<<>>, 0, k) = {}
  BY DEF Within
<1>3. \A k : UndeletedTo(<<>>, 0, k) = {} /\ LastingTo(<<>>, 0, k) = {}
  BY <1>2 DEF UndeletedTo, LastingTo
<1>4. NoRecord.version = Cardinality({}) /\ DOMAIN NoRecord.value = {}
  BY FS_EmptySet DEF NoRecord
<1>5. \A k : Replayed(NoRecord, <<>>, 0, k)
  BY <1>3, <1>4 DEF Replayed
<1>6. Trail(records, events)
  BY <1>1, <1>5 DEF Trail
<1> QED BY <1>6, ValuesMerge DEF MapInit, MapInv

\* ... and a batch is applied to all that the trail says.
LEMMA MapInvStep == ASSUME MapInv, [MapNext]_<<records, events>> PROVE MapInv'
<1>1. ASSUME NEW batch \in Batches, Apply(batch) PROVE MapInv'
  <2>1. /\ records \in [Keys -> Record] /\ events \in Seq(EventType)
        /\ records' = Updated(records, records, batch)
        /\ events' = events \o EventsOf(records, batch)
        /\ Len(events') = Len(events) + Len(batch)
    BY <1>1 DEF MapInv, Apply
  <2>2. EventsOf(records, batch) \in Seq(EventType)
    BY <2>1, EventsOfType
  <2>3. records' \in [Keys -> Record] /\ events' \in Seq(EventType)
    <3>1. records' \in [Keys -> Record]
      BY <2>1, UpdatedType
    <3> QED BY <2>1, <2>2, <3>1
  <2>4. ASSUME NEW k \in Keys PROVE Replayed(records'[k], events', Len(events'), k)
    <3>1. Replayed(records[k], events, Len(events), k)
      BY DEF MapInv, Trail
    <3>2. Replayed(Patched(records[k], k, batch), events', Len(events'), k)
      BY <2>1, <3>1, ReplayBatch
    <3>3. records'[k] = Patched(records[k], k, batch)
      <4>1. CASE k \in KeysOf(batch)
        BY <2>1, <4>1 DEF Updated
      <4>2. CASE k \notin KeysOf(batch)
        <5>1. batch \in Seq(Patch) /\ Len(batch) \in Nat
          BY BatchAssumption
        <5>2. \A i \in (0 + 1)..Len(batch) : batch[i].key # k
          BY <4>2, <5>1 DEF KeysOf
        <5>3. After(records[k], k, batch, Len(batch)) = After(records[k], k, batch, 0)
          <6>1. 0 \in Nat /\ 0 <= Len(batch)
            BY <5>1
          <6> QED BY <5>1, <5>2, <6>1, AfterSame
        <5>4. records'[k] = records[k]
          BY <2>1, <4>2 DEF Updated
        <5> QED BY <5>3, <5>4, AfterZero DEF Patched
      <4> QED BY <4>1, <4>2
    <3> QED BY <3>2, <3>3
  <2> QED BY <2>3, <2>4 DEF MapInv, Trail
<1>2. CASE UNCHANGED <<records, events>>
  BY <1>2 DEF MapInv, Trail
<1> QED BY <1>1, <1>2 DEF MapNext

\* The audit trail of a map of versioned records, replayed from its start, gives
\* the records: the version counts what was not deleted, and every field holds what
\* the last event that is not replaced as a whole has put in (apply_patches).
THEOREM MapReplays == MapSpec => []TrailReplays
<1>1. MapInv => TrailReplays
  BY TrailState DEF MapInv
<1> QED BY <1>1, MapInvInit, MapInvStep, PTL DEF MapSpec

\* So does that of the store, which reads before its transaction, as long as no two
\* calls whose batches share a key are under way together.
THEOREM IsolatedReplays == StoreSpec /\ []Isolated => []TrailReplays
BY IsolatedImplementsMap, MapReplays, PTL

-----------------------------------------------------------------------------
(* The cycles. *)


OfSleeve(batch, s) == \A i \in DOMAIN batch : batch[i].key[1] = s

(* What one command has proposed or is about to write is of its own sleeve, and *)
(* it is about to write only while it refreshes or commits.                     *)
OwnKeysOf(w) ==
  /\ \E S : proposed[w] \in Seq(S)
  /\ OfSleeve(proposed[w], SleeveOf[w])
  /\ OfSleeve(pending[w], SleeveOf[w])
  /\ pc[w] \notin {"refresh", "commit"} => pending[w] = <<>>

OwnKeys ==
  /\ DOMAIN pc = Writers
  /\ DOMAIN proposed = Writers
  /\ DOMAIN pending = Writers
  /\ \A w \in Writers : OwnKeysOf(w)

(* Of two commands on the same sleeve, one is idle. *)
Alone ==
  \A v, w \in Writers :
    (v # w /\ SleeveOf[v] = SleeveOf[w]) => (pc[v] = "idle" \/ pc[w] = "idle")

IInv == OwnKeys /\ Alone

-----------------------------------------------------------------------------
(* Lemmas. *)

(* A sequence of patches of one sleeve stays one when another is added, and one *)
(* patch alone is one (MergePatch and Append in the actions that propose).      *)
LEMMA OfSleeveAppend ==
  ASSUME NEW S, NEW batch \in Seq(S), NEW patch, NEW s,
         OfSleeve(batch, s), patch.key[1] = s
  PROVE  /\ \E T : Append(batch, patch) \in Seq(T)
         /\ OfSleeve(Append(batch, patch), s)
<1> DEFINE T == S \cup {patch}
<1>1. batch \in Seq(T)
  OBVIOUS
<1>2. Append(batch, patch) \in Seq(T)
  BY <1>1
<1>3. \A i \in DOMAIN Append(batch, patch) :
        Append(batch, patch)[i] = patch \/ (i \in DOMAIN batch /\ Append(batch, patch)[i] = batch[i])
  BY <1>1
<1>4. QED
  BY <1>2, <1>3 DEF OfSleeve

(* No patches are of any sleeve. *)
LEMMA OfSleeveEmpty == ASSUME NEW s PROVE OfSleeve(<<>>, s) /\ \E S : <<>> \in Seq(S)
<1>1. <<>> \in Seq({})
  OBVIOUS
<1>2. QED
  BY <1>1 DEF OfSleeve

(* One patch is of the sleeve of its key (UniverseBatch). *)
LEMMA OfSleeveOne ==
  ASSUME NEW patch, NEW s, patch.key[1] = s
  PROVE  OfSleeve(<<patch>>, s) /\ \E S : <<patch>> \in Seq(S)
<1>1. <<patch>> \in Seq({patch})
  OBVIOUS
<1>2. \A i \in DOMAIN <<patch>> : <<patch>>[i] = patch
  OBVIOUS
<1>3. OfSleeve(<<patch>>, s)
  BY <1>2 DEF OfSleeve
<1>4. QED
  BY <1>1, <1>3

(* The keys a command makes up are of its sleeve (KeyFor, UniverseKey). *)
LEMMA KeySleeve ==
  ASSUME NEW s, NEW y, NEW field, NEW datum
  PROVE  /\ MergePatch(UniverseKey(s), field, datum).key[1] = s
         /\ MergePatch(StopKey(s, y), field, datum).key[1] = s
BY DEF MergePatch, UniverseKey, StopKey

(* The other commands keep what they have when only w moves. *)
LEMMA OthersKeep ==
  ASSUME NEW w \in Writers, OwnKeys,
         DOMAIN pc' = Writers, DOMAIN proposed' = Writers, DOMAIN pending' = Writers,
         \A v \in Writers \ {w} :
           pc'[v] = pc[v] /\ proposed'[v] = proposed[v] /\ pending'[v] = pending[v],
         OwnKeysOf(w)'
  PROVE  OwnKeys'
<1> SUFFICES ASSUME NEW v \in Writers PROVE OwnKeysOf(v)'
  BY DEF OwnKeys
<1>1. CASE v = w
  BY <1>1
<1>2. CASE v # w
  BY <1>2 DEF OwnKeys, OwnKeysOf
<1>3. QED
  BY <1>1, <1>2

-----------------------------------------------------------------------------
(* The steps. *)

(* At the start no command has proposed anything. *)
LEMMA InitIInv == Init => IInv
<1> SUFFICES ASSUME Init PROVE IInv
  OBVIOUS
<1>1. ASSUME NEW w \in Writers PROVE OwnKeysOf(w)
  <2>1. proposed[w] = <<>> /\ pending[w] = <<>>
    BY DEF Init, StoreInit
  <2>2. QED
    BY <2>1, OfSleeveEmpty DEF OwnKeysOf
<1>2. OwnKeys
  BY <1>1 DEF OwnKeys, Init, StoreInit
<1>3. Alone
  BY DEF Alone, Init
<1>4. QED
  BY <1>2, <1>3 DEF IInv

(* Every step of a command keeps its patches within its sleeve. *)
LEMMA OwnKeysStep ==
  ASSUME OwnKeys, NEW w \in Writers,
         \/ Start(w)
         \/ CheckUniverse(w)
         \/ PersistUniverse(w)
         \/ \E y \in Symbols, price \in Prices : MarkSymbol(w, y, price)
         \/ \E patch \in ModelPatches : ProposePatch(w, patch)
         \/ CommitProposals(w)
         \/ SkipCommit(w)
         \/ Write(w)
         \/ Crash(w)
  PROVE  OwnKeys'
<1> DEFINE s == SleeveOf[w]
<1>0. OwnKeysOf(w) /\ DOMAIN pc = Writers /\ DOMAIN proposed = Writers /\ DOMAIN pending = Writers
  BY DEF OwnKeys
<1>1. CASE Start(w)
  <2>1. pc[w] = "idle" /\ pending[w] = <<>> /\ proposed' = proposed /\ pending' = pending
    BY <1>0, <1>1 DEF Start, OwnKeysOf, storeVars
  <2>2. /\ DOMAIN pc' = Writers
        /\ \A v \in Writers \ {w} : pc'[v] = pc[v]
    BY <1>0, <1>1 DEF Start, Goto
  <2>3. OwnKeysOf(w)'
    BY <1>0, <2>1 DEF OwnKeysOf
  <2>4. QED
    BY <1>0, <2>1, <2>2, <2>3, OthersKeep
<1>2. CASE CheckUniverse(w)
  <2>1. pending[w] = <<>> /\ pending' = pending
    BY <1>0, <1>2 DEF CheckUniverse, storeVars, OwnKeysOf
  <2>2. /\ DOMAIN pc' = Writers
        /\ \A v \in Writers \ {w} : pc'[v] = pc[v]
    BY <1>0, <1>2 DEF CheckUniverse, Goto
  <2>3. \/ proposed' = proposed
        \/ proposed' = [proposed EXCEPT ![w] = <<MergePatch(UniverseKey(s), "selected", day)>>]
    BY <1>2 DEF CheckUniverse, UniverseBatch
  <2>4. (\E S : proposed'[w] \in Seq(S)) /\ OfSleeve(proposed'[w], s)
    <3> DEFINE patch == MergePatch(UniverseKey(s), "selected", day)
    <3>1. patch.key[1] = s
      BY KeySleeve
    <3>2. OfSleeve(<<patch>>, s) /\ \E S : <<patch>> \in Seq(S)
      BY <3>1, OfSleeveOne
    <3>3. CASE proposed' = proposed
      BY <1>0, <3>3 DEF OwnKeysOf
    <3>4. CASE proposed' = [proposed EXCEPT ![w] = <<patch>>]
      <4> HIDE DEF patch
      <4>1. proposed'[w] = <<patch>>
        BY <1>0, <3>4
      <4>2. QED
        BY <3>2, <4>1
    <3>5. QED
      BY <2>3, <3>3, <3>4
  <2>5. DOMAIN proposed' = Writers /\ \A v \in Writers \ {w} : proposed'[v] = proposed[v]
    BY <1>0, <2>3
  <2>6. OwnKeysOf(w)'
    BY <1>0, <2>1, <2>2, <2>4 DEF OwnKeysOf
  <2>7. QED
    BY <1>0, <2>1, <2>2, <2>5, <2>6, OthersKeep
<1>3. CASE PersistUniverse(w)
  <2>1. /\ pc[w] = "refresh" /\ pc' = pc
        /\ pending' = [pending EXCEPT ![w] = proposed[w]]
        /\ proposed' = [proposed EXCEPT ![w] = <<>>]
    BY <1>3 DEF PersistUniverse, ReadAll
  <2>2. OwnKeysOf(w)'
    BY <1>0, <2>1, OfSleeveEmpty DEF OwnKeysOf
  <2>3. QED
    BY <1>0, <2>1, <2>2, OthersKeep
<1>4. CASE \E y \in Symbols, price \in Prices : MarkSymbol(w, y, price)
  <2>1. PICK y \in Symbols, price \in Prices : MarkSymbol(w, y, price)
    BY <1>4
  <2> DEFINE patch == MergePatch(StopKey(s, y), "high", Raised(StopKey(s, y), price))
  <2>2. /\ pc' = pc /\ pending' = pending
        /\ proposed' = [proposed EXCEPT ![w] = Append(proposed[w], patch)]
    BY <2>1 DEF MarkSymbol, KeyFor, storeVars
  <2>3. patch.key[1] = s
    BY KeySleeve
  <2>4. (\E S : proposed'[w] \in Seq(S)) /\ OfSleeve(proposed'[w], s)
    BY <1>0, <2>2, <2>3, OfSleeveAppend DEF OwnKeysOf
  <2>5. OwnKeysOf(w)'
    BY <1>0, <2>2, <2>4 DEF OwnKeysOf
  <2>6. QED
    BY <1>0, <2>2, <2>5, OthersKeep
<1>5. CASE \E patch \in ModelPatches : ProposePatch(w, patch)
  <2>1. PICK patch \in ModelPatches : ProposePatch(w, patch)
    BY <1>5
  <2>2. /\ pc' = pc /\ pending' = pending /\ patch.key[1] = s
        /\ proposed' = [proposed EXCEPT ![w] = Append(proposed[w], patch)]
    BY <2>1 DEF ProposePatch, storeVars
  <2>3. (\E S : proposed'[w] \in Seq(S)) /\ OfSleeve(proposed'[w], s)
    BY <1>0, <2>2, OfSleeveAppend DEF OwnKeysOf
  <2>4. OwnKeysOf(w)'
    BY <1>0, <2>2, <2>3 DEF OwnKeysOf
  <2>5. QED
    BY <1>0, <2>2, <2>4, OthersKeep
<1>6. CASE CommitProposals(w)
  <2>1. /\ pc' = [pc EXCEPT ![w] = "commit"]
        /\ pending' = [pending EXCEPT ![w] = proposed[w]]
        /\ proposed' = [proposed EXCEPT ![w] = <<>>]
    BY <1>6 DEF CommitProposals, ReadAll, Goto
  <2>2. OwnKeysOf(w)'
    BY <1>0, <2>1, OfSleeveEmpty DEF OwnKeysOf
  <2>3. QED
    BY <1>0, <2>1, <2>2, OthersKeep
<1>7. CASE SkipCommit(w)
  <2>1. /\ pc[w] = "mark" /\ pc' = [pc EXCEPT ![w] = "idle"] /\ pending' = pending
        /\ proposed' = [proposed EXCEPT ![w] = <<>>]
    BY <1>7 DEF SkipCommit, Goto, storeVars
  <2>2. OwnKeysOf(w)'
    BY <1>0, <2>1, OfSleeveEmpty DEF OwnKeysOf
  <2>3. QED
    BY <1>0, <2>1, <2>2, OthersKeep
<1>8. CASE Write(w)
  <2>1. /\ pc' = [pc EXCEPT ![w] = IF pc[w] = "refresh" THEN "mark" ELSE "idle"]
        /\ pending' = [pending EXCEPT ![w] = <<>>] /\ proposed' = proposed
    BY <1>8 DEF Write, Commit, Finished, Goto
  <2>2. OwnKeysOf(w)'
    BY <1>0, <2>1, OfSleeveEmpty DEF OwnKeysOf
  <2>3. QED
    BY <1>0, <2>1, <2>2, OthersKeep
<1>9. CASE Crash(w)
  <2>1. /\ pc' = [pc EXCEPT ![w] = "idle"]
        /\ pending' = [pending EXCEPT ![w] = <<>>]
        /\ proposed' = [proposed EXCEPT ![w] = <<>>]
    BY <1>9 DEF Crash, Finished, Goto
  <2>2. OwnKeysOf(w)'
    BY <1>0, <2>1, OfSleeveEmpty DEF OwnKeysOf
  <2>3. QED
    BY <1>0, <2>1, <2>2, OthersKeep
<1>10. QED
  BY <1>1, <1>2, <1>3, <1>4, <1>5, <1>6, <1>7, <1>8, <1>9

(* Start is the only step that leaves idle, and it looks at the others. *)
LEMMA AloneStep ==
  ASSUME Exclusive, OwnKeys, Alone, NEW w \in Writers,
         \A v \in Writers \ {w} : pc'[v] = pc[v],
         Start(w) \/ pc[w] # "idle" \/ pc'[w] = "idle"
  PROVE  Alone'
<1> SUFFICES ASSUME NEW u \in Writers, NEW v \in Writers, u # v, SleeveOf[u] = SleeveOf[v]
             PROVE  pc'[u] = "idle" \/ pc'[v] = "idle"
  BY DEF Alone
<1>1. CASE Start(w)
  BY <1>1 DEF Start, Alone
<1>2. CASE pc[w] # "idle" \/ pc'[w] = "idle"
  BY <1>2 DEF Alone
<1>3. QED
  BY <1>1, <1>2

(* Every step of a command moves its own stage only, and leaves idle by Start. *)
LEMMA StageStep ==
  ASSUME OwnKeys, NEW w \in Writers,
         \/ Start(w)
         \/ CheckUniverse(w)
         \/ PersistUniverse(w)
         \/ \E y \in Symbols, price \in Prices : MarkSymbol(w, y, price)
         \/ \E patch \in ModelPatches : ProposePatch(w, patch)
         \/ CommitProposals(w)
         \/ SkipCommit(w)
         \/ Write(w)
         \/ Crash(w)
  PROVE  /\ \A v \in Writers \ {w} : pc'[v] = pc[v]
         /\ Start(w) \/ pc[w] # "idle" \/ pc'[w] = "idle"
<1>1. \/ pc' = pc
      \/ \E stage : Goto(w, stage)
  BY DEF Start, CheckUniverse, PersistUniverse, MarkSymbol, ProposePatch, CommitProposals,
         SkipCommit, Write, Crash
<1>2. \A v \in Writers \ {w} : pc'[v] = pc[v]
  BY <1>1 DEF Goto, OwnKeys
<1>3. Start(w) \/ pc[w] # "idle" \/ pc'[w] = "idle"
  <2>1. CASE Write(w)
    <3>1. pending[w] # <<>>
      BY <2>1 DEF Write, Commit, Idle
    <3>2. QED
      BY <3>1 DEF OwnKeys, OwnKeysOf
  <2>2. CASE ~Write(w)
    BY <2>2 DEF CheckUniverse, PersistUniverse, MarkSymbol, ProposePatch, CommitProposals,
               SkipCommit, Crash
  <2>3. QED
    BY <2>1, <2>2
<1>4. QED
  BY <1>2, <1>3

(* Every step keeps commands to their sleeves, and alone there. *)
LEMMA NextIInv == ASSUME Exclusive, IInv, [Next]_vars PROVE IInv'
<1>1. CASE UNCHANGED vars
  BY <1>1 DEF vars, IInv, OwnKeys, OwnKeysOf, Alone
<1>2. CASE NextDay
  BY <1>2 DEF NextDay, storeVars, IInv, OwnKeys, OwnKeysOf, Alone
<1>3. ASSUME NEW w \in Writers,
             \/ Start(w)
             \/ CheckUniverse(w)
             \/ PersistUniverse(w)
             \/ \E y \in Symbols, price \in Prices : MarkSymbol(w, y, price)
             \/ \E patch \in ModelPatches : ProposePatch(w, patch)
             \/ CommitProposals(w)
             \/ SkipCommit(w)
             \/ Write(w)
             \/ Crash(w)
      PROVE  IInv'
  <2>1. OwnKeys'
    BY <1>3, OwnKeysStep DEF IInv
  <2>2. /\ \A v \in Writers \ {w} : pc'[v] = pc[v]
        /\ Start(w) \/ pc[w] # "idle" \/ pc'[w] = "idle"
    BY <1>3, StageStep DEF IInv
  <2>3. Alone'
    BY <2>2, AloneStep DEF IInv
  <2>4. QED
    BY <2>1, <2>3 DEF IInv
<1>4. QED
  BY <1>1, <1>2, <1>3 DEF Next

(* Patches of two sleeves have no key in common, and an idle command has none. *)
LEMMA IInvIsolated == ASSUME IInv PROVE Isolated
<1> SUFFICES ASSUME NEW v \in Writers, NEW w \in Writers, v # w
             PROVE  KeysOf(pending[v]) \cap KeysOf(pending[w]) = {}
  BY DEF Isolated
<1>0. OwnKeysOf(v) /\ OwnKeysOf(w)
  BY DEF IInv, OwnKeys
<1>1. CASE SleeveOf[v] = SleeveOf[w]
  <2>1. pending[v] = <<>> \/ pending[w] = <<>>
    BY <1>0, <1>1 DEF IInv, Alone, OwnKeysOf
  <2>2. KeysOf(<<>>) = {}
    BY DEF KeysOf
  <2>3. QED
    BY <2>1, <2>2
<1>2. CASE SleeveOf[v] # SleeveOf[w]
  <2>1. /\ \A k \in KeysOf(pending[v]) : k[1] = SleeveOf[v]
        /\ \A k \in KeysOf(pending[w]) : k[1] = SleeveOf[w]
    BY <1>0 DEF OwnKeysOf, OfSleeve, KeysOf
  <2>2. QED
    BY <1>2, <2>1
<1>3. QED
  BY <1>1, <1>2

(* One command at a time on a sleeve is enough for the isolation the store needs: *)
(* the keys of a command are of its sleeve (RuntimeModelStateView.key), so two    *)
(* calls under way never share one, whatever the commands of other sleeves do.    *)
THEOREM ExclusiveIsolated == ASSUME Exclusive PROVE Spec => []Isolated
<1>1. Init => IInv
  BY InitIInv
<1>2. IInv /\ [Next]_vars => IInv'
  BY NextIInv
<1>3. IInv => Isolated
  BY IInvIsolated
<1>4. QED
  BY <1>1, <1>2, <1>3, PTL DEF Spec

-----------------------------------------------------------------------------
(* The commands use the store as ModelState allows. *)

(* Batches leaves out nothing that a command puts together. *)
Covered == \A w \in Writers : proposed[w] \in Batches \cup {<<>>}

(* Between calls a writer remembers nothing it has read. *)
Blank ==
  /\ pending = [w \in Writers |-> pending[w]]
  /\ seen = [w \in Writers |-> seen[w]]
  /\ \A w \in Writers : Idle(w) => seen[w] = NothingSeen

\* At first no writer has read anything.
LEMMA BlankInit == ASSUME StoreInit PROVE Blank
BY DEF StoreInit, Blank

\* A call that ends forgets what it read.
LEMMA BlankNext == ASSUME Blank, [StoreNext]_storeVars PROVE Blank'
<1>1. CASE UNCHANGED storeVars
  BY <1>1 DEF Blank, storeVars, Idle
<1>2. ASSUME NEW w \in Writers, NEW batch \in Batches, ReadAll(w, batch) PROVE Blank'
  BY <1>2 DEF ReadAll, Blank, Idle
<1>3. ASSUME NEW w \in Writers, Finished(w) PROVE Blank'
  BY <1>3 DEF Finished, Blank, Idle
<1>4. QED
  BY <1>1, <1>2, <1>3 DEF StoreNext, Commit, Abort

(* Every step of a command is a step of the store or none (Crash is an Abort  *)
(* only if a call is under way).                                              *)
LEMMA StepStores == ASSUME Blank, Covered, [Next]_vars PROVE [StoreNext]_storeVars
<1>1. CASE UNCHANGED vars
  BY <1>1 DEF vars, storeVars
<1>2. CASE NextDay
  BY <1>2 DEF NextDay
<1>3. ASSUME NEW w \in Writers, PersistUniverse(w) \/ CommitProposals(w)
      PROVE  StoreNext
  <2>1. ReadAll(w, proposed[w])
    BY <1>3 DEF PersistUniverse, CommitProposals
  <2>2. proposed[w] \in Batches
    BY <2>1 DEF ReadAll, Covered
  <2>3. QED
    BY <2>1, <2>2 DEF StoreNext
<1>4. ASSUME NEW w \in Writers, Write(w) PROVE StoreNext
  BY <1>4 DEF Write, StoreNext
<1>5. ASSUME NEW w \in Writers, Crash(w) PROVE [StoreNext]_storeVars
  <2>1. Finished(w) /\ UNCHANGED <<records, events>>
    BY <1>5 DEF Crash
  <2>2. CASE Idle(w)
    <3>1. pending' = pending /\ seen' = seen
      BY <2>1, <2>2 DEF Finished, Blank, Idle
    <3>2. QED
      BY <2>1, <3>1 DEF storeVars
  <2>3. CASE ~Idle(w)
    BY <2>1, <2>3 DEF Abort, StoreNext
  <2>4. QED
    BY <2>2, <2>3
<1>6. ASSUME NEW w \in Writers,
             \/ Start(w)
             \/ CheckUniverse(w)
             \/ \E y \in Symbols, price \in Prices : MarkSymbol(w, y, price)
             \/ \E patch \in ModelPatches : ProposePatch(w, patch)
             \/ SkipCommit(w)
      PROVE  UNCHANGED storeVars
  BY <1>6 DEF Start, CheckUniverse, MarkSymbol, ProposePatch, SkipCommit
<1>7. QED
  BY <1>1, <1>2, <1>3, <1>4, <1>5, <1>6 DEF Next

\* A cycle commits by the calls of the store and changes nothing else of it.
LEMMA CyclesImplementStore == Spec /\ []Covered => StoreSpec
<1>1. Init => StoreInit /\ Blank
  BY BlankInit DEF Init
<1>2. Blank /\ [StoreNext]_storeVars => Blank'
  BY BlankNext
<1>3. Blank /\ Covered /\ [Next]_vars => [StoreNext]_storeVars
  BY StepStores
<1>4. QED
  BY <1>1, <1>2, <1>3, PTL DEF Spec, StoreSpec

-----------------------------------------------------------------------------
(* The calls of each command, stage by stage. *)

CycleBatches(s) == {batch \in Seq(CyclePatches(s)) : Len(batch) <= MaxProposed}
UniverseBatches(s) == {UniverseBatch(s, d) : d \in 1..Days}

(* What a command has proposed and is about to write, stage by stage. *)
StageOf(w) ==
  LET s == SleeveOf[w] IN
  /\ pc[w] \in Stages
  /\ pc[w] = "refresh" => /\ proposed[w] \in UniverseBatches(s) \cup {<<>>}
                          /\ pending[w] \in UniverseBatches(s) \cup {<<>>}
                          /\ proposed[w] = <<>> \/ pending[w] = <<>>
  /\ pc[w] = "mark" => proposed[w] \in CycleBatches(s) /\ pending[w] = <<>>
  /\ pc[w] = "commit" => proposed[w] = <<>> /\ pending[w] \in CycleBatches(s)
  /\ pc[w] \in {"idle", "universe"} => proposed[w] = <<>> /\ pending[w] = <<>>

HighPriced(record) == "high" \in DOMAIN record.value => record.value["high"] \in Prices

HighsPriced ==
  \A s \in Sleeves, y \in Symbols :
    /\ HighPriced(records[StopKey(s, y)])
    /\ \A w \in Writers : HighPriced(seen[w][StopKey(s, y)])

Staged ==
  /\ pc \in [Writers -> Stages] /\ DOMAIN proposed = Writers
  /\ \A w \in Writers : StageOf(w)
  /\ day \in 1..Days

CallsInv == Staged /\ StoreTypeOK /\ Blank /\ HighsPriced

\* A cycle may have nothing to commit.
LEMMA NoPatches == ASSUME NEW s PROVE <<>> \in CycleBatches(s)
BY CycleAssumption DEF CycleBatches

\* apply_patches takes whatever the commands put together (BatchesSuffice).
LEMMA CycleBatchesTaken ==
  ASSUME NEW s \in Sleeves
  PROVE  /\ CycleBatches(s) \subseteq Batches \cup {<<>>}
         /\ UniverseBatches(s) \subseteq Batches
<1>1. ASSUME NEW batch \in CycleBatches(s), batch # <<>> PROVE batch \in Batches
  <2>1. /\ batch \in Seq(CyclePatches(s)) /\ Len(batch) <= MaxProposed /\ Len(batch) \in Nat
        /\ Len(batch) # 0
    BY <1>1 DEF CycleBatches
  <2>2. Len(batch) \in 1..MaxProposed /\ batch \in [1..Len(batch) -> CyclePatches(s)]
    BY <2>1, CycleAssumption
  <2> QED BY <2>2, BatchesSuffice
<1>2. UniverseBatches(s) \subseteq Batches
  BY BatchesSuffice DEF UniverseBatches
<1> QED BY <1>1, <1>2

\* So a store that takes every batch takes what the commands put together.
LEMMA StagedCovered == ASSUME Staged PROVE Covered
<1> SUFFICES ASSUME NEW w \in Writers PROVE proposed[w] \in Batches \cup {<<>>}
  BY DEF Covered
<1>1. SleeveOf[w] \in Sleeves
  BY CycleAssumption
<1> QED BY <1>1, CycleBatchesTaken DEF Staged, StageOf, Stages

\* A command that does not move stays where it may be.
LEMMA StageKept ==
  ASSUME NEW v \in Writers, StageOf(v), pc'[v] = pc[v], proposed'[v] = proposed[v],
         pending'[v] = pending[v]
  PROVE  StageOf(v)'
BY DEF StageOf

\* A step of one command keeps the others where they may be.
LEMMA OthersStaged ==
  ASSUME Staged, NEW w \in Writers, pc' \in [Writers -> Stages], DOMAIN proposed' = Writers,
         \A v \in Writers \ {w} :
           pc'[v] = pc[v] /\ proposed'[v] = proposed[v] /\ pending'[v] = pending[v],
         StageOf(w)', day' = day
  PROVE  Staged'
<1>1. \A v \in Writers : StageOf(v)'
  BY StageKept DEF Staged
<1> QED BY <1>1 DEF Staged

\* The patches of a cycle are well-formed patches of the sleeve, of which those of
\* stop keys put a price into the field "high", and none is of the universe.
LEMMA CyclePatchIs ==
  ASSUME NEW s \in Sleeves, NEW patch \in CyclePatches(s)
  PROVE  /\ patch \in Patch
         /\ patch.key[1] = s
         /\ \A t, y : patch.key = StopKey(t, y) =>
              \E price \in Prices : patch = MergePatch(StopKey(t, y), "high", price)
         /\ \A t : patch.key # UniverseKey(t)
<1>1. CASE patch \in ModelPatches /\ patch.key[1] = s
  <2>1. patch.key[2] \notin {"trailing_stop", "active_universe"} /\ patch \in Patch
    BY <1>1, CycleAssumption
  <2> QED BY <1>1, <2>1 DEF StopKey, UniverseKey
<1>2. ASSUME NEW y \in Symbols, NEW price \in Prices,
             patch = MergePatch(StopKey(s, y), "high", price)
      PROVE  /\ patch \in Patch
             /\ patch.key = StopKey(s, y)
  <2>1. [f \in {"high"} |-> price] \in Values
    <3>1. [f \in {"high"} |-> price] \in [{"high"} -> Data] /\ {"high"} \in SUBSET Fields
      BY CycleAssumption
    <3> QED BY <3>1 DEF Values
  <2>2. patch = [key |-> StopKey(s, y), operation |-> "merge",
                 value |-> [f \in {"high"} |-> price]]
    BY <1>2 DEF MergePatch
  <2> QED BY <2>1, <2>2, CycleAssumption DEF Patch, Operations
<1>3. CASE \E y \in Symbols, price \in Prices : patch = MergePatch(StopKey(s, y), "high", price)
  <2>1. PICK y \in Symbols, price \in Prices : patch = MergePatch(StopKey(s, y), "high", price)
    BY <1>3
  <2>2. patch \in Patch /\ patch.key = StopKey(s, y)
    BY <1>2, <2>1
  <2> QED BY <2>1, <2>2 DEF StopKey, UniverseKey
<1> QED BY <1>1, <1>3 DEF CyclePatches

\* Every step of a command leads from a stage to the next.
LEMMA StagedByCommand ==
  ASSUME CallsInv, NEW w \in Writers,
         \/ Start(w)
         \/ CheckUniverse(w)
         \/ PersistUniverse(w)
         \/ \E y \in Symbols, price \in Prices : MarkSymbol(w, y, price)
         \/ \E patch \in ModelPatches : ProposePatch(w, patch)
         \/ CommitProposals(w)
         \/ SkipCommit(w)
         \/ Write(w)
         \/ Crash(w)
  PROVE  Staged'
<1> DEFINE s == SleeveOf[w]
<1>0. /\ StageOf(w) /\ s \in Sleeves /\ day \in 1..Days
      /\ pc \in [Writers -> Stages] /\ DOMAIN proposed = Writers /\ DOMAIN pending = Writers
      /\ <<>> \in CycleBatches(s)
  BY CycleAssumption, NoPatches DEF CallsInv, Staged, Blank
<1> HIDE DEF s
<1> DEFINE Moved == /\ pc' \in [Writers -> Stages] /\ DOMAIN proposed' = Writers
                    /\ \A v \in Writers \ {w} :
                         pc'[v] = pc[v] /\ proposed'[v] = proposed[v] /\ pending'[v] = pending[v]
                    /\ day' = day
           Staying == /\ pc'[w] \in Stages
                      /\ pc'[w] = "refresh" => /\ proposed'[w] \in UniverseBatches(s) \cup {<<>>}
                                               /\ pending'[w] \in UniverseBatches(s) \cup {<<>>}
                                               /\ proposed'[w] = <<>> \/ pending'[w] = <<>>
                      /\ pc'[w] = "mark" => proposed'[w] \in CycleBatches(s) /\ pending'[w] = <<>>
                      /\ pc'[w] = "commit" => proposed'[w] = <<>> /\ pending'[w] \in CycleBatches(s)
                      /\ pc'[w] \in {"idle", "universe"} => proposed'[w] = <<>> /\ pending'[w] = <<>>
<1>1. ASSUME Start(w) PROVE Moved /\ Staying
  BY <1>0, <1>1 DEF Start, Goto, storeVars, StageOf, Stages
<1>2. ASSUME CheckUniverse(w) PROVE Moved /\ Staying
  BY <1>0, <1>2 DEF CheckUniverse, Goto, storeVars, StageOf, Stages, UniverseBatches, s
<1>3. ASSUME PersistUniverse(w) PROVE Moved /\ Staying
  BY <1>0, <1>3 DEF PersistUniverse, ReadAll, Idle, StageOf, Stages, s
<1>4. ASSUME NEW patch \in CyclePatches(s), Len(proposed[w]) < MaxProposed,
             proposed' = [proposed EXCEPT ![w] = Append(@, patch)], pc[w] = "mark",
             UNCHANGED <<storeVars, pc, day>>
      PROVE  Moved /\ Staying
  <2>1. proposed[w] \in Seq(CyclePatches(s)) /\ pending[w] = <<>>
    BY <1>0, <1>4 DEF StageOf, CycleBatches, s
  <2>2. Append(proposed[w], patch) \in CycleBatches(s)
    BY <1>4, <2>1, CycleAssumption DEF CycleBatches
  <2> QED BY <1>0, <1>4, <2>1, <2>2 DEF storeVars, Stages
<1>5. ASSUME NEW y \in Symbols, NEW price \in Prices, MarkSymbol(w, y, price)
      PROVE  Moved /\ Staying
  <2>1. Raised(StopKey(s, y), price) \in Prices
    BY <1>0 DEF Raised, HasField, CallsInv, HighsPriced, HighPriced
  <2>2. MergePatch(StopKey(s, y), "high", Raised(StopKey(s, y), price)) \in CyclePatches(s)
    BY <2>1 DEF CyclePatches
  <2> QED BY <1>4, <1>5, <2>2 DEF MarkSymbol, KeyFor, s
<1>6. ASSUME NEW patch \in ModelPatches, ProposePatch(w, patch)
      PROVE  Moved /\ Staying
  <2>1. patch \in CyclePatches(s)
    BY <1>6 DEF ProposePatch, CyclePatches, s
  <2> QED BY <1>4, <1>6, <2>1 DEF ProposePatch
<1>7. ASSUME CommitProposals(w) PROVE Moved /\ Staying
  BY <1>0, <1>7 DEF CommitProposals, ReadAll, Goto, StageOf, Stages, s
<1>8. ASSUME SkipCommit(w) PROVE Moved /\ Staying
  BY <1>0, <1>8 DEF SkipCommit, Goto, storeVars, StageOf, Stages
<1>9. ASSUME Write(w) PROVE Moved /\ Staying
  BY <1>0, <1>9 DEF Write, Commit, Finished, Idle, Goto, StageOf, Stages
<1>10. ASSUME Crash(w) PROVE Moved /\ Staying
  BY <1>0, <1>10 DEF Crash, Finished, Goto, Stages
<1>11. Moved /\ Staying
  <2> HIDE DEF Moved, Staying
  <2> QED BY <1>1, <1>2, <1>3, <1>5, <1>6, <1>7, <1>8, <1>9, <1>10
<1>12. StageOf(w)'
  BY <1>11 DEF StageOf, UniverseBatches, CycleBatches, s
<1> QED BY <1>11, <1>12, OthersStaged DEF CallsInv

\* A record whose watermark is a price and at least floor.
HighFrom(record, floor) ==
  HighPriced(record) /\ ("high" \in DOMAIN record.value => record.value["high"] >= floor)

\* Every watermark is at least 0.
LEMMA PricedFrom == ASSUME NEW record, HighPriced(record) PROVE HighFrom(record, 0)
<1>1. \A price \in Prices : price >= 0
  BY CycleAssumption
<1> QED BY <1>1 DEF HighFrom, HighPriced

\* Of the patches that commands commit, those of a stop key put prices there.
LEMMA StopPatchIs ==
  ASSUME NEW s \in Sleeves, NEW batch \in CycleBatches(s) \cup UniverseBatches(s),
         NEW i \in DOMAIN batch, NEW t, NEW y, batch[i].key = StopKey(t, y)
  PROVE  /\ batch \in CycleBatches(s)
         /\ \E price \in Prices : batch[i] = MergePatch(StopKey(t, y), "high", price)
<1>1. CASE batch \in CycleBatches(s)
  <2>1. batch[i] \in CyclePatches(s)
    BY <1>1 DEF CycleBatches
  <2> QED BY <1>1, <2>1, CyclePatchIs
<1>2. CASE batch \in UniverseBatches(s)
  <2>1. PICK d \in 1..Days : batch = UniverseBatch(s, d)
    BY <1>2 DEF UniverseBatches
  <2>2. batch[i] = MergePatch(UniverseKey(s), "selected", d)
    BY <2>1 DEF UniverseBatch
  <2> QED BY <2>2 DEF MergePatch, StopKey, UniverseKey
<1> QED BY <1>1, <1>2

\* A batch whose prices are not below a floor leaves no watermark below it, and
\* does not lose it.
LEMMA HighsAfter ==
  ASSUME NEW s \in Sleeves, NEW batch \in CycleBatches(s) \cup UniverseBatches(s),
         NEW t, NEW y, NEW record \in Record, NEW floor \in Nat, HighFrom(record, floor),
         \A i \in DOMAIN batch :
           batch[i].key = StopKey(t, y) => batch[i].value["high"] >= floor
  PROVE  LET left == Patched(record, StopKey(t, y), batch) IN
         /\ HighFrom(left, floor)
         /\ "high" \in DOMAIN record.value => "high" \in DOMAIN left.value
<1> DEFINE k == StopKey(t, y)
           Good == {rec \in Record : /\ HighFrom(rec, floor)
                                     /\ "high" \in DOMAIN record.value => "high" \in DOMAIN rec.value}
<1>1. batch \in Seq(Patch) /\ Len(batch) \in Nat /\ \A i \in DOMAIN batch : batch[i] \in Patch
  <2>1. batch \in Batches \/ batch = <<>>
    BY CycleBatchesTaken
  <2>2. <<>> \in Seq(Patch) /\ Batches \subseteq Seq(Patch)
    BY BatchAssumption
  <2>3. batch \in Seq(Patch)
    BY <2>1, <2>2
  <2> QED BY <2>3
<1>2. ASSUME NEW i \in DOMAIN batch, NEW rec \in Good, batch[i].key = k
      PROVE  Applied(rec, batch[i]) \in Good
  <2>1. PICK price \in Prices : batch[i] = MergePatch(k, "high", price)
    BY <1>2, StopPatchIs
  <2>2. Applied(rec, batch[i]) \in Record
    BY <1>1, AppliedType
  <2>3. batch[i].value["high"] >= floor
    BY <1>2
  <2>4. price >= floor /\ price \in Nat
    BY <2>1, <2>3, CycleAssumption DEF MergePatch
  <2>5. Applied(rec, batch[i]).value = Merged(rec.value, [f \in {"high"} |-> price])
    BY <2>1 DEF Applied, MergePatch
  <2>6. /\ "high" \in DOMAIN Merged(rec.value, [f \in {"high"} |-> price])
        /\ Merged(rec.value, [f \in {"high"} |-> price])["high"] = price
    BY DEF Merged
  <2> QED BY <2>2, <2>4, <2>5, <2>6 DEF HighFrom, HighPriced
<1>3. record \in Good
  OBVIOUS
<1>4. \A n \in 0..Len(batch) : After(record, k, batch, n) \in Good
  <2> HIDE DEF Good, k
  <2> QED BY <1>1, <1>2, <1>3, AfterKeeps
<1>5. Patched(record, k, batch) \in Good
  BY <1>1, <1>4 DEF Patched
<1> QED BY <1>5

\* A step leaves the watermarks of stop records, and of what was read of them,
\* prices.
LEMMA HighsPricedStep == ASSUME CallsInv, [Next]_vars PROVE HighsPriced'
<1>0. HighsPriced /\ DOMAIN seen = Writers
  BY DEF CallsInv, Blank
<1>1. ASSUME UNCHANGED storeVars PROVE HighsPriced'
  BY <1>0, <1>1 DEF storeVars, HighsPriced
<1>2. ASSUME NEW w \in Writers, NEW batch, ReadAll(w, batch) PROVE HighsPriced'
  BY <1>0, <1>2 DEF ReadAll, HighsPriced
<1>3. ASSUME NEW w \in Writers, Finished(w), NEW s \in Sleeves, NEW y \in Symbols, NEW v \in Writers
      PROVE  HighPriced(seen'[v][StopKey(s, y)])
  <2>1. StopKey(s, y) \in Keys /\ HighPriced(NoRecord)
    BY CycleAssumption DEF HighPriced, NoRecord
  <2>2. seen'[v] = IF v = w THEN NothingSeen ELSE seen[v]
    BY <1>0, <1>3 DEF Finished
  <2> QED BY <1>0, <2>1, <2>2 DEF NothingSeen, HighsPriced
<1>4. ASSUME NEW w \in Writers, Crash(w) PROVE HighsPriced'
  BY <1>0, <1>3, <1>4 DEF Crash, HighsPriced
<1>5. ASSUME NEW w \in Writers, Write(w) PROVE HighsPriced'
  <2>1. records' = Updated(records, seen[w], pending[w]) /\ pending[w] # <<>> /\ Finished(w)
    BY <1>5 DEF Write, Commit, Written, Idle
  <2>2. SleeveOf[w] \in Sleeves
        /\ pending[w] \in CycleBatches(SleeveOf[w]) \cup UniverseBatches(SleeveOf[w])
    BY <2>1, CycleAssumption DEF CallsInv, Staged, StageOf, Stages
  <2>3. ASSUME NEW s \in Sleeves, NEW y \in Symbols PROVE HighPriced(records'[StopKey(s, y)])
    <3> DEFINE k == StopKey(s, y)
    <3>1. k \in Keys /\ seen[w][k] \in Record /\ HighPriced(seen[w][k]) /\ HighPriced(records[k])
      BY <1>0, CycleAssumption DEF CallsInv, StoreTypeOK, TypeOK, HighsPriced
    <3>2. HighFrom(seen[w][k], 0)
      BY <3>1, PricedFrom
    <3>3. ASSUME NEW i \in DOMAIN pending[w], pending[w][i].key = k
          PROVE  pending[w][i].value["high"] >= 0
      <4>1. PICK price \in Prices : pending[w][i] = MergePatch(StopKey(s, y), "high", price)
        BY <2>2, <3>3, StopPatchIs
      <4>2. pending[w][i].value["high"] = price
        BY <4>1 DEF MergePatch
      <4> QED BY <4>2, CycleAssumption
    <3>4. HighPriced(Patched(seen[w][k], k, pending[w]))
      BY <2>2, <3>1, <3>2, <3>3, HighsAfter DEF HighFrom
    <3> QED BY <2>1, <3>1, <3>4 DEF Updated
  <2> QED BY <1>3, <2>1, <2>3 DEF HighsPriced
<1> QED
  BY <1>1, <1>2, <1>4, <1>5
  DEF Next, vars, storeVars, Start, CheckUniverse, PersistUniverse, MarkSymbol, ProposePatch,
      CommitProposals, SkipCommit, NextDay

\* Every step keeps the calls in order.
LEMMA CallsStep == ASSUME CallsInv, [Next]_vars PROVE CallsInv'
<1>1. [StoreNext]_storeVars
  BY StagedCovered, StepStores DEF CallsInv
<1>2. StoreTypeOK' /\ Blank'
  BY <1>1, StoreTypeStep, BlankNext DEF CallsInv
<1>3. Staged'
  <2>1. CASE UNCHANGED vars
    <3>1. \A v \in Writers : StageOf(v)'
      BY <2>1, StageKept DEF vars, CallsInv, Staged
    <3> QED BY <2>1, <3>1 DEF vars, CallsInv, Staged
  <2>2. CASE NextDay
    <3>1. \A v \in Writers : StageOf(v)'
      BY <2>2, StageKept DEF NextDay, storeVars, CallsInv, Staged
    <3> QED BY <2>2, <3>1, CycleAssumption DEF NextDay, CallsInv, Staged
  <2> QED BY <2>1, <2>2, StagedByCommand DEF Next
<1> QED BY <1>2, <1>3, HighsPricedStep DEF CallsInv

\* No command has called when the program starts.
LEMMA CallsInit == ASSUME Init PROVE CallsInv
<1>1. StoreTypeOK /\ Blank
  BY StoreTypeInit, BlankInit DEF Init
<1>2. Staged
  <2>1. \A w \in Writers : StageOf(w)
    BY DEF Init, StoreInit, StageOf, Stages
  <2>2. 1 \in 1..Days
    BY CycleAssumption
  <2> QED BY <2>1, <2>2 DEF Init, Staged, Stages
<1>3. HighsPriced
  <2>1. \A s \in Sleeves, y \in Symbols : StopKey(s, y) \in Keys
    BY CycleAssumption
  <2>2. HighPriced(NoRecord)
    BY DEF HighPriced, NoRecord
  <2> QED BY <2>1, <2>2 DEF Init, StoreInit, MapInit, HighsPriced, NothingSeen
<1> QED BY <1>1, <1>2, <1>3 DEF CallsInv

\* The calls of all commands are in order at all times, however they overlap.
LEMMA CallsAlways == Spec => []CallsInv
BY CallsInit, CallsStep, PTL DEF Spec

(* With one command at a time on a sleeve, the runs, seed commands and crashes *)
(* of all sleeves leave the records that some order of whole batches leaves,   *)
(* though each call reads and writes the store in two transactions             *)
(* (SQLiteRuntimeStateStore.apply_patches).                                    *)
THEOREM CyclesImplementMap == ASSUME Exclusive PROVE Spec => MapSpec
<1>1. CallsInv => Covered
  BY StagedCovered DEF CallsInv
<1> QED
  BY <1>1, CallsAlways, ExclusiveIsolated, CyclesImplementStore, IsolatedImplementsMap, PTL

\* The last audit event of a key describes its record and the commands are in
\* their stages, whether or not commands on a sleeve overlap.
THEOREM CyclesAudited == Spec => []RecordsAudited
<1>1. Spec => StoreSpec
  <2>1. CallsInv => Covered
    BY StagedCovered DEF CallsInv
  <2> QED BY <2>1, CallsAlways, CyclesImplementStore, PTL
<1>2. CallsInv => CycleTypeOK
  <2>1. ASSUME CallsInv, NEW w \in Writers PROVE proposed[w] \in Seq(Patch)
    <3>1. proposed[w] \in Batches \cup {<<>>}
      BY <2>1, StagedCovered DEF Covered, CallsInv
    <3>2. <<>> \in Seq(Patch) /\ Batches \subseteq Seq(Patch)
      BY BatchAssumption
    <3> QED BY <3>1, <3>2
  <2> QED BY <2>1 DEF CallsInv, Staged, CycleTypeOK, StoreTypeOK
<1> QED BY <1>1, <1>2, CallsAlways, RecordsAreExplained, PTL DEF RecordsAudited

\* As long as no two commands on the same sleeve are under way together, the audit
\* trail that pipeline runs and seed commands leave gives the records when it is
\* replayed from its start: no version is counted twice and no field is lost.
THEOREM CyclesReplayed == ASSUME Exclusive PROVE Spec => []RecordsReplayed
BY CyclesImplementMap, MapReplays, CyclesAudited, PTL DEF RecordsReplayed, RecordsAudited

-----------------------------------------------------------------------------
(* What no other command on the sleeve undoes. *)

(* The store is as the calls under way have read it, and no two of them are on *)
(* the same sleeve.                                                            *)
AloneInv == CallsInv /\ IInv /\ Fresh

\* What no other command undoes holds at the start ...
LEMMA AloneInvInit == ASSUME Init PROVE AloneInv
BY CallsInit, InitIInv, FreshInit DEF Init, AloneInv

\* ... and is kept while there is one command at a time on a sleeve.
LEMMA AloneInvStep == ASSUME Exclusive, AloneInv, [Next]_vars PROVE AloneInv'
<1>1. [StoreNext]_storeVars
  BY StagedCovered, StepStores DEF AloneInv, CallsInv
<1>2. Fresh'
  BY <1>1, IInvIsolated, FreshNext DEF AloneInv
<1> QED BY <1>2, CallsStep, NextIInv DEF AloneInv

\* A step writes the store only as the transaction of a command.
LEMMA WriteOrNot ==
  ASSUME [Next]_vars
  PROVE  UNCHANGED <<records, events>> \/ \E w \in Writers : Write(w)
BY DEF Next, vars, storeVars, Start, CheckUniverse, PersistUniverse, MarkSymbol, ProposePatch,
       CommitProposals, SkipCommit, NextDay, ReadAll, Crash

\* When a command writes, no other of its sleeve has proposed anything, nor has it.
LEMMA OthersIdle ==
  ASSUME AloneInv, NEW w \in Writers, Write(w), NEW v \in Writers, SleeveOf[v] = SleeveOf[w]
  PROVE  proposed'[v] = <<>> /\ pending'[v] = <<>>
<1>1. /\ pending[w] # <<>> /\ proposed' = proposed
      /\ pending' = [pending EXCEPT ![w] = <<>>]
      /\ StageOf(w) /\ StageOf(v) /\ DOMAIN pending = Writers
  BY DEF Write, Commit, Idle, Finished, AloneInv, CallsInv, Staged, Blank
<1>2. pc[w] \in {"refresh", "commit"} /\ proposed[w] = <<>>
  BY <1>1 DEF StageOf, Stages
<1>3. CASE v = w
  BY <1>1, <1>2, <1>3
<1>4. CASE v # w
  <2>1. pc[v] = "idle"
    BY <1>2, <1>4 DEF AloneInv, IInv, Alone
  <2> QED BY <1>1, <1>4, <2>1 DEF StageOf
<1> QED BY <1>3, <1>4

\* A command writes the records of its own sleeve, as they were when it read them.
LEMMA WriteIs ==
  ASSUME AloneInv, NEW w \in Writers, Write(w)
  PROVE  /\ records' = Updated(records, records, pending[w])
         /\ events' = events \o EventsOf(seen[w], pending[w])
         /\ pending[w] \in Batches
         /\ pending[w] \in CycleBatches(SleeveOf[w]) \cup UniverseBatches(SleeveOf[w])
         /\ \A k \in KeysOf(pending[w]) : k[1] = SleeveOf[w]
<1>1. /\ records' = Updated(records, seen[w], pending[w]) /\ pending[w] # <<>>
      /\ events' = events \o EventsOf(seen[w], pending[w])
  BY DEF Write, Commit, Written, Idle
<1>2. pending[w] \in Batches /\ \A k \in KeysOf(pending[w]) : seen[w][k] = records[k]
  BY <1>1 DEF AloneInv, Fresh
<1>3. Updated(records, seen[w], pending[w]) = Updated(records, records, pending[w])
  BY <1>2, SameRecords
<1>4. pending[w] \in CycleBatches(SleeveOf[w]) \cup UniverseBatches(SleeveOf[w])
  BY <1>1 DEF AloneInv, CallsInv, Staged, StageOf, Stages
<1>5. \A k \in KeysOf(pending[w]) : k[1] = SleeveOf[w]
  BY DEF AloneInv, IInv, OwnKeys, OwnKeysOf, OfSleeve, KeysOf
<1> QED BY <1>1, <1>2, <1>3, <1>4, <1>5

\* So the records of other sleeves stay as they are.
LEMMA WriteElsewhere ==
  ASSUME AloneInv, NEW w \in Writers, Write(w), NEW k \in Keys, k[1] # SleeveOf[w]
  PROVE  records'[k] = records[k]
BY WriteIs DEF Updated

(* A batch does not go below the watermarks that are recorded. *)
Keeps(batch, table) ==
  \A s \in Sleeves, y \in Symbols : \A i \in DOMAIN batch :
    (batch[i].key = StopKey(s, y) /\ "high" \in DOMAIN table[StopKey(s, y)].value)
      => batch[i].value["high"] >= table[StopKey(s, y)].value["high"]

HighsKept == \A w \in Writers : Keeps(proposed[w], records) /\ Keeps(pending[w], records)

\* Nothing goes below a watermark in a batch without patches, ...
LEMMA KeepsEmpty == ASSUME NEW table PROVE Keeps(<<>>, table)
BY DEF Keeps

\* ... nor in one of an active universe, ...
LEMMA KeepsUniverse == ASSUME NEW s, NEW d, NEW table PROVE Keeps(UniverseBatch(s, d), table)
<1>1. \A i \in DOMAIN UniverseBatch(s, d) : UniverseBatch(s, d)[i].key = UniverseKey(s)
  BY DEF UniverseBatch, MergePatch
<1>2. \A t, y : UniverseKey(s) # StopKey(t, y)
  BY DEF UniverseKey, StopKey
<1> QED BY <1>1, <1>2 DEF Keeps

\* ... nor in one that is lengthened by a patch that does not.
LEMMA KeepsAppend ==
  ASSUME NEW S, NEW batch \in Seq(S), NEW patch, NEW table, Keeps(batch, table),
         \A s \in Sleeves, y \in Symbols :
           (patch.key = StopKey(s, y) /\ "high" \in DOMAIN table[StopKey(s, y)].value)
             => patch.value["high"] >= table[StopKey(s, y)].value["high"]
  PROVE  Keeps(Append(batch, patch), table)
<1> DEFINE longer == Append(batch, patch)
<1>1. \A i \in DOMAIN longer : longer[i] = patch \/ (i \in DOMAIN batch /\ longer[i] = batch[i])
  OBVIOUS
<1> HIDE DEF longer
<1>2. Keeps(longer, table)
  BY <1>1 DEF Keeps
<1> QED BY <1>2 DEF longer

\* A command that marks a symbol proposes no less than is recorded.
LEMMA MarkKeeps ==
  ASSUME AloneInv, NEW w \in Writers, Keeps(proposed[w], records),
         \/ \E y \in Symbols, price \in Prices : MarkSymbol(w, y, price)
         \/ \E patch \in ModelPatches : ProposePatch(w, patch)
  PROVE  Keeps(proposed'[w], records)
<1>1. /\ pc[w] = "mark" /\ StageOf(w) /\ DOMAIN proposed = Writers /\ SleeveOf[w] \in Sleeves
  BY CycleAssumption DEF MarkSymbol, ProposePatch, AloneInv, CallsInv, Staged
<1>2. proposed[w] \in Seq(CyclePatches(SleeveOf[w]))
  BY <1>1 DEF StageOf, CycleBatches
<1>3. ASSUME NEW y \in Symbols, NEW price \in Prices, MarkSymbol(w, y, price)
      PROVE  Keeps(proposed'[w], records)
  <2> DEFINE k == StopKey(SleeveOf[w], y)
             patch == MergePatch(k, "high", Raised(k, price))
  <2>1. proposed'[w] = Append(proposed[w], patch)
    BY <1>1, <1>3 DEF MarkSymbol, KeyFor
  <2>2. patch.key = k /\ patch.value["high"] = Raised(k, price)
    BY DEF MergePatch
  <2>3. "high" \in DOMAIN records[k].value => Raised(k, price) >= records[k].value["high"]
    <3>1. "high" \in DOMAIN records[k].value => records[k].value["high"] \in Nat
      BY <1>1, CycleAssumption DEF AloneInv, CallsInv, HighsPriced, HighPriced
    <3>2. price \in Nat
      BY CycleAssumption
    <3> QED BY <3>1, <3>2 DEF Raised, HasField
  <2> HIDE DEF k, patch
  <2> QED BY <1>2, <2>1, <2>2, <2>3, KeepsAppend
<1>4. ASSUME NEW patch \in ModelPatches, ProposePatch(w, patch)
      PROVE  Keeps(proposed'[w], records)
  <2>1. proposed'[w] = Append(proposed[w], patch)
    BY <1>1, <1>4 DEF ProposePatch
  <2>2. \A s, y : patch.key # StopKey(s, y)
    BY CycleAssumption DEF StopKey
  <2> QED BY <1>2, <2>1, <2>2, KeepsAppend
<1> QED BY <1>3, <1>4

\* What is under way stays at or above the watermarks, whoever writes.
LEMMA HighsKeptStep ==
  ASSUME AloneInv, HighsKept, [Next]_vars
  PROVE  HighsKept'
<1>0. DOMAIN proposed = Writers /\ DOMAIN pending = Writers
  BY DEF AloneInv, CallsInv, Staged, Blank
<1>1. ASSUME NEW w \in Writers, Write(w) PROVE HighsKept'
  <2>1. /\ proposed' = proposed
        /\ \A v \in Writers \ {w} : pending'[v] = pending[v]
    BY <1>0, <1>1 DEF Write, Commit, Finished
  <2>2. ASSUME NEW v \in Writers
        PROVE  Keeps(proposed'[v], records') /\ Keeps(pending'[v], records')
    <3>1. CASE SleeveOf[v] = SleeveOf[w]
      BY <1>1, <3>1, OthersIdle, KeepsEmpty
    <3>2. CASE SleeveOf[v] # SleeveOf[w]
      <4>1. OfSleeve(proposed[v], SleeveOf[v]) /\ OfSleeve(pending[v], SleeveOf[v])
        BY DEF AloneInv, IInv, OwnKeys, OwnKeysOf
      <4>2. \A y \in Symbols : records'[StopKey(SleeveOf[v], y)] = records[StopKey(SleeveOf[v], y)]
        BY <1>1, <3>2, WriteElsewhere, CycleAssumption DEF StopKey
      <4>3. ASSUME NEW batch, OfSleeve(batch, SleeveOf[v]), Keeps(batch, records)
            PROVE  Keeps(batch, records')
        <5>1. \A i \in DOMAIN batch : \A s \in Sleeves, y \in Symbols :
                batch[i].key = StopKey(s, y) => s = SleeveOf[v]
          BY <4>3 DEF OfSleeve, StopKey
        <5> QED BY <4>2, <4>3, <5>1 DEF Keeps
      <4>4. proposed'[v] = proposed[v] /\ pending'[v] = pending[v]
        BY <2>1, <3>2
      <4> QED BY <4>1, <4>3, <4>4 DEF HighsKept
    <3> QED BY <3>1, <3>2
  <2> QED BY <2>2 DEF HighsKept
<1>2. ASSUME NEW w \in Writers, records' = records,
             \A v \in Writers \ {w} : proposed'[v] = proposed[v] /\ pending'[v] = pending[v],
             Keeps(proposed'[w], records), Keeps(pending'[w], records)
      PROVE  HighsKept'
  BY <1>2 DEF HighsKept
<1>3. ASSUME NEW w \in Writers, Start(w) \/ SkipCommit(w) \/ Crash(w) \/ PersistUniverse(w)
                                  \/ CommitProposals(w)
      PROVE  HighsKept'
  <2>1. /\ records' = records
        /\ \A v \in Writers \ {w} : proposed'[v] = proposed[v] /\ pending'[v] = pending[v]
        /\ proposed'[w] \in {proposed[w], <<>>} /\ pending'[w] \in {pending[w], proposed[w], <<>>}
    BY <1>0, <1>3 DEF Start, SkipCommit, Crash, Finished, PersistUniverse, CommitProposals,
                      ReadAll, storeVars
  <2> QED BY <1>2, <2>1, KeepsEmpty DEF HighsKept
<1>4. ASSUME NEW w \in Writers, CheckUniverse(w) PROVE HighsKept'
  <2>1. /\ records' = records /\ pending' = pending
        /\ \A v \in Writers \ {w} : proposed'[v] = proposed[v]
        /\ proposed'[w] \in {proposed[w], UniverseBatch(SleeveOf[w], day)}
    BY <1>0, <1>4 DEF CheckUniverse, storeVars
  <2> QED BY <1>2, <2>1, KeepsUniverse DEF HighsKept
<1>5. ASSUME NEW w \in Writers,
             \/ \E y \in Symbols, price \in Prices : MarkSymbol(w, y, price)
             \/ \E patch \in ModelPatches : ProposePatch(w, patch)
      PROVE  HighsKept'
  <2>1. /\ records' = records /\ pending' = pending
        /\ \A v \in Writers \ {w} : proposed'[v] = proposed[v]
    BY <1>0, <1>5 DEF MarkSymbol, ProposePatch, storeVars
  <2> QED BY <1>2, <1>5, <2>1, MarkKeeps DEF HighsKept
<1>6. ASSUME UNCHANGED <<storeVars, proposed>> PROVE HighsKept'
  BY <1>6 DEF HighsKept, storeVars
<1> QED
  BY <1>1, <1>3, <1>4, <1>5, <1>6 DEF Next, NextDay, vars, storeVars

\* A transaction lowers no watermark of the sleeve that it is for.
LEMMA WriteRaises ==
  ASSUME AloneInv, HighsKept, [Next]_vars, NEW s \in Sleeves, NEW y \in Symbols
  PROVE  NeverLowers(StopKey(s, y))
<1> DEFINE k == StopKey(s, y)
<1>1. /\ k \in Keys /\ records[k] \in Record /\ HighPriced(records[k])
      /\ Prices \subseteq Nat
  BY CycleAssumption DEF AloneInv, CallsInv, StoreTypeOK, TypeOK, HighsPriced
<1> SUFFICES ASSUME HasField(k, "high")
             PROVE  /\ "high" \in DOMAIN records'[k].value
                    /\ records'[k].value["high"] >= records[k].value["high"]
  BY DEF NeverLowers
<1>2. "high" \in DOMAIN records[k].value /\ records[k].value["high"] \in Nat
  BY <1>1 DEF HasField, HighPriced
<1>3. CASE UNCHANGED <<records, events>>
  BY <1>2, <1>3
<1>4. ASSUME NEW w \in Writers, Write(w), k \in KeysOf(pending[w])
      PROVE  /\ "high" \in DOMAIN records'[k].value
             /\ records'[k].value["high"] >= records[k].value["high"]
  <2>1. records'[k] = Patched(records[k], k, pending[w])
    BY <1>1, <1>4, WriteIs DEF Updated
  <2>2. SleeveOf[w] \in Sleeves
        /\ pending[w] \in CycleBatches(SleeveOf[w]) \cup UniverseBatches(SleeveOf[w])
    BY <1>4, WriteIs, CycleAssumption
  <2>3. HighFrom(records[k], records[k].value["high"])
    BY <1>1, <1>2 DEF HighFrom
  <2>4. \A i \in DOMAIN pending[w] :
          pending[w][i].key = k => pending[w][i].value["high"] >= records[k].value["high"]
    BY <1>2 DEF HighsKept, Keeps
  <2>5. /\ HighFrom(Patched(records[k], k, pending[w]), records[k].value["high"])
        /\ "high" \in DOMAIN Patched(records[k], k, pending[w]).value
    BY <1>1, <1>2, <2>2, <2>3, <2>4, HighsAfter
  <2> QED BY <2>1, <2>5 DEF HighFrom
<1>5. ASSUME NEW w \in Writers, Write(w), k \notin KeysOf(pending[w])
      PROVE  records'[k] = records[k]
  BY <1>1, <1>5, WriteIs DEF Updated
<1> QED BY <1>2, <1>3, <1>4, <1>5, WriteOrNot

\* With one command at a time on a sleeve no trailing-stop watermark ever falls,
\* although runs and seed commands compute it long before they write it.
THEOREM WatermarksKept ==
  ASSUME Exclusive
  PROVE  Spec => WatermarkNeverFalls
<1>1. Init => AloneInv /\ HighsKept
  <2>1. Init => HighsKept
    BY KeepsEmpty DEF Init, StoreInit, HighsKept
  <2> QED BY <2>1, AloneInvInit
<1>2. AloneInv /\ HighsKept /\ [Next]_vars => AloneInv' /\ HighsKept'
  BY AloneInvStep, HighsKeptStep
<1>3. AloneInv /\ HighsKept /\ [Next]_vars
        => [\A s \in Sleeves, y \in Symbols : NeverLowers(StopKey(s, y))]_vars
  BY WriteRaises
<1> QED BY <1>1, <1>2, <1>3, PTL DEF Spec, WatermarkNeverFalls

-----------------------------------------------------------------------------
(* One selection a day. *)

(* The day that the record of a sleeve's universe names has come, and the days *)
(* of the selections before it are earlier.                                    *)
DayRecorded(s) ==
  LET u == UniverseKey(s) IN
  \/ records[u] = NoRecord
  \/ HasField(u, "selected") /\ records[u].value["selected"] \in 1..day

SelectedBefore(s) ==
  LET u == UniverseKey(s) IN
  \A i \in At(events, u) :
    /\ HasField(u, "selected")
    /\ \E d \in 1..Days : /\ events[i].value = [f \in {"selected"} |-> d]
                          /\ d <= records[u].value["selected"]

OncePerDay(s) ==
  \A i, j \in At(events, UniverseKey(s)) : events[i].value = events[j].value => i = j

(* A selection under way is later than the one recorded. *)
SelectsLater(w) ==
  LET u == UniverseKey(SleeveOf[w]) IN
  \A d \in 1..Days :
    UniverseBatch(SleeveOf[w], d) \in {proposed[w], pending[w]} =>
      /\ d <= day
      /\ HasField(u, "selected") => records[u].value["selected"] < d

DayInv ==
  /\ \A i \in DOMAIN events : events[i].key[1] \in Sleeves
  /\ \A s \in Sleeves : DayRecorded(s) /\ SelectedBefore(s) /\ OncePerDay(s)
  /\ \A w \in Writers : SelectsLater(w)

\* At first nothing is selected.
LEMMA DayInit == ASSUME Init PROVE DayInv
<1>1. events = <<>> /\ \A s \in Sleeves : records[UniverseKey(s)] = NoRecord
  BY CycleAssumption DEF Init, StoreInit, MapInit
<1>2. \A w \in Writers : proposed[w] = <<>> /\ pending[w] = <<>>
  BY DEF Init, StoreInit
<1>3. \A s, d : UniverseBatch(s, d) # <<>>
  BY DEF UniverseBatch
<1>4. \A k : At(events, k) = {}
  BY <1>1 DEF At
<1> QED
  BY <1>1, <1>2, <1>3, <1>4 DEF DayInv, DayRecorded, SelectedBefore, OncePerDay, SelectsLater

\* Universe keys and days can be told from one another.
LEMMA UniverseDistinct ==
  /\ \A s, t : UniverseKey(s) = UniverseKey(t) => s = t
  /\ \A s, t, d, e : UniverseBatch(s, d) = UniverseBatch(t, e) => s = t /\ d = e
<1>1. \A s, t : UniverseKey(s) = UniverseKey(t) => s = t
  BY DEF UniverseKey
<1>2. ASSUME NEW s, NEW t, NEW d, NEW e, UniverseBatch(s, d) = UniverseBatch(t, e)
      PROVE  s = t /\ d = e
  <2>1. UniverseBatch(s, d)[1] = MergePatch(UniverseKey(s), "selected", d)
        /\ UniverseBatch(t, e)[1] = MergePatch(UniverseKey(t), "selected", e)
    BY DEF UniverseBatch
  <2>2. MergePatch(UniverseKey(s), "selected", d) = MergePatch(UniverseKey(t), "selected", e)
    BY <1>2, <2>1
  <2>3. UniverseKey(s) = UniverseKey(t)
        /\ [f \in {"selected"} |-> d] = [f \in {"selected"} |-> e]
    BY <2>2 DEF MergePatch
  <2>4. [f \in {"selected"} |-> d]["selected"] = [f \in {"selected"} |-> e]["selected"]
    BY <2>3
  <2> QED BY <1>1, <2>3, <2>4
<1> QED BY <1>1, <1>2

\* A batch of a cycle has no universe among its keys.
LEMMA CycleBatchElsewhere ==
  ASSUME NEW s \in Sleeves, NEW batch \in CycleBatches(s), NEW t
  PROVE  UniverseKey(t) \notin KeysOf(batch) /\ \A d : batch # UniverseBatch(t, d)
<1>1. \A i \in DOMAIN batch : batch[i].key # UniverseKey(t)
  <2>1. \A i \in DOMAIN batch : batch[i] \in CyclePatches(s)
    BY DEF CycleBatches
  <2> QED BY <2>1, CyclePatchIs
<1>2. \A d : 1 \in DOMAIN UniverseBatch(t, d) /\ UniverseBatch(t, d)[1].key = UniverseKey(t)
  BY DEF UniverseBatch, MergePatch
<1> QED BY <1>1, <1>2 DEF KeysOf

\* What a transaction does to the universe of its sleeve: nothing, or it records
\* one later day with one event.
LEMMA WriteSelects ==
  ASSUME AloneInv, DayInv, NEW w \in Writers, Write(w)
  PROVE  LET u == UniverseKey(SleeveOf[w])
             more == EventsOf(seen[w], pending[w]) IN
         \/ records'[u] = records[u] /\ At(more, u) = {}
         \/ \E d \in 1..Days :
              /\ d <= day
              /\ HasField(u, "selected") => records[u].value["selected"] < d
              /\ At(more, u) = {1} /\ Len(more) = 1
              /\ more[1].value = [f \in {"selected"} |-> d]
              /\ "selected" \in DOMAIN records'[u].value
              /\ records'[u].value["selected"] = d
<1> DEFINE s == SleeveOf[w]
           u == UniverseKey(s)
           more == EventsOf(seen[w], pending[w])
<1>1. s \in Sleeves /\ u \in Keys
  BY CycleAssumption
<1>2. /\ records' = Updated(records, records, pending[w])
      /\ pending[w] \in Batches
      /\ pending[w] \in CycleBatches(s) \cup UniverseBatches(s)
  BY WriteIs
<1>3. /\ DOMAIN more = 1..Len(pending[w])
      /\ \A i \in 1..Len(pending[w]) : /\ more[i].key = pending[w][i].key
                                       /\ more[i].value = pending[w][i].value
  BY EventIs DEF EventsOf
<1>4. CASE pending[w] \in CycleBatches(s)
  <2>1. u \notin KeysOf(pending[w])
    BY <1>1, <1>4, CycleBatchElsewhere
  <2>2. records'[u] = records[u]
    BY <1>1, <1>2, <2>1 DEF Updated
  <2>3. At(more, u) = {}
    <3>1. DOMAIN pending[w] = 1..Len(pending[w])
      BY <1>4 DEF CycleBatches
    <3> HIDE DEF more, u
    <3> QED BY <1>3, <2>1, <3>1 DEF At, KeysOf
  <2> QED BY <2>2, <2>3
<1>5. CASE pending[w] \in UniverseBatches(s)
  <2>1. PICK d \in 1..Days : pending[w] = UniverseBatch(s, d)
    BY <1>5 DEF UniverseBatches
  <2> DEFINE patch == MergePatch(u, "selected", d)
  <2>2. /\ pending[w] = <<patch>> /\ Len(pending[w]) = 1 /\ pending[w][1] = patch
        /\ KeysOf(pending[w]) = {u}
    BY <2>1 DEF UniverseBatch, KeysOf, MergePatch
  <2>3. d <= day /\ (HasField(u, "selected") => records[u].value["selected"] < d)
    BY <2>1 DEF DayInv, SelectsLater
  <2>4. At(more, u) = {1} /\ Len(more) = 1 /\ more[1].value = [f \in {"selected"} |-> d]
    <3>1. patch.key = u /\ patch.value = [f \in {"selected"} |-> d]
      BY DEF MergePatch
    <3>2. Len(more) = 1
      BY <2>2 DEF EventsOf
    <3> HIDE DEF more, u, patch
    <3> QED BY <1>3, <2>2, <3>1, <3>2 DEF At
  <2>5. records'[u] = Applied(records[u], patch)
    <3>1. records'[u] = After(records[u], u, pending[w], 1)
      BY <1>1, <1>2, <2>2 DEF Updated, Patched
    <3>2. After(records[u], u, pending[w], 0 + 1) = Applied(After(records[u], u, pending[w], 0), patch)
      <4>1. pending[w][0 + 1] = patch /\ patch.key = u
        BY <2>2 DEF MergePatch
      <4> HIDE DEF u, patch
      <4> QED BY <4>1, AfterNext
    <3> QED BY <3>1, <3>2, AfterZero
  <2>6. "selected" \in DOMAIN records'[u].value /\ records'[u].value["selected"] = d
    BY <2>5 DEF Applied, MergePatch, Merged
  <2> QED BY <2>3, <2>4, <2>6
<1> QED BY <1>2, <1>4, <1>5

\* A transaction keeps the selections of its sleeve apart.
LEMMA WriteKeepsDays ==
  ASSUME AloneInv, DayInv, NEW w \in Writers, Write(w), NEW s \in Sleeves
  PROVE  DayRecorded(s)' /\ SelectedBefore(s)' /\ OncePerDay(s)'
<1> DEFINE u == UniverseKey(s)
           more == EventsOf(seen[w], pending[w])
           all == events \o more
<1>1. events' = all /\ day' = day /\ u \in Keys /\ day \in 1..Days
  BY WriteIs, CycleAssumption DEF Write, AloneInv, CallsInv, Staged
<1>2. events \in Seq(EventType) /\ more \in Seq(EventType)
  BY WriteIs, EventsOfType DEF AloneInv, CallsInv, StoreTypeOK, TypeOK
<1>3. /\ Len(events) \in Nat /\ DOMAIN events = 1..Len(events)
      /\ DOMAIN more = 1..Len(more) /\ Len(more) \in Nat
  BY <1>2
<1>4. /\ DOMAIN all = 1..(Len(events) + Len(more))
      /\ \A i \in 1..Len(events) : all[i] = events[i]
      /\ \A i \in 1..Len(more) : all[Len(events) + i] = more[i]
      /\ \A i \in DOMAIN all : i \in 1..Len(events) \/ \E j \in 1..Len(more) : i = Len(events) + j
  BY <1>2, Longer
<1>5. DayRecorded(s) /\ SelectedBefore(s) /\ OncePerDay(s)
  BY DEF DayInv
<1> HIDE DEF all
<1>6. ASSUME At(more, u) = {}, records'[u] = records[u]
      PROVE  DayRecorded(s)' /\ SelectedBefore(s)' /\ OncePerDay(s)'
  <2>1. At(all, u) = At(events, u) /\ \A i \in At(events, u) : all[i] = events[i]
    <3> HIDE DEF u, more
    <3>1. \A j \in 1..Len(more) : more[j].key # u
      BY <1>3, <1>6 DEF At
    <3>2. \A i \in DOMAIN all : all[i].key = u => i \in DOMAIN events
      BY <1>3, <1>4, <3>1
    <3>3. \A i \in DOMAIN events : i \in DOMAIN all /\ all[i] = events[i]
      BY <1>3, <1>4
    <3> QED BY <3>2, <3>3 DEF At
  <2>2. DayRecorded(s)'
    BY <1>1, <1>5, <1>6 DEF DayRecorded, HasField
  <2>3. SelectedBefore(s)'
    BY <1>1, <1>5, <1>6, <2>1 DEF SelectedBefore, HasField
  <2>4. OncePerDay(s)'
    BY <1>1, <1>5, <2>1 DEF OncePerDay
  <2> QED BY <2>2, <2>3, <2>4
<1>7. CASE s # SleeveOf[w]
  <2>1. u[1] # SleeveOf[w]
    BY <1>7 DEF UniverseKey
  <2>2. records'[u] = records[u]
    BY <1>1, <2>1, WriteElsewhere
  <2>3. At(more, u) = {}
    <3>1. u \notin KeysOf(pending[w])
      BY <2>1, WriteIs
    <3>2. Len(more) = Len(pending[w]) /\ pending[w] \in Seq(Patch)
      BY WriteIs, EventsOfType, BatchAssumption DEF AloneInv, CallsInv, StoreTypeOK, TypeOK
    <3>3. \A i \in 1..Len(pending[w]) : more[i].key = pending[w][i].key
      BY EventIs
    <3> HIDE DEF u, more
    <3> QED BY <1>3, <3>1, <3>2, <3>3 DEF At, KeysOf
  <2> QED BY <1>6, <2>2, <2>3
<1>8. ASSUME NEW d \in 1..Days, d <= day,
             HasField(u, "selected") => records[u].value["selected"] < d,
             At(more, u) = {1}, Len(more) = 1,
             more[1].value = [f \in {"selected"} |-> d],
             "selected" \in DOMAIN records'[u].value, records'[u].value["selected"] = d
      PROVE  DayRecorded(s)' /\ SelectedBefore(s)' /\ OncePerDay(s)'
  <2> DEFINE n == Len(events) + 1
  <2> HIDE DEF u, more
  <2>1. /\ At(all, u) = At(events, u) \cup {n}
        /\ \A i \in At(events, u) : all[i] = events[i] /\ i # n
        /\ all[n].value = [f \in {"selected"} |-> d]
    <3>1. more[1].key = u /\ all[n] = more[1] /\ n \in DOMAIN all
      BY <1>3, <1>4, <1>8 DEF At
    <3>2. \A i \in DOMAIN all : i \in DOMAIN events \/ i = n
      BY <1>3, <1>4, <1>8
    <3>3. \A i \in DOMAIN events : i # n /\ i \in DOMAIN all /\ all[i] = events[i]
      BY <1>3, <1>4, <1>8
    <3> QED BY <1>8, <3>1, <3>2, <3>3 DEF At
  <2>2. ASSUME NEW i \in At(events, u)
        PROVE  \E e \in 1..Days : /\ all[i].value = [f \in {"selected"} |-> e]
                                  /\ e < d
    <3>1. /\ HasField(u, "selected")
          /\ \E e \in 1..Days : /\ events[i].value = [f \in {"selected"} |-> e]
                                /\ e <= records[u].value["selected"]
      BY <1>5 DEF SelectedBefore, u
    <3>2. records[u].value["selected"] \in Nat /\ records[u].value["selected"] < d
      <4>1. records[u] # NoRecord
        BY <3>1 DEF HasField, NoRecord
      <4> QED BY <1>5, <1>8, <3>1, <4>1 DEF DayRecorded, u
    <3>3. PICK e \in 1..Days : /\ events[i].value = [f \in {"selected"} |-> e]
                               /\ e <= records[u].value["selected"]
      BY <3>1
    <3>4. e < d /\ all[i] = events[i]
      BY <2>1, <3>2, <3>3
    <3> QED BY <3>3, <3>4
  <2>3. DayRecorded(s)'
    BY <1>1, <1>8 DEF DayRecorded, HasField, u
  <2>4. SelectedBefore(s)'
    <3>1. \A i \in At(all, u) : \E e \in 1..Days : /\ all[i].value = [f \in {"selected"} |-> e]
                                                   /\ e <= d
      <4>1. ASSUME NEW i \in At(events, u)
            PROVE  \E e \in 1..Days : /\ all[i].value = [f \in {"selected"} |-> e]
                                      /\ e <= d
        <5>1. PICK e \in 1..Days : all[i].value = [f \in {"selected"} |-> e] /\ e < d
          BY <2>2
        <5> QED BY <5>1
      <4>2. ASSUME NEW i \in At(all, u), i = n
            PROVE  \E e \in 1..Days : /\ all[i].value = [f \in {"selected"} |-> e]
                                      /\ e <= d
        <5>1. all[i].value = [f \in {"selected"} |-> d] /\ d <= d
          BY <2>1, <4>2
        <5> QED BY <5>1
      <4> QED BY <2>1, <4>1, <4>2
    <3> QED BY <1>1, <1>8, <3>1 DEF SelectedBefore, HasField, u
  <2>5. OncePerDay(s)'
    <3>1. \A i \in At(events, u) : all[i].value # all[n].value
      <4>1. ASSUME NEW i \in At(events, u), all[i].value = all[n].value PROVE FALSE
        <5>1. PICK e \in 1..Days : all[i].value = [f \in {"selected"} |-> e] /\ e < d
          BY <2>2
        <5>2. [f \in {"selected"} |-> e]["selected"] = [f \in {"selected"} |-> d]["selected"]
          BY <2>1, <4>1, <5>1
        <5> QED BY <5>1, <5>2
      <4> QED BY <4>1
    <3>2. \A i, j \in At(events, u) : all[i].value = all[j].value => i = j
      BY <1>5, <2>1 DEF OncePerDay, u
    <3>3. \A i, j \in At(all, u) : all[i].value = all[j].value => i = j
      BY <2>1, <3>1, <3>2
    <3> QED BY <1>1, <3>3 DEF OncePerDay, u
  <2> QED BY <2>3, <2>4, <2>5
<1>9. CASE s = SleeveOf[w]
  BY <1>6, <1>8, <1>9, WriteSelects
<1> QED BY <1>7, <1>9

\* A step without a transaction keeps the days, if every selection that is newly
\* under way is of today and later than the one recorded.
LEMMA SelectionsKept ==
  ASSUME DayInv, UNCHANGED <<records, events>>, day \in 1..Days, day' \in {day, day + 1},
         \A w \in Writers, d \in 1..Days :
           UniverseBatch(SleeveOf[w], d) \in {proposed'[w], pending'[w]} =>
             \/ UniverseBatch(SleeveOf[w], d) \in {proposed[w], pending[w]}
             \/ /\ d <= day
                /\ HasField(UniverseKey(SleeveOf[w]), "selected") =>
                     records[UniverseKey(SleeveOf[w])].value["selected"] < d
  PROVE  DayInv'
<1>0. day \in Nat /\ day' \in Nat /\ day <= day'
  OBVIOUS
<1>1. ASSUME NEW s \in Sleeves PROVE DayRecorded(s)' /\ SelectedBefore(s)' /\ OncePerDay(s)'
  <2>1. DayRecorded(s) /\ SelectedBefore(s) /\ OncePerDay(s)
    BY DEF DayInv
  <2>2. DayRecorded(s)'
    BY <1>0, <2>1 DEF DayRecorded, HasField
  <2>3. SelectedBefore(s)' /\ OncePerDay(s)'
    BY <2>1 DEF SelectedBefore, OncePerDay, HasField
  <2> QED BY <2>2, <2>3
<1>2. ASSUME NEW w \in Writers PROVE SelectsLater(w)'
  <2>1. SelectsLater(w)
    BY DEF DayInv
  <2> QED BY <1>0, <2>1 DEF SelectsLater, HasField
<1>3. \A i \in DOMAIN events' : events'[i].key[1] \in Sleeves
  BY DEF DayInv
<1> QED BY <1>1, <1>2, <1>3 DEF DayInv

\* What a refresh selects is of today and later than the record, unless it is due
\* in every cycle.
LEMMA DueLater ==
  ASSUME DayInv, Cadence # "every_cycle", NEW s \in Sleeves, Due(s), day \in 1..Days,
         HasField(UniverseKey(s), "selected")
  PROVE  records[UniverseKey(s)].value["selected"] < day
<1>1. records[UniverseKey(s)] # NoRecord
  BY DEF HasField, NoRecord
<1>2. records[UniverseKey(s)].value["selected"] \in 1..day
  BY <1>1 DEF DayInv, DayRecorded
<1>3. records[UniverseKey(s)].value["selected"] # day
  BY <1>1 DEF Due
<1> QED BY <1>2, <1>3

\* Every step keeps the days of the selections in order.
LEMMA DayStep ==
  ASSUME Cadence # "every_cycle", AloneInv, AloneInv', DayInv, [Next]_vars
  PROVE  DayInv'
<1>0. /\ DOMAIN proposed = Writers /\ DOMAIN pending = Writers /\ day \in 1..Days
      /\ \A w \in Writers : SleeveOf[w] \in Sleeves /\ StageOf(w) /\ StageOf(w)'
      /\ \A s, d : UniverseBatch(s, d) # <<>>
  BY CycleAssumption DEF AloneInv, CallsInv, Staged, Blank, UniverseBatch
<1>1. ASSUME NEW w \in Writers, Write(w) PROVE DayInv'
  <2>1. ASSUME NEW s \in Sleeves PROVE DayRecorded(s)' /\ SelectedBefore(s)' /\ OncePerDay(s)'
    BY <1>1, <2>1, WriteKeepsDays
  <2>2. ASSUME NEW v \in Writers PROVE SelectsLater(v)'
    <3>1. CASE SleeveOf[v] = SleeveOf[w]
      <4>1. proposed'[v] = <<>> /\ pending'[v] = <<>>
        BY <1>1, <3>1, OthersIdle
      <4> QED BY <1>0, <4>1 DEF SelectsLater
    <3>2. CASE SleeveOf[v] # SleeveOf[w]
      <4>1. proposed'[v] = proposed[v] /\ pending'[v] = pending[v] /\ day' = day
        BY <1>0, <1>1, <3>2 DEF Write, Commit, Finished
      <4>2. records'[UniverseKey(SleeveOf[v])] = records[UniverseKey(SleeveOf[v])]
        <5>1. UniverseKey(SleeveOf[v]) \in Keys /\ UniverseKey(SleeveOf[v])[1] # SleeveOf[w]
          BY <1>0, <3>2, CycleAssumption DEF UniverseKey
        <5> QED BY <1>1, <5>1, WriteElsewhere
      <4>3. SelectsLater(v)
        BY DEF DayInv
      <4> QED BY <4>1, <4>2, <4>3 DEF SelectsLater, HasField
    <3> QED BY <3>1, <3>2
  <2>3. \A i \in DOMAIN events' : events'[i].key[1] \in Sleeves
    <3> DEFINE more == EventsOf(seen[w], pending[w])
               all == events \o more
    <3>1. events \in Seq(EventType) /\ more \in Seq(EventType)
      BY <1>1, WriteIs, EventsOfType DEF AloneInv, CallsInv, StoreTypeOK, TypeOK
    <3>2. /\ \A i \in 1..Len(events) : all[i] = events[i]
          /\ \A i \in 1..Len(more) : all[Len(events) + i] = more[i]
          /\ \A i \in DOMAIN all : i \in 1..Len(events) \/ \E j \in 1..Len(more) : i = Len(events) + j
      BY <3>1, Longer
    <3>3. /\ Len(more) = Len(pending[w]) /\ DOMAIN pending[w] = 1..Len(pending[w])
          /\ \A j \in 1..Len(more) : more[j].key = pending[w][j].key
      <4>1. pending[w] \in Seq(Patch)
        BY <1>1, WriteIs, BatchAssumption
      <4>2. Len(more) = Len(pending[w])
        BY <1>1, WriteIs, EventsOfType DEF AloneInv, CallsInv, StoreTypeOK, TypeOK
      <4> QED BY <4>1, <4>2, EventIs
    <3>4. \A j \in 1..Len(more) : more[j].key[1] \in Sleeves
      <4>1. \A k \in KeysOf(pending[w]) : k[1] \in Sleeves
        BY <1>0, <1>1, WriteIs
      <4> HIDE DEF more
      <4> QED BY <3>3, <4>1 DEF KeysOf
    <3>5. events' = all /\ DOMAIN events = 1..Len(events)
      BY <1>1, <3>1, WriteIs
    <3> HIDE DEF all, more
    <3> QED BY <3>2, <3>4, <3>5 DEF DayInv
  <2> QED BY <2>1, <2>2, <2>3 DEF DayInv
<1>2. ASSUME NEW w \in Writers, UNCHANGED <<records, events, day>>,
             \A v \in Writers \ {w} : proposed'[v] = proposed[v] /\ pending'[v] = pending[v],
             \A d \in 1..Days :
               UniverseBatch(SleeveOf[w], d) \in {proposed'[w], pending'[w]} =>
                 \/ UniverseBatch(SleeveOf[w], d) \in {proposed[w], pending[w]}
                 \/ /\ d <= day
                    /\ HasField(UniverseKey(SleeveOf[w]), "selected") =>
                         records[UniverseKey(SleeveOf[w])].value["selected"] < d
      PROVE  DayInv'
  BY <1>0, <1>2, SelectionsKept
<1>3. ASSUME NEW w \in Writers, Start(w) \/ SkipCommit(w) \/ Crash(w) \/ PersistUniverse(w)
                                  \/ CommitProposals(w)
      PROVE  DayInv'
  <2>1. /\ UNCHANGED <<records, events, day>>
        /\ \A v \in Writers \ {w} : proposed'[v] = proposed[v] /\ pending'[v] = pending[v]
        /\ proposed'[w] \in {proposed[w], <<>>} /\ pending'[w] \in {pending[w], proposed[w], <<>>}
    BY <1>0, <1>3 DEF Start, SkipCommit, Crash, Finished, PersistUniverse, CommitProposals,
                      ReadAll, storeVars
  <2> QED BY <1>0, <1>2, <2>1
<1>4. ASSUME NEW w \in Writers, CheckUniverse(w) PROVE DayInv'
  <2>1. /\ UNCHANGED <<records, events, day>> /\ pending' = pending
        /\ \A v \in Writers \ {w} : proposed'[v] = proposed[v]
        /\ \/ proposed'[w] = proposed[w]
           \/ Due(SleeveOf[w]) /\ proposed'[w] = UniverseBatch(SleeveOf[w], day)
    BY <1>0, <1>4 DEF CheckUniverse, storeVars
  <2>2. Due(SleeveOf[w]) /\ HasField(UniverseKey(SleeveOf[w]), "selected")
          => records[UniverseKey(SleeveOf[w])].value["selected"] < day
    BY <1>0, DueLater
  <2>3. \A d \in 1..Days : UniverseBatch(SleeveOf[w], d) = UniverseBatch(SleeveOf[w], day) => d = day
    BY UniverseDistinct
  <2> QED BY <1>0, <1>2, <2>1, <2>2, <2>3
<1>5. ASSUME NEW w \in Writers,
             \/ \E y \in Symbols, price \in Prices : MarkSymbol(w, y, price)
             \/ \E patch \in ModelPatches : ProposePatch(w, patch)
      PROVE  DayInv'
  <2>1. /\ UNCHANGED <<records, events, day>> /\ pending' = pending /\ pc' = pc /\ pc[w] = "mark"
        /\ \A v \in Writers \ {w} : proposed'[v] = proposed[v]
    BY <1>0, <1>5 DEF MarkSymbol, ProposePatch, storeVars
  <2>2. proposed'[w] \in CycleBatches(SleeveOf[w])
    BY <1>0, <2>1 DEF StageOf
  <2>3. \A d : proposed'[w] # UniverseBatch(SleeveOf[w], d)
    BY <1>0, <2>2, CycleBatchElsewhere
  <2> QED BY <1>2, <2>1, <2>3
<1>6. CASE NextDay
  BY <1>0, <1>6, SelectionsKept DEF NextDay, storeVars
<1>7. CASE UNCHANGED vars
  BY <1>0, <1>7, SelectionsKept DEF vars
<1> QED
  BY <1>1, <1>3, <1>4, <1>5, <1>6, <1>7 DEF Next

\* With one command at a time on a sleeve, and a cadence that is not of every
\* cycle, no two events record a selection of the same sleeve for the same day.
THEOREM SelectionsOnce ==
  ASSUME Exclusive, Cadence # "every_cycle"
  PROVE  Spec => []SelectedOncePerDay
<1>1. Init => AloneInv /\ DayInv
  BY AloneInvInit, DayInit
<1>2. AloneInv /\ DayInv /\ [Next]_vars => AloneInv' /\ DayInv'
  BY AloneInvStep, DayStep
<1>3. DayInv => SelectedOncePerDay
  <2> SUFFICES ASSUME DayInv, NEW i \in DOMAIN events, NEW j \in DOMAIN events,
                      events[i].key = UniverseKey(events[i].key[1]),
                      events[j].key = UniverseKey(events[i].key[1]),
                      events[i].value = events[j].value
               PROVE  i = j
    BY DEF SelectedOncePerDay
  <2>1. events[i].key[1] \in Sleeves
    BY DEF DayInv
  <2>2. OncePerDay(events[i].key[1])
    BY <2>1 DEF DayInv
  <2> QED BY <2>2 DEF OncePerDay, At
<1> QED BY <1>1, <1>2, <1>3, PTL DEF Spec
===============================================================================
