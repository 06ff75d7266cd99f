------------------------------ MODULE ModelState ------------------------------
(***************************************************************************)
(* The SQLite store of model-owned runtime state (runtime_state.py,        *)
(* SQLiteRuntimeStateStore), written by several processes: pipeline runs,  *)
(* the trailing-stop seeder, diagnostic runs.                              *)
(*                                                                         *)
(* apply_patches reads every record in a statement of its own, computes    *)
(* the new records in memory, and then writes events and records in one    *)
(* transaction.  The write lock is taken by the first INSERT only, so      *)
(* another process may commit between the two.  A commit writes the        *)
(* records of the keys of its own batch and no others.                     *)
(***************************************************************************)
EXTENDS StateMap, FiniteSets

CONSTANTS Writers  \* processes

ASSUME BatchAssumption ==
  /\ Batches \subseteq Seq(Patch)
  /\ \A batch \in Batches : \A i \in DOMAIN batch : WellFormed(batch[i])

VARIABLES       \* records and events are the tables model_state, model_state_events
  pending,  \* [Writers -> Batches or <<>>]: patch_tuple of a call under way
  seen      \* [Writers -> [Keys -> Record]]: the records that call has read

storeVars == <<records, events, pending, seen>>

NothingSeen == [k \in Keys |-> NoRecord]
Idle(w) == pending[w] = <<>>

TypeOK ==
  /\ records \in [Keys -> Record]
  /\ \A i \in DOMAIN events :
       events[i] \in [key: Keys, operation: Operations, value: Values, prior: Nat, new: Nat]
  /\ pending \in [Writers -> Batches \cup {<<>>}]
  /\ seen \in [Writers -> [Keys -> Record]]

StoreInit ==
  /\ MapInit
  /\ pending = [w \in Writers |-> <<>>]
  /\ seen = [w \in Writers |-> NothingSeen]

\* apply_patches up to the first INSERT; a call without patches does nothing.
ReadAll(w, batch) ==
  /\ Idle(w)
  /\ batch # <<>>
  /\ pending' = [pending EXCEPT ![w] = batch]
  /\ seen' = [seen EXCEPT ![w] = records]
  /\ UNCHANGED <<records, events>>

Finished(w) ==
  /\ pending' = [pending EXCEPT ![w] = <<>>]
  /\ seen' = [seen EXCEPT ![w] = NothingSeen]

\* Mutant: every record read is written back, as a replaced file would be.
WrittenWhole(w) == [k \in Keys |-> Patched(seen[w][k], k, pending[w])]

\* Mutant: only the record of the batch's last patch is written.
WrittenLast(w) ==
  LET k == pending[w][Len(pending[w])].key
  IN [records EXCEPT ![k] = Patched(seen[w][k], k, pending[w])]

\* The tables after the transaction of w: _upsert_record or _delete_record for
\* the key of every event, from the records computed out of what w had read.
Written(w) == Updated(records, seen[w], pending[w])

\* The transaction of apply_patches.
Commit(w) ==
  /\ ~Idle(w)
  /\ records' = Written(w)
  /\ events' = events \o EventsOf(seen[w], pending[w])
  /\ Finished(w)

\* The process ends, or the write lock stays taken ("database is locked").
Abort(w) ==
  /\ ~Idle(w)
  /\ Finished(w)
  /\ UNCHANGED <<records, events>>

StoreNext ==
  \E w \in Writers :
    \/ \E batch \in Batches : ReadAll(w, batch)
    \/ Commit(w)
    \/ Abort(w)

StoreSpec == StoreInit /\ [][StoreNext]_storeVars

-----------------------------------------------------------------------------
(* Properties. *)

EventsFor(k) == {i \in DOMAIN events : events[i].key = k}

(* The projection and its audit trail agree: the last committed event of a key *)
(* says whether there is a record, which version it has and what was last put  *)
(* in, however writers interleave (the transaction of apply_patches).          *)
RecordsExplained ==
  \A k \in Keys :
    IF EventsFor(k) = {}
    THEN records[k] = NoRecord
    ELSE LET event == events[Max(EventsFor(k))] IN
         /\ records[k].version = event.new
         /\ event.operation # "delete" =>
              \A f \in DOMAIN event.value : records[k].value[f] = event.value[f]

\* The events of a key since it was last deleted, and those of them whose values
\* no later one has replaced as a whole.
Undeleted(k) ==
  {i \in EventsFor(k) : \A j \in EventsFor(k) : j >= i => events[j].operation # "delete"}
Lasting(k) ==
  {i \in Undeleted(k) : \A j \in EventsFor(k) : j > i => events[j].operation = "merge"}

(* The audit trail is complete: replayed from its start, it gives the records. A *)
(* version counts the events since the key was last deleted, and a field is there *)
(* with what the last lasting event that names it has put in. A commit that built *)
(* on a stale read breaks this: it drops what was merged in between, or counts a  *)
(* version twice (apply_patches reads before it takes the write lock).            *)
TrailReplays ==
  \A k \in Keys :
    /\ records[k].version = Cardinality(Undeleted(k))
    /\ DOMAIN records[k].value = UNION {DOMAIN events[i].value : i \in Lasting(k)}
    /\ \A i \in Lasting(k) : \A f \in DOMAIN events[i].value :
         (\A j \in Lasting(k) : j > i => f \notin DOMAIN events[j].value)
         => records[k].value[f] = events[i].value[f]

(* No two calls whose batches share a key are under way together: what the     *)
(* keys of a sleeve (RuntimeModelStateView.key) and one command at a time on a *)
(* sleeve are good for.  The store itself does nothing for it.                 *)
Isolated ==
  \A v, w \in Writers :
    v # w => KeysOf(pending[v]) \cap KeysOf(pending[w]) = {}
===============================================================================
