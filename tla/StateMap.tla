------------------------------- MODULE StateMap -------------------------------
(***************************************************************************)
(* Patches of model-owned runtime state, what they do to a record, and     *)
(* what a runtime state store promises (runtime_state.py).  A model asks   *)
(* for a change with a StatePatch; the runtime applies a batch of patches  *)
(* in order and writes an audit event for each.  A store is a map of       *)
(* versioned records that changes by whole batches, each of which sees     *)
(* everything committed before it: it is what InMemoryRuntimeStateStore    *)
(* does within one process.                                                *)
(*                                                                         *)
(* A value is a function from some fields to data.  A key without a record *)
(* holds NoRecord, whose version 0 stands for None.  The result of a batch *)
(* is defined key by key, because a patch reads and writes its own key     *)
(* only.  Time stamps, reasons and ids are left out.                       *)
(***************************************************************************)
EXTENDS Naturals, Sequences, FiniteSetsExt

CONSTANTS
  Keys,    \* ModelStateKey: sleeve, model, namespace, symbol, position
  Fields,  \* field names of the values
  Data,    \* what a field may hold
  Batches  \* the batches of patches that may be committed

Values == UNION {[S -> Data] : S \in SUBSET Fields}
NoRecord == [value |-> <<>>, version |-> 0]
Operations == {"set", "merge", "delete"}
Patch == [key: Keys, operation: Operations, value: Values]
Record == [value: Values, version: Nat]

\* StatePatch.__post_init__: set and merge need a value.
WellFormed(patch) ==
  patch.operation # "delete" => DOMAIN patch.value # {}

\* Mutant: a merge keeps nothing of the value that was there, as a set does.
MergedAnew(old, new) == new

\* {**existing.value, **value}
Merged(old, new) ==
  [f \in DOMAIN old \cup DOMAIN new |-> IF f \in DOMAIN new THEN new[f] ELSE old[f]]

\* _apply_patch_to_records, for the record of the patch's key.
Applied(record, patch) ==
  IF patch.operation = "delete"
  THEN NoRecord
  ELSE [value |-> IF patch.operation = "merge" THEN Merged(record.value, patch.value)
                                               ELSE patch.value,
        version |-> record.version + 1]

KeysOf(batch) == {batch[i].key : i \in DOMAIN batch}

\* The record of key k after the first n patches of the batch.
After(record, k, batch, n) ==
  LET after[i \in 0..n] ==
        IF i = 0 THEN record
        ELSE IF batch[i].key = k THEN Applied(after[i - 1], batch[i])
        ELSE after[i - 1]
  IN after[n]

Patched(record, k, batch) == After(record, k, batch, Len(batch))

\* ModelStateEvent: the patch, the version it found and the version it left.
EventOf(read, batch, i) ==
  LET patch == batch[i]
      version(n) == After(read[patch.key], patch.key, batch, n).version
  IN [key |-> patch.key, operation |-> patch.operation, value |-> patch.value,
      prior |-> version(i - 1), new |-> version(i)]

\* The table after the keys of the batch have been written, from the records seen.
Updated(table, read, batch) ==
  [k \in Keys |-> IF k \in KeysOf(batch) THEN Patched(read[k], k, batch) ELSE table[k]]

EventsOf(read, batch) == [i \in 1..Len(batch) |-> EventOf(read, batch, i)]

--------------------------------------------------------------------------------
(* The abstract store.                                                          *)

VARIABLES
  records,  \* [Keys -> Record]
  events    \* the audit events, in the order of the commits

MapInit ==
  /\ records = [k \in Keys |-> NoRecord]
  /\ events = <<>>

Apply(batch) ==
  /\ batch # <<>>
  /\ Len(events') = Len(events) + Len(batch)  \* follows; lets TLC try few batches
  /\ records' = Updated(records, records, batch)
  /\ events' = events \o EventsOf(records, batch)

MapNext == \E batch \in Batches : Apply(batch)

(* A runtime state store is a map: every batch takes effect at once and on all *)
(* that was committed before it (InMemoryRuntimeStateStore.apply_patches).     *)
MapSpec == MapInit /\ [][MapNext]_<<records, events>>
===============================================================================
