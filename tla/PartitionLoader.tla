--------------------------- MODULE PartitionLoader ---------------------------
(***************************************************************************)
(* Loading of Object Storage objects into LIST partitions:                 *)
(* process_cloud_event of loader_core/event_processor.py and the functions *)
(* of loader_core/partition_loader.py that it calls.                       *)
(*                                                                         *)
(* A worker is one call of process_cloud_event.  Every transaction and     *)
(* every DDL statement (MySQL commits before and after it, so the row lock *)
(* of a delete does not survive DROP PARTITION) is an action of its own.   *)
(* Any event that was ever sent may be executed, at any time and again.    *)
(*                                                                         *)
(* Events are numbered by their position in `log', and the number of the   *)
(* event that wrote an object is its version: an eTag is never used twice. *)
(* Rows are abstracted to the object they were read from, the version that *)
(* answered the HEAD request and the one that answered the last range: by  *)
(* LoadPool every range is of a version between these.                     *)
(***************************************************************************)
EXTENDS Integers, Sequences

CONSTANTS
  Workers,        \* concurrent calls of process_cloud_event
  Objects,        \* objects of the buckets
  NoObject,       \* stands for "rows of no object"
  Mappings,       \* rows of object_storage_mappings
  MappingOf,      \* the mapping each object resolves to
  Targets,        \* target tables
  NoTarget,       \* stands for "no target"
  InitialTarget,  \* the target of each mapping at first
  MaxEvents,      \* bound: changes made to the buckets
  MaxBatches,     \* bound: batch numbers of one target
  MaxRetargets,   \* bound: mappings edited to another target
  MaxFaults       \* bound: crashes and failing statements

ASSUME ConstantsAssumption ==
  /\ NoObject \notin Objects
  /\ NoTarget \notin Targets
  /\ MappingOf \in [Objects -> Mappings]
  /\ InitialTarget \in [Mappings -> Targets]
  /\ MaxEvents \in Nat
  /\ MaxBatches \in Nat
  /\ MaxRetargets \in Nat
  /\ MaxFaults \in Nat

Batch == 1..MaxBatches
Version == 1..MaxEvents

VARIABLES
  log,         \* the events sent so far: [action, object]
  bucket,      \* version of each object, 0 if it does not exist
  target,      \* object_storage_mappings: target of each mapping
  record,      \* source_object_batches: the row of each object
  sequence,    \* target_batch_sequences.next_batch_num, 0 without a row
  partitions,  \* batch numbers that have a partition, by target
  rows,        \* the rows of each partition
  pc,          \* where each worker is
  job,         \* number of the event it executes
  to,          \* target it resolved, or took from the record
  batch,       \* batch number it was given
  stage,       \* what its stage table holds, or is being filled with: {} if
               \* it has no stage table
  outcome,     \* how its call ends
  orphans,     \* stage tables that no worker will drop any more
  retargets,   \* edits of mappings left
  faults       \* faults left

source == <<log, bucket>>
control == <<record, sequence>>
tables == <<partitions, rows>>
limits == <<retargets, faults>>
workers == <<pc, job, to, batch, stage, outcome>>
vars == <<source, target, control, tables, workers, orphans, limits>>

Actions == {"CREATE", "UPDATE", "DELETE"}
States == {"none", "LOADING", "ACTIVE", "ERROR", "DELETED"}
LoadSteps == {"allocated", "partitioned", "staged", "reading", "filled", "exchanged"}
Steps == {"idle", "resolved", "raised", "cleanup", "deleting", "dropping",
          "dropped", "returned"} \cup LoadSteps

Event(action, object) == [action |-> action, object |-> object]
Events == [action : Actions, object : Objects]

RowsOf(o, h, v) == [of |-> o, head |-> h, version |-> v]
NoRows == RowsOf(NoObject, 0, 0)
Contents == [of : Objects \cup {NoObject}, head : 0..MaxEvents, version : 0..MaxEvents]

\* lease is "running" until LOAD_LEASE_SECONDS after updated_at.
Record(state, at, number, version, lease) ==
  [state |-> state, target |-> at, batch |-> number, version |-> version, lease |-> lease]
RecordRow == [state : States, target : Targets, batch : 0..MaxBatches,
              version : 0..MaxEvents, lease : {"none", "running", "elapsed"}]

Init ==
  /\ log = <<>>
  /\ bucket = [o \in Objects |-> 0]
  /\ target = InitialTarget
  /\ record = [o \in Objects |-> Record("none", InitialTarget[MappingOf[o]], 0, 0, "none")]
  /\ sequence = [t \in Targets |-> 0]
  /\ partitions = [t \in Targets |-> {}]
  /\ rows = [t \in Targets |-> [b \in Batch |-> NoRows]]
  /\ pc = [w \in Workers |-> "idle"]
  /\ job = [w \in Workers |-> 0]
  /\ to = [w \in Workers |-> NoTarget]
  /\ batch = [w \in Workers |-> 0]
  /\ stage = [w \in Workers |-> {}]
  /\ outcome = [w \in Workers |-> "ok"]
  /\ orphans = 0
  /\ retargets = MaxRetargets
  /\ faults = MaxFaults

-----------------------------------------------------------------------------
(* The buckets and the mappings, outside the loader.                       *)

\* An object is written; the event says whether it existed before.
PutObject(o) ==
  /\ Len(log) < MaxEvents
  /\ log' = Append(log, Event(IF bucket[o] = 0 THEN "CREATE" ELSE "UPDATE", o))
  /\ bucket' = [bucket EXCEPT ![o] = Len(log) + 1]
  /\ UNCHANGED <<target, control, tables, workers, orphans, limits>>

RemoveObject(o) ==
  /\ Len(log) < MaxEvents
  /\ bucket[o] # 0
  /\ log' = Append(log, Event("DELETE", o))
  /\ bucket' = [bucket EXCEPT ![o] = 0]
  /\ UNCHANGED <<target, control, tables, workers, orphans, limits>>

\* MappingService.update_mapping with another target: nothing asks whether
\* objects were loaded into the old one.
Retarget(m, t) ==
  /\ retargets > 0
  /\ t # target[m]
  /\ target' = [target EXCEPT ![m] = t]
  /\ retargets' = retargets - 1
  /\ UNCHANGED <<source, control, tables, workers, orphans, faults>>

-----------------------------------------------------------------------------
(* The call of a worker.                                                   *)

Object(w) == log[job[w]].object
Creates(w) == log[job[w]].action = "CREATE"
Now(w) == record[Object(w)]

\* Mutated Busy: without the lease.
BusyForever(r) == r.state = "LOADING"

\* LOADING, and younger than LOAD_LEASE_SECONDS.
Busy(r) == r.state = "LOADING" /\ r.lease = "running"

Step(w, from, upTo) == pc[w] = from /\ pc' = [pc EXCEPT ![w] = upTo]

Returns(w, from, how) ==
  /\ Step(w, from, "returned")
  /\ outcome' = [outcome EXCEPT ![w] = how]

Raises(w, from, how) ==
  /\ Step(w, from, "raised")
  /\ outcome' = [outcome EXCEPT ![w] = how]

\* resolve_mapping: what the worker knows of the mapping from now on.
Begin(w, n) ==
  /\ Step(w, "idle", IF log[n].action = "DELETE" THEN "deleting" ELSE "resolved")
  /\ job' = [job EXCEPT ![w] = n]
  /\ to' = [to EXCEPT ![w] = target[MappingOf[log[n].object]]]
  /\ UNCHANGED <<source, target, control, tables, batch, stage, outcome, orphans, limits>>

\* allocate_or_get_batch raises: no batch record is held, nothing to undo.
AllocateRefused(w) ==
  /\ Returns(w, "resolved", "error")
  /\ \/ Busy(Now(w))
     \/ Now(w).state = "none" /\ ~Creates(w)
     \/ Now(w).state = "ACTIVE" /\ Creates(w) /\ Now(w).version # job[w]
  /\ UNCHANGED <<source, target, control, tables, job, to, batch, stage, orphans, limits>>

\* ... a replay of the create that made the record ACTIVE: the record is
\* returned as it is, and the caller goes on with it.
AllocateReplay(w) ==
  /\ Step(w, "resolved", "allocated")
  /\ Now(w).state = "ACTIVE" /\ Creates(w) /\ Now(w).version = job[w]
  /\ batch' = [batch EXCEPT ![w] = Now(w).batch]
  /\ UNCHANGED <<source, target, control, tables, job, to, stage, outcome, orphans, limits>>

\* Mutated AllocateAgain: an update is refused too if the record is ACTIVE.
AllocateAgainInactive(w) ==
  /\ Step(w, "resolved", "allocated")
  /\ Now(w).state \notin {"none", "ACTIVE"}
  /\ ~Busy(Now(w))
  /\ batch' = [batch EXCEPT ![w] = Now(w).batch]
  /\ sequence' = [sequence EXCEPT ![to[w]] = IF @ > Now(w).batch THEN @ ELSE Now(w).batch + 1]
  /\ record' = [record EXCEPT ![Object(w)] = Record("LOADING", @.target, @.batch, job[w], "running")]
  /\ UNCHANGED <<source, target, tables, job, to, stage, outcome, orphans, limits>>

\* Mutated AllocateAgain: every load draws a number of its own.
AllocateAgainAnew(w) ==
  /\ Step(w, "resolved", "allocated")
  /\ Now(w).state # "none"
  /\ ~Busy(Now(w))
  /\ ~(Now(w).state = "ACTIVE" /\ Creates(w))
  /\ batch' = [batch EXCEPT ![w] = sequence[to[w]]]
  /\ sequence' = [sequence EXCEPT ![to[w]] = @ + 1]
  /\ record' = [record EXCEPT ![Object(w)] = Record("LOADING", @.target, sequence[to[w]], job[w], "running")]
  /\ UNCHANGED <<source, target, tables, job, to, stage, outcome, orphans, limits>>

\* ... the object's batch number is used again.  A load whose lease ran out
\* counts as failed.  The target columns of the record are left alone.
AllocateAgain(w) ==
  /\ Step(w, "resolved", "allocated")
  /\ Now(w).state # "none"
  /\ ~Busy(Now(w))
  /\ ~(Now(w).state = "ACTIVE" /\ Creates(w))
  /\ batch' = [batch EXCEPT ![w] = Now(w).batch]
  /\ sequence' = [sequence EXCEPT ![to[w]] = IF @ > Now(w).batch THEN @ ELSE Now(w).batch + 1]
  /\ record' = [record EXCEPT ![Object(w)] = Record("LOADING", @.target, @.batch, job[w], "running")]
  /\ UNCHANGED <<source, target, tables, job, to, stage, outcome, orphans, limits>>

\* MAX(batch_num) + 1 of the records of the target.
IsInitialBatch(t, b) ==
  /\ \A o \in Objects : record[o].state # "none" /\ record[o].target = t => record[o].batch < b
  /\ b = 1 \/ \E o \in Objects :
       record[o].state # "none" /\ record[o].target = t /\ record[o].batch = b - 1

\* Mutated AllocateNew: the sequence is read, not advanced.
AllocateNewUnadvanced(w) ==
  /\ Step(w, "resolved", "allocated")
  /\ Now(w).state = "none"
  /\ Creates(w)
  /\ \E b \in Batch :
        /\ IF sequence[to[w]] # 0 THEN b = sequence[to[w]] ELSE IsInitialBatch(to[w], b)
        /\ sequence' = [sequence EXCEPT ![to[w]] = b]
        /\ record' = [record EXCEPT ![Object(w)] = Record("LOADING", to[w], b, job[w], "running")]
        /\ batch' = [batch EXCEPT ![w] = b]
  /\ UNCHANGED <<source, target, tables, job, to, stage, outcome, orphans, limits>>

\* ... the first create of the object takes the next number of the target.
AllocateNew(w) ==
  /\ Step(w, "resolved", "allocated")
  /\ Now(w).state = "none"
  /\ Creates(w)
  /\ \E b \in Batch :
        /\ IF sequence[to[w]] # 0 THEN b = sequence[to[w]] ELSE IsInitialBatch(to[w], b)
        /\ sequence' = [sequence EXCEPT ![to[w]] = b + 1]
        /\ record' = [record EXCEPT ![Object(w)] = Record("LOADING", to[w], b, job[w], "running")]
        /\ batch' = [batch EXCEPT ![w] = b]
  /\ UNCHANGED <<source, target, tables, job, to, stage, outcome, orphans, limits>>

\* Mutated EnsurePartition: a partition that exists is emptied first.
EnsureEmptyPartition(w) ==
  /\ Step(w, "allocated", "partitioned")
  /\ partitions' = [partitions EXCEPT ![to[w]] = @ \cup {batch[w]}]
  /\ rows' = [rows EXCEPT ![to[w]][batch[w]] = NoRows]
  /\ UNCHANGED <<source, target, control, job, to, batch, stage, outcome, orphans, limits>>

\* ensure_partition: ADD PARTITION unless it is there.
EnsurePartition(w) ==
  /\ Step(w, "allocated", "partitioned")
  /\ partitions' = [partitions EXCEPT ![to[w]] = @ \cup {batch[w]}]
  /\ UNCHANGED <<source, target, control, rows, job, to, batch, stage, outcome, orphans, limits>>

\* create_stage_table: under a name of its own.
CreateStage(w) ==
  /\ Step(w, "partitioned", "staged")
  /\ stage' = [stage EXCEPT ![w] = {NoRows}]
  /\ UNCHANGED <<source, target, control, tables, job, to, batch, outcome, orphans, limits>>

\* _object_stream: the HEAD request is answered by the object as it is by now,
\* which may be newer than the event.
OpenObject(w) ==
  /\ Step(w, "staged", "reading")
  /\ bucket[Object(w)] # 0
  /\ LET h == bucket[Object(w)] IN stage' = [stage EXCEPT ![w] = {RowsOf(Object(w), h, h)}]
  /\ UNCHANGED <<source, target, control, tables, job, to, batch, outcome, orphans, limits>>

\* load_csv_parallel up to the last range.  No request names a version, so a
\* range is of whatever version is in the bucket when it is asked for.
FillStage(w) ==
  /\ Step(w, "reading", "filled")
  /\ bucket[Object(w)] # 0
  /\ \E c \in stage[w] :
        stage' = [stage EXCEPT ![w] = {RowsOf(Object(w), c.head, bucket[Object(w)])}]
  /\ UNCHANGED <<source, target, control, tables, job, to, batch, outcome, orphans, limits>>

\* Object Storage answers 404 to HEAD or to a range.
ObjectMissing(w) ==
  /\ \E from \in {"staged", "reading"} : Raises(w, from, "missing")
  /\ bucket[Object(w)] = 0
  /\ UNCHANGED <<source, target, control, tables, job, to, batch, stage, orphans, limits>>

\* ... or a version shorter than the first one cannot fill a range.
ObjectChanged(w) ==
  /\ Raises(w, "reading", "error")
  /\ \E c \in stage[w] : bucket[Object(w)] \notin {0, c.head}
  /\ UNCHANGED <<source, target, control, tables, job, to, batch, stage, orphans, limits>>

\* validate_and_exchange: partition and stage swap their rows.
Exchange(w) ==
  /\ Step(w, "filled", "exchanged")
  /\ batch[w] \in partitions[to[w]]
  /\ \E c \in stage[w] : rows' = [rows EXCEPT ![to[w]][batch[w]] = c]
  /\ stage' = [stage EXCEPT ![w] = {rows[to[w]][batch[w]]}]
  /\ UNCHANGED <<source, target, control, partitions, job, to, batch, outcome, orphans, limits>>

\* ... fails if a delete has dropped the partition meanwhile.
ExchangeFails(w) ==
  /\ Raises(w, "filled", "error")
  /\ batch[w] \notin partitions[to[w]]
  /\ UNCHANGED <<source, target, control, tables, job, to, batch, stage, orphans, limits>>

\* mark_active and mark_error write the record by id, whatever it says by then.
SetState(w, state) ==
  record' = [record EXCEPT ![Object(w)] = Record(state, @.target, @.batch, @.version, "none")]

\* Mutated MarkActive: the record is marked without waiting for the exchange.
MarkActiveEarly(w) ==
  /\ Step(w, "filled", "cleanup")
  /\ SetState(w, "ACTIVE")
  /\ UNCHANGED <<source, target, sequence, tables, job, to, batch, stage, outcome, orphans, limits>>

MarkActive(w) ==
  /\ Step(w, "exchanged", "cleanup")
  /\ SetState(w, "ACTIVE")
  /\ UNCHANGED <<source, target, sequence, tables, job, to, batch, stage, outcome, orphans, limits>>

MarkError(w) ==
  /\ Step(w, "raised", "cleanup")
  /\ SetState(w, "ERROR")
  /\ UNCHANGED <<source, target, sequence, tables, job, to, batch, stage, outcome, orphans, limits>>

\* Mutated DropStage: only a successful load drops its stage table.
DropStageOnSuccess(w) ==
  /\ Step(w, "cleanup", "returned")
  /\ orphans' = IF outcome[w] = "ok" \/ stage[w] = {} THEN orphans ELSE orphans + 1
  /\ stage' = [stage EXCEPT ![w] = {}]
  /\ UNCHANGED <<source, target, control, tables, job, to, batch, outcome, limits>>

\* The finally clause: drop_stage_table.
DropStage(w) ==
  /\ Step(w, "cleanup", "returned")
  /\ stage' = [stage EXCEPT ![w] = {}]
  /\ UNCHANGED <<source, target, control, tables, job, to, batch, outcome, orphans, limits>>

-----------------------------------------------------------------------------
(* delete_event.                                                           *)

\* Mutated DeleteAbsent: a failed load counts as absent.
DeleteInactive(w) ==
  /\ Returns(w, "deleting", "ok")
  /\ Now(w).state \in {"none", "DELETED", "ERROR"}
  /\ UNCHANGED <<source, target, control, tables, job, to, batch, stage, orphans, limits>>

\* Nothing to delete: "already absent".
DeleteAbsent(w) ==
  /\ Returns(w, "deleting", "ok")
  /\ Now(w).state \in {"none", "DELETED"}
  /\ UNCHANGED <<source, target, control, tables, job, to, batch, stage, orphans, limits>>

\* A load is in progress, however old it is.
DeleteRefused(w) ==
  /\ Returns(w, "deleting", "error")
  /\ Now(w).state = "LOADING"
  /\ UNCHANGED <<source, target, control, tables, job, to, batch, stage, orphans, limits>>

\* The record is read under a row lock; the partition to drop is the one of
\* the record, not the one of the mapping.
DeleteRead(w) ==
  /\ Step(w, "deleting", "dropping")
  /\ Now(w).state \in {"ACTIVE", "ERROR"}
  /\ to' = [to EXCEPT ![w] = Now(w).target]
  /\ batch' = [batch EXCEPT ![w] = Now(w).batch]
  /\ UNCHANGED <<source, target, control, tables, job, stage, outcome, orphans, limits>>

\* The DDL commits first, so the lock is gone when the partition is dropped.
DropPartition(w) ==
  /\ Step(w, "dropping", "dropped")
  /\ batch[w] \in partitions[to[w]]
  /\ partitions' = [partitions EXCEPT ![to[w]] = @ \ {batch[w]}]
  /\ rows' = [rows EXCEPT ![to[w]][batch[w]] = NoRows]
  /\ UNCHANGED <<source, target, control, job, to, batch, stage, outcome, orphans, limits>>

\* DROP PARTITION of a partition that does not exist is an error.
DropFails(w) ==
  /\ Returns(w, "dropping", "error")
  /\ batch[w] \notin partitions[to[w]]
  /\ UNCHANGED <<source, target, control, tables, job, to, batch, stage, orphans, limits>>

MarkDeleted(w) ==
  /\ Returns(w, "dropped", "ok")
  /\ SetState(w, "DELETED")
  /\ UNCHANGED <<source, target, sequence, tables, job, to, batch, stage, orphans, limits>>

-----------------------------------------------------------------------------
(* Failures, time, and the end of the call.                                *)

Fault == faults > 0 /\ faults' = faults - 1

\* A statement or a read raises before or after it took effect.  Before a
\* record is held, and in a delete, the call just ends.
CallFails(w) ==
  /\ Fault
  /\ \E from \in {"resolved", "deleting", "dropping", "dropped"} : Returns(w, from, "error")
  /\ UNCHANGED <<source, target, control, tables, job, to, batch, stage, orphans, retargets>>

\* ... while a record is held, it is marked.  create_stage_table that fails
\* in its second statement leaves a stage table nobody knows of.
LoadFails(w) ==
  /\ Fault
  /\ \E from \in LoadSteps : Raises(w, from, "error")
  /\ orphans' \in {orphans, IF pc[w] = "partitioned" THEN orphans + 1 ELSE orphans}
  /\ UNCHANGED <<source, target, control, tables, job, to, batch, stage, retargets>>

\* Errors of mark_error and of drop_stage_table are swallowed.
MarkErrorFails(w) ==
  /\ Fault
  /\ Step(w, "raised", "cleanup")
  /\ UNCHANGED <<source, target, control, tables, job, to, batch, stage, outcome, orphans, retargets>>

Abandoned(w) == IF stage[w] = {} THEN orphans ELSE orphans + 1

DropStageFails(w) ==
  /\ Fault
  /\ Step(w, "cleanup", "returned")
  /\ orphans' = Abandoned(w)
  /\ stage' = [stage EXCEPT ![w] = {}]
  /\ UNCHANGED <<source, target, control, tables, job, to, batch, outcome, retargets>>

\* Nothing of a call is left in memory.
Leaves(w) ==
  /\ pc' = [pc EXCEPT ![w] = "idle"]
  /\ job' = [job EXCEPT ![w] = 0]
  /\ to' = [to EXCEPT ![w] = NoTarget]
  /\ batch' = [batch EXCEPT ![w] = 0]
  /\ stage' = [stage EXCEPT ![w] = {}]
  /\ outcome' = [outcome EXCEPT ![w] = "ok"]
  /\ UNCHANGED <<source, target, control, tables, retargets>>

\* The process dies.
Crash(w) ==
  /\ Fault
  /\ pc[w] # "idle"
  /\ orphans' = Abandoned(w)
  /\ Leaves(w)

\* LOAD_LEASE_SECONDS pass; the load may still be running.
LeaseElapses(o) ==
  /\ Busy(record[o])
  /\ record' = [record EXCEPT ![o] = Record(@.state, @.target, @.batch, @.version, "elapsed")]
  /\ UNCHANGED <<source, target, sequence, tables, workers, orphans, limits>>

Return(w) == pc[w] = "returned" /\ Leaves(w) /\ UNCHANGED <<orphans, faults>>

-----------------------------------------------------------------------------
LoadStep(w) ==
  \/ AllocateRefused(w) \/ AllocateReplay(w) \/ AllocateAgain(w) \/ AllocateNew(w)
  \/ EnsurePartition(w) \/ CreateStage(w) \/ OpenObject(w) \/ FillStage(w)
  \/ ObjectMissing(w) \/ ObjectChanged(w) \/ Exchange(w) \/ ExchangeFails(w)
  \/ MarkActive(w) \/ MarkError(w) \/ DropStage(w)

DeleteStep(w) ==
  \/ DeleteAbsent(w) \/ DeleteRefused(w) \/ DeleteRead(w)
  \/ DropPartition(w) \/ DropFails(w) \/ MarkDeleted(w)

Failure(w) ==
  \/ CallFails(w) \/ LoadFails(w) \/ MarkErrorFails(w) \/ DropStageFails(w) \/ Crash(w)

Buckets == \E o \in Objects : PutObject(o) \/ RemoveObject(o)

Next ==
  \/ Buckets
  \/ \E m \in Mappings, t \in Targets : Retarget(m, t)
  \/ \E w \in Workers, n \in 1..Len(log) : Begin(w, n)
  \/ \E w \in Workers : LoadStep(w) \/ DeleteStep(w) \/ Failure(w) \/ Return(w)
  \/ \E o \in Objects : LeaseElapses(o)

Spec == Init /\ [][Next]_vars

-----------------------------------------------------------------------------
(* Properties.                                                             *)

Known(o) == record[o].state # "none"

\* Every variable has its type; an object keeps its batch number, so no
\* number is drawn but for a new object.
TypeOK ==
  /\ log \in Seq(Events)
  /\ Len(log) <= MaxEvents
  /\ bucket \in [Objects -> 0..Len(log)]
  /\ target \in [Mappings -> Targets]
  /\ record \in [Objects -> RecordRow]
  /\ sequence \in [Targets -> 0..(MaxBatches + 1)]
  /\ partitions \in [Targets -> SUBSET Batch]
  /\ rows \in [Targets -> [Batch -> Contents]]
  /\ pc \in [Workers -> Steps]
  /\ job \in [Workers -> 0..Len(log)]
  /\ to \in [Workers -> Targets \cup {NoTarget}]
  /\ batch \in [Workers -> 0..MaxBatches]
  /\ stage \in [Workers -> SUBSET Contents]
  /\ outcome \in [Workers -> {"ok", "error", "missing"}]
  /\ orphans \in Nat
  /\ retargets \in 0..MaxRetargets
  /\ faults \in 0..MaxFaults

\* Two objects of one target never share a batch number, whatever replays,
\* overlapping loads and edited mappings do to the sequences.
BatchesDistinct ==
  \A o, q \in Objects : Known(o) /\ Known(q) /\ o # q /\ record[o].target = record[q].target
                    => record[o].batch # record[q].batch

\* As long as no mapping has been given another target, the rows of an
\* object are only ever in the partition its record names: a load never
\* displaces another object, a delete never drops another object's rows.
RowsInOwnPartition ==
  retargets = MaxRetargets =>
    \A t \in Targets, b \in Batch :
      LET o == rows[t][b].of
      IN o # NoObject => Known(o) /\ record[o].target = t /\ record[o].batch = b

\* A stage table outlives its load only if something failed.
OrphansNeedFaults == orphans + faults <= MaxFaults

\* allocate_or_get_batch says that the replay of a create that already made
\* the record ACTIVE "is a successful no-op rather than a failed load".
ReplayIsNoOp ==
  [][\A w \in Workers : Step(w, "raised", "cleanup") /\ record'[Object(w)].state = "ERROR"
        => ~(Creates(w) /\ Now(w).state = "ACTIVE" /\ Now(w).version = job[w])]_vars
=============================================================================
