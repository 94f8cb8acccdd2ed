------------------------------ MODULE LoadPool ------------------------------
(***************************************************************************)
(* What one load does between creating its stage table and dropping it:    *)
(* ObjectStorageRangeStream reads the object range by range, csv_batches   *)
(* cuts its rows into batches, and load_csv_parallel has a pool of threads *)
(* insert them.  PartitionLoader takes all this as two steps, OpenObject   *)
(* and FillStage, and its rows to be what ExchangedVersions shows here.    *)
(*                                                                         *)
(* A block is a piece of the object that holds one row (the first one also *)
(* the header), so that a row is known by the number of its block and by   *)
(* the version of the object that block was read from.  A range is a       *)
(* number of blocks.  The buffers between stream and CSV reader read ahead *)
(* by less than a range and are left out.                                  *)
(***************************************************************************)
EXTENDS Integers, Sequences, FiniteSets

CONSTANTS
  Threads,     \* max_workers of the pool
  RangeBlocks, \* OBJECT_STORAGE_RANGE_BYTES
  BatchRows,   \* BATCH_ROWS
  Versions,    \* bound: versions the object may get, 1 .. Versions
  Size,        \* how many blocks each version has
  MaxSize,     \* bound: the largest of them
  Malformed,   \* versions whose header does not match the target's columns
  MaxFaults    \* bound: failing reads and inserts

ASSUME PoolAssumption ==
  /\ Threads \in Nat \ {0}
  /\ RangeBlocks \in Nat \ {0}
  /\ BatchRows \in Nat \ {0}
  /\ Versions \in Nat \ {0}
  /\ MaxSize \in Nat
  /\ Size \in [1..Versions -> 1..MaxSize]
  /\ MaxFaults \in Nat

VARIABLES
  object,   \* the version in the bucket, 0 if there is no such object
  latest,   \* versions and deletions so far
  head,     \* history: the version that answered the HEAD request
  length,   \* _length, from the HEAD request
  position, \* _position: blocks read
  body,     \* version of the open range response, 0 if none is open
  until,    \* where the open range ends
  rows,     \* the batch being composed: a set of [block, version]
  jobs,     \* the futures: [rows, state], in the order of their submission
  pending,  \* numbers of the futures whose result was not taken yet
  stage,    \* the stage table: versions of the rows inserted for each block
  table,    \* the partition after the exchange, likewise
  pc,       \* where the thread that loads is
  result,   \* "none" until the pool is left, then "rows" or "raised"
  faults    \* faults left

bucket == <<object, latest>>
stream == <<head, length, position, body, until>>
pool == <<jobs, pending>>
vars == <<bucket, stream, rows, pool, stage, table, pc, result, faults>>

Block == 1..MaxSize
Row == [block : Block, version : 1..Versions]
NoRows == [b \in Block |-> <<>>]
Steps == {"head", "reading", "waiting", "draining", "leaving", "exchange",
          "cleanup", "ended"}
JobStates == {"queued", "running", "done", "failed"}

Smaller(m, n) == IF m <= n THEN m ELSE n

Init ==
  /\ object = 1 /\ latest = 1
  /\ head = 0 /\ length = 0 /\ position = 0 /\ body = 0 /\ until = 0
  /\ rows = {} /\ jobs = <<>> /\ pending = {}
  /\ stage = NoRows /\ table = NoRows
  /\ pc = "head" /\ result = "none" /\ faults = MaxFaults

-----------------------------------------------------------------------------
(* The bucket, at any moment. *)

Overwrite ==
  /\ latest < Versions
  /\ latest' = latest + 1
  /\ object' = latest'
  /\ UNCHANGED <<stream, rows, pool, stage, table, pc, result, faults>>

Remove ==
  /\ object # 0
  /\ object' = 0
  /\ UNCHANGED <<latest, stream, rows, pool, stage, table, pc, result, faults>>

-----------------------------------------------------------------------------
(* ObjectStorageRangeStream and csv_batches, in the thread that loads. *)

\* An exception in the loop leaves the `with' block of the pool.
Raise(to) == pc' = to /\ result' = "raised"

OpenObject ==
  /\ pc = "head"
  /\ IF object = 0
     THEN Raise("cleanup") /\ UNCHANGED stream
     ELSE /\ head' = object
          /\ length' = Size[object]
          /\ pc' = "reading"
          /\ UNCHANGED <<position, body, until, result>>
  /\ UNCHANGED <<bucket, rows, pool, stage, table, faults>>

WantsBlock == pc = "reading" /\ position < length /\ Cardinality(rows) < BatchRows

\* Mutated: the end of the last range is not clipped.
OpenRangeUnclipped ==
  /\ WantsBlock /\ body = 0 /\ object # 0 /\ Size[object] > position
  /\ body' = object
  /\ until' = position + RangeBlocks
  /\ UNCHANGED <<bucket, head, length, position, rows, pool, stage, table, pc,
                 result, faults>>

\* The request names the bytes and nothing else, so the version that is in the
\* bucket now answers.  One that ends before the range begins is refused (416),
\* like an object that is gone (404).
OpenRange ==
  /\ WantsBlock /\ body = 0
  /\ IF object # 0 /\ Size[object] > position
     THEN /\ body' = object
          /\ until' = Smaller(position + RangeBlocks, length)
          /\ UNCHANGED <<pc, result>>
     ELSE Raise("leaving") /\ UNCHANGED <<body, until>>
  /\ UNCHANGED <<bucket, head, length, position, rows, pool, stage, table, faults>>

HeaderOK == position > 0 \/ body \notin Malformed

ReadBlock ==
  /\ WantsBlock /\ body # 0 /\ position < Size[body] /\ HeaderOK
  /\ rows' = rows \cup {[block |-> position + 1, version |-> body]}
  /\ position' = position + 1
  /\ body' = IF position' = until THEN 0 ELSE body
  /\ UNCHANGED <<bucket, head, length, until, pool, stage, table, pc, result, faults>>

\* Mutated: a response that ends early is taken for the end of the object.
ReadEndsEarly ==
  /\ WantsBlock /\ body # 0 /\ position >= Size[body]
  /\ length' = position /\ body' = 0
  /\ UNCHANGED <<bucket, head, position, until, rows, pool, stage, table, pc,
                 result, faults>>

\* The header does not match, or the response ends before its advertised range:
\* because its version is shorter than the one of the HEAD request, or it broke.
ReadRaises ==
  /\ WantsBlock /\ body # 0
  /\ \/ ~HeaderOK /\ UNCHANGED faults
     \/ position >= Size[body] /\ UNCHANGED faults
     \/ faults > 0 /\ faults' = faults - 1
  /\ Raise("leaving")
  /\ UNCHANGED <<bucket, stream, rows, pool, stage, table>>

-----------------------------------------------------------------------------
(* load_csv_parallel, in the same thread. *)

BatchFull == Cardinality(rows) = BatchRows \/ (position = length /\ rows # {})

\* Mutated: waits only above the bound.
SubmitUnbounded ==
  /\ pc = "reading" /\ BatchFull
  /\ jobs' = Append(jobs, [rows |-> rows, state |-> "queued"])
  /\ pending' = pending \cup {Len(jobs) + 1}
  /\ rows' = {}
  /\ pc' = IF Cardinality(pending') > 2 * Threads THEN "waiting" ELSE "reading"
  /\ UNCHANGED <<bucket, stream, stage, table, result, faults>>

Submit ==
  /\ pc = "reading" /\ BatchFull
  /\ jobs' = Append(jobs, [rows |-> rows, state |-> "queued"])
  /\ pending' = pending \cup {Len(jobs) + 1}
  /\ rows' = {}
  /\ pc' = IF Cardinality(pending') >= 2 * Threads THEN "waiting" ELSE "reading"
  /\ UNCHANGED <<bucket, stream, stage, table, result, faults>>

InState(S) == {j \in DOMAIN jobs : jobs[j].state \in S}
Unfinished == InState({"queued", "running"})
\* Mutated: a future whose call raised is never set.
FinishedIfDone == InState({"done"})
Finished == InState({"done", "failed"})

\* Mutated: wait() makes room, but the results of the finished are not taken.
TakeNoResults(js, next) ==
  /\ pending' = pending \ js
  /\ pc' = next
  /\ UNCHANGED <<bucket, stream, rows, jobs, stage, table, result, faults>>

\* job.result() for the futures in js: raises what one of them raised.
TakeResults(js, next) ==
  /\ pending' = pending \ js
  /\ IF js \cap InState({"failed"}) # {}
     THEN Raise("leaving")
     ELSE pc' = next /\ UNCHANGED result
  /\ UNCHANGED <<bucket, stream, rows, jobs, stage, table, faults>>

\* wait(pending, return_when=FIRST_COMPLETED)
WaitFirst ==
  /\ pc = "waiting"
  /\ pending \cap Finished # {}
  /\ TakeResults(pending \cap Finished, "reading")

EndOfObject ==
  /\ pc = "reading" /\ position = length /\ rows = {}
  /\ pc' = "draining"
  /\ UNCHANGED <<bucket, stream, rows, pool, stage, table, result, faults>>

Drain ==
  /\ pc = "draining"
  /\ \E j \in pending \cap Finished : TakeResults({j}, "draining")

Drained ==
  /\ pc = "draining" /\ pending = {}
  /\ pc' = "leaving" /\ result' = "rows"
  /\ UNCHANGED <<bucket, stream, rows, pool, stage, table, faults>>

\* Mutated: shutdown(wait=False).
LeaveAtOnce ==
  /\ pc = "leaving"
  /\ pc' = IF result = "rows" THEN "exchange" ELSE "cleanup"
  /\ UNCHANGED <<bucket, stream, rows, pool, stage, table, result, faults>>

\* The end of the `with' block: shutdown(wait=True) waits for every future, the
\* queued ones too, and only then does an exception go on.
LeavePool ==
  /\ pc = "leaving" /\ Unfinished = {}
  /\ pc' = IF result = "rows" THEN "exchange" ELSE "cleanup"
  /\ UNCHANGED <<bucket, stream, rows, pool, stage, table, result, faults>>

-----------------------------------------------------------------------------
(* insert_batch, in the threads of the pool.  One transaction per batch. *)

\* A thread that is free takes the oldest work item.
StartInsert(j) ==
  /\ jobs[j].state = "queued"
  /\ \A i \in 1..(j - 1) : jobs[i].state # "queued"
  /\ Cardinality(InState({"running"})) < Threads
  /\ jobs' = [jobs EXCEPT ![j].state = "running"]
  /\ UNCHANGED <<bucket, stream, rows, pending, stage, table, pc, result, faults>>

\* The stage table with the rows of a batch added.
Inserted(batch) ==
  [b \in Block |-> IF \E r \in batch : r.block = b
                   THEN Append(stage[b], (CHOOSE r \in batch : r.block = b).version)
                   ELSE stage[b]]

CommitInsert(j) ==
  /\ jobs[j].state = "running"
  /\ stage' = Inserted(jobs[j].rows)
  /\ jobs' = [jobs EXCEPT ![j].state = "done"]
  /\ UNCHANGED <<bucket, stream, rows, pending, table, pc, result, faults>>

\* The statement fails and is rolled back, or the answer to the commit is lost.
InsertFails(j) ==
  /\ jobs[j].state = "running" /\ faults > 0
  /\ stage' \in {stage, Inserted(jobs[j].rows)}
  /\ jobs' = [jobs EXCEPT ![j].state = "failed"]
  /\ faults' = faults - 1
  /\ UNCHANGED <<bucket, stream, rows, pending, table, pc, result>>

-----------------------------------------------------------------------------
(* The end of _run_load. *)

Exchange ==
  /\ pc = "exchange"
  /\ table' = stage /\ stage' = table
  /\ pc' = "cleanup"
  /\ UNCHANGED <<bucket, stream, rows, pool, result, faults>>

DropStage ==
  /\ pc = "cleanup"
  /\ stage' = NoRows
  /\ pc' = "ended"
  /\ UNCHANGED <<bucket, stream, rows, pool, table, result, faults>>

Ended == pc = "ended" /\ UNCHANGED vars

LoadThread ==
  \/ OpenObject \/ OpenRange \/ ReadBlock \/ ReadRaises
  \/ Submit \/ WaitFirst \/ EndOfObject \/ Drain \/ Drained
  \/ LeavePool \/ Exchange \/ DropStage

PoolThread(j) == StartInsert(j) \/ CommitInsert(j) \/ InsertFails(j)

Next ==
  \/ Overwrite \/ Remove
  \/ LoadThread
  \/ \E j \in DOMAIN jobs : PoolThread(j)
  \/ Ended

Spec == Init /\ [][Next]_vars

\* Requests end, as they have timeouts; threads run.
Fairness ==
  /\ WF_vars(LoadThread)
  /\ WF_vars(\E j \in DOMAIN jobs : PoolThread(j))

FairSpec == Spec /\ Fairness

-----------------------------------------------------------------------------
(* The variables have their types. *)
TypeOK ==
  /\ object \in 0..latest /\ latest \in 1..Versions
  /\ head \in 0..Versions /\ length \in 0..MaxSize
  /\ position \in 0..length /\ body \in 0..Versions /\ until \in 0..length
  /\ rows \subseteq Row
  /\ jobs \in Seq([rows : SUBSET Row, state : JobStates])
  /\ pending \subseteq DOMAIN jobs
  /\ stage \in [Block -> Seq(1..Versions)]
  /\ table \in [Block -> Seq(1..Versions)]
  /\ pc \in Steps /\ result \in {"none", "rows", "raised"}
  /\ faults \in 0..MaxFaults

(* However fast the object is read, the batches in memory are at most twice
   as many as there are threads, besides the one that is composed: the bound
   that load_csv_parallel puts on the memory of a processor. *)
BatchesBounded == Cardinality(Unfinished) <= 2 * Threads

(* When one insert fails, the others are still under way.  None of them is
   when the stage table is exchanged or dropped: a late insert would go into
   the partition of the object's rows, or fail on a table that is gone. *)
StageIsQuiet ==
  pc \in {"exchange", "cleanup", "ended"} => Unfinished = {}

(* What is exchanged into the target has every row up to the length that the
   HEAD request told, once, and no other: an insert or read that failed, in
   whichever thread and however late, keeps the stage out of the target. *)
ExchangedWhole ==
  table # NoRows =>
    \A b \in Block : Len(table[b]) = IF b <= Size[head] THEN 1 ELSE 0

(* Of which versions it is.  Without an overwrite since the HEAD request it is
   that version.  With one, rows of several versions may be combined, as no
   range request names a version; but never in the order of the versions
   reversed, and never if the last range is from a version shorter than the
   length that was told: then the load fails. *)
VersionsAt(b) == {table[b][i] : i \in DOMAIN table[b]}
ExchangedVersions ==
  table # NoRows =>
    /\ latest = head => \A b \in Block : VersionsAt(b) \subseteq {head}
    /\ \A a, b \in Block : a < b =>
         \A v \in VersionsAt(a), w \in VersionsAt(b) : v <= w
    /\ \E v \in VersionsAt(Size[head]) : Size[v] >= Size[head]

(* The load ends, whatever fails or changes: no thread waits for another that
   waits for it. *)
LoadEnds == <>(pc = "ended")
=============================================================================
