------------------------- MODULE StreamPipelineProofs -------------------------
(***************************************************************************)
(* Theorems about the whole path in FIFO mode, for any objects, mappings,  *)
(* targets, numbers of events and batches, and any number of faults: the   *)
(* one assumption is that of the mode, that one processor serves the       *)
(* partition of the stream.                                                *)
(***************************************************************************)
EXTENDS StreamPipeline, PartitionLoaderProofs

\* Nothing is left of a call that has ended, nor is a stage table where none
\* is needed.
StageOK(w) ==
  /\ pc[w] = "idle" => job[w] = 0
  /\ pc[w] \in {"idle", "resolved", "deleting", "dropping", "dropped", "returned"} => stage[w] = {}

\* What PartitionLoader's proofs know of the loader, and the queue.
Base ==
  /\ TInv /\ OwnInv /\ BatchesDistinct
  /\ retargets = MaxRetargets
  /\ \A w \in Workers : StageOK(w)
  /\ QueueOK

LEMMA InitBase == PipelineInit => Base
<1> SUFFICES ASSUME PipelineInit PROVE Base
  OBVIOUS
<1>1. Init
  BY DEF PipelineInit
<1>2. TInv /\ OwnInv
  BY <1>1, InitTInv, InitOwnInv
<1>3. BatchesDistinct
  BY <1>1 DEF Init, BatchesDistinct, Known, Record
<1>4. retargets = MaxRetargets /\ \A w \in Workers : StageOK(w)
  BY <1>1 DEF Init, StageOK
<1>5. QueueOK
  BY <1>1, ConstantsAssumption DEF PipelineInit, Init, QueueOK, Statuses, Version
<1>. QED BY <1>2, <1>3, <1>4, <1>5 DEF Base

LEMMA WorkerTypes ==
  ASSUME TInv
  PROVE  /\ pc \in [Workers -> Steps] /\ job \in [Workers -> 0..Len(log)]
         /\ to \in [Workers -> Targets \cup {NoTarget}]
         /\ batch \in [Workers -> 0..MaxBatches] /\ stage \in [Workers -> SUBSET Contents]
         /\ outcome \in [Workers -> {"ok", "error", "missing"}]
         /\ faults \in 0..MaxFaults /\ MaxFaults \in Nat
         /\ Len(log) \in Nat /\ Len(log) <= MaxEvents
BY ConstantsAssumption DEF TInv, TypeOK

-----------------------------------------------------------------------------
(* Every step of the pipeline is one of the loader, or leaves it alone.    *)

LEMMA CapturedTypes ==
  ASSUME Base
  PROVE  /\ captured \in 0..Len(log) /\ 1..captured \subseteq 1..Len(log)
         /\ 1..Len(log) \subseteq Version
         /\ status \in [Version -> Statuses]
         /\ \A n \in Version : status[n] = "none" <=> n > captured
BY WorkerTypes, ConstantsAssumption DEF Base, QueueOK, Version

LEMMA WorkIsStep ==
  ASSUME NEW w \in Workers, Work(w) \/ Failure(w)
  PROVE  Next
BY DEF Next, Work

LEMMA SettleIsStep ==
  ASSUME Base, NEW w \in Workers, Settle(w) \/ SettleFails(w)
  PROVE  Next
<1>1. CASE Settle(w)
  BY <1>1 DEF Settle, Next
<1>2. CASE SettleFails(w)
  <2>1. stage[w] = {}
    BY <1>2 DEF Base, StageOK, SettleFails
  <2>2. Crash(w)
    BY <1>2, <2>1 DEF SettleFails, Crash, Abandoned
  <2>. QED BY <2>2 DEF Next, Failure
<1>. QED BY <1>1, <1>2

LEMMA ClaimIsStep ==
  ASSUME Base, NEW w \in Workers, NEW n \in Version, Claim(w, n)
  PROVE  n \in 1..captured /\ n \in 1..Len(log) /\ Begin(w, n) /\ Next
<1>1. n \in 1..captured /\ Begin(w, n)
  BY DEF Claim, Oldest, Eligible
<1>2. n \in 1..Len(log)
  BY <1>1, CapturedTypes
<1>. QED BY <1>1, <1>2 DEF Next

LEMMA PipelineIsLoader ==
  ASSUME Base, [PipelineNext]_pipelineVars
  PROVE  [Next]_vars /\ retargets' = retargets
<1>1. CASE Capture \/ (\E n \in Version : RetryDue(n)) \/ UNCHANGED pipelineVars
  BY <1>1 DEF Capture, RetryDue, pipelineVars, vars, limits
<1>2. ASSUME NEW w \in Workers, Settle(w) \/ SettleFails(w)
      PROVE  Next /\ retargets' = retargets
  BY <1>2, SettleIsStep DEF Settle, SettleFails, Return, Leaves
<1>3. ASSUME NEW w \in Workers, NEW n \in Version, Claim(w, n)
      PROVE  Next /\ retargets' = retargets
  BY <1>3, ClaimIsStep DEF Begin, limits
<1>4. ASSUME NEW w \in Workers, Work(w) \/ Failure(w)
      PROVE  Next /\ retargets' = retargets
  BY <1>4, WorkIsStep, OnlyWorker DEF Base, Work
<1>5. CASE Buckets \/ \E o \in Objects : LeaseElapses(o)
  BY <1>5 DEF Next, Buckets, PutObject, RemoveObject, LeaseElapses, limits
<1>. QED BY <1>1, <1>2, <1>3, <1>4, <1>5 DEF PipelineNext

-----------------------------------------------------------------------------
(* The base is preserved.                                                  *)

\* A step of the one worker; for all others nothing has to be shown.
LEMMA TheWorker ==
  ASSUME NEW w \in Workers, NEW v \in Workers
  PROVE  v = w
BY OneProcessor

LEMMA StageStep ==
  ASSUME Base, [PipelineNext]_pipelineVars, NEW w \in Workers
  PROVE  StageOK(w)'
<1>0. StageOK(w) /\ TInv
  BY DEF Base
<1>1. CASE \/ Capture \/ (\E n \in Version : RetryDue(n)) \/ UNCHANGED pipelineVars
           \/ Buckets \/ \E o \in Objects : LeaseElapses(o)
  <2>1. UNCHANGED workers
    BY <1>1 DEF Capture, RetryDue, pipelineVars, vars, Buckets, PutObject, RemoveObject, LeaseElapses
  <2>. QED BY <1>0, <2>1 DEF StageOK, workers
<1>2. ASSUME NEW v \in Workers, Settle(v) \/ SettleFails(v) PROVE StageOK(w)'
  BY <1>0, <1>2, WorkerTypes, TheWorker DEF StageOK, Settle, SettleFails, Return, Leaves
<1>3. ASSUME NEW v \in Workers, NEW n \in Version, Claim(v, n) PROVE StageOK(w)'
  BY <1>0, <1>3, WorkerTypes, TheWorker, ClaimIsStep DEF StageOK, Begin, Step
<1>4. ASSUME NEW v \in Workers, LoadStep(v) PROVE StageOK(w)'
  BY <1>0, <1>4, WorkerTypes, TheWorker DEF StageOK, LoadStep, AllocateRefused, AllocateReplay,
     AllocateAgain, AllocateNew, EnsurePartition, CreateStage, OpenObject, FillStage,
       ObjectMissing, ObjectChanged, Exchange,
     ExchangeFails, MarkActive, MarkError, DropStage, Returns, Raises, Step
<1>5. ASSUME NEW v \in Workers, DeleteStep(v) PROVE StageOK(w)'
  BY <1>0, <1>5, WorkerTypes, TheWorker DEF StageOK, DeleteStep, DeleteAbsent, DeleteRefused,
     DeleteRead, DropPartition, DropFails, MarkDeleted, Returns, Step
<1>6. ASSUME NEW v \in Workers, Failure(v) PROVE StageOK(w)'
  BY <1>0, <1>6, WorkerTypes, TheWorker DEF StageOK, Failure, CallFails, LoadFails, MarkErrorFails,
     DropStageFails, Crash, Leaves, Returns, Raises, Step
<1>. QED BY <1>1, <1>2, <1>3, <1>4, <1>5, <1>6 DEF PipelineNext, Work

\* A worker that goes on with its message keeps it, or has just ended.
LEMMA WorkKeepsJob ==
  ASSUME Base, NEW w \in Workers, Work(w) \/ Failure(w)
  PROVE  pc[w] # "idle" /\ (pc'[w] # "idle" => job'[w] = job[w])
<1>0. TInv
  BY DEF Base
<1>1. CASE LoadStep(w)
  BY <1>0, <1>1, WorkerTypes DEF LoadStep, AllocateRefused, AllocateReplay,
     AllocateAgain, AllocateNew, EnsurePartition, CreateStage, OpenObject, FillStage,
       ObjectMissing, ObjectChanged, Exchange,
     ExchangeFails, MarkActive, MarkError, DropStage, Returns, Raises, Step
<1>2. CASE DeleteStep(w)
  BY <1>0, <1>2, WorkerTypes DEF DeleteStep, DeleteAbsent, DeleteRefused,
     DeleteRead, DropPartition, DropFails, MarkDeleted, Returns, Step
<1>3. CASE Failure(w)
  BY <1>0, <1>3, WorkerTypes DEF Failure, CallFails, LoadFails, MarkErrorFails,
     DropStageFails, Crash, Leaves, Returns, Raises, Step, LoadSteps
<1>. QED BY <1>1, <1>2, <1>3 DEF Work

LEMMA QueueStep ==
  ASSUME Base, TInv', [PipelineNext]_pipelineVars
  PROVE  QueueOK'
<1>0. /\ captured \in 0..Len(log) /\ 1..captured \subseteq 1..Len(log) /\ 1..Len(log) \subseteq Version
      /\ status \in [Version -> Statuses]
      /\ \A n \in Version : status[n] = "none" <=> n > captured
      /\ \A w \in Workers : pc[w] # "idle" => status[job[w]] = "PROCESSING"
  BY CapturedTypes DEF Base, QueueOK
<1>1. CASE Capture
  <2>1. captured + 1 \in Version /\ captured' = captured + 1 /\ log' = log /\ captured < Len(log)
    <3>1. captured' = captured + 1 /\ log' = log /\ captured < Len(log)
      BY <1>1 DEF Capture, vars, source
    <3>2. Len(log) \in Nat
      BY WorkerTypes DEF Base
    <3>3. captured + 1 \in 1..Len(log)
      BY <1>0, <3>1, <3>2
    <3>. QED BY <1>0, <3>1, <3>3
  <2>2. status' = [status EXCEPT ![captured + 1] = "CAPTURED"] /\ Idle /\ pc' = pc
    BY <1>1 DEF Capture, vars, workers
  <2>3. captured' \in 0..Len(log)'
    BY <1>0, <2>1, WorkerTypes DEF Base
  <2>4. status' \in [Version -> Statuses]
    BY <1>0, <2>1, <2>2 DEF Statuses
  <2>5. \A n \in Version : status'[n] = "none" <=> n > captured'
    BY <1>0, <2>1, <2>2 DEF Version
  <2>. QED BY <2>2, <2>3, <2>4, <2>5 DEF QueueOK, Idle
<1>2. ASSUME NEW n \in Version, RetryDue(n) PROVE QueueOK'
  <2>1. UNCHANGED <<log, captured, pc, job>>
    BY <1>2 DEF RetryDue, vars, source, workers
  <2>2. PICK s \in {"DUE", "ABANDONED"} : status' = [status EXCEPT ![n] = s]
    BY <1>2 DEF RetryDue
  <2>3. status[n] # "none" /\ \A w \in Workers : pc[w] # "idle" => job[w] # n
    BY <1>0, <1>2 DEF RetryDue
  <2>4. status' \in [Version -> Statuses]
    BY <1>0, <2>2 DEF Statuses
  <2>. QED BY <1>0, <2>1, <2>2, <2>3, <2>4 DEF QueueOK
<1>3. ASSUME NEW w \in Workers, NEW n \in Version, Claim(w, n) PROVE QueueOK'
  <2>1. n \in 1..captured /\ Begin(w, n)
    BY <1>3, ClaimIsStep
  <2>2. UNCHANGED <<log, captured>> /\ job'[w] = n
    BY <1>3, <2>1, WorkerTypes DEF Base, Begin, Claim, source
  <2>3. \A k \in Version :
          status'[k] = IF k = n THEN "PROCESSING"
                       ELSE IF status[k] = "ABANDONED" THEN "DUE" ELSE status[k]
    BY <1>3 DEF Claim
  <2>4. status' \in [Version -> Statuses]
    BY <1>0, <1>3 DEF Claim, Statuses
  <2>5. \A k \in Version : status'[k] = "none" <=> k > captured
    BY <1>0, <2>1, <2>3
  <2>6. \A v \in Workers : status'[job'[v]] = "PROCESSING"
    BY <2>2, <2>3, TheWorker
  <2>. QED BY <1>0, <2>2, <2>4, <2>5, <2>6 DEF QueueOK
<1>4. ASSUME NEW w \in Workers, Settle(w) \/ SettleFails(w) PROVE QueueOK'
  <2>1. UNCHANGED <<log, captured>> /\ pc[w] = "returned" /\ pc'[w] = "idle"
    BY <1>4, WorkerTypes DEF Base, Settle, SettleFails, Return, Leaves, source
  <2>2. PICK s \in {"COMPLETED", "FAILED"} : status' = [status EXCEPT ![job[w]] = s]
    BY <1>4 DEF Settle, SettleFails
  <2>3. status[job[w]] = "PROCESSING"
    BY <1>0, <2>1
  <2>4. status' \in [Version -> Statuses]
    BY <1>0, <2>2 DEF Statuses
  <2>5. \A n \in Version : status'[n] = "none" <=> n > captured
    BY <1>0, <2>2, <2>3
  <2>6. \A v \in Workers : pc'[v] = "idle"
    BY <2>1, TheWorker
  <2>. QED BY <1>0, <2>1, <2>4, <2>5, <2>6 DEF QueueOK
<1>5. CASE /\ \/ Buckets
              \/ \E w \in Workers : Work(w) \/ Failure(w)
              \/ \E o \in Objects : LeaseElapses(o)
           /\ UNCHANGED queue
  <2>1. captured \in 0..Len(log)'
    <3>1. CASE Buckets
      <4>1. PICK e : log' = Append(log, e)
        BY <3>1 DEF Buckets, PutObject, RemoveObject
      <4>2. log \in Seq(Events)
        BY DEF Base, TInv, TypeOK
      <4>3. Len(log') = Len(log) + 1
        BY <4>1, <4>2
      <4>. QED BY <1>0, <4>3, WorkerTypes DEF Base
    <3>2. CASE ~Buckets
      <4>1. log' = log
        BY <1>5, <3>2, OnlyWorker DEF LeaseElapses, Base, Work, source
      <4>. QED BY <1>0, <4>1
    <3>. QED BY <3>1, <3>2
  <2>2. \A w \in Workers : pc'[w] # "idle" => pc[w] # "idle" /\ job'[w] = job[w]
    BY <1>5, WorkKeepsJob, TheWorker DEF Buckets, PutObject, RemoveObject, LeaseElapses, workers
  <2>3. captured' = captured /\ status' = status
    BY <1>5 DEF queue
  <2>. QED BY <1>0, <2>1, <2>2, <2>3 DEF QueueOK
<1>6. CASE UNCHANGED pipelineVars
  BY <1>0, <1>6 DEF QueueOK, pipelineVars, queue, vars, source, workers
<1>. QED BY <1>1, <1>2, <1>3, <1>4, <1>5, <1>6 DEF PipelineNext

LEMMA BaseStep ==
  ASSUME Base, [PipelineNext]_pipelineVars
  PROVE  Base'
<1>1. TInv /\ OwnInv /\ BatchesDistinct
  BY DEF Base
<1>2. [Next]_vars /\ retargets' = retargets
  BY PipelineIsLoader
<1>3. TInv'
  BY <1>1, <1>2, NextTInv, StutterTInv
<1>4. OwnInv' /\ BatchesDistinct'
  BY <1>1, <1>2, <1>3, OwnStep, BatchesDistinctStep
<1>5. QueueOK' /\ \A w \in Workers : StageOK(w)'
  BY <1>3, QueueStep, StageStep
<1>. QED BY <1>2, <1>3, <1>4, <1>5 DEF Base

LEMMA SpecBase == PipelineSpec => []Base
BY InitBase, BaseStep, PTL DEF PipelineSpec

\* The statuses are those of the messages captured so far, and the processor
\* works on a message only while it is PROCESSING: nothing that waits for its
\* retry or is completed is executed (claim_next, complete and fail of
\* message_store.py, called by process_one).
THEOREM SpecQueueOK == PipelineSpec => []QueueOK
<1>1. Base => QueueOK
  BY DEF Base
<1>. QED BY <1>1, SpecBase, PTL

\* The pipeline is one of the schedules of the loader: what is proved of
\* PartitionLoader for any schedule of calls holds of it (process_one calls
\* process_cloud_event, and nothing else writes records and tables).
THEOREM PipelineImplementsLoader == PipelineSpec => Spec
<1>1. PipelineInit => Init
  BY DEF PipelineInit
<1>2. Base /\ [PipelineNext]_pipelineVars => [Next]_vars
  BY PipelineIsLoader
<1>. QED BY <1>1, <1>2, SpecBase, PTL DEF PipelineSpec, Spec

-----------------------------------------------------------------------------
(* What holds of the log, the buckets, the tables and the call under way.  *)

\* The rows in the partition that the record of o names.
Here(o) == rows[record[o].target][record[o].batch]

Loading == LoadSteps \cup {"resolved", "raised", "cleanup"}
Deleting == {"deleting", "dropping", "dropped"}

IsDelete(n) == log[n].action = "DELETE"
Wrote(n, o) == n \in 1..Len(log) /\ log[n].object = o /\ ~IsDelete(n)

\* Event n is the last one of object o so far.
Latest(n, o) ==
  /\ n \in 1..Len(log)
  /\ log[n].object = o
  /\ \A k \in 1..Len(log) : log[k].object = o => k <= n

\* A bucket has the version of the last event of an object, and no object
\* whose last event is a delete.
BucketsOK ==
  \A o \in Objects :
    /\ bucket[o] # 0 => Latest(bucket[o], o) /\ ~IsDelete(bucket[o])
    /\ bucket[o] = 0 => \A k \in 1..Len(log) : log[k].object = o =>
         \E n \in 1..Len(log) : Latest(n, o) /\ IsDelete(n)

\* Rows were read between two versions of an object that somebody wrote.
RowsWritten ==
  \A t \in Targets, b \in Batch :
    rows[t][b].of # NoObject =>
      /\ Wrote(rows[t][b].head, rows[t][b].of) /\ Wrote(rows[t][b].version, rows[t][b].of)
      /\ rows[t][b].head <= rows[t][b].version

\* What the call does fits its event, and so does its outcome.
CallOK(w) ==
  /\ pc[w] \in Loading => ~IsDelete(job[w])
  /\ pc[w] \in Deleting => IsDelete(job[w])
  /\ pc[w] \in {"idle", "resolved"} \cup LoadSteps \cup Deleting => outcome[w] = "ok"
  /\ pc[w] = "raised" => outcome[w] # "ok"
  /\ pc[w] = "returned" /\ outcome[w] = "missing" => ~IsDelete(job[w])

\* A stage table that is filled, or is being filled, holds the object as it
\* was read from the HEAD request on: h is no older than the event and than
\* what is visible, and no later event of the object has been captured since.
Filling(w, h, v) ==
  /\ stage[w] = {RowsOf(Object(w), h, v)} /\ h <= v
  /\ Wrote(h, Object(w)) /\ Wrote(v, Object(w))
  /\ h >= job[w] /\ h >= Visible(Object(w))
  /\ \A k \in 1..captured : log[k].object = Object(w) => k <= h

FilledOK(w) == pc[w] \in {"reading", "filled"} => \E h, v \in Version : Filling(w, h, v)

\* The load has published the object.
Exchanged(w) ==
  \/ pc[w] = "exchanged"
  \/ pc[w] \in {"cleanup", "returned"} /\ outcome[w] = "ok" /\ ~IsDelete(job[w])

\* The record of the object names the event of the load, and from the
\* exchange on its partition has rows of the object no older than that.
LoadOK(w) ==
  /\ pc[w] \in LoadSteps => Now(w).version = job[w] /\ Now(w).state \in {"LOADING", "ACTIVE"}
  /\ Exchanged(w) => /\ Known(Object(w)) /\ Here(Object(w)).of = Object(w)
                     /\ Here(Object(w)).head >= job[w]

\* A delete works on the partition of the record of its object, and when it
\* has succeeded nothing of the object is visible.
DeleteOK(w) ==
  /\ pc[w] \in {"dropping", "dropped"} => to[w] = Now(w).target /\ batch[w] = Now(w).batch
  /\ pc[w] = "dropping" => Now(w).state \in {"ACTIVE", "ERROR"}
  /\ pc[w] = "dropped" => Here(Object(w)) = NoRows
  /\ pc[w] = "returned" /\ outcome[w] = "ok" /\ IsDelete(job[w]) => Visible(Object(w)) = 0

\* Nothing is left of an object whose record is DELETED.
DeletedIsEmpty == \A o \in Objects : record[o].state = "DELETED" => Here(o) = NoRows

PInv ==
  /\ Base
  /\ BucketsOK /\ RowsWritten
  /\ \A w \in Workers : CallOK(w) /\ FilledOK(w) /\ LoadOK(w) /\ DeleteOK(w)
  /\ DeletedIsEmpty /\ ActiveIsLoaded

LEMMA InitPInv == PipelineInit => PInv
<1> SUFFICES ASSUME PipelineInit PROVE PInv
  OBVIOUS
<1>1. Init
  BY DEF PipelineInit
<1>2. Base
  BY InitBase
<1>3. BucketsOK
  BY <1>1 DEF Init, BucketsOK
<1>4. RowsWritten
  BY <1>1 DEF Init, RowsWritten, NoRows, RowsOf
<1>5. \A w \in Workers : CallOK(w) /\ FilledOK(w) /\ LoadOK(w) /\ DeleteOK(w)
  BY <1>1 DEF Init, CallOK, FilledOK, LoadOK, Exchanged, DeleteOK, Loading, Deleting, LoadSteps
<1>6. DeletedIsEmpty /\ ActiveIsLoaded
  BY <1>1 DEF Init, DeletedIsEmpty, ActiveIsLoaded, Record
<1>. QED BY <1>2, <1>3, <1>4, <1>5, <1>6 DEF PInv

-----------------------------------------------------------------------------
(* The log only grows.                                                     *)

LEMMA LogGrows ==
  ASSUME Base, [PipelineNext]_pipelineVars
  PROVE  /\ Len(log) \in Nat /\ Len(log') \in Nat
         /\ \/ Buckets /\ Len(log') = Len(log) + 1 /\ UNCHANGED queue
            \/ log' = log /\ bucket' = bucket
         /\ 1..Len(log) \subseteq 1..Len(log')
         /\ \A n \in 1..Len(log) : log'[n] = log[n]
<1>1. log \in Seq(Events) /\ Len(log) \in Nat
  BY DEF Base, TInv, TypeOK
<1>2. CASE Buckets /\ UNCHANGED queue
  <2>1. PICK e : log' = Append(log, e)
    BY <1>2 DEF Buckets, PutObject, RemoveObject
  <2>2. Len(log') = Len(log) + 1 /\ \A n \in 1..Len(log) : log'[n] = log[n]
    BY <1>1, <2>1
  <2>. QED BY <1>1, <1>2, <2>2
<1>3. CASE log' = log /\ bucket' = bucket
  BY <1>1, <1>3
<1>4. CASE Capture \/ (\E n \in Version : RetryDue(n)) \/ UNCHANGED pipelineVars
  BY <1>3, <1>4 DEF Capture, RetryDue, pipelineVars, vars, source
<1>5. ASSUME NEW w \in Workers,
             \/ Settle(w) \/ SettleFails(w) \/ Work(w) \/ Failure(w)
             \/ \E n \in Version : Claim(w, n)
      PROVE  log' = log /\ bucket' = bucket
  <2>1. CASE Settle(w) \/ SettleFails(w)
    BY <2>1 DEF Settle, SettleFails, Return, Leaves, source
  <2>2. CASE Work(w) \/ Failure(w)
    BY <2>2, OnlyWorker DEF Base, Work, source
  <2>3. CASE \E n \in Version : Claim(w, n)
    BY <2>3, ClaimIsStep DEF Begin, source
  <2>. QED BY <1>5, <2>1, <2>2, <2>3
<1>6. CASE \E o \in Objects : LeaseElapses(o)
  BY <1>3, <1>6 DEF LeaseElapses, source
<1>. QED BY <1>2, <1>3, <1>4, <1>5, <1>6 DEF PipelineNext

LEMMA WroteKept ==
  ASSUME Base, [PipelineNext]_pipelineVars, NEW o, NEW n, Wrote(n, o)
  PROVE  Wrote(n, o)'
<1>1. n \in 1..Len(log) /\ log'[n] = log[n] /\ n \in 1..Len(log')
  BY LogGrows DEF Wrote
<1>. QED BY <1>1 DEF Wrote, IsDelete

LEMMA DeletedKept ==
  ASSUME Base, [PipelineNext]_pipelineVars, NEW o, Deleted(o)
  PROVE  Deleted(o)'
BY LogGrows DEF Deleted

\* What a bucket step does to the log.
LEMMA BucketsLog ==
  ASSUME Base, NEW o \in Objects, PutObject(o) \/ RemoveObject(o)
  PROVE  /\ Len(log) \in Nat /\ Len(log') = Len(log) + 1
         /\ \A n \in 1..Len(log) : log'[n] = log[n]
         /\ log'[Len(log) + 1].object = o
         /\ PutObject(o) => log'[Len(log) + 1].action # "DELETE" /\ bucket'[o] = Len(log) + 1
         /\ RemoveObject(o) => log'[Len(log) + 1].action = "DELETE" /\ bucket'[o] = 0
         /\ \A k \in Objects \ {o} : bucket'[k] = bucket[k]
<1>1. log \in Seq(Events) /\ bucket \in [Objects -> 0..Len(log)]
  BY DEF Base, TInv, TypeOK
<1>2. CASE PutObject(o)
  <2>1. PICK a \in {"CREATE", "UPDATE"} : log' = Append(log, Event(a, o))
    BY <1>2 DEF PutObject
  <2>2. bucket' = [bucket EXCEPT ![o] = Len(log) + 1]
    BY <1>2 DEF PutObject
  <2>3. ~RemoveObject(o)
    BY <1>1, <2>2 DEF RemoveObject
  <2>. QED BY <1>1, <1>2, <2>1, <2>2, <2>3 DEF Event
<1>3. CASE RemoveObject(o)
  <2>1. log' = Append(log, Event("DELETE", o)) /\ bucket' = [bucket EXCEPT ![o] = 0]
    BY <1>3 DEF RemoveObject
  <2>2. ~PutObject(o)
    BY <1>1, <2>1 DEF PutObject
  <2>. QED BY <1>1, <1>3, <2>1, <2>2 DEF Event
<1>. QED BY <1>2, <1>3

LEMMA BucketsOKStep ==
  ASSUME Base, BucketsOK, [PipelineNext]_pipelineVars
  PROVE  BucketsOK'
<1>1. CASE log' = log /\ bucket' = bucket
  BY <1>1 DEF BucketsOK, Latest, IsDelete
<1>2. ASSUME NEW o \in Objects, PutObject(o) \/ RemoveObject(o) PROVE BucketsOK'
  <2>1. PICK e : e = Len(log) + 1
    OBVIOUS
  <2>2. /\ Len(log) \in Nat /\ Len(log') = e /\ \A n \in 1..Len(log) : log'[n] = log[n]
        /\ log'[e].object = o /\ \A k \in Objects \ {o} : bucket'[k] = bucket[k]
    BY <1>2, <2>1, BucketsLog
  <2>3. 1..Len(log') = (1..Len(log)) \cup {e} /\ \A n \in 1..Len(log) : n <= e
    BY <2>1, <2>2
  <2>4. Latest(e, o)'
    BY <2>1, <2>2, <2>3 DEF Latest
  <2>5. ASSUME NEW k \in Objects, k # o, NEW n
        PROVE  (Latest(n, k)' <=> Latest(n, k)) /\ (Latest(n, k) => (IsDelete(n)' <=> IsDelete(n)))
    BY <2>2, <2>3, <2>5 DEF Latest, IsDelete
  <2> SUFFICES ASSUME NEW k \in Objects, NEW v, v = bucket'[k]
               PROVE  /\ v # 0 => Latest(v, k)' /\ ~IsDelete(v)'
                      /\ v = 0 => \A i \in 1..Len(log') : log'[i].object = k =>
                           \E n \in 1..Len(log') : Latest(n, k)' /\ IsDelete(n)'
    BY DEF BucketsOK
  <2>6. CASE k # o
    <3>1. v = bucket[k]
      BY <2>2, <2>6
    <3>2. v # 0 => Latest(v, k)' /\ ~IsDelete(v)'
      BY <2>5, <2>6, <3>1 DEF BucketsOK
    <3>3. ASSUME v = 0, NEW i \in 1..Len(log'), log'[i].object = k
          PROVE  \E n \in 1..Len(log') : Latest(n, k)' /\ IsDelete(n)'
      <4>1. i \in 1..Len(log) /\ log[i].object = k
        BY <2>2, <2>3, <2>6, <3>3
      <4>2. PICK n \in 1..Len(log) : Latest(n, k) /\ IsDelete(n)
        BY <3>1, <3>3, <4>1 DEF BucketsOK
      <4>. QED BY <2>3, <2>5, <2>6, <4>2
    <3>. QED BY <3>2, <3>3
  <2>7. CASE k = o /\ PutObject(o)
    <3>1. v = e /\ ~IsDelete(e)'
      BY <2>1, <2>7, BucketsLog DEF IsDelete
    <3>. QED BY <2>1, <2>2, <2>4, <2>7, <3>1
  <2>8. CASE k = o /\ RemoveObject(o)
    <3>1. v = 0 /\ IsDelete(e)'
      BY <2>1, <2>8, BucketsLog DEF IsDelete
    <3>. QED BY <2>3, <2>4, <2>8, <3>1
  <2>. QED BY <1>2, <2>6, <2>7, <2>8
<1>. QED BY <1>1, <1>2, LogGrows DEF Buckets

-----------------------------------------------------------------------------
(* What a step does to the records and to the tables.                      *)

LEMMA AtHome ==
  ASSUME Base
  PROVE  /\ \A o \in Objects : Known(o) => record[o].target = Home(o)
         /\ \A w \in Workers : WorkerAtHome(w)
         /\ \A t \in Targets, b \in Batch : RowsOwned(t, b)
BY DEF Base, OwnInv, RecordAtHome

\* A record that exists names a partition of a target.
LEMMA PlaceOf ==
  ASSUME TInv, NEW o \in Objects
  PROVE  /\ record[o].target \in Targets
         /\ Known(o) => record[o].batch \in Batch
BY RecordFields DEF TInv, RecordsOK

LEMMA NowKnown ==
  ASSUME Base, NEW w \in Workers, pc[w] # "idle"
  PROVE  /\ job[w] \in 1..Len(log) /\ Object(w) \in Objects /\ to[w] \in Targets
         /\ pc[w] \in LoadSteps \cup {"raised", "dropping", "dropped"} => Known(Object(w))
<1>1. TInv
  BY DEF Base
<1>2. job[w] \in 1..Len(log) /\ Object(w) \in Objects /\ to[w] \in Targets
  BY <1>1, WorkerFacts
<1>3. pc[w] \in LoadSteps \cup {"raised", "dropping", "dropped"} => Known(Object(w))
  BY <1>1 DEF TInv, WorkersOK
<1>. QED BY <1>2, <1>3

\* A record changes its state or version only by the steps of a call that
\* works on its object.
LEMMA RecordStep ==
  ASSUME Base, [PipelineNext]_pipelineVars, NEW o \in Objects
  PROVE  \/ record'[o].state = record[o].state /\ record'[o].version = record[o].version
         \/ \E w \in Workers :
              /\ pc[w] # "idle" /\ Object(w) = o /\ job'[w] = job[w] /\ log' = log
              /\ \/ /\ pc[w] = "resolved" /\ pc'[w] = "allocated"
                    /\ record'[o].state = "LOADING" /\ record'[o].version = job[w]
                 \/ /\ MarkActive(w) \/ MarkError(w) \/ MarkDeleted(w)
                    /\ record'[o].version = record[o].version
                    /\ MarkActive(w) => record'[o].state = "ACTIVE"
                    /\ MarkError(w) => record'[o].state = "ERROR"
                    /\ MarkDeleted(w) => record'[o].state = "DELETED"
<1>0. TInv /\ record \in [Objects -> RecordRow]
  BY DEF Base, TInv, TypeOK
<1>1. CASE UNCHANGED record
  BY <1>1
<1>2. ASSUME NEW w \in Workers, AllocateAgain(w) \/ AllocateNew(w)
      PROVE  \/ record'[o] = record[o]
             \/ /\ Object(w) = o /\ pc[w] = "resolved" /\ pc'[w] = "allocated"
                /\ job'[w] = job[w] /\ log' = log
                /\ record'[o].state = "LOADING" /\ record'[o].version = job[w]
  <2>1. /\ pc[w] = "resolved" /\ pc'[w] = "allocated" /\ job' = job /\ log' = log
    BY <1>0, <1>2, WorkerTypes DEF AllocateAgain, AllocateNew, Step, source
  <2>2. PICK t, b : record' = [record EXCEPT ![Object(w)] = Record("LOADING", t, b, job[w], "running")]
    BY <1>2 DEF AllocateAgain, AllocateNew
  <2>. QED BY <1>0, <2>1, <2>2 DEF Record
<1>3. ASSUME NEW w \in Workers, MarkActive(w) \/ MarkError(w) \/ MarkDeleted(w)
      PROVE  /\ pc[w] # "idle" /\ job' = job /\ log' = log
             /\ \/ record'[o] = record[o]
                \/ /\ Object(w) = o
                   /\ record'[o].version = record[o].version
                   /\ MarkActive(w) => record'[o].state = "ACTIVE"
                   /\ MarkError(w) => record'[o].state = "ERROR"
                   /\ MarkDeleted(w) => record'[o].state = "DELETED"
  <2>1. pc[w] # "idle" /\ job' = job /\ log' = log
    BY <1>3 DEF MarkActive, MarkError, MarkDeleted, Returns, Step, source
  <2>2. ASSUME NEW st, SetState(w, st)
        PROVE  \/ record'[o] = record[o]
               \/ Object(w) = o /\ record'[o].version = record[o].version /\ record'[o].state = st
    BY <1>0, <2>2 DEF SetState, Record
  <2>3. CASE MarkActive(w)
    <3>1. SetState(w, "ACTIVE") /\ ~MarkError(w) /\ ~MarkDeleted(w)
      BY <2>3 DEF MarkActive, MarkError, MarkDeleted, Returns, Step
    <3>. QED BY <2>1, <2>2, <3>1
  <2>4. CASE MarkError(w)
    <3>1. SetState(w, "ERROR") /\ ~MarkActive(w) /\ ~MarkDeleted(w)
      BY <2>4 DEF MarkActive, MarkError, MarkDeleted, Returns, Step
    <3>. QED BY <2>1, <2>2, <3>1
  <2>5. CASE MarkDeleted(w)
    <3>1. SetState(w, "DELETED") /\ ~MarkActive(w) /\ ~MarkError(w)
      BY <2>5 DEF MarkActive, MarkError, MarkDeleted, Returns, Step
    <3>. QED BY <2>1, <2>2, <3>1
  <2>. QED BY <1>3, <2>3, <2>4, <2>5
<1>4. ASSUME NEW q \in Objects, LeaseElapses(q)
      PROVE  record'[o].state = record[o].state /\ record'[o].version = record[o].version
  BY <1>0, <1>4 DEF LeaseElapses, Record
<1>5. ASSUME NEW w \in Workers, LoadStep(w)
      PROVE  UNCHANGED record \/ AllocateAgain(w) \/ AllocateNew(w) \/ MarkActive(w) \/ MarkError(w)
  BY <1>5 DEF LoadStep, AllocateRefused, AllocateReplay, EnsurePartition, CreateStage,
     OpenObject, FillStage, ObjectMissing, ObjectChanged, Exchange, ExchangeFails, DropStage, control
<1>6. ASSUME NEW w \in Workers, DeleteStep(w) PROVE UNCHANGED record \/ MarkDeleted(w)
  BY <1>6 DEF DeleteStep, DeleteAbsent, DeleteRefused, DeleteRead, DropPartition, DropFails, control
<1>7. ASSUME NEW w \in Workers, Failure(w) \/ Settle(w) \/ SettleFails(w) PROVE UNCHANGED record
  BY <1>7 DEF Failure, Settle, SettleFails, Return, CallFails, LoadFails, MarkErrorFails,
     DropStageFails, Crash, Leaves, control
<1>8. CASE Buckets \/ Capture \/ (\E n \in Version : RetryDue(n)) \/ UNCHANGED pipelineVars
  BY <1>1, <1>8 DEF Buckets, PutObject, RemoveObject, Capture, RetryDue, pipelineVars, vars, control
<1>9. ASSUME NEW w \in Workers, NEW n \in Version, Claim(w, n) PROVE UNCHANGED record
  BY <1>9, ClaimIsStep DEF Begin, control
<1>. QED BY <1>1, <1>2, <1>3, <1>4, <1>5, <1>6, <1>7, <1>8, <1>9 DEF PipelineNext, Work

\* The rows of the tables change when a load exchanges a partition and when
\* a delete drops one.
LEMMA RowsStep ==
  ASSUME Base, [PipelineNext]_pipelineVars
  PROVE  \/ rows' = rows
         \/ \E w \in Workers : (Exchange(w) \/ DropPartition(w)) /\ UNCHANGED queue
<1>1. ASSUME NEW w \in Workers, LoadStep(w) \/ DeleteStep(w)
      PROVE  UNCHANGED rows \/ Exchange(w) \/ DropPartition(w)
  BY <1>1 DEF LoadStep, DeleteStep, AllocateRefused, AllocateReplay, AllocateAgain, AllocateNew,
     EnsurePartition, CreateStage, OpenObject, FillStage, ObjectMissing, ObjectChanged, ExchangeFails, MarkActive,
     MarkError, DropStage, DeleteAbsent, DeleteRefused, DeleteRead, DropFails, MarkDeleted, tables
<1>2. ASSUME NEW w \in Workers, Failure(w) \/ Settle(w) \/ SettleFails(w)
      PROVE  UNCHANGED rows
  BY <1>2 DEF Failure, Settle, SettleFails, Return, CallFails, LoadFails, MarkErrorFails,
     DropStageFails, Crash, Leaves, tables
<1>3. CASE Buckets \/ Capture \/ (\E n \in Version : RetryDue(n)) \/ UNCHANGED pipelineVars
           \/ \E o \in Objects : LeaseElapses(o)
  BY <1>3 DEF Buckets, PutObject, RemoveObject, Capture, RetryDue, pipelineVars, vars,
     LeaseElapses, tables
<1>4. ASSUME NEW w \in Workers, NEW n \in Version, Claim(w, n) PROVE UNCHANGED rows
  BY <1>4, ClaimIsStep DEF Begin, tables
<1>. QED BY <1>1, <1>2, <1>3, <1>4 DEF PipelineNext, Work

\* A step that leaves the rows alone shows no reader anything new, even if it
\* gives an object its first batch number: nothing was in that partition.
LEMMA QuietRows ==
  ASSUME Base, [PipelineNext]_pipelineVars, rows' = rows, NEW o \in Objects
  PROVE  /\ Seen(o)' = Seen(o) /\ Visible(o)' = Visible(o) /\ VisibleHead(o)' = VisibleHead(o)
         /\ Known(o) => Known(o)' /\ Here(o)' = Here(o)
<1>0. Seen(o)' = Seen(o) => Visible(o)' = Visible(o) /\ VisibleHead(o)' = VisibleHead(o)
  BY DEF Visible, VisibleHead
<1>1. TInv /\ TInv' /\ [Next]_vars
  BY PipelineIsLoader, BaseStep DEF Base
<1>2. CASE Known(o)
  <2>1. Keeps(o)
    BY <1>1, <1>2, KnownKeeps
  <2>. QED BY <1>0, <1>2, <2>1 DEF Keeps, Seen, Here
<1>3. CASE ~Known(o)
  <2>1. Seen(o) = NoRows
    BY <1>3 DEF Seen
  <2>2. CASE ~Known(o)'
    BY <1>0, <1>3, <2>1, <2>2 DEF Seen, NoRows, RowsOf
  <2>3. CASE Known(o)'
    <3>1. PICK t \in Targets : t = record'[o].target
      BY <1>1 DEF TInv, TypeOK, RecordRow
    <3>2. PICK b \in Batch : b = record'[o].batch
      BY <1>1, <2>3 DEF TInv, RecordsOK
    <3>3. RowsOwned(t, b) /\ o # NoObject
      BY AtHome, ConstantsAssumption
    <3>4. rows[t][b].of # o
      BY <1>3, <3>3 DEF RowsOwned
    <3>. QED BY <1>0, <1>3, <2>1, <3>1, <3>2, <3>4 DEF Seen, NoRows, RowsOf
  <2>. QED BY <2>2, <2>3
<1>. QED BY <1>2, <1>3

\* A step that writes the partition of one object shows nothing new of others.
LEMMA WrittenRows ==
  ASSUME Base, NEW q \in Objects, Known(q), UNCHANGED record, NEW c,
         rows' = [rows EXCEPT ![record[q].target][record[q].batch] = c]
  PROVE  /\ Here(q)' = c /\ Seen(q)' = IF c.of = q THEN c ELSE NoRows
         /\ \A o \in Objects \ {q} :
              Seen(o)' = Seen(o) /\ (Known(o) => Here(o)' = Here(o))
<1>1. TInv /\ rows \in [Targets -> [Batch -> Contents]]
  BY DEF Base, TInv, TypeOK
<1>2. PICK t \in Targets, b \in Batch : t = record[q].target /\ b = record[q].batch
  BY <1>1, PlaceOf
<1>3. rows'[t][b] = c
  BY <1>1, <1>2
<1>4. Here(q)' = c /\ Known(q)'
  BY <1>2, <1>3 DEF Here, Known
<1>5. Seen(q)' = IF c.of = q THEN c ELSE NoRows
  BY <1>2, <1>3, <1>4 DEF Seen, NoRows, RowsOf
<1>6. ASSUME NEW o \in Objects \ {q}
      PROVE  Seen(o)' = Seen(o) /\ (Known(o) => Here(o)' = Here(o))
  <2>1. CASE Known(o)
    <3>1. PICK s \in Targets, a \in Batch : s = record[o].target /\ a = record[o].batch
      BY <1>1, <2>1, PlaceOf
    <3>2. ~(s = t /\ a = b)
      BY <1>2, <2>1, <3>1 DEF Base, BatchesDistinct
    <3>3. rows'[s][a] = rows[s][a]
      BY <1>1, <1>2, <3>2
    <3>. QED BY <2>1, <3>1, <3>3 DEF Seen, NoRows, RowsOf, Here, Known
  <2>2. CASE ~Known(o)
    BY <2>2 DEF Seen, NoRows, RowsOf, Known
  <2>. QED BY <2>1, <2>2
<1>. QED BY <1>4, <1>5, <1>6

-----------------------------------------------------------------------------
(* The call under way.                                                     *)

\* A step that is none of the worker's.
Elsewhere ==
  \/ Buckets /\ UNCHANGED queue
  \/ Capture
  \/ \E n \in Version : RetryDue(n)
  \/ \E o \in Objects : LeaseElapses(o) /\ UNCHANGED queue
  \/ UNCHANGED pipelineVars

LEMMA StepsOfPipeline ==
  ASSUME Base, [PipelineNext]_pipelineVars
  PROVE  \/ Elsewhere
         \/ \E w \in Workers :
              \/ Settle(w) \/ SettleFails(w)
              \/ \E n \in Version : Claim(w, n)
              \/ (LoadStep(w) \/ DeleteStep(w) \/ Failure(w)) /\ UNCHANGED queue
BY DEF PipelineNext, Elsewhere, Work

\* ... the call goes on as if nothing had happened.
LEMMA ElsewhereKeeps ==
  ASSUME Base, [PipelineNext]_pipelineVars, Elsewhere, NEW w \in Workers
  PROVE  /\ pc' = pc /\ job' = job /\ to' = to /\ batch' = batch /\ stage' = stage /\ outcome' = outcome
         /\ rows' = rows
         /\ pc[w] # "idle" =>
              /\ captured' = captured
              /\ Object(w)' = Object(w) /\ (IsDelete(job[w])' <=> IsDelete(job[w]))
              /\ Visible(Object(w))' = Visible(Object(w))
              /\ Now(w)'.state = Now(w).state /\ Now(w)'.version = Now(w).version
              /\ Known(Object(w)) => Keeps(Object(w)) /\ Here(Object(w))' = Here(Object(w))
<1>1. /\ UNCHANGED workers /\ rows' = rows
      /\ captured' = captured \/ Idle
  BY DEF Elsewhere, Buckets, PutObject, RemoveObject, Capture, RetryDue, LeaseElapses, pipelineVars,
     vars, queue, tables
<1>2. pc' = pc /\ job' = job /\ to' = to /\ batch' = batch /\ stage' = stage /\ outcome' = outcome
  BY <1>1 DEF workers
<1>3. ASSUME pc[w] # "idle"
      PROVE  /\ captured' = captured
             /\ Object(w)' = Object(w) /\ (IsDelete(job[w])' <=> IsDelete(job[w]))
             /\ Visible(Object(w))' = Visible(Object(w))
             /\ Now(w)'.state = Now(w).state /\ Now(w)'.version = Now(w).version
             /\ Known(Object(w)) => Keeps(Object(w)) /\ Here(Object(w))' = Here(Object(w))
  <2>1. captured' = captured
    BY <1>1, <1>3 DEF Idle
  <2>2. PICK o \in Objects : o = Object(w)
    BY <1>3, NowKnown
  <2>3. log'[job[w]] = log[job[w]]
    BY <1>3, NowKnown, LogGrows
  <2>4. Object(w)' = Object(w) /\ (IsDelete(job[w])' <=> IsDelete(job[w]))
    BY <1>2, <2>3 DEF Object, IsDelete
  <2>5. Visible(o)' = Visible(o) /\ (Known(o) => Here(o)' = Here(o))
    BY <1>1, QuietRows
  <2>6. Known(o) => Keeps(o)
    BY PipelineIsLoader, KnownKeeps DEF Base
  <2>7. record'[o].state = record[o].state /\ record'[o].version = record[o].version
    <3>1. ASSUME NEW v \in Workers
          PROVE  ~(pc[v] = "resolved" /\ pc'[v] = "allocated") /\ ~MarkActive(v) /\ ~MarkError(v) /\ ~MarkDeleted(v)
      BY <1>2, WorkerTypes DEF Base, MarkActive, MarkError, MarkDeleted, Returns, Step
    <3>. QED BY <3>1, RecordStep
  <2>. QED BY <2>1, <2>2, <2>4, <2>5, <2>6, <2>7 DEF Now, Here, Visible, Seen, Known, Keeps
<1>. QED BY <1>1, <1>2, <1>3

\* An exchange writes the partition of the record of the object.
LEMMA ExchangeWrites ==
  ASSUME Base, NEW w \in Workers, Exchange(w)
  PROVE  /\ pc[w] = "filled" /\ Known(Object(w)) /\ Object(w) \in Objects /\ UNCHANGED record
         /\ \E c \in stage[w] : rows' = [rows EXCEPT ![Now(w).target][Now(w).batch] = c]
<1>1. pc[w] = "filled" /\ UNCHANGED record
  BY DEF Exchange, Step, control
<1>2. Known(Object(w)) /\ Object(w) \in Objects
  BY <1>1, NowKnown DEF LoadSteps
<1>3. to[w] = Now(w).target /\ batch[w] = Now(w).batch
  BY <1>1, <1>2, AtHome DEF WorkerAtHome, LoadSteps, Now
<1>. QED BY <1>1, <1>2, <1>3 DEF Exchange

\* ... and a delete drops it.
LEMMA DropWrites ==
  ASSUME Base, NEW w \in Workers, DropPartition(w), DeleteOK(w)
  PROVE  /\ pc[w] = "dropping" /\ Known(Object(w)) /\ Object(w) \in Objects /\ UNCHANGED record
         /\ rows' = [rows EXCEPT ![Now(w).target][Now(w).batch] = NoRows]
<1>1. pc[w] = "dropping" /\ UNCHANGED record
  BY DEF DropPartition, Step, control
<1>2. Known(Object(w)) /\ Object(w) \in Objects
  BY <1>1, NowKnown
<1>3. to[w] = Now(w).target /\ batch[w] = Now(w).batch
  BY <1>1 DEF DeleteOK
<1>. QED BY <1>1, <1>2, <1>3 DEF DropPartition

LEMMA CallStep ==
  ASSUME Base, [PipelineNext]_pipelineVars, NEW w \in Workers, CallOK(w)
  PROVE  CallOK(w)'
<1>0. TInv
  BY DEF Base
<1>1. CASE Elsewhere
  BY <1>1, ElsewhereKeeps DEF CallOK, Loading, Deleting, LoadSteps
<1>2. ASSUME NEW v \in Workers, Settle(v) \/ SettleFails(v) PROVE CallOK(w)'
  BY <1>0, <1>2, WorkerTypes, TheWorker DEF CallOK, Settle, SettleFails, Return, Leaves, Loading, Deleting,
     LoadSteps
<1>3. ASSUME NEW v \in Workers, NEW n \in Version, Claim(v, n) PROVE CallOK(w)'
  <2>1. /\ pc[w] = "idle" /\ job'[w] = n /\ outcome' = outcome /\ log' = log
        /\ pc'[w] = IF IsDelete(n) THEN "deleting" ELSE "resolved"
    BY <1>0, <1>3, WorkerTypes, TheWorker, ClaimIsStep DEF Begin, Step, source, IsDelete
  <2>. QED BY <2>1 DEF CallOK, Loading, Deleting, LoadSteps, IsDelete
<1>4. ASSUME NEW v \in Workers, LoadStep(v) \/ DeleteStep(v) \/ Failure(v) PROVE CallOK(w)'
  <2>1. log' = log /\ v = w
    BY <1>0, <1>4, OnlyWorker, TheWorker DEF source
  <2>2. CASE LoadStep(v)
    BY <1>0, <2>1, <2>2, WorkerTypes DEF CallOK, IsDelete, Loading, Deleting, LoadSteps,
       LoadStep, AllocateRefused, AllocateReplay,
       AllocateAgain, AllocateNew, EnsurePartition, CreateStage, OpenObject, FillStage,
       ObjectMissing, ObjectChanged, Exchange,
       ExchangeFails, MarkActive, MarkError, DropStage, Returns, Raises, Step
  <2>3. CASE DeleteStep(v)
    BY <1>0, <2>1, <2>3, WorkerTypes DEF CallOK, IsDelete, Loading, Deleting, LoadSteps,
       DeleteStep, DeleteAbsent, DeleteRefused,
       DeleteRead, DropPartition, DropFails, MarkDeleted, Returns, Step
  <2>4. CASE Failure(v)
    BY <1>0, <2>1, <2>4, WorkerTypes DEF CallOK, IsDelete, Loading, Deleting, LoadSteps,
       Failure, CallFails, LoadFails, MarkErrorFails,
       DropStageFails, Crash, Leaves, Returns, Raises, Step
  <2>. QED BY <1>4, <2>2, <2>3, <2>4
<1>. QED BY <1>1, <1>2, <1>3, <1>4, StepsOfPipeline

\* What is visible of an object was written.
LEMMA VisibleWritten ==
  ASSUME Base, RowsWritten, NEW o \in Objects, Seen(o) # NoRows
  PROVE  /\ Wrote(Visible(o), o) /\ Wrote(VisibleHead(o), o) /\ VisibleHead(o) <= Visible(o)
         /\ Known(o) /\ Here(o).of = o /\ Seen(o) = Here(o)
<1>1. Known(o) /\ Here(o).of = o /\ Seen(o) = Here(o)
  BY DEF Seen, Here
<1>2. PICK t \in Targets, b \in Batch : t = record[o].target /\ b = record[o].batch
  BY <1>1, PlaceOf DEF Base
<1>3. rows[t][b].of = o /\ o # NoObject
  BY <1>1, <1>2, ConstantsAssumption DEF Here
<1>. QED BY <1>1, <1>2, <1>3 DEF RowsWritten, Here, Visible, VisibleHead

LEMMA NoRowsVisible ==
  ASSUME NEW o, Seen(o) = NoRows
  PROVE  Visible(o) = 0 /\ VisibleHead(o) = 0
BY DEF Visible, VisibleHead, NoRows, RowsOf

\* The version in the bucket is the last one that was written.
LEMMA BucketIsLatest ==
  ASSUME Base, BucketsOK, NEW o \in Objects, bucket[o] # 0
  PROVE  /\ bucket[o] \in Version /\ bucket[o] \in 1..Len(log) /\ Wrote(bucket[o], o)
         /\ \A k \in 1..Len(log) : log[k].object = o => k <= bucket[o]
<1>1. Latest(bucket[o], o) /\ ~IsDelete(bucket[o])
  BY DEF BucketsOK
<1>. QED BY <1>1, CapturedTypes DEF Latest, Wrote

LEMMA OpenObjectFills ==
  ASSUME Base, BucketsOK, RowsWritten, NEW w \in Workers, OpenObject(w), UNCHANGED queue
  PROVE  FilledOK(w)'
<1>1. /\ pc[w] = "staged" /\ bucket[Object(w)] # 0
      /\ stage' = [stage EXCEPT ![w] = {RowsOf(Object(w), bucket[Object(w)], bucket[Object(w)])}]
      /\ UNCHANGED <<log, record, rows, job, captured>>
  BY DEF OpenObject, Step, source, control, tables, queue
<1>2. PICK o \in Objects : o = Object(w)
  BY <1>1, NowKnown
<1>3. PICK h \in Version : h = bucket[o]
  BY <1>1, <1>2, BucketIsLatest
<1>4. Wrote(h, o) /\ \A k \in 1..Len(log) : log[k].object = o => k <= h
  BY <1>1, <1>2, <1>3, BucketIsLatest
<1>5. h >= job[w]
  <2>1. job[w] \in 1..Len(log) /\ log[job[w]].object = o
    BY <1>1, <1>2, NowKnown DEF Object
  <2>2. job[w] <= h
    BY <1>4, <2>1
  <2>. QED BY <2>1, <2>2
<1>6. h >= Visible(o)
  <2>1. CASE Seen(o) = NoRows
    BY <2>1, NoRowsVisible DEF Version
  <2>2. CASE Seen(o) # NoRows
    <3>1. Visible(o) \in 1..Len(log) /\ log[Visible(o)].object = o
      BY <2>2, VisibleWritten DEF Wrote
    <3>2. Visible(o) <= h
      BY <1>4, <3>1
    <3>. QED BY <3>1, <3>2
  <2>. QED BY <2>1, <2>2
<1>7. \A k \in 1..captured : log[k].object = o => k <= h
  BY <1>4, CapturedTypes
<1>8. stage'[w] = {RowsOf(o, h, h)}
  BY <1>1, <1>2, <1>3, WorkerTypes DEF Base
<1>9. Object(w)' = o /\ Wrote(h, o)' /\ Visible(Object(w))' = Visible(o)
  BY <1>1, <1>2, <1>4 DEF Object, Wrote, IsDelete, Visible, Seen, Known
<1>10. h <= h
  BY DEF Version
<1>11. Filling(w, h, h)'
  BY <1>1, <1>2, <1>5, <1>6, <1>7, <1>8, <1>9, <1>10 DEF Filling
<1>. QED BY <1>11 DEF FilledOK

LEMMA FillStageFills ==
  ASSUME Base, BucketsOK, NEW w \in Workers, FilledOK(w), FillStage(w), UNCHANGED queue
  PROVE  FilledOK(w)'
<1>1. /\ pc[w] = "reading" /\ bucket[Object(w)] # 0
      /\ \E c \in stage[w] :
           stage' = [stage EXCEPT ![w] = {RowsOf(Object(w), c.head, bucket[Object(w)])}]
      /\ UNCHANGED <<log, record, rows, job, captured>>
  BY DEF FillStage, Step, source, control, tables, queue
<1>2. PICK o \in Objects : o = Object(w)
  BY <1>1, NowKnown
<1>3. PICK h \in Version, u \in Version : Filling(w, h, u)
  BY <1>1 DEF FilledOK
<1>4. PICK v \in Version : v = bucket[o]
  BY <1>1, <1>2, BucketIsLatest
<1>5. Wrote(v, o) /\ \A k \in 1..Len(log) : log[k].object = o => k <= v
  BY <1>1, <1>2, <1>4, BucketIsLatest
<1>6. h <= v
  BY <1>2, <1>3, <1>5 DEF Filling, Wrote
<1>7. stage'[w] = {RowsOf(o, h, v)}
  <2>1. RowsOf(o, h, u).head = h
    BY DEF RowsOf
  <2>2. stage' = [stage EXCEPT ![w] = {RowsOf(o, h, v)}]
    BY <1>1, <1>2, <1>3, <1>4, <2>1 DEF Filling
  <2>. QED BY <2>2, WorkerTypes DEF Base
<1>8. /\ Object(w)' = o /\ Wrote(h, o)' /\ Wrote(v, o)'
      /\ Visible(Object(w))' = Visible(o)
  BY <1>1, <1>2, <1>3, <1>5 DEF Filling, Object, Wrote, IsDelete, Visible, Seen, Known
<1>9. Filling(w, h, v)'
  BY <1>1, <1>2, <1>3, <1>6, <1>7, <1>8 DEF Filling
<1>. QED BY <1>9 DEF FilledOK

LEMMA FilledStep ==
  ASSUME Base, BucketsOK, RowsWritten, [PipelineNext]_pipelineVars, NEW w \in Workers, FilledOK(w)
  PROVE  FilledOK(w)'
<1>0. TInv
  BY DEF Base
<1> SUFFICES ASSUME pc'[w] \in {"reading", "filled"} PROVE FilledOK(w)'
  BY DEF FilledOK
<1>1. CASE Elsewhere
  <2>1. PICK o \in Objects : o = Object(w)
    BY <1>1, ElsewhereKeeps, NowKnown
  <2>2. /\ pc[w] \in {"reading", "filled"} /\ stage'[w] = stage[w] /\ job'[w] = job[w]
        /\ captured' = captured /\ Object(w)' = o /\ Visible(Object(w))' = Visible(o)
    BY <1>1, <2>1, ElsewhereKeeps
  <2>3. PICK h \in Version, v \in Version : Filling(w, h, v)
    BY <2>2 DEF FilledOK
  <2>4. \A k \in 1..captured : log'[k] = log[k]
    BY LogGrows, CapturedTypes
  <2>5. Wrote(h, o)' /\ Wrote(v, o)'
    BY <2>1, <2>3, WroteKept DEF Filling
  <2>6. Filling(w, h, v)'
    BY <2>1, <2>2, <2>3, <2>4, <2>5 DEF Filling
  <2>. QED BY <2>6 DEF FilledOK
<1>2. ASSUME NEW v \in Workers,
             \/ Settle(v) \/ SettleFails(v) \/ DeleteStep(v) \/ Failure(v)
             \/ \E n \in Version : Claim(v, n)
      PROVE  FALSE
  <2>1. CASE Settle(v) \/ SettleFails(v)
    BY <1>0, <2>1, WorkerTypes, TheWorker DEF Settle, SettleFails, Return, Leaves
  <2>2. CASE DeleteStep(v)
    BY <1>0, <2>2, WorkerTypes, TheWorker DEF DeleteStep, DeleteAbsent, DeleteRefused,
       DeleteRead, DropPartition, DropFails, MarkDeleted, Returns, Step
  <2>3. CASE Failure(v)
    BY <1>0, <2>3, WorkerTypes, TheWorker DEF Failure, CallFails, LoadFails, MarkErrorFails,
       DropStageFails, Crash, Leaves, Returns, Raises, Step
  <2>4. CASE \E n \in Version : Claim(v, n)
    BY <1>0, <2>4, WorkerTypes, TheWorker, ClaimIsStep DEF Begin, Step
  <2>. QED BY <1>2, <2>1, <2>2, <2>3, <2>4
<1>3. ASSUME NEW v \in Workers, LoadStep(v), UNCHANGED queue
      PROVE  FilledOK(w)'
  <2>1. v = w
    BY TheWorker
  <2>2. OpenObject(w) \/ FillStage(w)
    BY <1>0, <1>3, <2>1, WorkerTypes DEF LoadStep, AllocateRefused, AllocateReplay,
       AllocateAgain, AllocateNew, EnsurePartition, CreateStage, ObjectMissing, ObjectChanged,
       Exchange, ExchangeFails, MarkActive, MarkError, DropStage, Returns, Raises, Step
  <2>. QED BY <1>3, <2>1, <2>2, OpenObjectFills, FillStageFills
<1>. QED BY <1>1, <1>2, <1>3, StepsOfPipeline

\* A load publishes rows of its object none of which is older than its event,
\* than what was visible, or than any captured event.
LEMMA ExchangeShows ==
  ASSUME Base, NEW w \in Workers, Exchange(w), FilledOK(w)
  PROVE  \E h, v \in Version :
           /\ Wrote(h, Object(w)) /\ Wrote(v, Object(w)) /\ h <= v
           /\ h >= job[w] /\ h >= Visible(Object(w))
           /\ \A k \in 1..captured : log[k].object = Object(w) => k <= h
           /\ rows' = [rows EXCEPT ![Now(w).target][Now(w).batch] = RowsOf(Object(w), h, v)]
           /\ Here(Object(w))' = RowsOf(Object(w), h, v)
           /\ VisibleHead(Object(w))' = h /\ Visible(Object(w))' = v
           /\ \A o \in Objects \ {Object(w)} :
                Seen(o)' = Seen(o) /\ (Known(o) => Here(o)' = Here(o))
<1>1. PICK o \in Objects : o = Object(w)
  BY ExchangeWrites
<1>2. /\ pc[w] = "filled" /\ Known(o) /\ UNCHANGED record
      /\ \E c \in stage[w] : rows' = [rows EXCEPT ![record[o].target][record[o].batch] = c]
  BY <1>1, ExchangeWrites DEF Now
<1>3. PICK h \in Version, v \in Version : Filling(w, h, v)
  BY <1>2 DEF FilledOK
<1>4. rows' = [rows EXCEPT ![record[o].target][record[o].batch] = RowsOf(o, h, v)]
  BY <1>1, <1>2, <1>3 DEF Filling
<1>5. RowsOf(o, h, v).of = o /\ RowsOf(o, h, v).head = h /\ RowsOf(o, h, v).version = v
  BY DEF RowsOf
<1>6. /\ Here(o)' = RowsOf(o, h, v) /\ Seen(o)' = RowsOf(o, h, v)
      /\ \A q \in Objects \ {o} : Seen(q)' = Seen(q) /\ (Known(q) => Here(q)' = Here(q))
  BY <1>2, <1>4, <1>5, WrittenRows
<1>7. Object(w)' = o
  BY <1>1 DEF Exchange, Object, source
<1>8. VisibleHead(o)' = h /\ Visible(o)' = v
  BY <1>5, <1>6 DEF Visible, VisibleHead
<1>. QED BY <1>1, <1>3, <1>4, <1>6, <1>7, <1>8 DEF Now, Filling

\* A delete withdraws them.
LEMMA DropHides ==
  ASSUME Base, NEW w \in Workers, DropPartition(w), DeleteOK(w)
  PROVE  /\ Here(Object(w))' = NoRows
         /\ Visible(Object(w))' = 0 /\ VisibleHead(Object(w))' = 0
         /\ \A o \in Objects \ {Object(w)} :
              Seen(o)' = Seen(o) /\ (Known(o) => Here(o)' = Here(o))
<1>1. PICK o \in Objects : o = Object(w)
  BY DropWrites
<1>2. /\ Known(o) /\ UNCHANGED record
      /\ rows' = [rows EXCEPT ![record[o].target][record[o].batch] = NoRows]
  BY <1>1, DropWrites DEF Now
<1>3. NoRows.of # o /\ NoRows.head = 0 /\ NoRows.version = 0
  BY ConstantsAssumption DEF NoRows, RowsOf
<1>4. /\ Here(o)' = NoRows /\ Seen(o)' = NoRows
      /\ \A q \in Objects \ {o} : Seen(q)' = Seen(q) /\ (Known(q) => Here(q)' = Here(q))
  BY <1>2, <1>3, WrittenRows
<1>5. Object(w)' = o
  BY <1>1 DEF DropPartition, Object, source
<1>6. Visible(o)' = 0 /\ VisibleHead(o)' = 0
  BY <1>3, <1>4 DEF Visible, VisibleHead
<1>. QED BY <1>1, <1>4, <1>5, <1>6

LEMMA RowsWrittenStep ==
  ASSUME Base, RowsWritten, \A w \in Workers : FilledOK(w) /\ DeleteOK(w), [PipelineNext]_pipelineVars
  PROVE  RowsWritten'
<1> SUFFICES ASSUME NEW t \in Targets, NEW b \in Batch, rows'[t][b].of # NoObject,
                    NEW q, q = rows'[t][b].of, NEW m, m = rows'[t][b].head,
                    NEW n, n = rows'[t][b].version
             PROVE  Wrote(m, q)' /\ Wrote(n, q)' /\ m <= n
  BY DEF RowsWritten
<1>0. rows \in [Targets -> [Batch -> Contents]] /\ TInv
  BY DEF Base, TInv, TypeOK
<1>1. CASE rows'[t][b] = rows[t][b]
  BY <1>1, WroteKept DEF RowsWritten
<1>2. ASSUME NEW w \in Workers, Exchange(w) PROVE Wrote(m, q)' /\ Wrote(n, q)' /\ m <= n
  <2>1. PICK h \in Version, v \in Version :
          /\ Wrote(h, Object(w)) /\ Wrote(v, Object(w)) /\ h <= v
          /\ rows' = [rows EXCEPT ![Now(w).target][Now(w).batch] = RowsOf(Object(w), h, v)]
    BY <1>2, ExchangeShows
  <2>2. rows'[t][b] = rows[t][b] \/ rows'[t][b] = RowsOf(Object(w), h, v)
    BY <1>0, <2>1
  <2>3. PICK o : o = Object(w)
    OBVIOUS
  <2>4. Wrote(h, o)' /\ Wrote(v, o)'
    BY <2>1, <2>3, WroteKept
  <2>5. RowsOf(o, h, v).of = o /\ RowsOf(o, h, v).head = h /\ RowsOf(o, h, v).version = v
    BY DEF RowsOf
  <2>. QED BY <1>1, <2>1, <2>2, <2>3, <2>4, <2>5
<1>3. ASSUME NEW w \in Workers, DropPartition(w) PROVE Wrote(m, q)' /\ Wrote(n, q)' /\ m <= n
  <2>1. rows' = [rows EXCEPT ![Now(w).target][Now(w).batch] = NoRows]
    BY <1>3, DropWrites
  <2>2. rows'[t][b] = rows[t][b] \/ rows'[t][b] = NoRows
    BY <1>0, <2>1
  <2>. QED BY <1>1, <2>2 DEF NoRows, RowsOf
<1>. QED BY <1>1, <1>2, <1>3, RowsStep

\* A load that works on a record has put its event there, and only then.
LEMMA LoadStepOK ==
  ASSUME Base, [PipelineNext]_pipelineVars,
         NEW w \in Workers, CallOK(w), FilledOK(w), LoadOK(w)
  PROVE  LoadOK(w)'
<1>0. TInv
  BY DEF Base
<1>1. CASE Elsewhere
  <2>1. CASE pc[w] = "idle"
    BY <1>1, <2>1, ElsewhereKeeps DEF LoadOK, Exchanged, LoadSteps
  <2>2. CASE pc[w] # "idle"
    <3>1. PICK o \in Objects : o = Object(w)
      BY <2>2, NowKnown
    <3>2. /\ pc'[w] = pc[w] /\ job'[w] = job[w] /\ outcome'[w] = outcome[w]
          /\ Object(w)' = o /\ (IsDelete(job[w])' <=> IsDelete(job[w]))
          /\ record'[o].state = record[o].state /\ record'[o].version = record[o].version
          /\ Known(o) => Here(o)' = Here(o)
      BY <1>1, <2>2, <3>1, ElsewhereKeeps DEF Now
    <3>3. Here(Object(w))' = Here(o)' /\ Known(Object(w))' = Known(o)'
      BY <3>2 DEF Here, Known
    <3>4. Now(w)'.version = record'[o].version /\ Now(w)'.state = record'[o].state
      BY <3>2 DEF Now
    <3>5. Known(o)' <=> Known(o)
      BY <3>2 DEF Known
    <3>6. Exchanged(w)' => Exchanged(w)
      BY <3>2 DEF Exchanged
    <3>7. pc[w] \in LoadSteps => record[o].version = job[w] /\ record[o].state \in {"LOADING", "ACTIVE"}
      BY <3>1 DEF LoadOK, Now
    <3>8. Exchanged(w) => Known(o) /\ Here(o).of = o /\ Here(o).head >= job[w]
      BY <3>1 DEF LoadOK
    <3>. QED BY <3>2, <3>3, <3>4, <3>5, <3>6, <3>7, <3>8 DEF LoadOK
  <2>. QED BY <2>1, <2>2
<1>2. ASSUME NEW v \in Workers,
             \/ Settle(v) \/ SettleFails(v) \/ \E n \in Version : Claim(v, n)
      PROVE  LoadOK(w)'
  <2>1. CASE Settle(v) \/ SettleFails(v)
    <3>1. pc'[w] = "idle"
      BY <1>0, <2>1, WorkerTypes, TheWorker DEF Settle, SettleFails, Return, Leaves
    <3>. QED BY <3>1 DEF LoadOK, Exchanged, LoadSteps
  <2>2. CASE \E n \in Version : Claim(v, n)
    <3>1. pc'[w] \in {"deleting", "resolved"}
      BY <1>0, <2>2, WorkerTypes, TheWorker, ClaimIsStep DEF Begin, Step
    <3>. QED BY <3>1 DEF LoadOK, Exchanged, LoadSteps
  <2>. QED BY <1>2, <2>1, <2>2
<1>3. ASSUME NEW v \in Workers, DeleteStep(v) PROVE LoadOK(w)'
  <2>1. /\ pc'[w] \in {"returned", "dropping", "dropped"} /\ job'[w] = job[w] /\ log' = log
        /\ pc[w] \in Deleting
    BY <1>0, <1>3, WorkerTypes, TheWorker DEF DeleteStep, DeleteAbsent, DeleteRefused,
       DeleteRead, DropPartition, DropFails, MarkDeleted, Returns, Step, Deleting, source
  <2>2. IsDelete(job[w])'
    BY <2>1 DEF CallOK, IsDelete
  <2>. QED BY <2>1, <2>2 DEF LoadOK, Exchanged, LoadSteps
<1>4. ASSUME NEW v \in Workers, Failure(v) PROVE LoadOK(w)'
  <2>1. UNCHANGED <<log, record, rows>> /\ v = w
    BY <1>4, <1>0, OnlyWorker, TheWorker DEF Failure, CallFails, LoadFails, MarkErrorFails,
       DropStageFails, Crash, Leaves, source, control, tables
  <2>2. /\ pc'[w] \notin LoadSteps
        /\ Exchanged(w)' => Exchanged(w) /\ job'[w] = job[w]
    BY <1>0, <1>4, <2>1, WorkerTypes DEF Failure, CallFails, LoadFails, MarkErrorFails, CallOK,
       DropStageFails, Crash, Leaves, Returns, Raises, Step, Exchanged, LoadSteps, IsDelete
  <2>3. ASSUME Exchanged(w)'
        PROVE  /\ Known(Object(w))' /\ Here(Object(w))'.of = Object(w)'
               /\ Here(Object(w))'.head >= job'[w]
    <3>1. Object(w)' = Object(w) /\ job'[w] = job[w] /\ Exchanged(w)
      BY <2>1, <2>2, <2>3 DEF Object
    <3>2. Here(Object(w))' = Here(Object(w)) /\ (Known(Object(w))' <=> Known(Object(w)))
      BY <2>1, <3>1 DEF Here, Known
    <3>. QED BY <3>1, <3>2 DEF LoadOK
  <2>. QED BY <2>2, <2>3 DEF LoadOK
<1>5. ASSUME NEW v \in Workers, LoadStep(v) PROVE LoadOK(w)'
  <2>0. v = w /\ log' = log /\ job' = job /\ pc[w] # "idle"
    BY <1>0, <1>5, OnlyWorker, TheWorker, WorkerTypes DEF source, LoadStep, AllocateRefused, AllocateReplay,
       AllocateAgain, AllocateNew, EnsurePartition, CreateStage, OpenObject, FillStage,
       ObjectMissing, ObjectChanged, Exchange,
       ExchangeFails, MarkActive, MarkError, DropStage, Returns, Raises, Step
  <2>1. PICK o \in Objects : o = Object(w)
    BY <2>0, NowKnown
  <2>2. Object(w)' = o /\ (IsDelete(job[w])' <=> IsDelete(job[w]))
    BY <2>0, <2>1 DEF Object, IsDelete
  <2>3. CASE Exchange(w)
    <3>1. pc[w] = "filled" /\ pc'[w] = "exchanged" /\ UNCHANGED record /\ Known(o)
      BY <1>0, <2>1, <2>3, WorkerTypes, ExchangeWrites DEF Exchange, Step
    <3>2. PICK h \in Version, n \in Version : h >= job[w] /\ Here(Object(w))' = RowsOf(o, h, n)
      BY <2>1, <2>3, ExchangeShows
    <3>3. Here(Object(w))'.of = o /\ Here(Object(w))'.head = h
      BY <3>2 DEF RowsOf
    <3>4. Now(w)'.version = job'[w] /\ Now(w)'.state \in {"LOADING", "ACTIVE"}
      BY <2>0, <2>1, <2>2, <3>1 DEF LoadOK, Now, LoadSteps
    <3>. QED BY <2>0, <2>2, <3>1, <3>2, <3>3, <3>4 DEF LoadOK, Known
  <2>4. CASE AllocateReplay(w) \/ AllocateAgain(w) \/ AllocateNew(w)
    <3>1. pc[w] = "resolved" /\ pc'[w] = "allocated"
      BY <1>0, <2>4, WorkerTypes DEF AllocateReplay, AllocateAgain, AllocateNew, Step
    <3>2. record'[o].version = job[w] /\ record'[o].state \in {"LOADING", "ACTIVE"}
      <4>1. CASE AllocateReplay(w)
        BY <2>1, <4>1 DEF AllocateReplay, Now, control
      <4>2. CASE AllocateAgain(w) \/ AllocateNew(w)
        <5>1. PICK t, b : record' = [record EXCEPT ![o] = Record("LOADING", t, b, job[w], "running")]
          BY <2>1, <4>2 DEF AllocateAgain, AllocateNew
        <5>. QED BY <1>0, <5>1 DEF Record, TInv, TypeOK
      <4>. QED BY <2>4, <4>1, <4>2
    <3>. QED BY <2>0, <2>2, <3>1, <3>2 DEF LoadOK, Exchanged, Now
  <2>5. CASE EnsurePartition(w) \/ CreateStage(w) \/ OpenObject(w) \/ FillStage(w)
    <3>1. /\ pc[w] \in LoadSteps /\ pc'[w] \in {"partitioned", "staged", "reading", "filled"}
          /\ UNCHANGED record
      BY <1>0, <2>5, WorkerTypes DEF EnsurePartition, CreateStage, OpenObject, FillStage, Step, LoadSteps, control
    <3>. QED BY <2>0, <2>1, <2>2, <3>1 DEF LoadOK, Exchanged, Now
  <2>6. CASE MarkActive(w) \/ DropStage(w)
    <3>1. rows' = rows /\ outcome' = outcome
      BY <2>6 DEF MarkActive, DropStage, tables
    <3>2. /\ pc[w] \in {"exchanged", "cleanup"} /\ pc'[w] \in {"cleanup", "returned"}
          /\ Exchanged(w)' => Exchanged(w)
      BY <1>0, <2>0, <2>2, <2>6, <3>1, WorkerTypes DEF MarkActive, DropStage, Step, Exchanged
    <3>3. Known(o) => Known(o)' /\ Here(o)' = Here(o)
      BY <3>1, QuietRows
    <3>4. Here(Object(w))' = Here(o)' /\ Known(Object(w))' = Known(o)'
      BY <2>2 DEF Here, Known
    <3>5. Exchanged(w) => Known(o) /\ Here(o).of = o /\ Here(o).head >= job[w]
      BY <2>1 DEF LoadOK
    <3>. QED BY <2>0, <2>2, <3>2, <3>3, <3>4, <3>5 DEF LoadOK, LoadSteps
  <2>7. CASE \/ AllocateRefused(w) \/ ObjectMissing(w) \/ ObjectChanged(w)
            \/ ExchangeFails(w) \/ MarkError(w)
    <3>1. pc'[w] \in {"raised", "cleanup", "returned"} /\ outcome'[w] # "ok"
      BY <1>0, <2>7, WorkerTypes DEF CallOK, AllocateRefused, ObjectMissing, ObjectChanged, ExchangeFails, MarkError,
         Returns, Raises, Step
    <3>. QED BY <3>1 DEF LoadOK, Exchanged, LoadSteps
  <2>. QED BY <1>5, <2>0, <2>3, <2>4, <2>5, <2>6, <2>7 DEF LoadStep
<1>. QED BY <1>1, <1>2, <1>3, <1>4, <1>5, StepsOfPipeline

\* Nothing is visible of an object that has no record, or an empty partition.
LEMMA NothingVisible ==
  ASSUME NEW o \in Objects, ~Known(o) \/ Here(o) = NoRows
  PROVE  Visible(o) = 0
BY ConstantsAssumption DEF Visible, Seen, Here, NoRows, RowsOf

LEMMA DeleteStepOK ==
  ASSUME Base, DeletedIsEmpty, [PipelineNext]_pipelineVars,
         NEW w \in Workers, CallOK(w), DeleteOK(w)
  PROVE  DeleteOK(w)'
<1>0. TInv
  BY DEF Base
<1>1. CASE Elsewhere
  <2>1. CASE pc[w] = "idle"
    BY <1>1, <2>1, ElsewhereKeeps DEF DeleteOK
  <2>2. CASE pc[w] # "idle"
    <3>1. PICK o \in Objects : o = Object(w)
      BY <2>2, NowKnown
    <3>2. /\ pc'[w] = pc[w] /\ outcome'[w] = outcome[w] /\ to'[w] = to[w] /\ batch'[w] = batch[w]
          /\ Object(w)' = o /\ (IsDelete(job[w])' <=> IsDelete(job[w]))
          /\ Visible(o)' = Visible(o) /\ record'[o].state = record[o].state
          /\ Known(o) => Keeps(o) /\ Here(o)' = Here(o)
      <4>1. Object(w)' = o
        BY <1>1, <2>2, <3>1, ElsewhereKeeps
      <4>2. Visible(Object(w))' = Visible(o)' /\ Here(Object(w))' = Here(o)'
            /\ Now(w)'.state = record'[o].state
        BY <4>1 DEF Visible, Seen, Here, Known, Now
      <4>. QED BY <1>1, <2>2, <3>1, <4>1, <4>2, ElsewhereKeeps DEF Now
    <3>3. pc[w] \in {"dropping", "dropped"} => Known(o)
      BY <2>2, <3>1, NowKnown
    <3>4. Now(w)'.target = record'[o].target /\ Now(w)'.batch = record'[o].batch /\ Now(w)'.state = record'[o].state
      BY <3>2 DEF Now
    <3>5. Visible(Object(w))' = Visible(o)' /\ Here(Object(w))' = Here(o)'
      BY <3>2 DEF Visible, Seen, Here, Known
    <3>6. /\ pc[w] \in {"dropping", "dropped"} => to[w] = record[o].target /\ batch[w] = record[o].batch
          /\ pc[w] = "dropping" => record[o].state \in {"ACTIVE", "ERROR"}
          /\ pc[w] = "dropped" => Here(o) = NoRows
          /\ pc[w] = "returned" /\ outcome[w] = "ok" /\ IsDelete(job[w]) => Visible(o) = 0
      BY <3>1 DEF DeleteOK, Now
    <3>. QED BY <3>2, <3>3, <3>4, <3>5, <3>6 DEF DeleteOK, Keeps
  <2>. QED BY <2>1, <2>2
<1>2. ASSUME NEW v \in Workers,
             \/ Settle(v) \/ SettleFails(v) \/ \E n \in Version : Claim(v, n)
      PROVE  DeleteOK(w)'
  <2>1. CASE Settle(v) \/ SettleFails(v)
    <3>1. pc'[w] = "idle"
      BY <1>0, <2>1, WorkerTypes, TheWorker DEF Settle, SettleFails, Return, Leaves
    <3>. QED BY <3>1 DEF DeleteOK
  <2>2. CASE \E n \in Version : Claim(v, n)
    <3>1. pc'[w] \in {"deleting", "resolved"}
      BY <1>0, <2>2, WorkerTypes, TheWorker, ClaimIsStep DEF Begin, Step
    <3>. QED BY <3>1 DEF DeleteOK
  <2>. QED BY <1>2, <2>1, <2>2
<1>3. ASSUME NEW v \in Workers, LoadStep(v) \/ Failure(v) PROVE DeleteOK(w)'
  <2>0. log' = log /\ v = w
    BY <1>0, <1>3, OnlyWorker, TheWorker DEF source
  <2>1. /\ pc'[w] \notin {"dropping", "dropped"}
        /\ pc'[w] = "returned" /\ outcome'[w] = "ok" => ~IsDelete(job[w])'
    <3>1. CASE LoadStep(w)
      BY <1>0, <2>0, <3>1, WorkerTypes DEF LoadStep, AllocateRefused, AllocateReplay,
         AllocateAgain, AllocateNew, EnsurePartition, CreateStage, OpenObject, FillStage,
       ObjectMissing, ObjectChanged, Exchange,
         ExchangeFails, MarkActive, MarkError, DropStage, Returns, Raises, Step, CallOK, Loading, LoadSteps,
         IsDelete
    <3>2. CASE Failure(w)
      BY <1>0, <2>0, <3>2, WorkerTypes DEF Failure, CallFails, LoadFails, MarkErrorFails,
         DropStageFails, Crash, Leaves, Returns, Raises, Step, CallOK, Loading, LoadSteps, IsDelete
    <3>. QED BY <1>3, <2>0, <3>1, <3>2
  <2>. QED BY <2>1 DEF DeleteOK, IsDelete
<1>4. ASSUME NEW v \in Workers, DeleteStep(v) PROVE DeleteOK(w)'
  <2>0. v = w /\ log' = log /\ job' = job /\ pc[w] # "idle"
    BY <1>0, <1>4, OnlyWorker, TheWorker, WorkerTypes DEF source, DeleteStep, DeleteAbsent, DeleteRefused,
       DeleteRead, DropPartition, DropFails, MarkDeleted, Returns, Step
  <2>1. PICK o \in Objects : o = Object(w)
    BY <2>0, NowKnown
  <2>2. Object(w)' = o
    BY <2>0, <2>1 DEF Object
  <2>3. CASE DropPartition(w)
    <3>1. pc[w] = "dropping" /\ pc'[w] = "dropped" /\ UNCHANGED <<record, to, batch>>
      BY <1>0, <2>3, WorkerTypes DEF DropPartition, Step, control
    <3>2. Here(Object(w))' = NoRows
      BY <2>3, DropHides
    <3>. QED BY <2>1, <2>2, <3>1, <3>2 DEF DeleteOK, Now
  <2>4. CASE DeleteRead(w)
    <3>1. /\ pc'[w] = "dropping" /\ UNCHANGED record /\ record[o].state \in {"ACTIVE", "ERROR"}
          /\ to'[w] = record[o].target /\ batch'[w] = record[o].batch
      BY <1>0, <2>1, <2>4, WorkerTypes DEF DeleteRead, Step, control, Now
    <3>. QED BY <2>2, <3>1 DEF DeleteOK, Now
  <2>5. CASE DeleteAbsent(w) \/ MarkDeleted(w)
    <3>1. pc'[w] = "returned" /\ rows' = rows
      BY <1>0, <2>5, WorkerTypes DEF DeleteAbsent, MarkDeleted, Returns, Step, tables
    <3>2. ~Known(o) \/ Here(o) = NoRows
      BY <2>1, <2>5 DEF DeleteAbsent, MarkDeleted, Returns, Step, Now, Known, DeletedIsEmpty, DeleteOK
    <3>3. Visible(o)' = 0
      BY <3>1, <3>2, NothingVisible, QuietRows
    <3>4. Visible(Object(w))' = Visible(o)'
      BY <2>2 DEF Visible, VisibleHead, Seen, Known
    <3>. QED BY <3>1, <3>3, <3>4 DEF DeleteOK
  <2>6. CASE DeleteRefused(w) \/ DropFails(w)
    <3>1. pc'[w] = "returned" /\ outcome'[w] = "error"
      BY <1>0, <2>6, WorkerTypes DEF DeleteRefused, DropFails, Returns, Step
    <3>. QED BY <3>1 DEF DeleteOK
  <2>. QED BY <1>4, <2>0, <2>3, <2>4, <2>5, <2>6 DEF DeleteStep
<1>. QED BY <1>1, <1>2, <1>3, <1>4, StepsOfPipeline

LEMMA DeletedIsEmptyStep ==
  ASSUME Base, DeletedIsEmpty, [PipelineNext]_pipelineVars,
         \A w \in Workers : FilledOK(w) /\ LoadOK(w) /\ DeleteOK(w)
  PROVE  DeletedIsEmpty'
<1> SUFFICES ASSUME NEW o \in Objects, record'[o].state = "DELETED"
             PROVE  Here(o)' = NoRows
  BY DEF DeletedIsEmpty
<1>1. CASE rows' = rows
  <2>1. Known(o) /\ Here(o) = NoRows
    <3>1. CASE record[o].state = "DELETED"
      BY <3>1 DEF DeletedIsEmpty, Known
    <3>2. CASE record[o].state # "DELETED"
      <4>1. PICK w \in Workers : Object(w) = o /\ MarkDeleted(w)
        BY <3>2, RecordStep
      <4>2. pc[w] = "dropped"
        BY <4>1 DEF MarkDeleted, Returns, Step
      <4>. QED BY <4>1, <4>2, NowKnown DEF DeleteOK
    <3>. QED BY <3>1, <3>2
  <2>. QED BY <1>1, <2>1, QuietRows
<1>2. ASSUME NEW w \in Workers, Exchange(w) PROVE Here(o)' = NoRows
  <2>1. pc[w] = "filled" /\ UNCHANGED record
    BY <1>2, ExchangeWrites
  <2>2. record[o].state = "DELETED" /\ o # Object(w)
    BY <2>1 DEF LoadOK, LoadSteps, Now
  <2>. QED BY <1>2, <2>2, ExchangeShows DEF DeletedIsEmpty, Known
<1>3. ASSUME NEW w \in Workers, DropPartition(w) PROVE Here(o)' = NoRows
  <2>1. UNCHANGED record
    BY <1>3, DropWrites
  <2>2. record[o].state = "DELETED" /\ Known(o)
    BY <2>1 DEF Known
  <2>3. CASE o # Object(w)
    BY <1>3, <2>2, <2>3, DropHides DEF DeletedIsEmpty
  <2>4. CASE o = Object(w)
    <3>1. Here(Object(w))' = Here(o)'
      BY <1>3, <2>4 DEF DropPartition, Object, source, Here
    <3>. QED BY <1>3, <3>1, DropHides
  <2>. QED BY <2>3, <2>4
<1>. QED BY <1>1, <1>2, <1>3, RowsStep

\* A record that is ACTIVE stays backed by rows.
LEMMA ActiveIsLoadedStep ==
  ASSUME Base, ActiveIsLoaded, [PipelineNext]_pipelineVars,
         \A w \in Workers : CallOK(w) /\ FilledOK(w) /\ LoadOK(w) /\ DeleteOK(w)
  PROVE  ActiveIsLoaded'
<1> SUFFICES ASSUME NEW o \in Objects, record'[o].state = "ACTIVE"
             PROVE  \/ Here(o)'.of = o /\ Here(o)'.head >= record'[o].version
                    \/ Here(o)' = NoRows /\ Deleted(o)'
  BY DEF ActiveIsLoaded, Here
<1>0. record[o].state = "ACTIVE" => \/ Here(o).of = o /\ Here(o).head >= record[o].version
                                    \/ Here(o) = NoRows /\ Deleted(o)
  BY DEF ActiveIsLoaded, Here
<1>1. CASE rows' = rows
  <2>1. CASE record[o].state = "ACTIVE" /\ record'[o].version = record[o].version
    <3>1. Here(o)' = Here(o)
      BY <1>1, <2>1, QuietRows DEF Known
    <3>. QED BY <1>0, <2>1, <3>1, DeletedKept
  <2>2. CASE ~(record[o].state = "ACTIVE" /\ record'[o].version = record[o].version)
    <3>1. PICK w \in Workers : Object(w) = o /\ MarkActive(w) /\ record'[o].version = record[o].version
      BY <2>2, RecordStep
    <3>2. pc[w] = "exchanged"
      BY <3>1 DEF MarkActive, Step
    <3>3. Known(o) /\ Here(o).of = o /\ Here(o).head >= record[o].version
      BY <3>1, <3>2 DEF LoadOK, Exchanged, LoadSteps, Now
    <3>4. Here(o)' = Here(o)
      BY <1>1, <3>3, QuietRows
    <3>. QED BY <3>1, <3>3, <3>4
  <2>. QED BY <2>1, <2>2
<1>2. ASSUME NEW w \in Workers, Exchange(w)
      PROVE  \/ Here(o)'.of = o /\ Here(o)'.head >= record'[o].version
             \/ Here(o)' = NoRows /\ Deleted(o)'
  <2>1. pc[w] = "filled" /\ UNCHANGED record /\ record[o].state = "ACTIVE"
    BY <1>2, ExchangeWrites
  <2>2. CASE o # Object(w)
    <3>1. Here(o)' = Here(o)
      BY <1>2, <2>1, <2>2, ExchangeShows DEF Known
    <3>. QED BY <1>0, <2>1, <3>1, DeletedKept
  <2>3. CASE o = Object(w)
    <3>1. PICK h \in Version, v \in Version : h >= job[w] /\ Here(Object(w))' = RowsOf(o, h, v)
      BY <1>2, <2>3, ExchangeShows
    <3>2. record'[o].version = job[w]
      BY <2>1, <2>3 DEF LoadOK, LoadSteps, Now
    <3>3. Here(Object(w))' = Here(o)'
      BY <1>2, <2>3 DEF Exchange, Object, source, Here
    <3>. QED BY <3>1, <3>2, <3>3 DEF RowsOf
  <2>. QED BY <2>2, <2>3
<1>3. ASSUME NEW w \in Workers, DropPartition(w)
      PROVE  \/ Here(o)'.of = o /\ Here(o)'.head >= record'[o].version
             \/ Here(o)' = NoRows /\ Deleted(o)'
  <2>1. pc[w] = "dropping" /\ UNCHANGED record /\ record[o].state = "ACTIVE"
    BY <1>3, DropWrites
  <2>2. CASE o # Object(w)
    <3>1. Here(o)' = Here(o)
      BY <1>3, <2>1, <2>2, DropHides DEF Known
    <3>. QED BY <1>0, <2>1, <3>1, DeletedKept
  <2>3. CASE o = Object(w)
    <3>1. Here(Object(w))' = Here(o)'
      BY <1>3, <2>3 DEF DropPartition, Object, source, Here
    <3>2. job[w] \in 1..Len(log) /\ log[job[w]].action = "DELETE" /\ log[job[w]].object = o
      BY <2>1, <2>3, NowKnown DEF CallOK, Deleting, IsDelete, Object
    <3>3. Deleted(o)
      BY <3>2 DEF Deleted
    <3>. QED BY <1>3, <3>1, <3>3, DropHides, DeletedKept
  <2>. QED BY <2>2, <2>3
<1>. QED BY <1>1, <1>2, <1>3, RowsStep

LEMMA PInvStep ==
  ASSUME PInv, [PipelineNext]_pipelineVars
  PROVE  PInv'
<1>1. /\ Base /\ BucketsOK /\ RowsWritten /\ DeletedIsEmpty /\ ActiveIsLoaded
      /\ \A w \in Workers : CallOK(w) /\ FilledOK(w) /\ LoadOK(w) /\ DeleteOK(w)
  BY DEF PInv
<1>2. Base' /\ BucketsOK' /\ RowsWritten'
  BY <1>1, BaseStep, BucketsOKStep, RowsWrittenStep
<1>3. \A w \in Workers : CallOK(w)' /\ FilledOK(w)' /\ LoadOK(w)' /\ DeleteOK(w)'
  BY <1>1, CallStep, FilledStep, LoadStepOK, DeleteStepOK
<1>4. DeletedIsEmpty' /\ ActiveIsLoaded'
  BY <1>1, DeletedIsEmptyStep, ActiveIsLoadedStep
<1>. QED BY <1>2, <1>3, <1>4 DEF PInv

LEMMA SpecPInv == PipelineSpec => []PInv
BY InitPInv, PInvStep, PTL DEF PipelineSpec

\* A record is ACTIVE only with the rows of its object in its partition, at
\* least as new as the event it names, or after a delete has dropped them
\* (mark_active after validate_and_exchange of partition_loader.py, and the
\* retries, replays and deletes of process_cloud_event), whatever fails.
THEOREM SpecActiveIsLoaded == PipelineSpec => []ActiveIsLoaded
<1>1. PInv => ActiveIsLoaded
  BY DEF PInv
<1>. QED BY <1>1, SpecPInv, PTL

-----------------------------------------------------------------------------
(* Completed events.                                                       *)

\* How the status of a captured message may change.
StatusChanges(n) ==
  \/ status'[n] = status[n]
  \/ status[n] = "FAILED" /\ status'[n] = "DUE"
  \/ status[n] = "ABANDONED" /\ status'[n] = "DUE"
  \/ /\ status[n] = "PROCESSING" /\ status'[n] = "ABANDONED"
     /\ \A w \in Workers : job[w] # n
  \/ \E w \in Workers : Claim(w, n) /\ status'[n] = "PROCESSING"
  \/ \E w \in Workers :
       /\ job[w] = n /\ pc[w] = "returned" /\ rows' = rows
       /\ \/ /\ Settle(w) /\ status'[n] = "COMPLETED"
             /\ outcome[w] = "ok" \/ (outcome[w] = "missing" /\ Superseded(n))
          \/ Settle(w) /\ status'[n] = "FAILED" /\ outcome[w] # "ok"
          \/ SettleFails(w) /\ status'[n] = "FAILED"

LEMMA StatusStep ==
  ASSUME Base, [PipelineNext]_pipelineVars
  PROVE  /\ 1..captured \subseteq 1..captured'
         /\ \A n \in 1..captured : StatusChanges(n)
         /\ \A n \in 1..captured' : n \in 1..captured \/ (n = captured + 1 /\ status'[n] = "CAPTURED")
         /\ 1..captured' \subseteq 1..Len(log) \/ captured' = captured
<1>0. /\ captured \in 0..Len(log) /\ Len(log) \in Nat /\ 1..captured \subseteq Version
      /\ status \in [Version -> Statuses]
  BY CapturedTypes, LogGrows
<1>1. CASE Capture
  <2>1. captured' = captured + 1 /\ captured < Len(log) /\ status' = [status EXCEPT ![captured + 1] = "CAPTURED"]
    BY <1>1 DEF Capture
  <2>2. captured + 1 \in Version /\ 1..captured' = (1..captured) \cup {captured + 1} /\ captured + 1 \notin 1..captured
        /\ 1..captured' \subseteq 1..Len(log)
    <3>1. captured + 1 \in 1..Len(log)
      BY <1>0, <2>1
    <3>2. captured + 1 \in Version
      BY <3>1, CapturedTypes
    <3>. QED BY <1>0, <2>1, <3>2
  <2>3. \A n \in 1..captured : status'[n] = status[n]
    BY <1>0, <2>1, <2>2
  <2>4. status'[captured + 1] = "CAPTURED"
    BY <1>0, <2>1, <2>2
  <2>. QED BY <2>2, <2>3, <2>4 DEF StatusChanges
<1>2. ASSUME NEW n \in Version, RetryDue(n)
      PROVE  captured' = captured /\ \A k \in 1..captured : StatusChanges(k)
  BY <1>0, <1>2 DEF RetryDue, StatusChanges
<1>3. ASSUME NEW w \in Workers, NEW n \in Version, Claim(w, n)
      PROVE  captured' = captured /\ \A k \in 1..captured : StatusChanges(k)
  <2>1. /\ captured' = captured
        /\ \A k \in Version : status'[k] = IF k = n THEN "PROCESSING"
                                           ELSE IF status[k] = "ABANDONED" THEN "DUE" ELSE status[k]
    BY <1>3 DEF Claim
  <2>. QED BY <1>0, <1>3, <2>1 DEF StatusChanges
<1>4. ASSUME NEW w \in Workers, Settle(w) \/ SettleFails(w)
      PROVE  captured' = captured /\ \A k \in 1..captured : StatusChanges(k)
  <2>1. /\ captured' = captured /\ pc[w] = "returned" /\ rows' = rows
    BY <1>4 DEF Settle, SettleFails, Return, Leaves, tables
  <2>2. ASSUME NEW k \in 1..captured, k # job[w] PROVE status'[k] = status[k]
    BY <1>0, <1>4, <2>2 DEF Settle, SettleFails
  <2>3. ASSUME job[w] \in 1..captured
        PROVE  \/ /\ Settle(w) /\ status'[job[w]] = "COMPLETED"
                  /\ outcome[w] = "ok" \/ (outcome[w] = "missing" /\ Superseded(job[w]))
               \/ Settle(w) /\ status'[job[w]] = "FAILED" /\ outcome[w] # "ok"
               \/ SettleFails(w) /\ status'[job[w]] = "FAILED"
    BY <1>0, <1>4, <2>3 DEF Settle, SettleFails
  <2>. QED BY <2>1, <2>2, <2>3 DEF StatusChanges
<1>5. CASE UNCHANGED queue
  BY <1>5 DEF queue, StatusChanges
<1>6. CASE UNCHANGED pipelineVars
  BY <1>5, <1>6 DEF pipelineVars
<1>. QED BY <1>1, <1>2, <1>3, <1>4, <1>5, <1>6 DEF PipelineNext

LEMMA LatestWas ==
  ASSUME Base, [PipelineNext]_pipelineVars, NEW o, NEW n \in 1..Len(log), Latest(n, o)'
  PROVE  Latest(n, o) /\ (IsDelete(n)' <=> IsDelete(n))
BY LogGrows DEF Latest, IsDelete

\* Once the last event of an object is completed, no row of it that is older
\* is visible.
LastEventIsDone ==
  \A o \in Objects : \A n \in 1..captured :
    Latest(n, o) /\ status[n] = "COMPLETED" => Visible(o) = 0 \/ VisibleHead(o) >= n

LEMMA LastEventStep ==
  ASSUME PInv, LastEventIsDone, [PipelineNext]_pipelineVars
  PROVE  LastEventIsDone'
<1>0. /\ Base /\ RowsWritten
      /\ \A w \in Workers : CallOK(w) /\ FilledOK(w) /\ LoadOK(w) /\ DeleteOK(w)
  BY DEF PInv
<1> SUFFICES ASSUME NEW o \in Objects, NEW n \in 1..captured', Latest(n, o)', status'[n] = "COMPLETED"
             PROVE  Visible(o)' = 0 \/ VisibleHead(o)' >= n
  BY DEF LastEventIsDone
<1>1. n \in 1..captured /\ n \in 1..Len(log)
  BY <1>0, StatusStep, CapturedTypes
<1>2. Latest(n, o) /\ log[n].object = o
  BY <1>0, <1>1, LatestWas DEF Latest
<1>3. CASE status[n] = "COMPLETED"
  <2>1. Visible(o) = 0 \/ VisibleHead(o) >= n
    BY <1>1, <1>2, <1>3 DEF LastEventIsDone
  <2>2. CASE rows' = rows
    BY <1>0, <2>1, <2>2, QuietRows
  <2>3. ASSUME NEW w \in Workers, Exchange(w) PROVE Visible(o)' = 0 \/ VisibleHead(o)' >= n
    <3>1. CASE o # Object(w)
      <4>1. Seen(o)' = Seen(o)
        BY <1>0, <2>3, <3>1, ExchangeShows
      <4>. QED BY <2>1, <4>1 DEF Visible, VisibleHead
    <3>2. CASE o = Object(w)
      <4>1. PICK h \in Version :
              VisibleHead(Object(w))' = h /\ \A k \in 1..captured : log[k].object = o => k <= h
        BY <1>0, <2>3, <3>2, ExchangeShows
      <4>2. Object(w)' = o
        BY <2>3, <3>2 DEF Exchange, Object, source
      <4>3. VisibleHead(o)' = h
        BY <4>1, <4>2 DEF VisibleHead, Seen, Known
      <4>. QED BY <1>1, <1>2, <4>1, <4>3 DEF Version
    <3>. QED BY <3>1, <3>2
  <2>4. ASSUME NEW w \in Workers, DropPartition(w) PROVE Visible(o)' = 0 \/ VisibleHead(o)' >= n
    <3>1. Object(w)' = Object(w)
      BY <2>4 DEF DropPartition, Object, source
    <3>2. CASE o # Object(w)
      <4>1. Seen(o)' = Seen(o)
        BY <1>0, <2>4, <3>2, DropHides
      <4>. QED BY <2>1, <4>1 DEF Visible, VisibleHead
    <3>3. CASE o = Object(w)
      <4>1. Visible(Object(w))' = Visible(o)'
        BY <3>1, <3>3 DEF Visible, Seen, Known
      <4>. QED BY <1>0, <2>4, <4>1, DropHides
    <3>. QED BY <3>2, <3>3
  <2>. QED BY <1>0, <2>2, <2>3, <2>4, RowsStep
<1>4. CASE status[n] # "COMPLETED"
  <2>1. PICK w \in Workers :
          /\ job[w] = n /\ pc[w] = "returned" /\ rows' = rows
          /\ outcome[w] = "ok" \/ Superseded(n)
    BY <1>0, <1>1, <1>4, StatusStep DEF StatusChanges
  <2>2. ~Superseded(n)
    BY <1>0, <1>1, <1>2, CapturedTypes DEF Superseded, Latest
  <2>3. Object(w) = o /\ outcome[w] = "ok"
    BY <1>2, <2>1, <2>2 DEF Object
  <2>4. Visible(o) = 0 \/ VisibleHead(o) >= n
    <3>1. CASE IsDelete(n)
      BY <1>0, <2>1, <2>3, <3>1 DEF DeleteOK
    <3>2. CASE ~IsDelete(n)
      <4>1. Exchanged(w)
        BY <2>1, <2>3, <3>2 DEF Exchanged
      <4>2. Known(o) /\ Here(o).of = o /\ Here(o).head >= n
        BY <1>0, <2>1, <2>3, <4>1 DEF LoadOK
      <4>. QED BY <4>2 DEF VisibleHead, Seen, Here
    <3>. QED BY <3>1, <3>2
  <2>. QED BY <1>0, <2>1, <2>4, QuietRows
<1>. QED BY <1>3, <1>4

LEMMA SpecLastEvent == PipelineSpec => [](PInv /\ LastEventIsDone)
<1>1. PipelineInit => LastEventIsDone
  BY DEF PipelineInit, LastEventIsDone
<1>2. PInv /\ LastEventIsDone /\ [PipelineNext]_pipelineVars => LastEventIsDone'
  BY LastEventStep
<1>. QED BY <1>1, <1>2, SpecPInv, PTL DEF PipelineSpec

\* ... so that what is visible of it is whole, and its last version.
LEMMA DoneIsWhole ==
  ASSUME PInv, LastEventIsDone, NEW o \in Objects, NEW n \in 1..captured,
         Latest(n, o), status[n] = "COMPLETED", Visible(o) # 0
  PROVE  VisibleHead(o) = n /\ Visible(o) = n /\ ~IsDelete(n)
<1>1. Base /\ RowsWritten
  BY DEF PInv
<1>2. Wrote(Visible(o), o) /\ Wrote(VisibleHead(o), o) /\ VisibleHead(o) <= Visible(o)
  BY <1>1, VisibleWritten, NoRowsVisible
<1>3. VisibleHead(o) >= n
  BY DEF LastEventIsDone
<1>4. n \in Nat /\ Visible(o) \in Nat /\ VisibleHead(o) \in Nat /\ Visible(o) <= n
  BY <1>2 DEF Wrote, Latest
<1>5. VisibleHead(o) = n /\ Visible(o) = n
  BY <1>2, <1>3, <1>4
<1>. QED BY <1>2, <1>5 DEF Wrote

LEMMA DeletedIsHidden ==
  ASSUME PInv, LastEventIsDone, Settled, NEW o \in Objects, bucket[o] = 0
  PROVE  Visible(o) = 0 /\ VisibleHead(o) = 0
<1>1. Base /\ BucketsOK /\ RowsWritten
  BY DEF PInv
<1> SUFFICES ASSUME Seen(o) # NoRows PROVE FALSE
  BY NoRowsVisible
<1>2. Wrote(Visible(o), o)
  BY <1>1, VisibleWritten
<1>3. PICK n \in 1..Len(log) : Latest(n, o) /\ IsDelete(n)
  BY <1>1, <1>2 DEF BucketsOK, Wrote
<1>4. n \in 1..captured /\ status[n] = "COMPLETED" /\ Visible(o) # 0
  BY <1>2, <1>3 DEF Settled, Wrote
<1>. QED BY <1>3, <1>4, DoneIsWhole

\* Rows of two versions are visible only while a later event of their object
\* is on its way: what was torn by an overwrite between the HEAD request and
\* the last range (_object_stream, load_csv_parallel) is loaded again, whatever
\* fails, because the overwrite has sent an event that is not completed before
\* a load that began after it (process_one).
THEOREM SpecTornIsPending == PipelineSpec => []TornIsPending
<1>1. PInv /\ LastEventIsDone => TornIsPending
  <2> SUFFICES ASSUME PInv, LastEventIsDone, NEW o \in Objects, Visible(o) # VisibleHead(o)
               PROVE  \E n \in 1..Len(log) :
                        /\ log[n].object = o /\ n > VisibleHead(o)
                        /\ n > captured \/ status[n] # "COMPLETED"
    BY DEF TornIsPending
  <2>1. Base /\ BucketsOK /\ RowsWritten
    BY DEF PInv
  <2>2. Wrote(Visible(o), o) /\ Wrote(VisibleHead(o), o) /\ VisibleHead(o) <= Visible(o)
    BY <2>1, VisibleWritten, NoRowsVisible
  <2>3. PICK n \in 1..Len(log) : Latest(n, o)
    <3>1. CASE bucket[o] = 0
      BY <2>1, <2>2, <3>1 DEF BucketsOK, Wrote
    <3>2. CASE bucket[o] # 0
      BY <2>1, <3>2 DEF BucketsOK, Latest
    <3>. QED BY <3>1, <3>2
  <2>4. Visible(o) <= n /\ log[n].object = o /\ Visible(o) \in Nat /\ VisibleHead(o) \in Nat /\ n \in Nat
    BY <2>2, <2>3 DEF Wrote, Latest
  <2>5. n > VisibleHead(o)
    BY <2>2, <2>4
  <2>6. ~(n \in 1..captured /\ status[n] = "COMPLETED")
    <3>1. Visible(o) # 0
      BY <2>2 DEF Wrote
    <3>. QED BY <2>3, <3>1, DoneIsWhole
  <2>7. n \in 1..captured \/ n > captured
    BY <2>1, <2>4, CapturedTypes
  <2>. QED BY <2>4, <2>5, <2>6, <2>7
<1>. QED BY <1>1, SpecLastEvent, PTL

\* Once every event is captured and completed, no rows are left of an object
\* that is gone, whatever failed, crashed, came too late or was superseded on
\* the way (process_one, has_later_delete, delete_event).
THEOREM SpecNoGhostRows == PipelineSpec => []NoGhostRows
<1>1. PInv /\ LastEventIsDone => NoGhostRows
  BY DeletedIsHidden DEF NoGhostRows
<1>. QED BY <1>1, SpecLastEvent, PTL

-----------------------------------------------------------------------------
(* As long as nothing fails.                                               *)

\* The partition that the record of o names exists.
Held(o) == record[o].batch \in partitions[record[o].target]
Holding == {"partitioned", "staged", "reading", "filled", "exchanged", "raised"}

\* A record that is not DELETED has its partition once the load has added it
\* and until a delete has dropped it, and only the call under way is LOADING.
PartitionsHeld ==
  /\ \A o \in Objects : record[o].state \in {"ACTIVE", "ERROR"} =>
       Held(o) \/ \E w \in Workers : pc[w] = "dropped" /\ Object(w) = o
  /\ \A w \in Workers : pc[w] \in Holding => Held(Object(w))
  /\ \A o \in Objects : record[o].state = "LOADING" =>
       \E w \in Workers : pc[w] \in LoadSteps \cup {"raised"} /\ Object(w) = o

\* No delete fails, and none is overtaken by a later message.
DeletesInOrder ==
  /\ \A w \in Workers : pc[w] = "returned" /\ IsDelete(job[w]) => outcome[w] = "ok"
  /\ \A n \in 1..captured :
       /\ status[n] # "ABANDONED"
       /\ status[n] = "PROCESSING" => \E w \in Workers : job[w] = n
       /\ IsDelete(n) => status[n] \in {"CAPTURED", "PROCESSING", "COMPLETED"}
  /\ \A n, m \in 1..captured :
       n < m /\ IsDelete(n) /\ status[m] # "CAPTURED" => status[n] = "COMPLETED"

\* Something is visible of an object that exists once the event of its last
\* version is completed.
LastWriteIsShown ==
  \A o \in Objects :
    bucket[o] \in 1..captured /\ status[bucket[o]] = "COMPLETED" => Visible(o) # 0

HealthyInv == Healthy => PartitionsHeld /\ DeletesInOrder /\ LastWriteIsShown

\* A step after which nothing has failed is not a failure.
LEMMA HealthyStep ==
  ASSUME Base, [PipelineNext]_pipelineVars, Healthy'
  PROVE  /\ Healthy
         /\ \/ Elsewhere
            \/ \E w \in Workers :
                 \/ Settle(w)
                 \/ \E n \in Version : Claim(w, n)
                 \/ (LoadStep(w) \/ DeleteStep(w)) /\ UNCHANGED queue
<1>0. faults \in 0..MaxFaults /\ MaxFaults \in Nat /\ faults' = MaxFaults
  BY WorkerTypes DEF Base, Healthy
<1>1. ~Fault
  BY <1>0 DEF Fault
<1>2. \A w \in Workers : ~SettleFails(w) /\ ~Failure(w)
  BY <1>1 DEF SettleFails, Failure, CallFails, LoadFails, MarkErrorFails, DropStageFails, Crash
<1>3. faults' = faults \/ \E w \in Workers : SettleFails(w) \/ Failure(w)
  <2>1. CASE Elsewhere
    BY <2>1 DEF Elsewhere, Buckets, PutObject, RemoveObject, Capture, RetryDue, LeaseElapses,
       pipelineVars, vars, limits
  <2>2. ASSUME NEW w \in Workers, Settle(w) PROVE faults' = faults
    BY <2>2 DEF Settle, Return
  <2>3. ASSUME NEW w \in Workers, NEW n \in Version, Claim(w, n) PROVE faults' = faults
    BY <2>3, ClaimIsStep DEF Begin, limits
  <2>4. ASSUME NEW w \in Workers, LoadStep(w) \/ DeleteStep(w) PROVE faults' = faults
    BY <2>4 DEF LoadStep, DeleteStep, AllocateRefused, AllocateReplay, AllocateAgain, AllocateNew,
       EnsurePartition, CreateStage, OpenObject, FillStage,
       ObjectMissing, ObjectChanged, Exchange, ExchangeFails, MarkActive,
       MarkError, DropStage, DeleteAbsent, DeleteRefused, DeleteRead, DropPartition, DropFails,
       MarkDeleted, limits
  <2>. QED BY <2>1, <2>2, <2>3, <2>4, StepsOfPipeline
<1>. QED BY <1>0, <1>2, <1>3, StepsOfPipeline DEF Healthy

\* A partition is gone only when a delete has dropped it.
LEMMA HeldKept ==
  ASSUME Base, [PipelineNext]_pipelineVars, \A w \in Workers : DeleteOK(w),
         NEW o \in Objects, Known(o), Held(o)
  PROVE  Held(o)' \/ \E w \in Workers : DropPartition(w) /\ Object(w) = o
<1>0. TInv /\ partitions \in [Targets -> SUBSET Batch]
  BY DEF Base, TInv, TypeOK
<1>1. Keeps(o) /\ record[o].target \in Targets /\ record[o].batch \in Batch
  BY <1>0, PipelineIsLoader, KnownKeeps, PlaceOf
<1>2. CASE partitions' = partitions
  BY <1>1, <1>2 DEF Held, Keeps
<1>3. ASSUME NEW w \in Workers, EnsurePartition(w) PROVE Held(o)'
  <2>1. partitions' = [partitions EXCEPT ![to[w]] = @ \cup {batch[w]}]
    BY <1>3 DEF EnsurePartition
  <2>2. partitions[record[o].target] \subseteq partitions'[record[o].target]
    BY <1>0, <1>1, <2>1
  <2>. QED BY <1>1, <2>2 DEF Held, Keeps
<1>4. ASSUME NEW w \in Workers, DropPartition(w), Object(w) # o PROVE Held(o)'
  <2>1. PICK q \in Objects : q = Object(w) /\ Known(q) /\ pc[w] = "dropping"
    BY <1>4, DropWrites
  <2>2. PICK t \in Targets, b \in Batch : t = record[q].target /\ b = record[q].batch
    BY <1>0, <2>1, PlaceOf
  <2>3. to[w] = t /\ batch[w] = b
    BY <2>1, <2>2 DEF DeleteOK, Now
  <2>4. partitions' = [partitions EXCEPT ![t] = @ \ {b}]
    BY <1>4, <2>3 DEF DropPartition
  <2>5. ~(record[o].target = t /\ record[o].batch = b)
    BY <1>4, <2>1, <2>2 DEF Base, BatchesDistinct
  <2>6. record[o].batch \in partitions'[record[o].target]
    BY <1>0, <1>1, <2>4, <2>5 DEF Held
  <2>. QED BY <1>1, <2>6 DEF Held, Keeps
<1>5. ASSUME NEW w \in Workers, LoadStep(w) \/ DeleteStep(w) \/ Failure(w) \/ Settle(w) \/ SettleFails(w)
      PROVE  partitions' = partitions \/ EnsurePartition(w) \/ DropPartition(w)
  BY <1>5 DEF LoadStep, DeleteStep, AllocateRefused, AllocateReplay, AllocateAgain, AllocateNew,
     CreateStage, OpenObject, FillStage,
       ObjectMissing, ObjectChanged, Exchange, ExchangeFails, MarkActive, MarkError, DropStage,
     DeleteAbsent, DeleteRefused, DeleteRead, DropFails, MarkDeleted, Failure, CallFails, LoadFails,
     MarkErrorFails, DropStageFails, Crash, Leaves, Settle, SettleFails, Return, tables
<1>6. ASSUME NEW w \in Workers, NEW n \in Version, Claim(w, n) PROVE partitions' = partitions
  BY <1>6, ClaimIsStep DEF Begin, tables
<1>7. Elsewhere => partitions' = partitions
  BY DEF Elsewhere, Buckets, PutObject, RemoveObject, Capture, RetryDue, LeaseElapses, pipelineVars,
     vars, tables
<1>. QED BY <1>2, <1>3, <1>4, <1>5, <1>6, <1>7, StepsOfPipeline

\* Where a call is after a step that did not fail.
LEMMA NextPlace ==
  ASSUME Base, [PipelineNext]_pipelineVars, Healthy', NEW w \in Workers
  PROVE  \/ pc[w] = "idle" /\ pc'[w] \in {"idle", "resolved", "deleting"}
         \/ pc[w] = "returned" /\ pc'[w] = "idle"
         \/ /\ pc[w] # "idle" /\ job'[w] = job[w] /\ Object(w)' = Object(w)
            /\ IsDelete(job[w])' <=> IsDelete(job[w])
            /\ \/ pc'[w] = pc[w] /\ outcome'[w] = outcome[w] /\ Elsewhere
               \/ pc[w] = "resolved" /\ pc'[w] \in {"allocated", "returned"}
               \/ EnsurePartition(w) /\ pc[w] = "allocated" /\ pc'[w] = "partitioned"
               \/ pc[w] \in {"partitioned", "staged", "reading", "filled"} /\ pc'[w] \in Holding
               \/ MarkActive(w) /\ pc[w] = "exchanged" /\ pc'[w] = "cleanup"
               \/ MarkError(w) /\ pc[w] = "raised" /\ pc'[w] = "cleanup"
               \/ pc[w] = "cleanup" /\ pc'[w] = "returned"
               \/ pc[w] = "deleting" /\ pc'[w] = "dropping"
               \/ /\ pc[w] \in {"deleting", "dropped"} /\ pc'[w] = "returned" /\ outcome'[w] = "ok"
                  /\ pc[w] = "dropped" => MarkDeleted(w)
               \/ DropPartition(w) /\ pc[w] = "dropping" /\ pc'[w] = "dropped"
               \/ DeleteRefused(w) /\ pc[w] = "deleting"
               \/ DropFails(w) /\ pc[w] = "dropping"
<1>0. TInv
  BY DEF Base
<1>1. CASE Elsewhere
  BY <1>1, ElsewhereKeeps
<1>2. ASSUME NEW v \in Workers, Settle(v) PROVE pc[w] = "returned" /\ pc'[w] = "idle"
  BY <1>0, <1>2, WorkerTypes, TheWorker DEF Settle, Return, Leaves
<1>3. ASSUME NEW v \in Workers, NEW n \in Version, Claim(v, n)
      PROVE  pc[w] = "idle" /\ pc'[w] \in {"resolved", "deleting"}
  BY <1>0, <1>3, WorkerTypes, TheWorker, ClaimIsStep DEF Begin, Step
<1>4. ASSUME NEW v \in Workers, LoadStep(v) \/ DeleteStep(v)
      PROVE  v = w /\ pc[w] # "idle" /\ job'[w] = job[w] /\ log' = log
  <2>1. v = w /\ log' = log
    BY <1>0, <1>4, OnlyWorker, TheWorker DEF source
  <2>2. CASE LoadStep(w)
    BY <1>0, <2>2, <2>1, WorkerTypes DEF LoadStep, AllocateRefused, AllocateReplay,
       AllocateAgain, AllocateNew, EnsurePartition, CreateStage, OpenObject, FillStage,
       ObjectMissing, ObjectChanged, Exchange,
       ExchangeFails, MarkActive, MarkError, DropStage, Returns, Raises, Step
  <2>3. CASE DeleteStep(w)
    BY <1>0, <2>3, <2>1, WorkerTypes DEF DeleteStep, DeleteAbsent, DeleteRefused,
       DeleteRead, DropPartition, DropFails, MarkDeleted, Returns, Step
  <2>. QED BY <1>4, <2>1, <2>2, <2>3
<1>5. ASSUME LoadStep(w)
      PROVE  \/ pc[w] = "resolved" /\ pc'[w] \in {"allocated", "returned"}
             \/ EnsurePartition(w) /\ pc[w] = "allocated" /\ pc'[w] = "partitioned"
             \/ pc[w] \in {"partitioned", "staged", "reading", "filled"} /\ pc'[w] \in Holding
             \/ MarkActive(w) /\ pc[w] = "exchanged" /\ pc'[w] = "cleanup"
             \/ MarkError(w) /\ pc[w] = "raised" /\ pc'[w] = "cleanup"
             \/ pc[w] = "cleanup" /\ pc'[w] = "returned"
  BY <1>0, <1>5, WorkerTypes DEF LoadStep, AllocateRefused, AllocateReplay,
     AllocateAgain, AllocateNew, EnsurePartition, CreateStage, OpenObject, FillStage,
       ObjectMissing, ObjectChanged, Exchange,
     ExchangeFails, MarkActive, MarkError, DropStage, Returns, Raises, Step, Holding
<1>6. ASSUME DeleteStep(w)
      PROVE  \/ pc[w] = "deleting" /\ pc'[w] = "dropping"
             \/ /\ pc[w] \in {"deleting", "dropped"} /\ pc'[w] = "returned" /\ outcome'[w] = "ok"
                /\ pc[w] = "dropped" => MarkDeleted(w)
             \/ DropPartition(w) /\ pc[w] = "dropping" /\ pc'[w] = "dropped"
             \/ DeleteRefused(w) /\ pc[w] = "deleting"
             \/ DropFails(w) /\ pc[w] = "dropping"
  BY <1>0, <1>6, WorkerTypes DEF DeleteStep, DeleteAbsent, DeleteRefused,
     DeleteRead, DropPartition, DropFails, MarkDeleted, Returns, Step
<1>7. ASSUME pc[w] # "idle", job'[w] = job[w], log' = log
      PROVE  Object(w)' = Object(w) /\ (IsDelete(job[w])' <=> IsDelete(job[w]))
  BY <1>7 DEF Object, IsDelete
<1>. QED BY <1>1, <1>2, <1>3, <1>4, <1>5, <1>6, <1>7, HealthyStep

LEMMA PartitionsHeldStep ==
  ASSUME PInv, PartitionsHeld, [PipelineNext]_pipelineVars, Healthy'
  PROVE  PartitionsHeld'
<1>0. Base /\ \A w \in Workers : DeleteOK(w)
  BY DEF PInv
<1>1. ASSUME NEW o \in Objects, record'[o].state \in {"ACTIVE", "ERROR"}
      PROVE  Held(o)' \/ \E w \in Workers : pc'[w] = "dropped" /\ Object(w)' = o
  <2>1. CASE Held(o) /\ Known(o)
    <3>1. CASE Held(o)'
      BY <3>1
    <3>2. ASSUME NEW w \in Workers, DropPartition(w), Object(w) = o
          PROVE  pc'[w] = "dropped" /\ Object(w)' = o
      <4>1. pc[w] = "dropping" /\ ~DropFails(w)
        BY <3>2 DEF DropPartition, DropFails, Step
      <4>. QED BY <1>0, <3>2, <4>1, WorkerTypes DEF Base, DropPartition, Step, Object, source
    <3>. QED BY <1>0, <2>1, <3>1, <3>2, HeldKept
  <2>2. ASSUME NEW w \in Workers, pc[w] = "dropped", Object(w) = o
        PROVE  pc'[w] = "dropped" /\ Object(w)' = o
    <3>1. ~MarkDeleted(w)
      <4>1. ASSUME MarkDeleted(w) PROVE record'[o].state = "DELETED"
        BY <1>0, <2>2, <4>1, WorkerTypes DEF Base, TInv, TypeOK, MarkDeleted, SetState, Record
      <4>. QED BY <1>1, <4>1
    <3>. QED BY <1>0, <2>2, <3>1, NextPlace DEF EnsurePartition, DropPartition, Step
  <2>3. CASE record[o].state \in {"ACTIVE", "ERROR"}
    BY <2>1, <2>2, <2>3 DEF PartitionsHeld, Known
  <2>4. CASE record[o].state \notin {"ACTIVE", "ERROR"}
    <3>1. PICK w \in Workers : Object(w) = o /\ (MarkActive(w) \/ MarkError(w))
      BY <1>0, <1>1, <2>4, RecordStep
    <3>2. pc[w] \in Holding /\ pc[w] # "idle" /\ pc[w] \in LoadSteps \cup {"raised"}
      BY <3>1 DEF MarkActive, MarkError, Step, Holding, LoadSteps
    <3>. QED BY <1>0, <2>1, <3>1, <3>2, NowKnown DEF PartitionsHeld
  <2>. QED BY <2>3, <2>4
<1>2. ASSUME NEW w \in Workers, pc'[w] \in Holding
      PROVE  Held(Object(w))'
  <2>1. pc[w] # "idle" /\ Object(w)' = Object(w) /\ (pc[w] \in Holding \/ EnsurePartition(w))
    BY <1>0, <1>2, NextPlace, WorkerTypes DEF Base, Holding, DeleteRefused, DropFails, Returns, Step
  <2>2. Object(w) \in Objects /\ Known(Object(w))
    BY <1>0, <2>1, NowKnown DEF Holding, LoadSteps, EnsurePartition, Step
  <2>3. PICK o \in Objects : o = Object(w)
    BY <2>2
  <2>4. Held(o)'
    <3>1. CASE EnsurePartition(w)
      <4>1. pc[w] = "allocated" /\ UNCHANGED record /\ partitions' = [partitions EXCEPT ![to[w]] = @ \cup {batch[w]}]
        BY <3>1 DEF EnsurePartition, Step, control
      <4>2. to[w] = record[o].target /\ batch[w] = record[o].batch
        BY <1>0, <2>2, <2>3, <4>1, AtHome DEF WorkerAtHome, LoadSteps
      <4>3. to[w] \in Targets
        BY <1>0, <2>1, NowKnown
      <4>4. partitions \in [Targets -> SUBSET Batch]
        BY <1>0 DEF Base, TInv, TypeOK
      <4>. QED BY <4>1, <4>2, <4>3, <4>4 DEF Held
    <3>2. CASE pc[w] \in Holding
      <4>1. Held(o)
        BY <2>3, <3>2 DEF PartitionsHeld
      <4>2. \A v \in Workers : ~DropPartition(v)
        BY <3>2, TheWorker DEF DropPartition, Step, Holding
      <4>. QED BY <1>0, <2>2, <2>3, <4>1, <4>2, HeldKept
    <3>. QED BY <2>1, <3>1, <3>2
  <2>. QED BY <2>1, <2>3, <2>4 DEF Held
<1>3. ASSUME NEW o \in Objects, record'[o].state = "LOADING"
      PROVE  \E w \in Workers : pc'[w] \in LoadSteps \cup {"raised"} /\ Object(w)' = o
  <2>1. CASE record[o].state = "LOADING"
    <3>1. PICK w \in Workers : pc[w] \in LoadSteps \cup {"raised"} /\ Object(w) = o
      BY <2>1 DEF PartitionsHeld
    <3>2. ~MarkActive(w) /\ ~MarkError(w)
      <4>1. ASSUME NEW st, SetState(w, st) PROVE record'[o].state = st
        BY <1>0, <3>1, <4>1 DEF Base, TInv, TypeOK, SetState, Record
      <4>2. ~SetState(w, "ACTIVE") /\ ~SetState(w, "ERROR")
        BY <1>3, <4>1
      <4>. QED BY <4>2 DEF MarkActive, MarkError
    <3>. QED BY <1>0, <3>1, <3>2, NextPlace DEF LoadSteps, Holding
  <2>2. CASE record[o].state # "LOADING"
    <3>1. PICK w \in Workers :
            Object(w) = o /\ job'[w] = job[w] /\ log' = log /\ pc'[w] = "allocated"
      BY <1>0, <1>3, <2>2, RecordStep
    <3>2. Object(w)' = o
      BY <3>1 DEF Object
    <3>. QED BY <3>1, <3>2 DEF LoadSteps
  <2>. QED BY <2>1, <2>2
<1>. QED BY <1>1, <1>2, <1>3 DEF PartitionsHeld

LEMMA DeletesInOrderStep ==
  ASSUME PInv, PartitionsHeld, DeletesInOrder, [PipelineNext]_pipelineVars, Healthy'
  PROVE  DeletesInOrder'
<1>0. Base /\ \A w \in Workers : CallOK(w) /\ DeleteOK(w) /\ StageOK(w)
  BY DEF PInv, Base
<1>1. /\ captured \in 0..Len(log) /\ 1..captured \subseteq Version
      /\ 1..captured \subseteq 1..captured'
      /\ \A n \in 1..captured : StatusChanges(n)
      /\ \A n \in 1..captured' : n \in 1..captured \/ (n = captured + 1 /\ status'[n] = "CAPTURED")
  BY <1>0, CapturedTypes, StatusStep
<1>2. \A n \in 1..captured : IsDelete(n)' <=> IsDelete(n)
  BY <1>0, LogGrows, CapturedTypes DEF IsDelete
<1>3. ASSUME NEW w \in Workers, pc'[w] = "returned", IsDelete(job[w])'
      PROVE  outcome'[w] = "ok"
  <2>1. pc[w] \in Loading => ~IsDelete(job[w])
    BY <1>0 DEF CallOK
  <2>2. ~DeleteRefused(w)
    <3>1. ASSUME DeleteRefused(w) PROVE FALSE
      <4>1. pc[w] = "deleting" /\ Now(w).state = "LOADING"
        BY <3>1 DEF DeleteRefused, Returns, Step
      <4>2. PICK v \in Workers : pc[v] \in LoadSteps \cup {"raised"}
        BY <1>0, <4>1, NowKnown DEF PartitionsHeld, Now
      <4>. QED BY <4>1, <4>2, TheWorker DEF LoadSteps
    <3>. QED BY <3>1
  <2>3. ~DropFails(w)
    <3>1. ASSUME DropFails(w) PROVE FALSE
      <4>1. pc[w] = "dropping" /\ batch[w] \notin partitions[to[w]]
        BY <3>1 DEF DropFails, Returns, Step
      <4>2. PICK o \in Objects : o = Object(w)
        BY <1>0, <4>1, NowKnown
      <4>3. record[o].state \in {"ACTIVE", "ERROR"} /\ ~Held(o)
        BY <1>0, <4>1, <4>2 DEF DeleteOK, Now, Held
      <4>4. PICK v \in Workers : pc[v] = "dropped"
        BY <4>3 DEF PartitionsHeld
      <4>. QED BY <4>1, <4>4, TheWorker
    <3>. QED BY <3>1
  <2>. QED BY <1>0, <1>3, <2>1, <2>2, <2>3, NextPlace DEF DeletesInOrder, Loading, Holding,
       EnsurePartition, DropPartition, MarkActive, MarkError, LoadSteps
<1>4. ASSUME NEW n \in 1..captured
      PROVE  /\ status'[n] # "ABANDONED"
             /\ status'[n] = "PROCESSING" => \E w \in Workers : job'[w] = n
             /\ IsDelete(n)' => status'[n] \in {"CAPTURED", "PROCESSING", "COMPLETED"}
  <2>1. /\ status[n] # "ABANDONED"
        /\ status[n] = "PROCESSING" => \E w \in Workers : job[w] = n
        /\ IsDelete(n) => status[n] \in {"CAPTURED", "PROCESSING", "COMPLETED"}
    BY DEF DeletesInOrder
  <2>2. ASSUME NEW w \in Workers, Claim(w, n)
        PROVE  job'[w] = n
    <3>1. n \in Version
      BY <1>1
    <3>. QED BY <1>0, <2>2, <3>1, ClaimIsStep, WorkerTypes DEF Base, Begin
  <2>3. ~(status[n] = "PROCESSING" /\ \A w \in Workers : job[w] # n)
    BY <2>1
  <2>4. ASSUME NEW w \in Workers, job[w] = n, pc[w] = "returned", IsDelete(n)
        PROVE  outcome[w] = "ok"
    BY <2>4 DEF DeletesInOrder
  <2>5. ~\E w \in Workers : SettleFails(w)
    <3>1. \A w \in Workers : ~(Fault /\ faults \in 0..MaxFaults)
      BY <1>0, WorkerTypes DEF Base, Fault, Healthy
    <3>. QED BY <1>0, <3>1, WorkerTypes DEF Base, SettleFails
  <2>6. ASSUME status'[n] = status[n], status[n] = "PROCESSING"
        PROVE  \E w \in Workers : job'[w] = n
    <3>1. PICK w \in Workers : job[w] = n
      BY <2>1, <2>6
    <3>2. pc[w] # "idle"
      BY <1>0, <3>1, <1>1 DEF StageOK
    <3>3. CASE pc[w] = "returned" /\ pc'[w] = "idle"
      <4>1. ~Elsewhere
        BY <1>0, <3>3, ElsewhereKeeps
      <4>2. Settle(w)
        <5>1. ASSUME NEW v \in Workers, NEW k \in Version, Claim(v, k) PROVE FALSE
          BY <3>3, <5>1 DEF Claim, Idle
        <5>2. ASSUME LoadStep(w) \/ DeleteStep(w) PROVE pc[w] # "returned"
          BY <5>2 DEF LoadStep, AllocateRefused, AllocateReplay,
             AllocateAgain, AllocateNew, EnsurePartition, CreateStage, OpenObject, FillStage,
       ObjectMissing, ObjectChanged, Exchange,
             ExchangeFails, MarkActive, MarkError, DropStage, DeleteStep, DeleteAbsent, DeleteRefused,
             DeleteRead, DropPartition, DropFails, MarkDeleted, Returns, Raises, Step
        <5>. QED BY <1>0, <3>3, <4>1, <5>1, <5>2, HealthyStep, TheWorker
      <4>3. status'[job[w]] \in {"COMPLETED", "FAILED"}
        BY <1>0, <1>1, <3>1, <4>2, CapturedTypes DEF Settle
      <4>. QED BY <2>6, <3>1, <4>3
    <3>4. CASE job'[w] = job[w]
      BY <3>1, <3>4
    <3>. QED BY <1>0, <3>2, <3>3, <3>4, NextPlace
  <2>7. StatusChanges(n) /\ (IsDelete(n)' <=> IsDelete(n))
    BY <1>1, <1>2
  <2>. QED BY <2>1, <2>2, <2>3, <2>4, <2>5, <2>6, <2>7 DEF StatusChanges
<1>5. ASSUME NEW n \in 1..captured, NEW m \in 1..captured, n < m, IsDelete(n), status'[m] # "CAPTURED"
      PROVE  status'[n] = "COMPLETED"
  <2>1. status[m] # "CAPTURED" => status[n] = "COMPLETED"
    BY <1>5 DEF DeletesInOrder
  <2>2. CASE status[n] = "COMPLETED"
    <3>1. \A w \in Workers : ~Claim(w, n)
      BY <2>2 DEF Claim, Oldest, Eligible
    <3>2. \A w \in Workers : pc[w] = "returned" => job[w] # n
      BY <1>0, <2>2 DEF Base, QueueOK
    <3>3. StatusChanges(n)
      BY <1>1
    <3>. QED BY <2>2, <3>1, <3>2, <3>3 DEF StatusChanges
  <2>3. CASE status[n] # "COMPLETED"
    <3>1. status[m] = "CAPTURED"
      BY <2>1, <2>3
    <3>2. PICK w \in Workers : Claim(w, m)
      <4>1. \A v \in Workers : pc[v] = "returned" => job[v] # m
        BY <1>0, <3>1 DEF Base, QueueOK
      <4>2. StatusChanges(m)
        BY <1>1
      <4>. QED BY <1>5, <3>1, <4>1, <4>2 DEF StatusChanges
    <3>3. status[n] \notin {"CAPTURED", "ABANDONED", "DUE"}
      BY <1>5, <3>2 DEF Claim, Oldest, Eligible
    <3>4. status[n] = "PROCESSING"
      BY <1>5, <2>3, <3>3 DEF DeletesInOrder
    <3>5. PICK v \in Workers : job[v] = n
      BY <3>4 DEF DeletesInOrder
    <3>6. pc[v] = "idle"
      BY <3>2 DEF Claim, Idle
    <3>. QED BY <1>0, <3>5, <3>6 DEF StageOK
  <2>. QED BY <2>2, <2>3
<1>6. \A n \in 1..captured' :
        /\ status'[n] # "ABANDONED"
        /\ status'[n] = "PROCESSING" => \E w \in Workers : job'[w] = n
        /\ IsDelete(n)' => status'[n] \in {"CAPTURED", "PROCESSING", "COMPLETED"}
  BY <1>1, <1>4
<1>7. ASSUME NEW n \in 1..captured', NEW m \in 1..captured', n < m, IsDelete(n)', status'[m] # "CAPTURED"
      PROVE  status'[n] = "COMPLETED"
  <2>1. m \in 1..captured
    BY <1>1, <1>7
  <2>2. n \in 1..captured
    BY <1>1, <1>7, <2>1
  <2>. QED BY <1>2, <1>5, <1>7, <2>1, <2>2
<1>. QED BY <1>3, <1>6, <1>7 DEF DeletesInOrder

LEMMA LastWriteStep ==
  ASSUME PInv, DeletesInOrder, LastWriteIsShown, [PipelineNext]_pipelineVars
  PROVE  LastWriteIsShown'
<1>0. /\ Base /\ BucketsOK /\ RowsWritten
      /\ \A w \in Workers : CallOK(w) /\ FilledOK(w) /\ LoadOK(w) /\ DeleteOK(w)
  BY DEF PInv
<1> SUFFICES ASSUME NEW o \in Objects, NEW n, n = bucket'[o], n \in 1..captured',
                    status'[n] = "COMPLETED"
             PROVE  Visible(o)' # 0
  BY DEF LastWriteIsShown
<1>1. n \in 1..captured /\ n \in 1..Len(log) /\ StatusChanges(n)
  BY <1>0, StatusStep, CapturedTypes
<1>2. bucket[o] = n
  <2>1. ASSUME NEW q \in Objects, PutObject(q) \/ RemoveObject(q) PROVE bucket[o] = n
    BY <1>0, <1>1, <2>1, BucketsLog
  <2>. QED BY <1>0, <2>1, LogGrows DEF Buckets
<1>3. n # 0 /\ Latest(n, o) /\ ~IsDelete(n) /\ log[n].object = o
  BY <1>0, <1>1, <1>2 DEF BucketsOK, Latest
<1>4. CASE status[n] = "COMPLETED"
  <2>1. Visible(o) # 0
    BY <1>1, <1>2, <1>4 DEF LastWriteIsShown
  <2>2. CASE rows' = rows
    BY <1>0, <2>1, <2>2, QuietRows
  <2>3. ASSUME NEW w \in Workers, Exchange(w) PROVE Visible(o)' # 0
    <3>1. Object(w)' = Object(w)
      BY <2>3 DEF Exchange, Object, source
    <3>2. CASE o # Object(w)
      <4>1. Seen(o)' = Seen(o)
        BY <1>0, <2>3, <3>2, ExchangeShows
      <4>. QED BY <2>1, <4>1 DEF Visible
    <3>3. CASE o = Object(w)
      <4>1. PICK v \in Version : Visible(Object(w))' = v
        BY <1>0, <2>3, <3>3, ExchangeShows
      <4>2. Visible(Object(w))' = Visible(o)'
        BY <3>1, <3>3 DEF Visible, Seen, Known
      <4>. QED BY <4>1, <4>2 DEF Version
    <3>. QED BY <3>2, <3>3
  <2>4. ASSUME NEW w \in Workers, DropPartition(w) PROVE Visible(o)' # 0
    <3>1. CASE o # Object(w)
      <4>1. Seen(o)' = Seen(o)
        BY <1>0, <2>4, <3>1, DropHides
      <4>. QED BY <2>1, <4>1 DEF Visible
    <3>2. CASE o = Object(w)
      <4>1. pc[w] = "dropping"
        BY <2>4 DEF DropPartition, Step
      <4>2. PICK d \in 1..Len(log) : d = job[w] /\ IsDelete(d) /\ log[d].object = o
        BY <1>0, <3>2, <4>1, NowKnown DEF CallOK, Deleting, Object
      <4>3. d < n /\ d \in 1..captured
        <5>1. d <= n /\ d # n
          BY <1>3, <4>2 DEF Latest
        <5>. QED BY <1>0, <1>1, <5>1, CapturedTypes
      <4>4. status[d] = "PROCESSING"
        BY <1>0, <4>1, <4>2 DEF Base, QueueOK
      <4>. QED BY <1>1, <1>4, <4>2, <4>3, <4>4 DEF DeletesInOrder
    <3>. QED BY <3>1, <3>2
  <2>. QED BY <1>0, <2>2, <2>3, <2>4, RowsStep
<1>5. CASE status[n] # "COMPLETED"
  <2>1. PICK w \in Workers :
          /\ job[w] = n /\ pc[w] = "returned" /\ rows' = rows
          /\ outcome[w] = "ok" \/ Superseded(n)
    BY <1>1, <1>5 DEF StatusChanges
  <2>2. ~Superseded(n)
    BY <1>0, <1>1, <1>3, CapturedTypes DEF Superseded, Latest
  <2>3. Object(w) = o /\ Exchanged(w)
    BY <1>3, <2>1, <2>2 DEF Object, Exchanged
  <2>4. Known(o) /\ Here(o).of = o
    BY <1>0, <2>1, <2>3 DEF LoadOK
  <2>5. PICK t \in Targets, b \in Batch : t = record[o].target /\ b = record[o].batch
    BY <1>0, <2>4, PlaceOf DEF Base
  <2>6. Visible(o) = rows[t][b].version /\ rows[t][b].of = o /\ o # NoObject
    BY <2>4, <2>5, ConstantsAssumption DEF Visible, Seen, Here
  <2>7. Wrote(Visible(o), o)
    BY <1>0, <2>6 DEF RowsWritten
  <2>8. Visible(o) # 0
    BY <2>7 DEF Wrote
  <2>. QED BY <1>0, <2>1, <2>8, QuietRows
<1>. QED BY <1>4, <1>5

LEMMA HealthyInvStep ==
  ASSUME PInv, HealthyInv, [PipelineNext]_pipelineVars
  PROVE  HealthyInv'
<1> SUFFICES ASSUME Healthy'
             PROVE  PartitionsHeld' /\ DeletesInOrder' /\ LastWriteIsShown'
  BY DEF HealthyInv
<1>1. PartitionsHeld /\ DeletesInOrder /\ LastWriteIsShown
  BY HealthyStep DEF HealthyInv, PInv
<1>. QED BY <1>1, PartitionsHeldStep, DeletesInOrderStep, LastWriteStep

LEMMA SpecHealthyInv == PipelineSpec => []HealthyInv
<1>1. PipelineInit => HealthyInv
  <2> SUFFICES ASSUME PipelineInit PROVE PartitionsHeld /\ DeletesInOrder /\ LastWriteIsShown
    BY DEF HealthyInv
  <2>1. Init /\ captured = 0
    BY DEF PipelineInit
  <2>2. PartitionsHeld
    BY <2>1 DEF Init, PartitionsHeld, Record, Holding
  <2>3. DeletesInOrder
    BY <2>1 DEF Init, DeletesInOrder
  <2>4. LastWriteIsShown
    BY <2>1 DEF LastWriteIsShown
  <2>. QED BY <2>2, <2>3, <2>4
<1>2. PInv /\ HealthyInv /\ [PipelineNext]_pipelineVars => HealthyInv'
  BY HealthyInvStep
<1>. QED BY <1>1, <1>2, SpecPInv, PTL DEF PipelineSpec

\* Once every event is captured and completed and nothing failed, the tables
\* show exactly the objects of the buckets, each whole and in its last
\* version: in FIFO mode no delete overtakes a load and no load publishes what
\* was replaced (claim_next, process_one, process_cloud_event).
THEOREM SpecSettledIsCurrent == PipelineSpec => []SettledIsCurrent
<1>1. PInv /\ LastEventIsDone /\ HealthyInv => SettledIsCurrent
  <2> SUFFICES ASSUME PInv, LastEventIsDone, HealthyInv, Settled, Healthy, NEW o \in Objects
               PROVE  Current(o)
    BY DEF SettledIsCurrent
  <2>1. CASE bucket[o] = 0
    BY <2>1, DeletedIsHidden DEF Current
  <2>2. CASE bucket[o] # 0
    <3>1. Latest(bucket[o], o) /\ bucket[o] \in 1..Len(log)
      BY <2>2 DEF PInv, BucketsOK, Latest
    <3>2. bucket[o] \in 1..captured /\ status[bucket[o]] = "COMPLETED"
      BY <3>1 DEF Settled
    <3>3. Visible(o) # 0
      BY <3>2 DEF HealthyInv, LastWriteIsShown
    <3>. QED BY <3>1, <3>2, <3>3, DoneIsWhole DEF Current
  <2>. QED BY <2>1, <2>2
<1>. QED BY <1>1, SpecLastEvent, SpecHealthyInv, PTL

-----------------------------------------------------------------------------
(* What readers of the target tables see is what SourceTable promises.     *)

Same(o) == Visible(o)' = Visible(o) /\ VisibleHead(o)' = VisibleHead(o)

\* Readers come to see rows of o between the versions h and v.
Shows(o, h, v) ==
  /\ VisibleHead(o)' = h /\ Visible(o)' = v
  /\ \A q \in Objects \ {o} : Same(q)

\* A step shows rows that were written and are not older than the visible
\* ones, or hides an object that was deleted, or shows no reader anything.
LEMMA VisibleStep ==
  ASSUME PInv, [PipelineNext]_pipelineVars
  PROVE  \/ \A o \in Objects : Same(o)
         \/ /\ log' = log
            /\ \/ \E q \in Objects : \E h, v \in Version :
                    Shows(q, h, v) /\ Wrote(h, q) /\ Wrote(v, q) /\ Visible(q) <= h /\ h <= v
               \/ \E q \in Objects : Shows(q, 0, 0) /\ Deleted(q)
<1>0. /\ Base /\ RowsWritten
      /\ \A w \in Workers : CallOK(w) /\ FilledOK(w) /\ LoadOK(w) /\ DeleteOK(w)
  BY DEF PInv
<1>1. CASE rows' = rows
  BY <1>0, <1>1, QuietRows DEF Same
<1>2. ASSUME NEW w \in Workers, Exchange(w)
      PROVE  /\ log' = log
             /\ \E q \in Objects : \E h, v \in Version :
                  Shows(q, h, v) /\ Wrote(h, q) /\ Wrote(v, q) /\ Visible(q) <= h /\ h <= v
  <2>1. PICK q \in Objects : q = Object(w)
    BY <1>0, <1>2, ExchangeWrites
  <2>2. log' = log /\ Object(w)' = q
    BY <1>2, <2>1 DEF Exchange, source, Object
  <2>3. PICK h \in Version, v \in Version :
          /\ Wrote(h, q) /\ Wrote(v, q) /\ h >= Visible(q) /\ h <= v
          /\ VisibleHead(Object(w))' = h /\ Visible(Object(w))' = v
          /\ \A o \in Objects \ {q} : Seen(o)' = Seen(o)
    BY <1>0, <1>2, <2>1, ExchangeShows
  <2>4. VisibleHead(q)' = h /\ Visible(q)' = v
    BY <2>2, <2>3 DEF Visible, VisibleHead, Seen, Known
  <2>5. Shows(q, h, v)
    BY <2>3, <2>4 DEF Shows, Same, Visible, VisibleHead
  <2>6. Visible(q) <= h
    <3>1. CASE Seen(q) = NoRows
      BY <3>1, NoRowsVisible DEF Version
    <3>2. CASE Seen(q) # NoRows
      <4>1. Visible(q) \in 1..Len(log)
        BY <1>0, <3>2, VisibleWritten DEF Wrote
      <4>. QED BY <2>3, <4>1 DEF Version
    <3>. QED BY <3>1, <3>2
  <2>. QED BY <2>2, <2>3, <2>5, <2>6
<1>3. ASSUME NEW w \in Workers, DropPartition(w)
      PROVE  log' = log /\ \E q \in Objects : Shows(q, 0, 0) /\ Deleted(q)
  <2>1. PICK q \in Objects : q = Object(w)
    BY <1>0, <1>3, DropWrites
  <2>2. log' = log /\ Object(w)' = q
    BY <1>3, <2>1 DEF DropPartition, source, Object
  <2>3. /\ Visible(Object(w))' = 0 /\ VisibleHead(Object(w))' = 0
        /\ \A o \in Objects \ {q} : Seen(o)' = Seen(o)
    BY <1>0, <1>3, <2>1, DropHides
  <2>4. Visible(q)' = 0 /\ VisibleHead(q)' = 0
    BY <2>2, <2>3 DEF Visible, VisibleHead, Seen, Known
  <2>5. Shows(q, 0, 0)
    BY <2>3, <2>4 DEF Shows, Same, Visible, VisibleHead
  <2>6. Deleted(q)
    <3>1. pc[w] = "dropping"
      BY <1>3 DEF DropPartition, Step
    <3>2. job[w] \in 1..Len(log) /\ IsDelete(job[w])
      BY <1>0, <3>1, NowKnown DEF CallOK, Deleting
    <3>. QED BY <2>1, <3>2 DEF Deleted, IsDelete, Object
  <2>. QED BY <2>2, <2>5, <2>6
<1>. QED BY <1>0, <1>1, <1>2, <1>3, RowsStep

OldestNow == [o \in Objects |-> VisibleHead(o)]
NewestNow == [o \in Objects |-> Visible(o)]

LEMMA ShowsNow ==
  ASSUME NEW q \in Objects, NEW h, NEW v, Shows(q, h, v)
  PROVE  OldestNow' = [OldestNow EXCEPT ![q] = h] /\ NewestNow' = [NewestNow EXCEPT ![q] = v]
<1>1. \A o \in Objects : /\ VisibleHead(o)' = IF o = q THEN h ELSE VisibleHead(o)
                         /\ Visible(o)' = IF o = q THEN v ELSE Visible(o)
  BY DEF Shows, Same
<1>. QED BY <1>1 DEF OldestNow, NewestNow

LEMMA PipelineIsTable ==
  ASSUME PInv, [PipelineNext]_pipelineVars
  PROVE  Table!Next \/ UNCHANGED <<log, OldestNow, NewestNow>>
<1>0. Base
  BY DEF PInv
<1>1. CASE ~(log' = log /\ bucket' = bucket)
  <2>1. PICK o \in Objects : PutObject(o) \/ RemoveObject(o)
    BY <1>0, <1>1, LogGrows DEF Buckets
  <2>2. PICK a \in {"CREATE", "UPDATE", "DELETE"} : log' = Append(log, Event(a, o))
    BY <2>1 DEF PutObject, RemoveObject
  <2>3. Event(a, o) \in [action : {"CREATE", "UPDATE", "DELETE"}, object : Objects]
    BY DEF Event
  <2>4. \A q \in Objects : Visible(q)' = Visible(q) /\ VisibleHead(q)' = VisibleHead(q)
    <3>1. rows' = rows
      BY <2>1 DEF PutObject, RemoveObject, tables
    <3>. QED BY <1>0, <3>1, QuietRows
  <2>5. OldestNow' = OldestNow /\ NewestNow' = NewestNow
    BY <2>4 DEF OldestNow, NewestNow
  <2>6. Table!Change
    BY <2>2, <2>3, <2>5 DEF Table!Change, OldestNow, NewestNow
  <2>. QED BY <2>6 DEF Table!Next
<1>2. CASE log' = log /\ \A o \in Objects : Same(o)
  BY <1>2 DEF OldestNow, NewestNow, Same
<1>3. ASSUME log' = log, NEW q \in Objects, NEW h \in Version, NEW v \in Version, Shows(q, h, v),
             Wrote(h, q), Wrote(v, q), Visible(q) <= h, h <= v
      PROVE  Table!Next
  <2>1. OldestNow' = [OldestNow EXCEPT ![q] = h] /\ NewestNow' = [NewestNow EXCEPT ![q] = v]
    BY <1>3, ShowsNow
  <2>2. /\ h \in 1..Len(log) /\ v \in 1..Len(log) /\ Table!Writes(h, q) /\ Table!Writes(v, q)
        /\ NewestNow[q] <= h
    BY <1>3 DEF Wrote, IsDelete, Table!Writes, NewestNow
  <2>3. Table!Publish(q)
    BY <1>3, <2>1, <2>2 DEF Table!Publish, OldestNow, NewestNow
  <2>. QED BY <2>3 DEF Table!Next
<1>4. ASSUME log' = log, NEW q \in Objects, Shows(q, 0, 0), Deleted(q)
      PROVE  Table!Next
  <2>1. OldestNow' = [OldestNow EXCEPT ![q] = 0] /\ NewestNow' = [NewestNow EXCEPT ![q] = 0]
    BY <1>4, ShowsNow
  <2>2. \E n \in 1..Len(log) : Table!Deletes(n, q)
    BY <1>4 DEF Deleted, Table!Deletes
  <2>3. Table!Withdraw(q)
    BY <1>4, <2>1, <2>2 DEF Table!Withdraw, OldestNow, NewestNow
  <2>. QED BY <2>3 DEF Table!Next
<1>. QED BY <1>0, <1>1, <1>2, <1>3, <1>4, VisibleStep

\* Whatever crashes, fails, is retried or comes too late, and whoever
\* overwrites an object between two ranges, the readers of a target table see
\* what SourceTable allows: rows that were really written, none older than any
\* they have seen, and rows that vanish only after a delete (the stage table
\* exchanged for the partition, partition_loader.py).
THEOREM SpecImplementsTable == PipelineSpec => ImplementsTable
<1>1. PipelineInit => Table!Init
  BY DEF PipelineInit, Init, Table!Init, Visible, VisibleHead, Seen, NoRows, RowsOf, Known, Record
<1>2. PInv /\ [PipelineNext]_pipelineVars => [Table!Next]_<<log, OldestNow, NewestNow>>
  BY PipelineIsTable
<1>3. PInv /\ [PipelineNext]_pipelineVars
        => [Table!Next]_<<log, [o \in Objects |-> VisibleHead(o)], [o \in Objects |-> Visible(o)]>>
  BY <1>2 DEF OldestNow, NewestNow
<1>. QED BY <1>1, <1>3, SpecPInv, PTL DEF PipelineSpec, ImplementsTable, Table!Spec
=============================================================================
