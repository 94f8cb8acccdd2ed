---------------------------- MODULE StreamPipeline ----------------------------
(***************************************************************************)
(* The whole path in FIFO mode: the buckets' events flow through one       *)
(* stream partition into the capture table, and ONE processor claims the   *)
(* captured messages and runs the loader on them (run_partition_once and   *)
(* process_one of processor/stream_processor.py on top of PartitionLoader).*)
(*                                                                         *)
(* The capture table is reduced to the status of each message; that its    *)
(* rows are never skipped, and are claimed one at a time, is what          *)
(* MessageStore shows of it.  The number of a message is its stream offset *)
(* and its place in the order of claims.                                   *)
(***************************************************************************)
EXTENDS PartitionLoader

ASSUME OneProcessor == \A v, w \in Workers : v = w

VARIABLES
  captured,  \* messages captured so far
  status     \* status of each captured message

queue == <<captured, status>>
pipelineVars == <<vars, queue>>

\* FAILED until next_retry_at, DUE from then on; ABANDONED is PROCESSING
\* with an expired processing_started_at.
Statuses == {"none", "CAPTURED", "PROCESSING", "ABANDONED", "FAILED", "DUE", "COMPLETED"}

PipelineInit ==
  /\ Init
  /\ captured = 0
  /\ status = [n \in Version |-> "none"]

Idle == \A w \in Workers : pc[w] = "idle"

\* The processor polls between two messages and captures the next one.
Capture ==
  /\ Idle
  /\ captured < Len(log)
  /\ captured' = captured + 1
  /\ status' = [status EXCEPT ![captured + 1] = "CAPTURED"]
  /\ UNCHANGED vars

Eligible == {n \in 1..captured : status[n] \in {"CAPTURED", "ABANDONED", "DUE"}}

\* Mutated Oldest: no ORDER BY.
AnyOf(ns) == ns

Oldest(ns) == {n \in ns : \A k \in ns : n <= k}

\* claim_next, which also turns every abandoned message into a failed one
\* that is due, and the start of process_cloud_event.
Claim(w, n) ==
  /\ Idle
  /\ n \in Oldest(Eligible)
  /\ Begin(w, n)
  /\ status' = [k \in Version |-> IF k = n THEN "PROCESSING"
                                  ELSE IF status[k] = "ABANDONED" THEN "DUE" ELSE status[k]]
  /\ UNCHANGED captured

\* has_later_delete
Superseded(n) ==
  \E d \in (n + 1)..captured : log[d].action = "DELETE" /\ log[d].object = log[n].object

\* Mutated Settle: a load that failed is completed like any other.
SettleAnyway(w) ==
  /\ pc[w] = "returned"
  /\ status' = [status EXCEPT ![job[w]] = "COMPLETED"]
  /\ Return(w)
  /\ UNCHANGED captured

\* process_one: a 404 of a superseded load counts as success.
Settle(w) ==
  /\ pc[w] = "returned"
  /\ status' = [status EXCEPT ![job[w]] =
        IF \/ outcome[w] = "ok"
           \/ outcome[w] = "missing" /\ Superseded(job[w])
        THEN "COMPLETED" ELSE "FAILED"]
  /\ Return(w)
  /\ UNCHANGED captured

\* complete raises inside the try of process_one.
SettleFails(w) ==
  /\ pc[w] = "returned"
  /\ outcome[w] = "ok"
  /\ Fault
  /\ status' = [status EXCEPT ![job[w]] = "FAILED"]
  /\ Leaves(w)
  /\ UNCHANGED <<orphans, captured>>

\* A retry delay ends, or the lease of a message that nobody works on.
RetryDue(n) ==
  /\ \/ status[n] = "FAILED" /\ status' = [status EXCEPT ![n] = "DUE"]
     \/ /\ status[n] = "PROCESSING"
        /\ \A w \in Workers : job[w] # n
        /\ status' = [status EXCEPT ![n] = "ABANDONED"]
  /\ UNCHANGED <<vars, captured>>

Work(w) == LoadStep(w) \/ DeleteStep(w)

PipelineNext ==
  \/ Capture
  \/ \E w \in Workers : Settle(w) \/ SettleFails(w)
  \/ \E n \in Version : RetryDue(n) \/ \E w \in Workers : Claim(w, n)
  \/ /\ \/ Buckets
        \/ \E w \in Workers : Work(w) \/ Failure(w)
        \/ \E o \in Objects : LeaseElapses(o)
     /\ UNCHANGED queue

PipelineSpec == PipelineInit /\ [][PipelineNext]_pipelineVars

\* The processor keeps polling and working, delays and leases end.  A message
\* gets its turn: a failed one waits at least retry_delay_seconds, many polls,
\* before it goes first again.  Nobody has to write or remove objects, and
\* faults are bounded by MaxFaults.
PipelineFairness ==
  /\ SF_pipelineVars(Capture)
  /\ \A w \in Workers :
        /\ \A n \in Version : SF_pipelineVars(Claim(w, n))
        /\ WF_pipelineVars(Work(w) /\ UNCHANGED queue)
        /\ WF_pipelineVars(Settle(w))
  /\ \A n \in Version : WF_pipelineVars(RetryDue(n))
  /\ \A o \in Objects : WF_pipelineVars(LeaseElapses(o) /\ UNCHANGED queue)

FairPipelineSpec == PipelineSpec /\ PipelineFairness

-----------------------------------------------------------------------------
(* Properties.                                                             *)

\* The rows of an object that a reader of its target table sees.
Seen(o) ==
  LET here == rows[record[o].target][record[o].batch]
  IN IF Known(o) /\ here.of = o THEN here ELSE NoRows

Visible(o) == Seen(o).version
VisibleHead(o) == Seen(o).head

Table == INSTANCE SourceTable WITH
  oldest <- [o \in Objects |-> VisibleHead(o)],
  newest <- [o \in Objects |-> Visible(o)]

\* A reader sees all rows of the version that is in the bucket, and no others.
Current(o) == Visible(o) = bucket[o] /\ VisibleHead(o) = bucket[o]

Deleted(o) == \E n \in 1..Len(log) : log[n].action = "DELETE" /\ log[n].object = o

\* A create that was not completed before a later message of its object.
Overtaken(n) ==
  /\ log[n].action = "CREATE"
  /\ \E k \in (n + 1)..Len(log) : log[k].object = log[n].object /\ status[k] = "COMPLETED"

\* Nothing has failed so far but loads of objects that were gone or changed.
Healthy == faults = MaxFaults

\* Every event has been captured and completed.
Settled ==
  /\ Idle
  /\ captured = Len(log)
  /\ \A n \in 1..Len(log) : status[n] = "COMPLETED"

\* The statuses are those of the messages captured so far, and a message is
\* PROCESSING while the processor works on it.
QueueOK ==
  /\ captured \in 0..Len(log)
  /\ status \in [Version -> Statuses]
  /\ \A n \in Version : status[n] = "none" <=> n > captured
  /\ \A w \in Workers : pc[w] # "idle" => status[job[w]] = "PROCESSING"

\* Crashes, failures, retries out of order and superseded loads included,
\* readers see rows that were written and never go back to rows older than any
\* they have seen, and lose the rows of an object only if it was deleted.
ImplementsTable == Table!Spec

\* Rows of more than one version are seen only while a later event of their
\* object is not captured or not completed yet, so that nobody has to notice
\* that the object was overwritten between two ranges.
TornIsPending ==
  \A o \in Objects : Visible(o) # VisibleHead(o) =>
    \E n \in 1..Len(log) :
      /\ log[n].object = o /\ n > VisibleHead(o)
      /\ n > captured \/ status[n] # "COMPLETED"

\* An ACTIVE record is backed by rows of its object, none older than the event
\* it names; the rows are missing only where a delete has dropped the
\* partition and has not recorded that, or never will after a crash.
ActiveIsLoaded ==
  \A o \in Objects : record[o].state = "ACTIVE" =>
    LET here == rows[record[o].target][record[o].batch]
    IN \/ here.of = o /\ here.head >= record[o].version
       \/ here = NoRows /\ Deleted(o)

\* Once all events are completed, no rows of an object that is gone are left.
NoGhostRows == Settled => \A o \in Objects : bucket[o] = 0 => Visible(o) = 0

\* Once all events are completed and nothing failed, the tables show exactly
\* the objects of the buckets, whole and in their last version.
SettledIsCurrent == Settled /\ Healthy => \A o \in Objects : Current(o)

\* The tables come to show the last version of every object, and nothing else
\* of it, although some messages may be refused forever, if nothing failed or
\* it was never deleted.
EventuallyCurrent ==
  \A o \in Objects : <>[](Healthy \/ ~Deleted(o) => Current(o))

\* Every message of an object that is never deleted is completed, whatever
\* fails on the way, but for a create that is refused because a later message
\* has loaded the object.
EventuallySettled ==
  \A n \in Version :
    <>[](n <= Len(log) /\ ~Deleted(log[n].object) => status[n] = "COMPLETED" \/ Overtaken(n))

\* docs/technical-details.md: "A deleted object must have a DELETED batch
\* record and no corresponding target partition."
DeletedIsGone ==
  Settled => \A o \in Objects : Known(o) /\ bucket[o] = 0 =>
    record[o].state = "DELETED" /\ record[o].batch \notin partitions[record[o].target]
=============================================================================
