---------------------------- MODULE MessageStore ----------------------------
(***************************************************************************)
(* Durable capture and claiming of ONE partition of an OCI Stream:         *)
(* processor/stream_processor.py and processor/message_store.py, together  *)
(* with the two operator actions on captured messages of                   *)
(* ui/myapp/services/stream_capture_service.py.                            *)
(*                                                                         *)
(* Every database transaction of the code is one action here, and so is    *)
(* every call of the loader.  A processor may die between any two of them. *)
(* The partition's messages are the constant sequence Stream, of which the *)
(* first `published' are visible; a cursor is the number of messages it    *)
(* has passed, so 0 is both "no checkpoint" and TRIM_HORIZON.              *)
(*                                                                         *)
(* Clocks are abstracted to the outcome of the two comparisons made with   *)
(* them.  The field timer stands for next_retry_at of a FAILED row and for *)
(* processing_started_at of a PROCESSING row: "waiting" while that moment  *)
(* is in the future (a lease: while it is running), "elapsed" afterwards,  *)
(* "none" where the column plays no role.                                  *)
(***************************************************************************)
EXTENDS Integers, Sequences

CONSTANTS
  Processors,   \* processor containers that are assigned this partition
  Stream,       \* the messages of the partition, in offset order
  MaxCaptures,  \* bound: rows ever inserted in stream_message_capture
  MaxAttempts,  \* attempts counts up to this value and stays there
  MaxFaults,    \* bound: crashes, expired cursors and failed commits
  Unreadable    \* offsets of loads whose object is gone from the bucket

\* What the code tells apart in a message: whether it decodes to a JSON
\* object at all, and for an Object Storage event its action and its object.
Kinds == {"create", "update", "delete", "undecodable"}

ASSUME StreamAssumption ==
  \A o \in 1..Len(Stream) : Stream[o].kind \in Kinds

ASSUME BoundsAssumption ==
  /\ Len(Stream) \in Nat
  /\ MaxCaptures \in Nat
  /\ MaxAttempts \in Nat \ {0}
  /\ MaxFaults \in Nat

ASSUME UnreadableAssumption == Unreadable \subseteq 1..Len(Stream)

Offsets == 1..Len(Stream)
Id == 1..MaxCaptures

VARIABLES
  published,   \* messages the stream holds so far
  checkpoint,  \* stream_partition_checkpoint.cursor_value
  capture,     \* stream_message_capture by id
  txLog,       \* stream_event_tx_log by capture_id
  archive,     \* ids moved to an archive table
  nextId,      \* AUTO_INCREMENT of stream_message_capture
  pc,          \* where each processor is in run_partition_once
  next,        \* next offset each processor has to capture
  last,        \* last offset of the batch it has read
  job,         \* id of the row it has claimed, 0 for none
  delivered,   \* history: offsets the loader has executed successfully
  faults       \* crashes, expired cursors and failed commits left

tables == <<checkpoint, capture, txLog, archive, nextId>>
workers == <<pc, next, last, job>>
vars == <<published, tables, workers, delivered, faults>>

Statuses == {"CAPTURED", "PROCESSING", "COMPLETED", "FAILED"}
Steps == {"poll", "capture", "claim", "load", "loaded", "missing",
          "superseded", "failed"}

\* The columns of the two tables that the code decides on.
CaptureRow == [status : Statuses \cup {"none"}, offset : 0..Len(Stream),
               attempts : 0..MaxAttempts, timer : {"none", "waiting", "elapsed"}]
TxRow == [status : Statuses \cup {"none"}, offset : 0..Len(Stream), attempts : 0..MaxAttempts]

Row(status, offset, attempts, timer) ==
  [status |-> status, offset |-> offset, attempts |-> attempts, timer |-> timer]
Entry(status, offset, attempts) ==
  [status |-> status, offset |-> offset, attempts |-> attempts]

NoCapture == Row("none", 0, 0, "none")
NoTx == Entry("none", 0, 0)

Init ==
  /\ published = 0
  /\ checkpoint = 0
  /\ capture = [i \in Id |-> NoCapture]
  /\ txLog = [i \in Id |-> NoTx]
  /\ archive = {}
  /\ nextId = 1
  /\ pc = [p \in Processors |-> "poll"]
  /\ next = [p \in Processors |-> 0]
  /\ last = [p \in Processors |-> 0]
  /\ job = [p \in Processors |-> 0]
  /\ delivered = {}
  /\ faults = MaxFaults

-----------------------------------------------------------------------------
(* Reading the tables.                                                     *)

Live(i) == capture[i].status # "none"

\* An offset has been captured at least once: rows of the transaction log
\* are never deleted, not even when the capture is archived.
Captured(o) == \E i \in Id : txLog[i].offset = o

\* Mutated OffsetTaken: completed rows do not hold the key.
OffsetPending(o) ==
  \E i \in Id : capture[i].status \notin {"none", "COMPLETED"} /\ capture[i].offset = o

\* The unique key (stream_id, partition_id, stream_offset) is taken.
OffsetTaken(o) == \E i \in Id : Live(i) /\ capture[i].offset = o

IsLoad(o) == Stream[o].kind \in {"create", "update"}

IsLaterDelete(o, d) ==
  /\ d > o
  /\ Stream[d].kind = "delete"
  /\ Stream[d].object = Stream[o].object

\* Mutated HasLaterDelete: every load that meets a 404 counts as superseded.
AnyLoad(o) == IsLoad(o)

\* has_later_delete for a row of offset o: whatever the status of the later
\* row, but only while that row is still in the capture table.
HasLaterDelete(o) ==
  /\ IsLoad(o)
  /\ \E j \in Id : Live(j) /\ IsLaterDelete(o, capture[j].offset)

Incremented(attempts) == IF attempts < MaxAttempts THEN attempts + 1 ELSE attempts

-----------------------------------------------------------------------------
(* The stream.                                                             *)

\* OCI Events appends the next message to the partition.
Publish ==
  /\ published < Len(Stream)
  /\ published' = published + 1
  /\ UNCHANGED <<tables, workers, delivered, faults>>

-----------------------------------------------------------------------------
(* A processor: capture of one batch.                                      *)

\* get_messages returns some of the messages behind the cursor, at least one
\* if there is one.
StartBatch(p, from) ==
  /\ pc[p] = "poll"
  /\ \E upTo \in from..published :
        /\ upTo = from => from = published
        /\ last' = [last EXCEPT ![p] = upTo]
  /\ next' = [next EXCEPT ![p] = from + 1]
  /\ pc' = [pc EXCEPT ![p] = "capture"]
  /\ UNCHANGED <<published, tables, job, delivered>>

Read(p) == StartBatch(p, checkpoint) /\ UNCHANGED faults

\* The stored cursor has expired: read again from the trim horizon.
ReadExpired(p) ==
  /\ faults > 0
  /\ faults' = faults - 1
  /\ StartBatch(p, 0)

\* message_store.capture of the next message of the batch, one transaction:
\* both inserts are no-ops if the offset's row is already there.
CaptureOne(p) ==
  /\ pc[p] = "capture"
  /\ next[p] <= last[p]
  /\ Stream[next[p]].kind # "undecodable"
  /\ next' = [next EXCEPT ![p] = @ + 1]
  /\ \/ /\ OffsetTaken(next[p])
        /\ UNCHANGED <<capture, txLog, nextId>>
     \/ /\ ~OffsetTaken(next[p])
        /\ nextId \in Id
        /\ capture' = [capture EXCEPT ![nextId] = Row("CAPTURED", next[p], 0, "none")]
        /\ txLog' = [txLog EXCEPT ![nextId] = Entry("CAPTURED", next[p], 0)]
        /\ nextId' = nextId + 1
  /\ UNCHANGED <<published, checkpoint, archive, pc, last, job, delivered, faults>>

\* A processor ends (any exception that escapes run_partition_once ends
\* main) and its container starts again with nothing but the tables.
Restart(p) ==
  /\ pc' = [pc EXCEPT ![p] = "poll"]
  /\ next' = [next EXCEPT ![p] = 0]
  /\ last' = [last EXCEPT ![p] = 0]
  /\ job' = [job EXCEPT ![p] = 0]
  /\ UNCHANGED <<published, tables, delivered>>

\* Mutated RejectMessage: the undecodable message is skipped.
SkipMessage(p) ==
  /\ pc[p] = "capture"
  /\ next[p] <= last[p]
  /\ Stream[next[p]].kind = "undecodable"
  /\ next' = [next EXCEPT ![p] = @ + 1]
  /\ UNCHANGED <<published, tables, pc, last, job, delivered, faults>>

\* decode_stream_message raises for a message that is not a JSON object.
RejectMessage(p) ==
  /\ pc[p] = "capture"
  /\ next[p] <= last[p]
  /\ Stream[next[p]].kind = "undecodable"
  /\ Restart(p)
  /\ UNCHANGED faults

\* Mutated SaveCheckpoint: the cursor is stored one message too far.
SaveCheckpointPast(p) ==
  /\ pc[p] = "capture"
  /\ next[p] > last[p]
  /\ checkpoint' = next[p]
  /\ pc' = [pc EXCEPT ![p] = "claim"]
  /\ next' = [next EXCEPT ![p] = 0]
  /\ last' = [last EXCEPT ![p] = 0]
  /\ UNCHANGED <<published, capture, txLog, archive, nextId, job, delivered, faults>>

\* Mutated SaveCheckpoint: the cursor is stored before the batch is captured.
SaveCheckpointFirst(p) ==
  /\ pc[p] = "capture"
  /\ checkpoint' = last[p]
  /\ pc' = [pc EXCEPT ![p] = "claim"]
  /\ next' = [next EXCEPT ![p] = 0]
  /\ last' = [last EXCEPT ![p] = 0]
  /\ UNCHANGED <<published, capture, txLog, archive, nextId, job, delivered, faults>>

\* The whole batch is committed: store the next cursor.
SaveCheckpoint(p) ==
  /\ pc[p] = "capture"
  /\ next[p] > last[p]
  /\ checkpoint' = last[p]
  /\ pc' = [pc EXCEPT ![p] = "claim"]
  /\ next' = [next EXCEPT ![p] = 0]
  /\ last' = [last EXCEPT ![p] = 0]
  /\ UNCHANGED <<published, capture, txLog, archive, nextId, job, delivered, faults>>

-----------------------------------------------------------------------------
(* A processor: claiming and executing one captured message.               *)

\* Mutated Recovered: leases never run out.
RecoveredNever == capture

\* Rows whose lease ran out go back to FAILED, due at once.  The
\* transaction log is not written here.
Recovered ==
  [i \in Id |-> IF capture[i].status = "PROCESSING" /\ capture[i].timer = "elapsed"
                THEN Row("FAILED", capture[i].offset, capture[i].attempts, "elapsed")
                ELSE capture[i]]

Eligible(rows) ==
  {i \in Id : rows[i].status \in {"CAPTURED", "FAILED"} /\ rows[i].timer # "waiting"}

\* Mutated Oldest: no ORDER BY.
AnyOf(ids) == ids

\* ORDER BY received_at, id: the rows of a partition are inserted in id order.
Oldest(ids) == {i \in ids : \A j \in ids : i <= j}

ClaimNext(p) ==
  /\ pc[p] = "claim"
  /\ \E i \in Oldest(Eligible(Recovered)) :
        /\ capture' = [Recovered EXCEPT ![i] =
             Row("PROCESSING", @.offset, Incremented(@.attempts), "waiting")]
        /\ txLog' = [txLog EXCEPT ![i] =
             Entry("PROCESSING", @.offset, Incremented(@.attempts))]
        /\ job' = [job EXCEPT ![p] = i]
  /\ pc' = [pc EXCEPT ![p] = "load"]
  /\ UNCHANGED <<published, checkpoint, archive, nextId, next, last, delivered, faults>>

ClaimNothing(p) ==
  /\ pc[p] = "claim"
  /\ Eligible(Recovered) = {}
  /\ pc' = [pc EXCEPT ![p] = "poll"]
  /\ UNCHANGED <<published, tables, next, last, job, delivered, faults>>

\* The loader returns, raises an error with status 404, or raises another.
\* JobOffset: the processor keeps the claimed row in memory, so it knows the
\* offset even if the row has been archived meanwhile.
JobOffset(p) == txLog[job[p]].offset

LoadSucceeds(p) ==
  /\ pc[p] = "load"
  /\ JobOffset(p) \notin Unreadable
  /\ delivered' = delivered \cup {JobOffset(p)}
  /\ pc' = [pc EXCEPT ![p] = "loaded"]
  /\ UNCHANGED <<published, tables, next, last, job, faults>>

LoadMissing(p) ==
  /\ pc[p] = "load"
  /\ pc' = [pc EXCEPT ![p] = "missing"]
  /\ UNCHANGED <<published, tables, next, last, job, delivered, faults>>

LoadErrs(p) ==
  /\ pc[p] = "load"
  /\ pc' = [pc EXCEPT ![p] = "failed"]
  /\ UNCHANGED <<published, tables, next, last, job, delivered, faults>>

\* A 404 is final only if a later delete of the object is captured.
CheckSuperseded(p) ==
  /\ pc[p] = "missing"
  /\ pc' = [pc EXCEPT ![p] =
        IF HasLaterDelete(JobOffset(p)) THEN "superseded" ELSE "failed"]
  /\ UNCHANGED <<published, tables, next, last, job, delivered, faults>>

\* An UPDATE ... WHERE id of a row that was archived meanwhile changes nothing.
SetCapture(i, status, timer) ==
  capture' = IF Live(i)
             THEN [capture EXCEPT ![i] = Row(status, @.offset, @.attempts, timer)]
             ELSE capture

\* Mutated Finish: the transaction log is not updated.
FinishCaptureOnly(p, status, timer) ==
  /\ SetCapture(job[p], status, timer)
  /\ pc' = [pc EXCEPT ![p] = "poll"]
  /\ job' = [job EXCEPT ![p] = 0]
  /\ UNCHANGED <<published, checkpoint, txLog, archive, nextId, next, last, delivered, faults>>

Finish(p, status, timer) ==
  /\ SetCapture(job[p], status, timer)
  /\ txLog' = [txLog EXCEPT ![job[p]] = Entry(status, @.offset, @.attempts)]
  /\ pc' = [pc EXCEPT ![p] = "poll"]
  /\ job' = [job EXCEPT ![p] = 0]
  /\ UNCHANGED <<published, checkpoint, archive, nextId, next, last, delivered, faults>>

\* complete and fail write the row by id, whatever its status is by then.
Complete(p) == pc[p] \in {"loaded", "superseded"} /\ Finish(p, "COMPLETED", "none")

Fail(p) == pc[p] = "failed" /\ Finish(p, "FAILED", "waiting")

\* complete itself raises inside the try of process_one.
CompleteRaises(p) ==
  /\ pc[p] = "loaded"
  /\ faults > 0
  /\ faults' = faults - 1
  /\ pc' = [pc EXCEPT ![p] = "failed"]
  /\ UNCHANGED <<published, tables, next, last, job, delivered>>

Crash(p) ==
  /\ faults > 0
  /\ faults' = faults - 1
  /\ pc[p] # "poll"
  /\ Restart(p)

-----------------------------------------------------------------------------
(* Time and the operator.                                                  *)

\* A retry delay or a processing lease runs out; the processor that holds
\* the lease may be dead or merely slow.
Elapse(i) ==
  /\ capture[i].timer = "waiting"
  /\ capture' = [capture EXCEPT ![i] = Row(@.status, @.offset, @.attempts, "elapsed")]
  /\ UNCHANGED <<published, checkpoint, txLog, archive, nextId, workers, delivered, faults>>

\* Mutated OperatorRetry: without the condition on the status.
OperatorRetryAny(i) ==
  /\ Live(i)
  /\ capture' = [capture EXCEPT ![i] = Row("CAPTURED", @.offset, @.attempts, "none")]
  /\ UNCHANGED <<published, checkpoint, txLog, archive, nextId, workers, delivered, faults>>

\* StreamCaptureService.retry
OperatorRetry(i) ==
  /\ capture[i].status = "FAILED"
  /\ capture' = [capture EXCEPT ![i] = Row("CAPTURED", @.offset, @.attempts, "none")]
  /\ UNCHANGED <<published, checkpoint, txLog, archive, nextId, workers, delivered, faults>>

\* StreamCaptureService.archive: copy to an archive table and delete.
OperatorArchive(i) ==
  /\ capture[i].status \in {"COMPLETED", "FAILED"}
  /\ capture' = [capture EXCEPT ![i] = NoCapture]
  /\ archive' = archive \cup {i}
  /\ UNCHANGED <<published, checkpoint, txLog, nextId, workers, delivered, faults>>

-----------------------------------------------------------------------------
CaptureStep(p) == Read(p) \/ CaptureOne(p) \/ RejectMessage(p) \/ SaveCheckpoint(p)

ExecuteStep(p) ==
  \/ ClaimNext(p) \/ ClaimNothing(p)
  \/ LoadSucceeds(p) \/ LoadMissing(p) \/ LoadErrs(p) \/ CheckSuperseded(p)
  \/ Complete(p) \/ Fail(p)

Fault(p) == ReadExpired(p) \/ CompleteRaises(p) \/ Crash(p)

Operator(i) == OperatorRetry(i) \/ OperatorArchive(i)

Next ==
  \/ Publish
  \/ \E p \in Processors : CaptureStep(p) \/ ExecuteStep(p) \/ Fault(p)
  \/ \E i \in Id : Elapse(i) \/ Operator(i)

Spec == Init /\ [][Next]_vars

PublishEvent == Publish /\ Stream[published'].kind # "undecodable"

\* OCI publishes the events of the bucket; whether something else is ever sent
\* to the stream is open.  The main loop never stops polling (its steps are
\* weakly fair), a running delay ends, the loader succeeds or meets the 404 of a vanished object
\* eventually when it is tried again and again.  Nothing is assumed of the
\* operator, and faults are bounded by MaxFaults.
Fairness ==
  /\ WF_vars(PublishEvent)
  /\ \A p \in Processors :
        /\ WF_vars(CaptureStep(p))
        /\ WF_vars(ExecuteStep(p))
        /\ SF_vars(LoadSucceeds(p))
        /\ SF_vars(LoadMissing(p))
  /\ \A i \in Id : WF_vars(Elapse(i))

FairSpec == Spec /\ Fairness

-----------------------------------------------------------------------------
(* Properties.                                                             *)

\* Every variable has its type, and the stored cursor never passes the end of
\* what is published.
TypeOK ==
  /\ published \in 0..Len(Stream)
  /\ checkpoint \in 0..published
  /\ capture \in [Id -> CaptureRow]
  /\ txLog \in [Id -> TxRow]
  /\ archive \subseteq Id
  /\ nextId \in 1..(MaxCaptures + 1)
  /\ pc \in [Processors -> Steps]
  /\ next \in [Processors -> 0..(Len(Stream) + 1)]
  /\ last \in [Processors -> 0..Len(Stream)]
  /\ job \in [Processors -> 0..MaxCaptures]
  /\ delivered \subseteq Offsets
  /\ faults \in 0..MaxFaults

\* The stored cursor never passes a message that was not durably captured
\* (run_partition_once: "checkpoint only after commit"), whatever crashes,
\* expired cursors, undecodable messages and other processors do.
NoMessageSkipped == \A o \in 1..checkpoint : Captured(o)

\* A message is first attempted only after every message before it in the
\* partition has been captured and attempted: only a retry is out of order.
FirstAttemptsInOrder ==
  \A j \in Id : txLog[j].attempts > 0 =>
    \A o \in 1..(txLog[j].offset - 1) :
      \E i \in 1..(j - 1) : txLog[i].offset = o /\ txLog[i].attempts > 0

\* Replays are idempotent as long as nothing is archived: an offset that has
\* been captured twice had its earlier row archived before.
RecapturedOnlyIfArchived ==
  \A i, j \in Id : i < j /\ txLog[i].offset = txLog[j].offset /\ txLog[j].offset # 0
                  => i \in archive

\* A message counts as completed only if the loader executed it, or if it is
\* a load and a later delete of its object has been captured.
CompletedIsHandled ==
  \A i \in Id : txLog[i].status = "COMPLETED" =>
    LET o == txLog[i].offset
    IN \/ o \in delivered
       \/ IsLoad(o) /\ \E d \in Offsets : Captured(d) /\ IsLaterDelete(o, d)

\* Capture row and transaction log entry agree on the number of attempts and
\* on completion; otherwise the log is behind only in a retryable state.
TxLogTellsCompletion ==
  \A i \in Id : Live(i) =>
    /\ txLog[i].offset = capture[i].offset
    /\ txLog[i].attempts = capture[i].attempts
    /\ txLog[i].status = "COMPLETED" <=> capture[i].status = "COMPLETED"
    /\ capture[i].status = "PROCESSING" => txLog[i].status = "PROCESSING"
    /\ txLog[i].status = "CAPTURED" => capture[i].status = "CAPTURED"

\* With one processor per partition, the processor that executes a message
\* holds its row: nothing retries, archives or recovers it meanwhile.
OwnerHoldsRow ==
  \A p \in Processors : job[p] # 0 => capture[job[p]].status = "PROCESSING"

\* With one processor per partition, a completed row stays completed until
\* the operator archives it.
CompletedIsFinal ==
  [][\A i \in Id : capture[i].status = "COMPLETED" =>
        capture'[i].status \in {"COMPLETED", "none"}]_vars

\* With one processor per partition, the store is the at-least-once queue.
Queue == INSTANCE EventQueue WITH
  accepted <- {o \in Offsets : Captured(o)},
  acked <- {o \in Offsets : \E i \in Id : txLog[i].offset = o /\ txLog[i].status = "COMPLETED"}

ImplementsQueue == Queue!Spec

\* Every message that is not behind an undecodable one is captured at last.
EventuallyCaptured ==
  \A o \in Offsets :
    (published >= o /\ \A q \in 1..o : Stream[q].kind # "undecodable") ~> Captured(o)

Poisoned == \E q \in 1..published : Stream[q].kind = "undecodable"

\* Every captured message is completed at last, the load of a vanished object
\* too, unless an undecodable message keeps the processor restarting before it
\* claims anything, or the operator archives it or the later delete, without
\* which the load of a vanished object is retried forever.
EventuallyCompleted ==
  \A o \in Offsets :
    Captured(o) ~>
      \/ Poisoned
      \/ \E i \in Id : txLog[i].offset = o /\ txLog[i].status = "COMPLETED"
      \/ \E i \in archive : txLog[i].offset = o \/ IsLaterDelete(o, txLog[i].offset)

\* stream_processor.py claims of the replay from the trim horizon that "the
\* durable unique stream/partition/offset capture key makes the replay
\* idempotent": no message is captured, hence executed, a second time.
ReplayIsIdempotent ==
  \A i, j \in Id : txLog[i].offset # 0 /\ txLog[i].offset = txLog[j].offset => i = j
=============================================================================
