------------------------- MODULE MessageStoreProofs -------------------------
(***************************************************************************)
(* Theorems about MessageStore for any number of processors, any stream    *)
(* and any bounds.                                                         *)
(***************************************************************************)
EXTENDS MessageStore, TLAPS

Working == {"load", "loaded", "missing", "superseded", "failed"}

\* A worker that executes something has claimed a row of the log; one that
\* captures is at most one past the end of a batch it read from the stream.
WorkersOK ==
  \A p \in Processors :
    /\ pc[p] \in Working => job[p] \in Id /\ txLog[job[p]].status # "none"
    /\ pc[p] \notin Working => job[p] = 0
    /\ pc[p] = "capture" => last[p] <= published /\ next[p] \in 1..(last[p] + 1)

\* The ids below nextId are those of the rows inserted so far, each of them
\* logged, and each of them either in the capture table or archived.
RowsOK ==
  \A i \in Id :
    /\ i < nextId => txLog[i].status # "none" /\ txLog[i].offset \in 1..published
    /\ i >= nextId => txLog[i] = NoTx /\ capture[i] = NoCapture
    /\ Live(i) => capture[i].offset = txLog[i].offset
    /\ i \in archive <=> i < nextId /\ ~Live(i)

TInv == TypeOK /\ WorkersOK /\ RowsOK

-----------------------------------------------------------------------------
(* Types.                                                                  *)

LEMMA RowType ==
  ASSUME NEW s \in Statuses, NEW o \in 0..Len(Stream), NEW a \in 0..MaxAttempts,
         NEW t \in {"none", "waiting", "elapsed"}
  PROVE  /\ Row(s, o, a, t) \in CaptureRow
         /\ Entry(s, o, a) \in TxRow
  BY DEF Row, Entry, CaptureRow, TxRow

LEMMA FieldTypes ==
  ASSUME TypeOK, NEW i \in Id
  PROVE  /\ i \in Nat /\ nextId \in Nat
         /\ capture[i].status \in Statuses \cup {"none"}
         /\ capture[i].offset \in 0..Len(Stream)
         /\ capture[i].attempts \in 0..MaxAttempts
         /\ capture[i].timer \in {"none", "waiting", "elapsed"}
         /\ txLog[i].status \in Statuses \cup {"none"}
         /\ txLog[i].offset \in 0..Len(Stream)
         /\ txLog[i].attempts \in 0..MaxAttempts
<1>1. capture[i] \in CaptureRow /\ txLog[i] \in TxRow
  BY DEF TypeOK
<1>. QED BY <1>1, BoundsAssumption DEF TypeOK, CaptureRow, TxRow, Id

LEMMA InitTInv == Init => TInv
<1> SUFFICES ASSUME Init PROVE TInv
  OBVIOUS
<1>1. NoCapture \in CaptureRow /\ NoTx \in TxRow
  BY BoundsAssumption DEF NoCapture, NoTx, Row, Entry, CaptureRow, TxRow
<1>2. TypeOK
  BY <1>1, BoundsAssumption DEF Init, TypeOK, Steps
<1>3. WorkersOK
  BY DEF Init, WorkersOK, Working
<1>4. RowsOK
  BY BoundsAssumption DEF Init, RowsOK, Live, NoCapture, Row, Id
<1>. QED BY <1>2, <1>3, <1>4 DEF TInv

LEMMA PublishTInv ==
  ASSUME TInv, Publish
  PROVE  TInv'
<1>0. published' = published + 1 /\ published' \in 0..Len(Stream) /\ published \in Nat
  BY BoundsAssumption DEF TInv, TypeOK, Publish
<1>1. TypeOK'
  BY <1>0, BoundsAssumption DEF TInv, TypeOK, Publish, tables, workers
<1>2. WorkersOK'
  BY <1>0, BoundsAssumption DEF TInv, TypeOK, WorkersOK, Publish, tables, workers
<1>3. RowsOK'
  BY <1>0, FieldTypes DEF TInv, RowsOK, Publish, tables, workers, Live
<1>. QED BY <1>1, <1>2, <1>3 DEF TInv

LEMMA StartBatchTInv ==
  ASSUME TInv, NEW p \in Processors, NEW from \in 0..published, StartBatch(p, from),
         faults' \in 0..MaxFaults
  PROVE  TInv'
<1>1. TypeOK'
  BY BoundsAssumption DEF TInv, TypeOK, StartBatch, tables, Steps
<1>2. WorkersOK'
  BY BoundsAssumption DEF TInv, TypeOK, WorkersOK, StartBatch, tables, Working
<1>3. RowsOK'
  BY DEF TInv, RowsOK, StartBatch, tables, Live
<1>. QED BY <1>1, <1>2, <1>3 DEF TInv

LEMMA RestartTInv ==
  ASSUME TInv, NEW p \in Processors, Restart(p), faults' \in 0..MaxFaults
  PROVE  TInv'
<1>1. TypeOK'
  BY BoundsAssumption DEF TInv, TypeOK, Restart, tables, Steps
<1>2. WorkersOK'
  BY BoundsAssumption DEF TInv, TypeOK, WorkersOK, Restart, tables, Working
<1>3. RowsOK'
  BY DEF TInv, RowsOK, Restart, tables, Live
<1>. QED BY <1>1, <1>2, <1>3 DEF TInv

LEMMA SaveCheckpointTInv ==
  ASSUME TInv, NEW p \in Processors, SaveCheckpoint(p)
  PROVE  TInv'
<1>1. last[p] \in 0..published
  BY BoundsAssumption DEF TInv, TypeOK, WorkersOK, SaveCheckpoint
<1>2. TypeOK'
  BY <1>1, BoundsAssumption DEF TInv, TypeOK, SaveCheckpoint, Steps
<1>3. WorkersOK'
  BY BoundsAssumption DEF TInv, TypeOK, WorkersOK, SaveCheckpoint, Working
<1>4. RowsOK'
  BY DEF TInv, RowsOK, SaveCheckpoint, Live
<1>. QED BY <1>2, <1>3, <1>4 DEF TInv

\* What a step that inserts the row of an offset does to the tables.
Insert(p) ==
  /\ nextId \in Id
  /\ capture' = [capture EXCEPT ![nextId] = Row("CAPTURED", next[p], 0, "none")]
  /\ txLog' = [txLog EXCEPT ![nextId] = Entry("CAPTURED", next[p], 0)]
  /\ nextId' = nextId + 1

LEMMA CaptureOneTInv ==
  ASSUME TInv, NEW p \in Processors, CaptureOne(p)
  PROVE  TInv'
<1>1. next[p] \in 1..published /\ next[p] + 1 \in 1..(Len(Stream) + 1) /\ next[p] \in 0..Len(Stream)
  BY BoundsAssumption DEF TInv, TypeOK, WorkersOK, CaptureOne
<1>2. next' \in [Processors -> 0..(Len(Stream) + 1)]
  BY <1>1, BoundsAssumption DEF TInv, TypeOK, CaptureOne
<1>3. CASE UNCHANGED <<capture, txLog, nextId>>
  <2>1. TypeOK'
    BY <1>2, <1>3 DEF TInv, TypeOK, CaptureOne
  <2>2. WorkersOK'
    BY <1>1, <1>3, BoundsAssumption DEF TInv, TypeOK, WorkersOK, CaptureOne, Working
  <2>3. RowsOK'
    BY <1>3 DEF TInv, RowsOK, CaptureOne, Live
  <2>. QED BY <2>1, <2>2, <2>3 DEF TInv
<1>4. CASE Insert(p)
  <2>1. UNCHANGED <<published, checkpoint, archive, pc, last, job, delivered, faults>>
    BY DEF CaptureOne
  <2>2. Row("CAPTURED", next[p], 0, "none") \in CaptureRow /\ Entry("CAPTURED", next[p], 0) \in TxRow
    BY <1>1, RowType, BoundsAssumption DEF Statuses
  <2>3. TypeOK'
    BY <1>2, <1>4, <2>1, <2>2, BoundsAssumption DEF TInv, TypeOK, Insert, Id
  <2>4. \A i \in Id : i # nextId => capture'[i] = capture[i] /\ txLog'[i] = txLog[i]
    BY <1>4 DEF Insert, TInv, TypeOK
  <2>5. /\ capture'[nextId].status = "CAPTURED" /\ capture'[nextId].offset = next[p]
        /\ txLog'[nextId].status = "CAPTURED" /\ txLog'[nextId].offset = next[p]
    BY <1>4 DEF Insert, TInv, TypeOK, Row, Entry
  <2>6. WorkersOK'
    <3>1. \A q \in Processors : pc[q] \in Working => job[q] \in Id /\ txLog'[job[q]].status # "none"
      BY <2>4, <2>5 DEF TInv, WorkersOK
    <3>2. \A q \in Processors : pc[q] = "capture" => next'[q] \in 1..(last[q] + 1)
      BY <1>1, BoundsAssumption DEF TInv, TypeOK, WorkersOK, CaptureOne
    <3>. QED BY <2>1, <3>1, <3>2 DEF TInv, WorkersOK
  <2>7. RowsOK'
    <3> SUFFICES ASSUME NEW i \in Id PROVE
          /\ i < nextId' => txLog'[i].status # "none" /\ txLog'[i].offset \in 1..published
          /\ i >= nextId' => txLog'[i] = NoTx /\ capture'[i] = NoCapture
          /\ Live(i)' => capture'[i].offset = txLog'[i].offset
          /\ i \in archive <=> i < nextId' /\ ~Live(i)'
      BY <2>1 DEF RowsOK
    <3>1. nextId' = nextId + 1 /\ i \in Nat /\ nextId \in Nat
      BY <1>4, FieldTypes DEF Insert, TInv
    <3>2. CASE i = nextId
      BY <1>1, <2>5, <3>1, <3>2 DEF TInv, RowsOK, Live
    <3>3. CASE i # nextId
      BY <2>4, <3>1, <3>3 DEF TInv, RowsOK, Live
    <3>. QED BY <3>2, <3>3
  <2>. QED BY <2>3, <2>6, <2>7 DEF TInv
<1>. QED BY <1>3, <1>4 DEF CaptureOne, Insert
-----------------------------------------------------------------------------
(* Steps that rewrite existing rows.                                       *)

\* A step rewrites row j in place: the row exists before and after, or
\* neither, and its offset stays.
KeepsRow(j) ==
  /\ txLog'[j].offset = txLog[j].offset
  /\ txLog'[j].status = "none" <=> txLog[j].status = "none"
  /\ capture'[j].offset = capture[j].offset
  /\ capture'[j].status = "none" <=> capture[j].status = "none"
  /\ j >= nextId => txLog'[j] = txLog[j] /\ capture'[j] = capture[j]

LEMMA KeptRows ==
  ASSUME TInv, UNCHANGED <<published, archive, nextId>>, \A j \in Id : KeepsRow(j)
  PROVE  RowsOK'
  BY DEF TInv, RowsOK, KeepsRow, Live

\* A live row has been inserted.
LEMMA LiveRow ==
  ASSUME TInv, NEW i \in Id, Live(i)
  PROVE  i < nextId /\ ~(i >= nextId) /\ txLog[i].status # "none"
<1>1. i < nextId \/ i >= nextId
  BY FieldTypes DEF TInv
<1>2. ~(i >= nextId)
  BY DEF TInv, RowsOK, Live, NoCapture, Row
<1>. QED BY <1>1, <1>2 DEF TInv, RowsOK

\* Recovery rewrites expired PROCESSING rows and no other.
LEMMA RecoveredRows ==
  ASSUME TypeOK
  PROVE  /\ Recovered \in [Id -> CaptureRow]
         /\ \A i \in Id :
              /\ Recovered[i].offset = capture[i].offset
              /\ Recovered[i].attempts = capture[i].attempts
              /\ Recovered[i].timer = capture[i].timer
              /\ \/ Recovered[i] = capture[i]
                 \/ /\ capture[i].status = "PROCESSING" /\ capture[i].timer = "elapsed"
                    /\ Recovered[i].status = "FAILED"
<1>1. ASSUME NEW i \in Id
      PROVE  /\ Row("FAILED", capture[i].offset, capture[i].attempts, "elapsed") \in CaptureRow
             /\ capture[i] \in CaptureRow
  BY FieldTypes, RowType DEF TypeOK, Statuses
<1>2. Recovered \in [Id -> CaptureRow]
  BY <1>1 DEF Recovered
<1>3. ASSUME NEW i \in Id
      PROVE  /\ Recovered[i].offset = capture[i].offset
             /\ Recovered[i].attempts = capture[i].attempts
             /\ Recovered[i].timer = capture[i].timer
             /\ \/ Recovered[i] = capture[i]
                \/ /\ capture[i].status = "PROCESSING" /\ capture[i].timer = "elapsed"
                   /\ Recovered[i].status = "FAILED"
  BY DEF Recovered, Row
<1>. QED BY <1>2, <1>3

\* What ClaimNext does to the row it picks.
Claims(p, i) ==
  /\ i \in Oldest(Eligible(Recovered))
  /\ capture' = [Recovered EXCEPT ![i] =
       Row("PROCESSING", @.offset, Incremented(@.attempts), "waiting")]
  /\ txLog' = [txLog EXCEPT ![i] = Entry("PROCESSING", @.offset, Incremented(@.attempts))]
  /\ job' = [job EXCEPT ![p] = i]

LEMMA ClaimedRow ==
  ASSUME TInv, NEW p \in Processors, NEW i, Claims(p, i)
  PROVE  /\ i \in Id /\ Live(i) /\ capture[i].status \in {"CAPTURED", "FAILED", "PROCESSING"}
         /\ capture'[i] = Row("PROCESSING", capture[i].offset, Incremented(capture[i].attempts), "waiting")
         /\ txLog'[i] = Entry("PROCESSING", txLog[i].offset, Incremented(txLog[i].attempts))
         /\ \A j \in Id \ {i} : capture'[j] = Recovered[j] /\ txLog'[j] = txLog[j]
<1>1. i \in Id /\ Recovered[i].status \in {"CAPTURED", "FAILED"}
  BY DEF Claims, Oldest, Eligible
<1>2. capture[i].status \in {"CAPTURED", "FAILED", "PROCESSING"}
  BY <1>1, RecoveredRows DEF TInv
<1>3. /\ capture'[i] = Row("PROCESSING", Recovered[i].offset, Incremented(Recovered[i].attempts), "waiting")
      /\ txLog'[i] = Entry("PROCESSING", txLog[i].offset, Incremented(txLog[i].attempts))
      /\ \A j \in Id \ {i} : capture'[j] = Recovered[j] /\ txLog'[j] = txLog[j]
  BY <1>1, RecoveredRows DEF Claims, TInv, TypeOK
<1>. QED BY <1>1, <1>2, <1>3, RecoveredRows DEF Live, TInv

LEMMA ClaimNextTInv ==
  ASSUME TInv, NEW p \in Processors, NEW i, Claims(p, i), ClaimNext(p)
  PROVE  TInv' /\ \A j \in Id : KeepsRow(j)
<1>1. i \in Id /\ Live(i)
  BY ClaimedRow
<1>2. \A n \in 0..MaxAttempts : Incremented(n) \in 0..MaxAttempts
  BY BoundsAssumption DEF Incremented
<1>3. /\ Row("PROCESSING", capture[i].offset, Incremented(capture[i].attempts), "waiting") \in CaptureRow
      /\ Entry("PROCESSING", txLog[i].offset, Incremented(txLog[i].attempts)) \in TxRow
  BY <1>1, <1>2, FieldTypes, RowType DEF Statuses, TInv
<1>4. capture' \in [Id -> CaptureRow] /\ txLog' \in [Id -> TxRow]
  <2>1. Recovered[i].offset = capture[i].offset /\ Recovered[i].attempts = capture[i].attempts
    BY <1>1, RecoveredRows DEF TInv
  <2>. QED BY <1>1, <1>3, <2>1, RecoveredRows DEF Claims, TInv, TypeOK
<1>5. TypeOK'
  BY <1>1, <1>4, BoundsAssumption DEF Claims, TInv, TypeOK, ClaimNext, Steps, Id
<1>6. ASSUME NEW j \in Id PROVE KeepsRow(j)
  <2>1. CASE j = i
    <3>1. /\ capture'[j] = Row("PROCESSING", capture[j].offset, Incremented(capture[j].attempts), "waiting")
          /\ txLog'[j] = Entry("PROCESSING", txLog[j].offset, Incremented(txLog[j].attempts))
      BY <2>1, ClaimedRow
    <3>2. capture[j].status # "none" /\ txLog[j].status # "none" /\ ~(j >= nextId)
      BY <1>1, <2>1, LiveRow DEF Live
    <3>. QED BY <3>1, <3>2 DEF KeepsRow, Row, Entry
  <2>2. CASE j # i
    <3>1. capture'[j] = Recovered[j] /\ txLog'[j] = txLog[j]
      BY <2>2, ClaimedRow
    <3>2. j >= nextId => Recovered[j] = capture[j]
      BY RecoveredRows DEF TInv, RowsOK, NoCapture, Row
    <3>. QED BY <3>1, <3>2, RecoveredRows DEF KeepsRow, TInv
  <2>. QED BY <2>1, <2>2
<1>7. RowsOK'
  BY <1>6, KeptRows DEF ClaimNext
<1>8. WorkersOK'
  <2>1. txLog[i].status # "none"
    BY <1>1, LiveRow
  <2>. QED BY <1>1, <1>6, <2>1 DEF Claims, TInv, TypeOK, WorkersOK, ClaimNext, Working, KeepsRow
<1>. QED BY <1>5, <1>6, <1>7, <1>8 DEF TInv

LEMMA FinishTInv ==
  ASSUME TInv, NEW p \in Processors, pc[p] \in Working,
         NEW s \in Statuses, NEW t \in {"none", "waiting", "elapsed"}, Finish(p, s, t)
  PROVE  TInv' /\ \A j \in Id : KeepsRow(j)
<1>1. job[p] \in Id /\ txLog[job[p]].status # "none"
  BY DEF TInv, WorkersOK
<1> DEFINE i == job[p]
<1>2. /\ Row(s, capture[i].offset, capture[i].attempts, t) \in CaptureRow
      /\ Entry(s, txLog[i].offset, txLog[i].attempts) \in TxRow
  BY <1>1, FieldTypes, RowType DEF TInv
<1>3. capture' \in [Id -> CaptureRow] /\ txLog' \in [Id -> TxRow]
  BY <1>1, <1>2 DEF TInv, TypeOK, Finish, SetCapture
<1>4. TypeOK'
  BY <1>3, BoundsAssumption DEF TInv, TypeOK, Finish, Steps
<1>5. ASSUME NEW j \in Id PROVE KeepsRow(j)
  <2>1. ~(i >= nextId)
    BY <1>1 DEF TInv, RowsOK, NoTx, Entry
  <2>2. CASE j = i
    <3>1. txLog'[j] = Entry(s, txLog[j].offset, txLog[j].attempts)
      BY <1>1, <2>2 DEF Finish, TInv, TypeOK
    <3>2. capture'[j] = IF Live(j) THEN Row(s, capture[j].offset, capture[j].attempts, t) ELSE capture[j]
      BY <1>1, <2>2 DEF Finish, SetCapture, TInv, TypeOK
    <3>. QED BY <1>1, <2>1, <2>2, <3>1, <3>2 DEF KeepsRow, Row, Entry, Live, Statuses
  <2>3. CASE j # i
    BY <1>1, <2>3 DEF Finish, SetCapture, TInv, TypeOK, KeepsRow
  <2>. QED BY <2>2, <2>3
<1>6. RowsOK'
  BY <1>5, KeptRows DEF Finish
<1>7. WorkersOK'
  BY <1>5 DEF TInv, TypeOK, WorkersOK, Finish, Working, KeepsRow
<1>. QED BY <1>4, <1>5, <1>6, <1>7 DEF TInv

\* The steps of a processor that touch no table.
Progress(p) ==
  \/ ClaimNothing(p) \/ LoadSucceeds(p) \/ LoadMissing(p) \/ LoadErrs(p)
  \/ CheckSuperseded(p) \/ CompleteRaises(p)

LEMMA ProgressTInv ==
  ASSUME TInv, NEW p \in Processors, Progress(p)
  PROVE  TInv'
<1> USE DEF Progress, ClaimNothing, LoadSucceeds, LoadMissing, LoadErrs, CheckSuperseded, CompleteRaises
<1>1. pc[p] = "load" => JobOffset(p) \in Offsets
  <2> SUFFICES ASSUME pc[p] = "load" PROVE JobOffset(p) \in Offsets
    OBVIOUS
  <2>1. job[p] \in Id /\ txLog[job[p]].status # "none"
    BY DEF TInv, WorkersOK, Working
  <2>2. ~(job[p] >= nextId)
    BY <2>1 DEF TInv, RowsOK, NoTx, Entry
  <2>3. txLog[job[p]].offset \in 1..published
    BY <2>1, <2>2, FieldTypes DEF TInv, RowsOK
  <2>. QED BY <2>3, BoundsAssumption DEF TInv, TypeOK, JobOffset, Offsets
<1>2. delivered' \subseteq Offsets
  BY <1>1 DEF TInv, TypeOK
<1>3. UNCHANGED <<published, checkpoint, capture, txLog, archive, nextId, next, last, job>>
  BY DEF tables
<1>4. faults' \in 0..MaxFaults
  BY BoundsAssumption DEF TInv, TypeOK
<1>5. \E to \in Steps :
        /\ pc' = [pc EXCEPT ![p] = to]
        /\ IF pc[p] = "claim" THEN to = "poll" ELSE pc[p] \in Working /\ to \in Working
  BY DEF Steps, Working
<1>6. TypeOK'
  BY <1>2, <1>3, <1>4, <1>5 DEF TInv, TypeOK
<1>7. WorkersOK'
  BY <1>3, <1>5 DEF TInv, TypeOK, WorkersOK, Working
<1>8. RowsOK'
  BY <1>3 DEF TInv, RowsOK, Live
<1>. QED BY <1>6, <1>7, <1>8 DEF TInv

LEMMA TouchTInv ==
  ASSUME TInv, NEW i \in Id, Elapse(i) \/ OperatorRetry(i)
  PROVE  TInv' /\ \A j \in Id : KeepsRow(j)
<1>1. capture[i].status # "none" \/ capture[i].timer = "waiting"
  BY DEF Elapse, OperatorRetry
<1>2. PICK s \in Statuses \cup {"none"}, t \in {"none", "waiting", "elapsed"} :
        /\ capture' = [capture EXCEPT ![i] = Row(s, @.offset, @.attempts, t)]
        /\ s = "none" <=> capture[i].status = "none"
  BY FieldTypes DEF Elapse, OperatorRetry, TInv, Statuses
<1>3. Row(s, capture[i].offset, capture[i].attempts, t) \in CaptureRow
  BY FieldTypes DEF TInv, Row, CaptureRow
<1>4. UNCHANGED <<published, checkpoint, txLog, archive, nextId, pc, next, last, job, delivered, faults>>
  BY DEF Elapse, OperatorRetry, workers
<1>5. TypeOK'
  BY <1>2, <1>3, <1>4 DEF TInv, TypeOK
<1>6. ASSUME NEW j \in Id PROVE KeepsRow(j)
  <2>1. ~(i >= nextId)
    BY <1>1 DEF TInv, RowsOK, NoCapture, Row
  <2>2. CASE j = i
    <3>1. capture'[j] = Row(s, capture[j].offset, capture[j].attempts, t)
      BY <1>2, <2>2 DEF TInv, TypeOK
    <3>. QED BY <1>2, <1>4, <2>1, <2>2, <3>1 DEF KeepsRow, Row
  <2>3. CASE j # i
    BY <1>2, <1>4, <2>3 DEF TInv, TypeOK, KeepsRow
  <2>. QED BY <2>2, <2>3
<1>7. RowsOK'
  BY <1>4, <1>6, KeptRows
<1>8. WorkersOK'
  BY <1>4 DEF TInv, WorkersOK
<1>. QED BY <1>5, <1>6, <1>7, <1>8 DEF TInv

LEMMA OperatorArchiveTInv ==
  ASSUME TInv, NEW i \in Id, OperatorArchive(i)
  PROVE  TInv'
<1>1. NoCapture \in CaptureRow
  BY BoundsAssumption DEF NoCapture, Row, CaptureRow
<1>2. TypeOK'
  BY <1>1 DEF TInv, TypeOK, OperatorArchive, workers
<1>3. WorkersOK'
  BY DEF TInv, WorkersOK, OperatorArchive, workers
<1>4. i < nextId /\ ~(i >= nextId)
  BY LiveRow DEF OperatorArchive, Live
<1>5. RowsOK'
  <2> SUFFICES ASSUME NEW j \in Id PROVE
        /\ j < nextId => txLog[j].status # "none" /\ txLog[j].offset \in 1..published
        /\ j >= nextId => txLog[j] = NoTx /\ capture'[j] = NoCapture
        /\ Live(j)' => capture'[j].offset = txLog[j].offset
        /\ j \in archive' <=> j < nextId /\ ~Live(j)'
    BY DEF RowsOK, OperatorArchive, workers
  <2>1. CASE j = i
    <3>1. capture'[j] = NoCapture
      BY <2>1 DEF OperatorArchive, TInv, TypeOK
    <3>. QED BY <1>4, <2>1, <3>1 DEF TInv, RowsOK, Live, NoCapture, Row, OperatorArchive
  <2>2. CASE j # i
    <3>1. capture'[j] = capture[j] /\ (j \in archive' <=> j \in archive)
      BY <2>2 DEF OperatorArchive, TInv, TypeOK
    <3>. QED BY <3>1 DEF TInv, RowsOK, Live
  <2>. QED BY <2>1, <2>2
<1>. QED BY <1>2, <1>3, <1>5 DEF TInv
-----------------------------------------------------------------------------
(* Theorem: types.                                                         *)

\* Claiming is the step Claims for some row.
LEMMA ClaimNextRow ==
  ASSUME NEW p \in Processors, ClaimNext(p)
  PROVE  \E i : Claims(p, i)
  BY DEF ClaimNext, Claims

LEMMA NextTInv == TInv /\ [Next]_vars => TInv'
<1> SUFFICES ASSUME TInv, [Next]_vars PROVE TInv'
  OBVIOUS
<1>0. MaxFaults \in Nat /\ faults \in 0..MaxFaults /\ checkpoint \in 0..published /\ 0 \in 0..published
  BY BoundsAssumption DEF TInv, TypeOK
<1>1. CASE Publish
  BY <1>1, PublishTInv
<1>2. ASSUME NEW p \in Processors, CaptureStep(p) PROVE TInv'
  <2>1. CASE Read(p)
    BY <1>0, <2>1, StartBatchTInv DEF Read
  <2>2. CASE CaptureOne(p)
    BY <2>2, CaptureOneTInv
  <2>3. CASE RejectMessage(p)
    BY <1>0, <2>3, RestartTInv DEF RejectMessage
  <2>4. CASE SaveCheckpoint(p)
    BY <2>4, SaveCheckpointTInv
  <2>. QED BY <1>2, <2>1, <2>2, <2>3, <2>4 DEF CaptureStep
<1>3. ASSUME NEW p \in Processors, ExecuteStep(p) PROVE TInv'
  <2>1. CASE ClaimNext(p)
    BY <2>1, ClaimNextRow, ClaimNextTInv
  <2>2. CASE Complete(p)
    BY <2>2, FinishTInv DEF Complete, Working, Statuses
  <2>3. CASE Fail(p)
    BY <2>3, FinishTInv DEF Fail, Working, Statuses
  <2>4. CASE Progress(p)
    BY <2>4, ProgressTInv
  <2>. QED BY <1>3, <2>1, <2>2, <2>3, <2>4 DEF ExecuteStep, Progress
<1>4. ASSUME NEW p \in Processors, Fault(p) PROVE TInv'
  <2>1. CASE ReadExpired(p)
    <3>1. faults' \in 0..MaxFaults
      BY <1>0, <2>1 DEF ReadExpired
    <3>. QED BY <1>0, <2>1, <3>1, StartBatchTInv DEF ReadExpired
  <2>2. CASE CompleteRaises(p)
    BY <2>2, ProgressTInv DEF Progress
  <2>3. CASE Crash(p)
    <3>1. faults' \in 0..MaxFaults
      BY <1>0, <2>3 DEF Crash
    <3>. QED BY <2>3, <3>1, RestartTInv DEF Crash
  <2>. QED BY <1>4, <2>1, <2>2, <2>3 DEF Fault
<1>5. ASSUME NEW i \in Id, Elapse(i) \/ Operator(i) PROVE TInv'
  BY <1>5, TouchTInv, OperatorArchiveTInv DEF Operator
<1>6. CASE UNCHANGED vars
  BY <1>6 DEF vars, tables, workers, TInv, TypeOK, WorkersOK, RowsOK, Live
<1>. QED BY <1>1, <1>2, <1>3, <1>4, <1>5, <1>6 DEF Next

\* The variables keep their types, and the stored cursor never passes the end
\* of the stream.
THEOREM SpecTypeOK == Spec => []TypeOK
<1>1. Init => TInv
  BY InitTInv
<1>2. TInv /\ [Next]_vars => TInv'
  BY NextTInv
<1>3. TInv => TypeOK
  BY DEF TInv
<1>. QED BY <1>1, <1>2, <1>3, PTL DEF Spec

-----------------------------------------------------------------------------
(* Theorem: nothing is skipped.                                            *)

\* Rows are inserted in stream order: every earlier offset has a lower id.
InsertedInOrder ==
  \A j \in Id : \A o \in 1..(txLog[j].offset - 1) :
    \E i \in Id : i < j /\ txLog[i].offset = o

\* A worker captures only what comes right after captured messages.
BatchBegunInOrder ==
  \A p \in Processors : pc[p] = "capture" => \A o \in 1..(next[p] - 1) : Captured(o)

OrderInv == InsertedInOrder /\ BatchBegunInOrder /\ NoMessageSkipped

\* A step that moves neither the cursor nor a batch, nor inserts a row.
Quiet ==
  /\ checkpoint' = checkpoint
  /\ nextId' = nextId
  /\ archive \subseteq archive'
  /\ \A j \in Id : txLog'[j].offset = txLog[j].offset
  /\ \A q \in Processors : pc'[q] = "capture" => pc[q] = "capture" /\ next'[q] = next[q]

LEMMA QuietOrderInv ==
  ASSUME OrderInv, Quiet
  PROVE  OrderInv'
<1>1. \A o : Captured(o)' <=> Captured(o)
  BY DEF Quiet, Captured
<1>2. InsertedInOrder'
  BY DEF OrderInv, InsertedInOrder, Quiet
<1>3. BatchBegunInOrder' /\ NoMessageSkipped'
  BY <1>1 DEF OrderInv, BatchBegunInOrder, NoMessageSkipped, Quiet
<1>. QED BY <1>2, <1>3 DEF OrderInv

LEMMA QuietSteps ==
  ASSUME TInv, [Next]_vars,
         ~(\E p \in Processors : \/ Read(p) \/ ReadExpired(p)
                                 \/ CaptureOne(p) \/ SaveCheckpoint(p))
  PROVE  Quiet
<1>1. CASE Publish
  BY <1>1 DEF Publish, tables, workers, Quiet
<1>2. ASSUME NEW p \in Processors, Restart(p) PROVE Quiet
  BY <1>2 DEF Restart, tables, Quiet, TInv, TypeOK
<1>3. ASSUME NEW p \in Processors, ClaimNext(p) PROVE Quiet
  <2>1. PICK i : Claims(p, i)
    BY <1>3, ClaimNextRow
  <2>2. \A j \in Id : KeepsRow(j)
    BY <1>3, <2>1, ClaimNextTInv
  <2>. QED BY <1>3, <2>2 DEF ClaimNext, KeepsRow, Quiet, TInv, TypeOK
<1>4. ASSUME NEW p \in Processors, Complete(p) \/ Fail(p) PROVE Quiet
  <2>1. PICK s \in Statuses, t \in {"none", "waiting"} : Finish(p, s, t)
    BY <1>4 DEF Complete, Fail, Statuses
  <2>2. \A j \in Id : KeepsRow(j)
    BY <1>4, <2>1, FinishTInv DEF Complete, Fail, Working
  <2>. QED BY <2>1, <2>2 DEF Finish, KeepsRow, Quiet, TInv, TypeOK
<1>5. ASSUME NEW p \in Processors, Progress(p) PROVE Quiet
  BY <1>5 DEF Progress, ClaimNothing, LoadSucceeds, LoadMissing, LoadErrs, CheckSuperseded,
    CompleteRaises, tables, Quiet, TInv, TypeOK
<1>6. ASSUME NEW i \in Id, Elapse(i) \/ Operator(i) PROVE Quiet
  BY <1>6 DEF Elapse, Operator, OperatorRetry, OperatorArchive, workers, Quiet
<1>7. CASE UNCHANGED vars
  BY <1>7 DEF vars, tables, workers, Quiet
<1>. QED
  BY <1>1, <1>2, <1>3, <1>4, <1>5, <1>6, <1>7
  DEF Next, CaptureStep, ExecuteStep, Fault, RejectMessage, Crash, Progress

LEMMA StartBatchOrderInv ==
  ASSUME TInv, OrderInv, NEW p \in Processors, NEW from \in {0, checkpoint}, StartBatch(p, from)
  PROVE  OrderInv'
<1>1. \A o \in 1..from : Captured(o)
  BY DEF OrderInv, NoMessageSkipped
<1>2. UNCHANGED <<checkpoint, txLog>> /\ next'[p] = from + 1
  BY DEF StartBatch, tables, TInv, TypeOK
<1>3. \A o : Captured(o)' <=> Captured(o)
  BY <1>2 DEF Captured
<1>4. BatchBegunInOrder'
  <2> SUFFICES ASSUME NEW q \in Processors, pc'[q] = "capture", NEW o \in 1..(next'[q] - 1)
               PROVE  Captured(o)
    BY <1>3 DEF BatchBegunInOrder
  <2>1. CASE q = p
    BY <1>1, <1>2, <2>1 DEF TInv, TypeOK
  <2>2. CASE q # p
    BY <2>2 DEF StartBatch, OrderInv, BatchBegunInOrder, TInv, TypeOK
  <2>. QED BY <2>1, <2>2
<1>. QED BY <1>2, <1>3, <1>4 DEF OrderInv, InsertedInOrder, NoMessageSkipped

LEMMA SaveCheckpointOrderInv ==
  ASSUME TInv, OrderInv, NEW p \in Processors, SaveCheckpoint(p)
  PROVE  OrderInv'
<1>1. next[p] - 1 = last[p]
  BY DEF SaveCheckpoint, TInv, TypeOK, WorkersOK
<1>2. \A o \in 1..last[p] : Captured(o)
  BY <1>1 DEF SaveCheckpoint, OrderInv, BatchBegunInOrder
<1>3. \A o : Captured(o)' <=> Captured(o)
  BY DEF SaveCheckpoint, Captured
<1>4. BatchBegunInOrder'
  BY <1>3 DEF SaveCheckpoint, OrderInv, BatchBegunInOrder, TInv, TypeOK
<1>. QED
  BY <1>2, <1>3, <1>4 DEF SaveCheckpoint, OrderInv, InsertedInOrder, NoMessageSkipped

LEMMA CaptureOneOrderInv ==
  ASSUME TInv, OrderInv, NEW p \in Processors, CaptureOne(p)
  PROVE  OrderInv'
<1>0. next[p] \in 1..published /\ next'[p] = next[p] + 1
  BY BoundsAssumption DEF CaptureOne, TInv, TypeOK, WorkersOK
<1> PICK n \in 1..published : n = next[p]
  BY <1>0
<1>1. \A o \in 1..(next[p] - 1) : Captured(o)
  BY DEF CaptureOne, OrderInv, BatchBegunInOrder
<1>2. /\ UNCHANGED <<checkpoint, pc>>
      /\ \A q \in Processors \ {p} : next'[q] = next[q]
  BY DEF CaptureOne, TInv, TypeOK
<1>3. Captured(n)' /\ \A o : Captured(o) => Captured(o)' \/ o = 0
  <2>1. CASE OffsetTaken(next[p]) /\ UNCHANGED <<capture, txLog, nextId>>
    <3>1. PICK i \in Id : Live(i) /\ capture[i].offset = next[p]
      BY <2>1 DEF OffsetTaken
    <3>. QED BY <2>1, <3>1 DEF Captured, TInv, RowsOK
  <2>2. CASE Insert(p)
    <3>1. txLog[nextId].offset = 0
      BY <2>2, FieldTypes DEF Insert, TInv, RowsOK, NoTx, Entry
    <3>2. txLog'[nextId].offset = next[p] /\ \A i \in Id \ {nextId} : txLog'[i] = txLog[i]
      BY <2>2 DEF Insert, TInv, TypeOK, Entry
    <3>3. ASSUME NEW o, Captured(o), o # 0 PROVE Captured(o)'
      BY <3>1, <3>2, <3>3 DEF Captured
    <3>. QED BY <2>2, <3>2, <3>3 DEF Captured, Insert
  <2>. QED BY <2>1, <2>2 DEF CaptureOne, Insert
<1>4. BatchBegunInOrder'
  <2> SUFFICES ASSUME NEW q \in Processors, pc[q] = "capture", NEW o \in 1..(next'[q] - 1)
               PROVE  Captured(o)'
    BY <1>2 DEF BatchBegunInOrder
  <2>1. CASE q = p
    <3>1. o \in 1..(next[p] - 1) \/ o = n
      BY <1>0, <2>1
    <3>. QED BY <1>1, <1>3, <3>1
  <2>2. CASE q # p
    BY <1>2, <1>3, <2>2 DEF OrderInv, BatchBegunInOrder
  <2>. QED BY <2>1, <2>2
<1>5. NoMessageSkipped'
  BY <1>2, <1>3 DEF OrderInv, NoMessageSkipped
<1>6. InsertedInOrder'
  <2>1. CASE UNCHANGED <<capture, txLog, nextId>>
    BY <2>1 DEF OrderInv, InsertedInOrder
  <2>2. CASE Insert(p)
    <3> SUFFICES ASSUME NEW j \in Id, NEW o \in 1..(txLog'[j].offset - 1)
                 PROVE  \E i \in Id : i < j /\ txLog'[i].offset = o
      BY DEF InsertedInOrder
    <3>1. nextId \in Id /\ txLog[nextId].offset = 0
      BY <2>2, FieldTypes DEF Insert, TInv, RowsOK, NoTx, Entry
    <3>2. txLog'[nextId].offset = next[p] /\ \A i \in Id \ {nextId} : txLog'[i] = txLog[i]
      BY <2>2 DEF Insert, TInv, TypeOK, Entry
    <3>3. CASE j = nextId
      <4>1. PICK i \in Id : txLog[i].offset = o
        BY <1>1, <3>2, <3>3 DEF Captured
      <4>2. i < nextId
        BY <4>1, FieldTypes DEF TInv, RowsOK, NoTx, Entry
      <4>3. i # nextId
        BY <4>2, FieldTypes DEF TInv
      <4>. QED BY <3>2, <3>3, <4>1, <4>2, <4>3
    <3>4. CASE j # nextId
      <4>1. PICK i \in Id : i < j /\ txLog[i].offset = o
        BY <3>2, <3>4 DEF OrderInv, InsertedInOrder
      <4>2. i # nextId
        BY <3>1, <4>1
      <4>. QED BY <3>2, <4>1, <4>2
    <3>. QED BY <3>3, <3>4
  <2>. QED BY <2>1, <2>2 DEF CaptureOne, Insert
<1>. QED BY <1>4, <1>5, <1>6 DEF OrderInv

LEMMA NextOrderInv == TInv /\ OrderInv /\ [Next]_vars => OrderInv'
<1> SUFFICES ASSUME TInv, OrderInv, [Next]_vars PROVE OrderInv'
  OBVIOUS
<1>1. ASSUME NEW p \in Processors, Read(p) \/ ReadExpired(p) PROVE OrderInv'
  BY <1>1, StartBatchOrderInv DEF Read, ReadExpired
<1>2. ASSUME NEW p \in Processors, CaptureOne(p) PROVE OrderInv'
  BY <1>2, CaptureOneOrderInv
<1>3. ASSUME NEW p \in Processors, SaveCheckpoint(p) PROVE OrderInv'
  BY <1>3, SaveCheckpointOrderInv
<1>. QED BY <1>1, <1>2, <1>3, QuietSteps, QuietOrderInv

LEMMA InitOrderInv == Init => OrderInv
  BY DEF Init, OrderInv, InsertedInOrder, BatchBegunInOrder, NoMessageSkipped, NoTx, Entry

\* The stored cursor never passes a message that was not durably captured.
THEOREM SpecNoMessageSkipped == Spec => []NoMessageSkipped
<1>1. Init => TInv /\ OrderInv
  BY InitTInv, InitOrderInv
<1>2. TInv /\ OrderInv /\ [Next]_vars => (TInv /\ OrderInv)'
  BY NextTInv, NextOrderInv
<1>3. OrderInv => NoMessageSkipped
  BY DEF OrderInv
<1>. QED BY <1>1, <1>2, <1>3, PTL DEF Spec
-----------------------------------------------------------------------------
(* Theorem: replays capture a message again only after it was archived.    *)

LEMMA NextRecaptured ==
  TInv /\ RecapturedOnlyIfArchived /\ [Next]_vars => RecapturedOnlyIfArchived'
<1> SUFFICES ASSUME TInv, RecapturedOnlyIfArchived, [Next]_vars
             PROVE  RecapturedOnlyIfArchived'
  OBVIOUS
<1>1. CASE Quiet
  BY <1>1 DEF Quiet, RecapturedOnlyIfArchived
<1>2. ASSUME NEW p \in Processors, CaptureOne(p) PROVE RecapturedOnlyIfArchived'
  <2>1. CASE UNCHANGED <<capture, txLog, nextId>>
    BY <1>2, <2>1 DEF CaptureOne, RecapturedOnlyIfArchived
  <2>2. CASE Insert(p) /\ ~OffsetTaken(next[p])
    <3> SUFFICES ASSUME NEW i \in Id, NEW j \in Id, i < j,
                        txLog'[i].offset = txLog'[j].offset, txLog'[j].offset # 0
                 PROVE  i \in archive
      BY <1>2 DEF CaptureOne, RecapturedOnlyIfArchived
    <3>1. txLog'[nextId].offset = next[p] /\ \A k \in Id \ {nextId} : txLog'[k] = txLog[k]
      BY <2>2 DEF Insert, TInv, TypeOK, Entry
    <3>2. i < nextId /\ j <= nextId
      <4>1. \A k \in Id : k > nextId => txLog'[k].offset = 0
        BY <3>1, FieldTypes DEF TInv, RowsOK, NoTx, Entry
      <4>2. i <= nextId /\ j <= nextId
        BY <4>1, FieldTypes DEF TInv
      <4>. QED BY <4>2, FieldTypes DEF TInv
    <3>3. CASE j = nextId
      <4>1. txLog[i].offset = next[p]
        BY <3>1, <3>2, <3>3, FieldTypes DEF TInv
      <4>2. ~Live(i)
        BY <2>2, <4>1 DEF OffsetTaken, TInv, RowsOK
      <4>. QED BY <3>2, <4>2 DEF TInv, RowsOK
    <3>4. CASE j # nextId
      BY <3>1, <3>2, <3>4, FieldTypes DEF RecapturedOnlyIfArchived, TInv
    <3>. QED BY <3>3, <3>4
  <2>. QED BY <1>2, <2>1, <2>2 DEF CaptureOne, Insert
<1>3. ASSUME NEW p \in Processors, Read(p) \/ ReadExpired(p) \/ SaveCheckpoint(p)
      PROVE  RecapturedOnlyIfArchived'
  BY <1>3 DEF Read, ReadExpired, StartBatch, SaveCheckpoint, tables, RecapturedOnlyIfArchived
<1>. QED BY <1>1, <1>2, <1>3, QuietSteps

\* As long as nothing is archived, the replay of a stream from its trim
\* horizon captures no message a second time.
THEOREM SpecRecaptured == Spec => []RecapturedOnlyIfArchived
<1>1. Init => TInv /\ RecapturedOnlyIfArchived
  BY InitTInv DEF Init, RecapturedOnlyIfArchived, NoTx, Entry
<1>2. TInv /\ RecapturedOnlyIfArchived /\ [Next]_vars => (TInv /\ RecapturedOnlyIfArchived)'
  BY NextTInv, NextRecaptured
<1>. QED BY <1>1, <1>2, PTL DEF Spec

-----------------------------------------------------------------------------
(* Theorems: the transaction log, and the order of first attempts.         *)

\* Row i of the capture table and its entry in the log: they agree on the
\* attempts and on completion, and whatever was attempted is counted.
RowAgrees(i) ==
  /\ Live(i) =>
       /\ txLog[i].attempts = capture[i].attempts
       /\ txLog[i].status = "COMPLETED" <=> capture[i].status = "COMPLETED"
       /\ capture[i].status = "PROCESSING" => txLog[i].status = "PROCESSING"
       /\ txLog[i].status = "CAPTURED" => capture[i].status = "CAPTURED"
       /\ capture[i].status # "CAPTURED" => capture[i].attempts > 0
       /\ capture[i].status = "CAPTURED" => capture[i].timer # "waiting"
  /\ i \in archive => txLog[i].attempts > 0

LogInv == \A i \in Id : RowAgrees(i)

\* Attempts are made in id order: no row is attempted before a lower one.
AttemptedInOrder ==
  \A i, j \in Id : i < j /\ txLog[j].attempts > 0 => txLog[i].attempts > 0

\* What a processor executes counts as attempted.
JobsAttempted == \A p \in Processors : pc[p] \in Working => txLog[job[p]].attempts > 0

AttemptInv == LogInv /\ AttemptedInOrder /\ JobsAttempted

\* No processor claims a row.
NoClaim == \A p \in Processors : pc'[p] \in Working => pc[p] \in Working /\ job'[p] = job[p]

\* A step that leaves the tables' contents alone.
LEMMA SameTables ==
  ASSUME AttemptInv, UNCHANGED <<capture, txLog, archive>>, NoClaim
  PROVE  AttemptInv'
  BY DEF AttemptInv, LogInv, RowAgrees, AttemptedInOrder, JobsAttempted, NoClaim, Live

\* A step that rewrites rows but counts no attempt.
LEMMA NoAttempt ==
  ASSUME TInv, AttemptInv, \A i \in Id : txLog'[i].attempts = txLog[i].attempts,
         \A i \in Id : RowAgrees(i)', NoClaim
  PROVE  AttemptInv'
<1>1. LogInv' /\ AttemptedInOrder'
  BY DEF AttemptInv, LogInv, AttemptedInOrder
<1>2. JobsAttempted'
  BY DEF AttemptInv, JobsAttempted, NoClaim, TInv, WorkersOK
<1>. QED BY <1>1, <1>2 DEF AttemptInv

LEMMA CaptureOneAttemptInv ==
  ASSUME TInv, AttemptInv, NEW p \in Processors, CaptureOne(p)
  PROVE  AttemptInv'
<1>0. NoClaim
  BY DEF CaptureOne, NoClaim
<1>1. CASE UNCHANGED <<capture, txLog, nextId>>
  BY <1>0, <1>1, SameTables DEF CaptureOne
<1>2. CASE Insert(p)
  <2>1. /\ txLog'[nextId] = Entry("CAPTURED", next[p], 0)
        /\ capture'[nextId] = Row("CAPTURED", next[p], 0, "none")
        /\ \A i \in Id \ {nextId} : txLog'[i] = txLog[i] /\ capture'[i] = capture[i]
    BY <1>2 DEF Insert, TInv, TypeOK
  <2>2. archive' = archive /\ nextId \notin archive /\ txLog[nextId].attempts = 0
    BY <1>2, FieldTypes DEF CaptureOne, Insert, TInv, RowsOK, NoTx, Entry
  <2>3. ASSUME NEW i \in Id PROVE RowAgrees(i)' /\ txLog'[i].attempts = txLog[i].attempts
    <3>1. CASE i = nextId
      BY <2>1, <2>2, <3>1 DEF RowAgrees, Live, Row, Entry
    <3>2. CASE i # nextId
      BY <2>1, <2>2, <3>2 DEF AttemptInv, LogInv, RowAgrees, Live
    <3>. QED BY <3>1, <3>2
  <2>. QED BY <1>0, <2>3, NoAttempt
<1>. QED BY <1>1, <1>2 DEF CaptureOne, Insert

LEMMA FinishAttemptInv ==
  ASSUME TInv, AttemptInv, NEW p \in Processors, pc[p] \in Working,
         NEW s \in {"COMPLETED", "FAILED"}, NEW t \in {"none", "waiting"}, Finish(p, s, t)
  PROVE  AttemptInv'
<1> DEFINE i == job[p]
<1>1. i \in Id /\ archive' = archive /\ txLog[i].attempts > 0
  BY DEF TInv, WorkersOK, Finish, AttemptInv, JobsAttempted
<1>2. /\ txLog'[i] = Entry(s, txLog[i].offset, txLog[i].attempts)
      /\ capture'[i] = IF Live(i) THEN Row(s, capture[i].offset, capture[i].attempts, t)
                                  ELSE capture[i]
      /\ \A j \in Id \ {i} : txLog'[j] = txLog[j] /\ capture'[j] = capture[j]
  BY <1>1 DEF Finish, SetCapture, TInv, TypeOK
<1>3. ASSUME NEW j \in Id PROVE RowAgrees(j)' /\ txLog'[j].attempts = txLog[j].attempts
  <2>1. CASE j = i
    BY <1>1, <1>2, <2>1 DEF AttemptInv, LogInv, RowAgrees, Live, Row, Entry
  <2>2. CASE j # i
    BY <1>1, <1>2, <2>2 DEF AttemptInv, LogInv, RowAgrees, Live
  <2>. QED BY <2>1, <2>2
<1>4. NoClaim
  BY DEF Finish, NoClaim, TInv, TypeOK, Working
<1>. QED BY <1>3, <1>4, NoAttempt

LEMMA RowActionAttemptInv ==
  ASSUME TInv, AttemptInv, NEW i \in Id, Elapse(i) \/ Operator(i)
  PROVE  AttemptInv'
<1>1. NoClaim /\ txLog' = txLog
  BY DEF Elapse, Operator, OperatorRetry, OperatorArchive, workers, NoClaim
<1>2. \A j \in Id \ {i} : capture'[j] = capture[j] /\ (j \in archive' <=> j \in archive)
  BY DEF Elapse, Operator, OperatorRetry, OperatorArchive, TInv, TypeOK
<1>3. RowAgrees(i)'
  <2>1. CASE Elapse(i)
    <3>1. capture'[i] = Row(capture[i].status, capture[i].offset, capture[i].attempts, "elapsed")
      BY <2>1 DEF Elapse, TInv, TypeOK
    <3>. QED BY <2>1, <3>1 DEF Elapse, AttemptInv, LogInv, RowAgrees, Live, Row
  <2>2. CASE OperatorRetry(i)
    <3>1. capture'[i] = Row("CAPTURED", capture[i].offset, capture[i].attempts, "none")
      BY <2>2 DEF OperatorRetry, TInv, TypeOK
    <3>. QED BY <2>2, <3>1 DEF OperatorRetry, AttemptInv, LogInv, RowAgrees, Live, Row
  <2>3. CASE OperatorArchive(i)
    <3>1. capture'[i] = NoCapture
      BY <2>3 DEF OperatorArchive, TInv, TypeOK
    <3>. QED
      BY <2>3, <3>1 DEF OperatorArchive, AttemptInv, LogInv, RowAgrees, Live, NoCapture, Row
  <2>. QED BY <2>1, <2>2, <2>3 DEF Operator
<1>4. ASSUME NEW j \in Id PROVE RowAgrees(j)'
  <2>1. CASE j # i
    BY <1>1, <1>2, <2>1 DEF AttemptInv, LogInv, RowAgrees, Live
  <2>. QED BY <1>3, <2>1
<1>. QED BY <1>1, <1>4, NoAttempt

LEMMA ClaimNextAttemptInv ==
  ASSUME TInv, AttemptInv, NEW p \in Processors, NEW i, Claims(p, i), ClaimNext(p)
  PROVE  AttemptInv'
<1>1. /\ i \in Id /\ Live(i) /\ archive' = archive
      /\ capture'[i] = Row("PROCESSING", capture[i].offset, Incremented(capture[i].attempts), "waiting")
      /\ txLog'[i] = Entry("PROCESSING", txLog[i].offset, Incremented(txLog[i].attempts))
      /\ \A j \in Id \ {i} : capture'[j] = Recovered[j] /\ txLog'[j] = txLog[j]
  BY ClaimedRow DEF ClaimNext
<1>2. \A n \in 0..MaxAttempts : Incremented(n) > 0
  BY BoundsAssumption DEF Incremented
<1>3. txLog[i].attempts = capture[i].attempts /\ i \notin archive
  BY <1>1 DEF AttemptInv, LogInv, RowAgrees, TInv, RowsOK
<1>4. txLog'[i].attempts > 0 /\ RowAgrees(i)'
  <2>1. Incremented(capture[i].attempts) > 0
    BY <1>1, <1>2, FieldTypes DEF TInv
  <2>. QED BY <1>1, <1>3, <2>1 DEF RowAgrees, Row, Entry, Live
<1>5. LogInv'
  <2>1. ASSUME NEW j \in Id, j # i PROVE RowAgrees(j)'
    <3>1. capture'[j] = Recovered[j] /\ txLog'[j] = txLog[j]
      BY <1>1, <2>1
    <3>2. CASE Recovered[j] = capture[j]
      BY <1>1, <3>1, <3>2 DEF AttemptInv, LogInv, RowAgrees, Live
    <3>3. CASE /\ capture[j].status = "PROCESSING" /\ capture[j].timer = "elapsed"
               /\ Recovered[j].status = "FAILED"
      BY <1>1, <3>1, <3>3, RecoveredRows DEF AttemptInv, LogInv, RowAgrees, Live, TInv
    <3>. QED BY <3>2, <3>3, RecoveredRows DEF TInv
  <2>. QED BY <1>4, <2>1 DEF LogInv
<1>6. AttemptedInOrder'
  <2>1. ASSUME NEW k \in Id, k < i PROVE txLog[k].attempts > 0
    <3>1. k \notin Eligible(Recovered)
      BY <1>1, <2>1, FieldTypes DEF Claims, Oldest, TInv
    <3>2. k < nextId
      BY <1>1, <2>1, LiveRow, FieldTypes DEF TInv
    <3>3. CASE Live(k)
      <4>1. capture[k].status # "CAPTURED"
        BY <3>1, <3>3, RecoveredRows, FieldTypes DEF Eligible, AttemptInv, LogInv, RowAgrees, TInv
      <4>. QED BY <3>3, <4>1 DEF AttemptInv, LogInv, RowAgrees
    <3>4. CASE ~Live(k)
      BY <3>2, <3>4 DEF AttemptInv, LogInv, RowAgrees, TInv, RowsOK
    <3>. QED BY <3>3, <3>4
  <2>2. \A k \in Id \ {i} : txLog'[k].attempts = txLog[k].attempts
    BY <1>1
  <2>. QED BY <1>4, <2>1, <2>2 DEF AttemptInv, AttemptedInOrder
<1>7. JobsAttempted'
  <2>1. \A k \in Id : txLog[k].attempts > 0 => txLog'[k].attempts > 0
    BY <1>1, <1>4
  <2>2. \A q \in Processors : q # p => pc'[q] = pc[q] /\ job'[q] = job[q]
    BY DEF Claims, ClaimNext, TInv, TypeOK
  <2>3. job'[p] = i
    BY DEF Claims, TInv, TypeOK
  <2>. QED BY <1>4, <2>1, <2>2, <2>3 DEF JobsAttempted, AttemptInv, TInv, WorkersOK
<1>. QED BY <1>5, <1>6, <1>7 DEF AttemptInv

LEMMA NextAttemptInv == TInv /\ AttemptInv /\ [Next]_vars => AttemptInv'
<1> SUFFICES ASSUME TInv, AttemptInv, [Next]_vars PROVE AttemptInv'
  OBVIOUS
<1>1. ASSUME NEW p \in Processors, CaptureOne(p) PROVE AttemptInv'
  BY <1>1, CaptureOneAttemptInv
<1>2. ASSUME NEW p \in Processors, ClaimNext(p) PROVE AttemptInv'
  BY <1>2, ClaimNextRow, ClaimNextAttemptInv
<1>3. ASSUME NEW p \in Processors, Complete(p) \/ Fail(p) PROVE AttemptInv'
  BY <1>3, FinishAttemptInv DEF Complete, Fail, Working
<1>4. ASSUME NEW i \in Id, Elapse(i) \/ Operator(i) PROVE AttemptInv'
  BY <1>4, RowActionAttemptInv
<1>5. ASSUME NEW p \in Processors,
             \/ Read(p) \/ ReadExpired(p) \/ RejectMessage(p) \/ Crash(p) \/ SaveCheckpoint(p)
             \/ Progress(p)
      PROVE  AttemptInv'
  <2>1. NoClaim
    BY <1>5 DEF Read, ReadExpired, StartBatch, RejectMessage, Crash, Restart, SaveCheckpoint, Progress,
      ClaimNothing, LoadSucceeds, LoadMissing, LoadErrs, CheckSuperseded, CompleteRaises, tables,
      NoClaim, TInv, TypeOK, Working
  <2>2. UNCHANGED <<capture, txLog, archive>>
    BY <1>5 DEF Read, ReadExpired, StartBatch, RejectMessage, Crash, Restart, SaveCheckpoint, Progress,
      ClaimNothing, LoadSucceeds, LoadMissing, LoadErrs, CheckSuperseded, CompleteRaises, tables
  <2>. QED BY <2>1, <2>2, SameTables
<1>6. CASE Publish \/ UNCHANGED vars
  BY <1>6, SameTables DEF Publish, vars, tables, workers, NoClaim
<1>. QED
  BY <1>1, <1>2, <1>3, <1>4, <1>5, <1>6 DEF Next, CaptureStep, ExecuteStep, Fault, Progress

LEMMA InitAttemptInv == Init => AttemptInv
  BY DEF Init, AttemptInv, LogInv, RowAgrees, AttemptedInOrder, JobsAttempted, Live, Working,
    NoCapture, NoTx, Row, Entry

\* The transaction log tells which captured messages are completed, and is
\* never behind in the number of attempts.
THEOREM SpecTxLog == Spec => []TxLogTellsCompletion
<1>1. Init => TInv /\ AttemptInv
  BY InitTInv, InitAttemptInv
<1>2. TInv /\ AttemptInv /\ [Next]_vars => (TInv /\ AttemptInv)'
  BY NextTInv, NextAttemptInv
<1>3. TInv /\ AttemptInv => TxLogTellsCompletion
  BY DEF TInv, RowsOK, AttemptInv, LogInv, RowAgrees, TxLogTellsCompletion
<1>. QED BY <1>1, <1>2, <1>3, PTL DEF Spec

\* A message is first attempted only after every message before it.
THEOREM SpecFirstAttempts == Spec => []FirstAttemptsInOrder
<1>1. Init => TInv /\ OrderInv /\ AttemptInv
  BY InitTInv, InitOrderInv, InitAttemptInv
<1>2. TInv /\ OrderInv /\ AttemptInv /\ [Next]_vars => (TInv /\ OrderInv /\ AttemptInv)'
  BY NextTInv, NextOrderInv, NextAttemptInv
<1>3. TInv /\ OrderInv /\ AttemptInv => FirstAttemptsInOrder
  <2> SUFFICES ASSUME TInv, OrderInv, AttemptInv, NEW j \in Id, txLog[j].attempts > 0,
                      NEW o \in 1..(txLog[j].offset - 1)
               PROVE  \E i \in 1..(j - 1) : txLog[i].offset = o /\ txLog[i].attempts > 0
    BY DEF FirstAttemptsInOrder
  <2>1. PICK i \in Id : i < j /\ txLog[i].offset = o
    BY DEF OrderInv, InsertedInOrder
  <2>2. txLog[i].attempts > 0
    BY <2>1 DEF AttemptInv, AttemptedInOrder
  <2>3. i \in 1..(j - 1)
    BY <2>1, BoundsAssumption DEF Id
  <2>. QED BY <2>1, <2>2, <2>3
<1>. QED BY <1>1, <1>2, <1>3, PTL DEF Spec
-----------------------------------------------------------------------------
(* MessageStore as its users see it: what counts as completed was handled, *)
(* whatever the processors do; and with ONE processor for the partition,   *)
(* however often it crashes, the store implements the at-least-once queue  *)
(* EventQueue.                                                             *)

\* Nobody else is assigned the partition.
OneProcessor == \A p, q \in Processors : p = q

-----------------------------------------------------------------------------
(* Theorem: what is completed was handled.                                 *)

\* The loader executed the message, or a captured delete makes it pointless.
Handled(o) ==
  \/ o \in delivered
  \/ IsLoad(o) /\ \E d \in Offsets : Captured(d) /\ IsLaterDelete(o, d)

\* What a processor is about to complete was handled.
JobsHandled ==
  \A p \in Processors : pc[p] \in {"loaded", "superseded"} => Handled(JobOffset(p))

HandledInv == CompletedIsHandled /\ JobsHandled

\* An offset once handled stays so, because neither the entries of the log nor
\* the history of executions is ever removed.
Keeps == delivered \subseteq delivered' /\ \A o \in Offsets : Captured(o) => Captured(o)'

LEMMA HandledStays ==
  ASSUME Keeps, NEW o, Handled(o)
  PROVE  Handled(o)'
  BY DEF Keeps, Handled, IsLoad, IsLaterDelete

\* The entry of the row that a processor executes holds a message.
LEMMA JobRow ==
  ASSUME TInv, NEW p \in Processors, pc[p] \in Working
  PROVE  /\ job[p] \in Id /\ txLog[job[p]].status # "none"
         /\ JobOffset(p) \in Offsets /\ Captured(JobOffset(p))
<1>1. job[p] \in Id /\ txLog[job[p]].status # "none"
  BY DEF TInv, WorkersOK
<1>2. ~(job[p] >= nextId)
  BY <1>1 DEF TInv, RowsOK, NoTx, Entry
<1>3. txLog[job[p]].offset \in 1..published
  BY <1>1, <1>2, FieldTypes DEF TInv, RowsOK
<1>4. JobOffset(p) \in Offsets
  BY <1>3, BoundsAssumption DEF TInv, TypeOK, JobOffset, Offsets
<1>5. Captured(JobOffset(p))
  BY <1>1 DEF Captured, JobOffset
<1>. QED BY <1>1, <1>4, <1>5

\* Inserting a row leaves the other entries alone; the new one is not complete.
LEMMA InsertedEntry ==
  ASSUME TInv, NEW p \in Processors, Insert(p)
  PROVE  /\ nextId \in Id /\ txLog[nextId].status = "none" /\ txLog[nextId].offset = 0
         /\ txLog'[nextId].status = "CAPTURED" /\ txLog'[nextId].offset = next[p]
         /\ \A i \in Id \ {nextId} : txLog'[i] = txLog[i]
<1>1. nextId \in Id /\ txLog[nextId] = NoTx
  BY FieldTypes DEF Insert, TInv, RowsOK
<1>2. /\ txLog'[nextId] = Entry("CAPTURED", next[p], 0)
      /\ \A i \in Id \ {nextId} : txLog'[i] = txLog[i]
  BY <1>1 DEF Insert, TInv, TypeOK
<1>. QED BY <1>1, <1>2 DEF NoTx, Entry

LEMMA NextKeeps == TInv /\ [Next]_vars => Keeps
<1> SUFFICES ASSUME TInv, [Next]_vars PROVE Keeps
  OBVIOUS
<1>1. delivered \subseteq delivered'
  <2>1. ASSUME NEW p \in Processors, CaptureStep(p) \/ ExecuteStep(p) \/ Fault(p)
        PROVE  delivered \subseteq delivered'
    BY <2>1 DEF CaptureStep, ExecuteStep, Fault, Read, ReadExpired, StartBatch, CaptureOne,
      RejectMessage, Crash, Restart, SaveCheckpoint, ClaimNext, ClaimNothing, LoadSucceeds,
      LoadMissing, LoadErrs, CheckSuperseded, Complete, Fail, Finish, CompleteRaises
  <2>. QED
    BY <2>1 DEF Next, Publish, Elapse, Operator, OperatorRetry, OperatorArchive, vars
<1>2. CASE \A j \in Id : txLog'[j].offset = txLog[j].offset
  BY <1>1, <1>2 DEF Keeps, Captured
<1>3. ASSUME NEW p \in Processors, Insert(p) PROVE Keeps
  <2>1. txLog[nextId].offset = 0 /\ \A i \in Id \ {nextId} : txLog'[i] = txLog[i]
    BY <1>3, InsertedEntry
  <2>2. \A o \in Offsets : o # 0
    BY DEF Offsets
  <2>3. ASSUME NEW o \in Offsets, NEW i \in Id, txLog[i].offset = o PROVE txLog'[i].offset = o
    BY <2>1, <2>2, <2>3
  <2>. QED BY <1>1, <2>3 DEF Keeps, Captured
<1>4. ASSUME NEW p \in Processors, Read(p) \/ ReadExpired(p) \/ SaveCheckpoint(p)
      PROVE  Keeps
  BY <1>2, <1>4 DEF Read, ReadExpired, StartBatch, SaveCheckpoint, tables
<1>5. ASSUME NEW p \in Processors, CaptureOne(p) PROVE Keeps
  <2>1. Insert(p) \/ txLog' = txLog
    BY <1>5 DEF CaptureOne, Insert
  <2>. QED BY <1>2, <1>3, <2>1
<1>. QED BY <1>2, <1>4, <1>5, QuietSteps DEF Quiet

\* A step that completes nothing and brings no processor closer to completion.
LEMMA NothingCompleted ==
  ASSUME HandledInv, Keeps,
         \A i \in Id : txLog'[i].status = "COMPLETED" => txLog'[i] = txLog[i],
         \A p \in Processors : pc'[p] \in {"loaded", "superseded"} =>
           /\ pc[p] = pc'[p]
           /\ JobOffset(p)' = JobOffset(p)
  PROVE  HandledInv'
<1>1. CompletedIsHandled'
  BY HandledStays DEF HandledInv, CompletedIsHandled, Handled
<1>2. JobsHandled'
  <2> SUFFICES ASSUME NEW p \in Processors, pc'[p] \in {"loaded", "superseded"}
               PROVE  Handled(JobOffset(p))'
    BY DEF JobsHandled
  <2>1. PICK o : o = JobOffset(p)
    OBVIOUS
  <2>2. Handled(o) /\ JobOffset(p)' = o
    BY <2>1 DEF HandledInv, JobsHandled
  <2>3. Handled(o)'
    BY <2>2, HandledStays
  <2>. QED BY <2>2, <2>3 DEF Handled, IsLoad, IsLaterDelete, Captured
<1>. QED BY <1>1, <1>2 DEF HandledInv

LEMMA InitHandledInv == Init => HandledInv
  BY DEF Init, HandledInv, CompletedIsHandled, JobsHandled, NoTx, Entry

\* The steps that touch neither the log nor a processor close to completion.
LEMMA UnloggedSteps ==
  ASSUME TInv, HandledInv, Keeps, txLog' = txLog,
         \A p \in Processors : pc'[p] \in {"loaded", "superseded"} =>
           pc[p] = pc'[p] /\ job'[p] = job[p]
  PROVE  HandledInv'
  BY NothingCompleted DEF JobOffset

LEMMA LoadSucceedsHandledInv ==
  ASSUME TInv, HandledInv, Keeps, NEW p \in Processors, LoadSucceeds(p)
  PROVE  HandledInv'
<1>1. /\ txLog' = txLog /\ job' = job
      /\ JobOffset(p) \in delivered'
      /\ \A q \in Processors \ {p} : pc'[q] = pc[q]
  BY DEF LoadSucceeds, tables, TInv, TypeOK
<1>2. CompletedIsHandled'
  BY <1>1, HandledStays DEF HandledInv, CompletedIsHandled, Handled
<1>3. ASSUME NEW q \in Processors, pc'[q] \in {"loaded", "superseded"} PROVE Handled(JobOffset(q))'
  <2>1. JobOffset(q)' = JobOffset(q)
    BY <1>1 DEF JobOffset
  <2>2. PICK o : o = JobOffset(q)
    OBVIOUS
  <2>3. Handled(o)'
    <3>1. CASE q = p
      BY <1>1, <2>2, <3>1 DEF Handled
    <3>2. CASE q # p
      BY <1>1, <1>3, <2>2, <3>2, HandledStays DEF HandledInv, JobsHandled
    <3>. QED BY <3>1, <3>2
  <2>. QED BY <2>1, <2>2, <2>3 DEF Handled, IsLoad, IsLaterDelete, Captured
<1>. QED BY <1>2, <1>3 DEF HandledInv, JobsHandled

\* A delete whose row is in the capture table is a captured delete.
LEMMA LaterDeleteCaptured ==
  ASSUME TInv, NEW o, HasLaterDelete(o)
  PROVE  Handled(o)
<1>1. PICK j \in Id : Live(j) /\ IsLaterDelete(o, capture[j].offset)
  BY DEF HasLaterDelete
<1>2. j < nextId /\ capture[j].offset = txLog[j].offset
  BY <1>1, LiveRow DEF TInv, RowsOK
<1>3. txLog[j].offset \in Offsets
  BY <1>2, BoundsAssumption DEF TInv, TypeOK, RowsOK, Offsets
<1>4. Captured(txLog[j].offset)
  BY DEF Captured
<1>. QED BY <1>1, <1>2, <1>3, <1>4 DEF Handled, HasLaterDelete

LEMMA CheckSupersededHandledInv ==
  ASSUME TInv, HandledInv, Keeps, NEW p \in Processors, CheckSuperseded(p)
  PROVE  HandledInv'
<1>1. /\ txLog' = txLog /\ job' = job
      /\ pc'[p] = "superseded" => HasLaterDelete(JobOffset(p))
      /\ pc'[p] # "loaded"
      /\ \A q \in Processors \ {p} : pc'[q] = pc[q]
  BY DEF CheckSuperseded, tables, TInv, TypeOK
<1>2. CompletedIsHandled'
  BY <1>1, HandledStays DEF HandledInv, CompletedIsHandled, Handled
<1>3. ASSUME NEW q \in Processors, pc'[q] \in {"loaded", "superseded"} PROVE Handled(JobOffset(q))'
  <2>1. JobOffset(q)' = JobOffset(q)
    BY <1>1 DEF JobOffset
  <2>2. PICK o : o = JobOffset(q)
    OBVIOUS
  <2>3. Handled(o)
    BY <1>1, <1>3, <2>2, LaterDeleteCaptured DEF HandledInv, JobsHandled
  <2>4. Handled(o)'
    BY <2>3, HandledStays
  <2>. QED BY <2>1, <2>2, <2>4 DEF Handled, IsLoad, IsLaterDelete, Captured
<1>. QED BY <1>2, <1>3 DEF HandledInv, JobsHandled

LEMMA FinishHandledInv ==
  ASSUME TInv, HandledInv, Keeps, NEW p \in Processors, Complete(p) \/ Fail(p)
  PROVE  HandledInv'
<1> DEFINE i == job[p]
           o == JobOffset(p)
<1>1. PICK s \in Statuses, t \in {"none", "waiting"} :
        Finish(p, s, t) /\ (s = "COMPLETED" => pc[p] \in {"loaded", "superseded"})
  BY DEF Complete, Fail, Statuses
<1>2. i \in Id /\ pc[p] \in Working
  BY JobRow DEF Complete, Fail, Working
<1>3. /\ txLog'[i] = Entry(s, o, txLog[i].attempts)
      /\ \A j \in Id \ {i} : txLog'[j] = txLog[j]
  BY <1>1, <1>2 DEF Finish, TInv, TypeOK, JobOffset
<1>4. s = "COMPLETED" => Handled(o)
  BY <1>1 DEF HandledInv, JobsHandled
<1>5. CompletedIsHandled'
  <2> SUFFICES ASSUME NEW j \in Id, txLog'[j].status = "COMPLETED" PROVE Handled(txLog[j].offset)'
    BY DEF CompletedIsHandled, Handled
  <2>1. PICK n : n = txLog[j].offset
    OBVIOUS
  <2>2. Handled(n) /\ txLog'[j].offset = n
    BY <1>2, <1>3, <1>4, <2>1 DEF HandledInv, CompletedIsHandled, Handled, Entry, JobOffset
  <2>3. Handled(n)'
    BY <2>2, HandledStays
  <2>. QED BY <2>2, <2>3 DEF Handled, IsLoad, IsLaterDelete, Captured
<1>6. JobsHandled'
  <2>1. \A j \in Id : txLog'[j].offset = txLog[j].offset
    BY <1>2, <1>3 DEF Entry, JobOffset
  <2> SUFFICES ASSUME NEW q \in Processors, pc'[q] \in {"loaded", "superseded"}
               PROVE  Handled(JobOffset(q))'
    BY DEF JobsHandled
  <2>2. pc'[q] = pc[q] /\ job'[q] = job[q] /\ job[q] \in Id
    BY <1>1, JobRow DEF Finish, TInv, TypeOK, Working
  <2>3. PICK n : n = JobOffset(q)
    OBVIOUS
  <2>4. Handled(n)' /\ JobOffset(q)' = n
    BY <2>1, <2>2, <2>3, HandledStays DEF HandledInv, JobsHandled, JobOffset
  <2>. QED BY <2>4 DEF Handled, IsLoad, IsLaterDelete, Captured
<1>. QED BY <1>5, <1>6 DEF HandledInv

LEMMA ClaimNextHandledInv ==
  ASSUME TInv, HandledInv, Keeps, NEW p \in Processors, NEW i, Claims(p, i), ClaimNext(p)
  PROVE  HandledInv'
<1>1. /\ i \in Id /\ \A j \in Id \ {i} : txLog'[j] = txLog[j]
      /\ txLog'[i] = Entry("PROCESSING", txLog[i].offset, Incremented(txLog[i].attempts))
  BY ClaimedRow
<1>2. \A j \in Id : txLog'[j].status = "COMPLETED" => txLog'[j] = txLog[j]
  BY <1>1 DEF Entry
<1>3. ASSUME NEW q \in Processors, pc'[q] \in {"loaded", "superseded"}
      PROVE  pc[q] = pc'[q] /\ JobOffset(q)' = JobOffset(q)
  <2>1. q # p /\ pc'[q] = pc[q] /\ job'[q] = job[q]
    BY <1>3 DEF Claims, ClaimNext, TInv, TypeOK
  <2>2. job[q] \in Id
    BY <1>3, <2>1, JobRow DEF Working
  <2>3. txLog'[job[q]].offset = txLog[job[q]].offset
    BY <2>2, ClaimNextTInv DEF KeepsRow
  <2>. QED BY <2>1, <2>3 DEF JobOffset
<1>. QED BY <1>2, <1>3, NothingCompleted

LEMMA CaptureOneHandledInv ==
  ASSUME TInv, HandledInv, Keeps, NEW p \in Processors, CaptureOne(p)
  PROVE  HandledInv'
<1>1. pc' = pc /\ job' = job
  BY DEF CaptureOne
<1>2. CASE txLog' = txLog
  BY <1>1, <1>2, UnloggedSteps
<1>3. CASE Insert(p)
  <2>1. \A j \in Id : txLog'[j].status = "COMPLETED" => txLog'[j] = txLog[j]
    BY <1>3, InsertedEntry
  <2>2. ASSUME NEW q \in Processors, pc[q] \in Working PROVE job[q] # nextId /\ job[q] \in Id
    BY <1>3, <2>2, JobRow, InsertedEntry
  <2>3. \A q \in Processors : pc[q] \in Working => JobOffset(q)' = JobOffset(q)
    BY <1>1, <1>3, <2>2, InsertedEntry DEF JobOffset
  <2>. QED BY <1>1, <2>1, <2>3, NothingCompleted DEF Working
<1>. QED BY <1>2, <1>3 DEF CaptureOne, Insert

LEMMA NextHandledInv == TInv /\ HandledInv /\ [Next]_vars => HandledInv'
<1> SUFFICES ASSUME TInv, HandledInv, [Next]_vars PROVE HandledInv'
  OBVIOUS
<1>0. Keeps
  BY NextKeeps
<1>1. ASSUME NEW p \in Processors,
             \/ Read(p) \/ ReadExpired(p) \/ RejectMessage(p) \/ SaveCheckpoint(p) \/ Crash(p)
             \/ ClaimNothing(p) \/ LoadMissing(p) \/ LoadErrs(p) \/ CompleteRaises(p)
      PROVE  HandledInv'
  <2>1. /\ txLog' = txLog
        /\ \A q \in Processors : pc'[q] \in {"loaded", "superseded"} =>
             pc[q] = pc'[q] /\ job'[q] = job[q]
    BY <1>1 DEF Read, ReadExpired, StartBatch, RejectMessage, Restart, SaveCheckpoint, Crash,
      ClaimNothing, LoadMissing, LoadErrs, CompleteRaises, tables, TInv, TypeOK
  <2>. QED BY <1>0, <2>1, UnloggedSteps
<1>2. ASSUME NEW i \in Id, Elapse(i) \/ Operator(i) PROVE HandledInv'
  <2>1. txLog' = txLog /\ pc' = pc /\ job' = job
    BY <1>2 DEF Elapse, Operator, OperatorRetry, OperatorArchive, workers
  <2>. QED BY <1>0, <2>1, UnloggedSteps
<1>3. CASE Publish \/ UNCHANGED vars
  <2>1. txLog' = txLog /\ pc' = pc /\ job' = job
    BY <1>3 DEF Publish, vars, tables, workers
  <2>. QED BY <1>0, <2>1, UnloggedSteps
<1>4. ASSUME NEW p \in Processors, ClaimNext(p) PROVE HandledInv'
  BY <1>0, <1>4, ClaimNextRow, ClaimNextHandledInv
<1>. QED
  BY <1>0, <1>1, <1>2, <1>3, <1>4, CaptureOneHandledInv, LoadSucceedsHandledInv,
    CheckSupersededHandledInv, FinishHandledInv
  DEF Next, CaptureStep, ExecuteStep, Fault

\* A message counts as completed only if the loader executed it, or if it is a
\* load and a later delete of its object has been captured: with any number of
\* processors, and whichever of them finishes a row first.
THEOREM SpecCompletedIsHandled == Spec => []CompletedIsHandled
<1>1. Init => TInv /\ HandledInv
  BY InitTInv, InitHandledInv
<1>2. TInv /\ HandledInv /\ [Next]_vars => (TInv /\ HandledInv)'
  BY NextTInv, NextHandledInv
<1>3. HandledInv => CompletedIsHandled
  BY DEF HandledInv
<1>. QED BY <1>1, <1>2, <1>3, PTL DEF Spec
-----------------------------------------------------------------------------
(* Theorems: one processor owns what it executes.                          *)

OwnerInv == OneProcessor /\ TInv /\ AttemptInv /\ OwnerHoldsRow

\* A step that keeps the rows in PROCESSING there and claims nothing.
LEMMA OwnerStays ==
  ASSUME TInv, OwnerHoldsRow,
         \A i \in Id : capture[i].status = "PROCESSING" => capture'[i].status = "PROCESSING",
         \A p \in Processors : job'[p] \in {0, job[p]}
  PROVE  OwnerHoldsRow'
<1> SUFFICES ASSUME NEW p \in Processors, job'[p] # 0 PROVE capture'[job'[p]].status = "PROCESSING"
  BY DEF OwnerHoldsRow
<1>1. job'[p] = job[p] /\ job[p] \in Id
  BY BoundsAssumption DEF TInv, TypeOK, Id
<1>. QED BY <1>1 DEF OwnerHoldsRow

\* The operator and the clock leave the status of a claimed row alone.
LEMMA RowActionsKeepStatus ==
  ASSUME TInv, NEW i \in Id, Elapse(i) \/ Operator(i), NEW j \in Id
  PROVE  /\ capture[j].status = "PROCESSING" => capture'[j].status = "PROCESSING"
         /\ capture[j].status = "COMPLETED" => capture'[j].status \in {"COMPLETED", "none"}
<1>1. j # i => capture'[j] = capture[j]
  BY DEF Elapse, Operator, OperatorRetry, OperatorArchive, TInv, TypeOK
<1>2. CASE Elapse(i)
  <2>1. capture'[i] = Row(capture[i].status, capture[i].offset, capture[i].attempts, "elapsed")
    BY <1>2 DEF Elapse, TInv, TypeOK
  <2>. QED BY <1>1, <2>1 DEF Row
<1>3. CASE OperatorRetry(i)
  BY <1>1, <1>3 DEF OperatorRetry
<1>4. CASE OperatorArchive(i)
  <2>1. capture'[i] = NoCapture
    BY <1>4 DEF OperatorArchive, TInv, TypeOK
  <2>. QED BY <1>1, <1>4, <2>1 DEF OperatorArchive, NoCapture, Row
<1>. QED BY <1>2, <1>3, <1>4 DEF Operator

\* Inserting a row leaves the rows there are alone.
LEMMA InsertKeepsStatus ==
  ASSUME TInv, NEW p \in Processors, Insert(p), NEW j \in Id, Live(j)
  PROVE  capture'[j] = capture[j]
<1>1. j # nextId
  BY LiveRow, FieldTypes DEF TInv
<1>. QED BY <1>1 DEF Insert, TInv, TypeOK

\* The steps of a processor that finishes or claims no row.
LEMMA OtherStepsKeepRows ==
  ASSUME TInv, NEW p \in Processors,
         \/ Read(p) \/ ReadExpired(p) \/ RejectMessage(p) \/ SaveCheckpoint(p) \/ Crash(p)
         \/ Progress(p)
  PROVE  /\ capture' = capture /\ txLog' = txLog /\ archive' = archive
         /\ \A q \in Processors : job'[q] \in {0, job[q]}
  BY DEF Read, ReadExpired, StartBatch, RejectMessage, Restart, SaveCheckpoint, Crash, Progress,
    ClaimNothing, LoadSucceeds, LoadMissing, LoadErrs, CheckSuperseded, CompleteRaises, tables,
    TInv, TypeOK

\* The only processor finishes the row it claimed, and nothing else.
LEMMA OwnerFinishes ==
  ASSUME OwnerInv, NEW p \in Processors, Complete(p) \/ Fail(p)
  PROVE  /\ job[p] \in Id
         /\ capture[job[p]].status = "PROCESSING" /\ txLog[job[p]].status = "PROCESSING"
         /\ \A j \in Id \ {job[p]} : capture'[j] = capture[j] /\ txLog'[j] = txLog[j]
         /\ \A q \in Processors : job'[q] = 0
<1>1. job[p] \in Id
  BY JobRow DEF OwnerInv, Complete, Fail, Working
<1>2. capture[job[p]].status = "PROCESSING"
  BY <1>1, BoundsAssumption DEF OwnerInv, OwnerHoldsRow, Id
<1>3. txLog[job[p]].status = "PROCESSING"
  BY <1>1, <1>2 DEF OwnerInv, AttemptInv, LogInv, RowAgrees, Live
<1>4. \A j \in Id \ {job[p]} : capture'[j] = capture[j] /\ txLog'[j] = txLog[j]
  BY <1>1 DEF Complete, Fail, Finish, SetCapture, OwnerInv, TInv, TypeOK
<1>5. \A q \in Processors : job'[q] = 0
  BY DEF Complete, Fail, Finish, OwnerInv, OneProcessor, TInv, TypeOK
<1>. QED BY <1>1, <1>2, <1>3, <1>4, <1>5

LEMMA NextOwnerInv == OwnerInv /\ [Next]_vars => OwnerInv'
<1> SUFFICES ASSUME OwnerInv, [Next]_vars PROVE OwnerHoldsRow'
  BY NextTInv, NextAttemptInv DEF OwnerInv, OneProcessor
<1>0. TInv /\ OwnerHoldsRow
  BY DEF OwnerInv
<1>1. ASSUME NEW p \in Processors,
             \/ Read(p) \/ ReadExpired(p) \/ RejectMessage(p) \/ SaveCheckpoint(p) \/ Crash(p)
             \/ Progress(p)
      PROVE  OwnerHoldsRow'
  BY <1>0, <1>1, OtherStepsKeepRows, OwnerStays
<1>2. ASSUME NEW i \in Id, Elapse(i) \/ Operator(i) PROVE OwnerHoldsRow'
  <2>1. job' = job
    BY <1>2 DEF Elapse, Operator, OperatorRetry, OperatorArchive, workers
  <2>. QED BY <1>0, <1>2, <2>1, RowActionsKeepStatus, OwnerStays
<1>3. CASE Publish \/ UNCHANGED vars
  <2>1. capture' = capture /\ job' = job
    BY <1>3 DEF Publish, vars, tables, workers
  <2>. QED BY <1>0, <2>1, OwnerStays
<1>4. ASSUME NEW p \in Processors, CaptureOne(p) PROVE OwnerHoldsRow'
  <2>1. \A i \in Id : capture[i].status = "PROCESSING" => capture'[i].status = "PROCESSING"
    BY <1>0, <1>4, InsertKeepsStatus DEF CaptureOne, Insert, Live
  <2>2. job' = job
    BY <1>4 DEF CaptureOne
  <2>. QED BY <1>0, <2>1, <2>2, OwnerStays
<1>5. ASSUME NEW p \in Processors, ClaimNext(p) PROVE OwnerHoldsRow'
  <2>1. PICK i : Claims(p, i)
    BY <1>5, ClaimNextRow
  <2>2. /\ i \in Id
        /\ capture'[i] = Row("PROCESSING", capture[i].offset, Incremented(capture[i].attempts), "waiting")
    BY <1>0, <2>1, ClaimedRow
  <2>3. \A q \in Processors : job'[q] = i
    BY <1>0, <2>1 DEF Claims, OwnerInv, OneProcessor, TInv, TypeOK
  <2>. QED BY <2>2, <2>3 DEF OwnerHoldsRow, Row
<1>6. ASSUME NEW p \in Processors, Complete(p) \/ Fail(p) PROVE OwnerHoldsRow'
  BY <1>6, OwnerFinishes DEF OwnerHoldsRow
<1>. QED
  BY <1>1, <1>2, <1>3, <1>4, <1>5, <1>6 DEF Next, CaptureStep, ExecuteStep, Fault, Progress

LEMMA InitOwnerInv == OneProcessor /\ Init => OwnerInv
  BY InitTInv, InitAttemptInv DEF Init, OwnerInv, OwnerHoldsRow

\* With one processor per partition, however often it crashes and restarts, the
\* row it executes is still PROCESSING when it comes back from the loader: the
\* lease may have run out, but nobody recovers, retries or archives the row.
THEOREM SpecOwnerHoldsRow == OneProcessor /\ Spec => []OwnerHoldsRow
<1>1. OwnerInv => OwnerHoldsRow
  BY DEF OwnerInv
<1>. QED BY <1>1, InitOwnerInv, NextOwnerInv, PTL DEF Spec

LEMMA CompletedStays ==
  ASSUME OwnerInv, [Next]_vars, NEW i \in Id, capture[i].status = "COMPLETED"
  PROVE  capture'[i].status \in {"COMPLETED", "none"}
<1>0. TInv
  BY DEF OwnerInv
<1>1. ASSUME NEW p \in Processors,
             \/ Read(p) \/ ReadExpired(p) \/ RejectMessage(p) \/ SaveCheckpoint(p) \/ Crash(p)
             \/ Progress(p)
      PROVE  capture' = capture
  BY <1>0, <1>1, OtherStepsKeepRows
<1>2. ASSUME NEW p \in Processors, CaptureOne(p) PROVE capture'[i] = capture[i]
  BY <1>0, <1>2, InsertKeepsStatus DEF CaptureOne, Insert, Live
<1>3. ASSUME NEW p \in Processors, ClaimNext(p) PROVE capture'[i] = capture[i]
  <2>1. PICK j : Claims(p, j)
    BY <1>3, ClaimNextRow
  <2>2. i # j /\ capture'[i] = Recovered[i]
    BY <1>0, <2>1, ClaimedRow
  <2>. QED BY <1>0, <2>2, RecoveredRows DEF TInv
<1>4. ASSUME NEW p \in Processors, Complete(p) \/ Fail(p) PROVE capture'[i] = capture[i]
  BY <1>4, OwnerFinishes
<1>5. CASE Publish \/ UNCHANGED vars
  BY <1>5 DEF Publish, vars, tables
<1>. QED
  BY <1>0, <1>1, <1>2, <1>3, <1>4, <1>5, RowActionsKeepStatus
  DEF Next, CaptureStep, ExecuteStep, Fault, Progress

\* With one processor per partition, a completed row leaves that status only
\* when the operator archives it.
THEOREM SpecCompletedIsFinal == OneProcessor /\ Spec => CompletedIsFinal
<1>1. OwnerInv /\ [Next]_vars =>
        [\A i \in Id : capture[i].status = "COMPLETED" =>
            capture'[i].status \in {"COMPLETED", "none"}]_vars
  BY CompletedStays
<1>. QED BY <1>1, InitOwnerInv, NextOwnerInv, PTL DEF Spec, CompletedIsFinal

-----------------------------------------------------------------------------
(* Theorem: with one processor, the store is the at-least-once queue.      *)

\* The queue that the tables stand for.
Accepted == {o \in Offsets : Captured(o)}
Acked == {o \in Offsets : \E i \in Id : txLog[i].offset = o /\ txLog[i].status = "COMPLETED"}

QueueVars == <<published, Accepted, delivered, Acked>>

QueueInv == OwnerInv /\ OrderInv /\ HandledInv

\* The queue sees no difference.
LEMMA Invisible ==
  ASSUME \A i \in Id : txLog'[i].offset = txLog[i].offset,
         \A i \in Id : txLog'[i].status = "COMPLETED" <=> txLog[i].status = "COMPLETED"
  PROVE  Accepted' = Accepted /\ Acked' = Acked
  BY DEF Accepted, Acked, Captured

\* Inserting a row accepts its message.
LEMMA InsertAccepts ==
  ASSUME QueueInv, NEW p \in Processors, CaptureOne(p), Insert(p)
  PROVE  \E o \in Offsets : Queue!Accept(o)
<1>0. TInv /\ OrderInv
  BY DEF QueueInv, OwnerInv
<1> PICK o : o = next[p]
  OBVIOUS
<1>1. o \in 1..published /\ o \in Offsets
  BY <1>0, BoundsAssumption DEF CaptureOne, TInv, TypeOK, WorkersOK, Offsets
<1>2. Stream[o].kind # "undecodable"
  BY DEF CaptureOne
<1>3. 1..(o - 1) \subseteq Accepted
  <2>1. \A n \in 1..(o - 1) : Captured(n)
    BY <1>0 DEF CaptureOne, OrderInv, BatchBegunInOrder
  <2>2. \A n \in 1..(o - 1) : n \in Offsets
    BY <1>1, BoundsAssumption DEF Offsets
  <2>. QED BY <2>1, <2>2 DEF Accepted
<1>4. /\ nextId \in Id /\ txLog[nextId].status = "none" /\ txLog[nextId].offset = 0
      /\ txLog'[nextId].status = "CAPTURED" /\ txLog'[nextId].offset = o
      /\ \A i \in Id \ {nextId} : txLog'[i] = txLog[i]
  BY <1>0, InsertedEntry
<1>5. Accepted' = Accepted \cup {o}
  <2>1. ASSUME NEW n \in Offsets PROVE Captured(n)' <=> Captured(n) \/ n = o
    BY <1>4 DEF Captured, Offsets
  <2>. QED BY <1>1, <2>1 DEF Accepted
<1>6. Acked' = Acked
  <2>1. \A i \in Id : txLog'[i].status = "COMPLETED" <=> txLog[i].status = "COMPLETED"
    BY <1>4
  <2>2. \A i \in Id : txLog[i].status = "COMPLETED" => txLog'[i] = txLog[i]
    BY <1>4
  <2>. QED BY <2>1, <2>2 DEF Acked
<1>7. published' = published /\ delivered' = delivered
  BY DEF CaptureOne
<1>. QED BY <1>1, <1>2, <1>3, <1>5, <1>6, <1>7 DEF Queue!Accept, Accepted, Acked

\* Executing a message delivers it.
LEMMA LoadDelivers ==
  ASSUME QueueInv, NEW p \in Processors, LoadSucceeds(p)
  PROVE  \E o \in Offsets : Queue!Deliver(o)
<1>1. JobOffset(p) \in Offsets /\ Captured(JobOffset(p))
  BY JobRow DEF QueueInv, OwnerInv, LoadSucceeds, Working
<1>2. txLog' = txLog /\ published' = published /\ delivered' = delivered \cup {JobOffset(p)}
  BY DEF LoadSucceeds, tables
<1>3. Accepted' = Accepted /\ Acked' = Acked
  BY <1>2, Invisible
<1>. QED BY <1>1, <1>2, <1>3 DEF Queue!Deliver, Accepted, Acked

\* Completing a row acknowledges its message.
LEMMA CompleteAcknowledges ==
  ASSUME QueueInv, NEW p \in Processors, Complete(p)
  PROVE  \E o \in Offsets : Queue!Acknowledge(o)
<1> DEFINE i == job[p]
<1> PICK o : o = JobOffset(p)
  OBVIOUS
<1>1. i \in Id /\ o \in Offsets /\ o \in Accepted
  BY JobRow DEF QueueInv, OwnerInv, Complete, Working, Accepted
<1>2. o \in delivered \/ Queue!Superseded(o)
  <2>1. Handled(o)
    BY DEF QueueInv, HandledInv, JobsHandled, Complete
  <2>. QED BY <2>1 DEF Handled, IsLoad, IsLaterDelete, Queue!Superseded, Accepted
<1>3. /\ txLog'[i].offset = o /\ txLog'[i].status = "COMPLETED"
      /\ \A j \in Id \ {i} : txLog'[j] = txLog[j]
  BY <1>1 DEF Complete, Finish, QueueInv, OwnerInv, TInv, TypeOK, JobOffset, Entry
<1>4. txLog[i].offset = o /\ txLog[i].status = "PROCESSING"
  BY OwnerFinishes DEF QueueInv, JobOffset
<1>5. Accepted' = Accepted
  <2>1. \A j \in Id : txLog'[j].offset = txLog[j].offset
    BY <1>3, <1>4
  <2>. QED BY <2>1 DEF Accepted, Captured
<1>6. Acked' = Acked \cup {o}
  BY <1>1, <1>3, <1>4 DEF Acked
<1>7. published' = published /\ delivered' = delivered
  BY DEF Complete, Finish
<1>. QED BY <1>1, <1>2, <1>5, <1>6, <1>7 DEF Queue!Acknowledge, Accepted, Acked

\* Every other step leaves the queue as it is: a failure and a claim because
\* the row they write was not completed.
LEMMA OtherStepsInvisible ==
  ASSUME QueueInv, NEW p \in Processors,
         \/ Read(p) \/ ReadExpired(p) \/ RejectMessage(p) \/ SaveCheckpoint(p) \/ Crash(p)
         \/ ClaimNothing(p) \/ LoadMissing(p) \/ LoadErrs(p) \/ CheckSuperseded(p)
         \/ CompleteRaises(p) \/ ClaimNext(p) \/ Fail(p)
  PROVE  UNCHANGED QueueVars
<1>0. TInv /\ OwnerInv /\ AttemptInv
  BY DEF QueueInv, OwnerInv
<1>1. published' = published /\ delivered' = delivered
  BY DEF Read, ReadExpired, StartBatch, RejectMessage, Restart, SaveCheckpoint, Crash, ClaimNothing,
    LoadMissing, LoadErrs, CheckSuperseded, CompleteRaises, ClaimNext, Fail, Finish
<1>2. CASE txLog' = txLog
  BY <1>1, <1>2, Invisible DEF QueueVars
<1>3. CASE ClaimNext(p)
  <2>1. PICK i : Claims(p, i)
    BY <1>3, ClaimNextRow
  <2>2. /\ i \in Id /\ Live(i) /\ capture[i].status # "COMPLETED"
        /\ txLog'[i] = Entry("PROCESSING", txLog[i].offset, Incremented(txLog[i].attempts))
        /\ \A j \in Id \ {i} : txLog'[j] = txLog[j]
    BY <1>0, <2>1, ClaimedRow
  <2>3. txLog[i].status # "COMPLETED"
    BY <1>0, <2>2 DEF AttemptInv, LogInv, RowAgrees
  <2>4. txLog'[i].offset = txLog[i].offset /\ txLog'[i].status = "PROCESSING"
    BY <2>2 DEF Entry
  <2>. QED BY <1>1, <2>2, <2>3, <2>4, Invisible DEF QueueVars
<1>4. CASE Fail(p)
  <2>1. /\ job[p] \in Id /\ txLog[job[p]].status = "PROCESSING"
        /\ \A j \in Id \ {job[p]} : txLog'[j] = txLog[j]
    BY <1>0, <1>4, OwnerFinishes
  <2>2. txLog'[job[p]].offset = txLog[job[p]].offset /\ txLog'[job[p]].status = "FAILED"
    BY <1>0, <1>4, <2>1 DEF Fail, Finish, TInv, TypeOK, Entry
  <2>. QED BY <1>1, <2>1, <2>2, Invisible DEF QueueVars
<1>. QED
  BY <1>2, <1>3, <1>4 DEF Read, ReadExpired, StartBatch, RejectMessage, Restart, SaveCheckpoint, Crash,
    ClaimNothing, LoadMissing, LoadErrs, CheckSuperseded, CompleteRaises, tables

LEMMA StepImplementsQueue == QueueInv /\ [Next]_vars => [Queue!Next]_QueueVars
<1> SUFFICES ASSUME QueueInv, [Next]_vars PROVE Queue!Next \/ UNCHANGED QueueVars
  OBVIOUS
<1>1. CASE Publish
  <2>1. Accepted' = Accepted /\ Acked' = Acked
    BY <1>1, Invisible DEF Publish, tables
  <2>. QED BY <1>1, <2>1 DEF Publish, Queue!Next, Queue!Publish, Accepted, Acked
<1>2. ASSUME NEW p \in Processors, CaptureOne(p) PROVE Queue!Next \/ UNCHANGED QueueVars
  <2>1. CASE Insert(p)
    BY <1>2, <2>1, InsertAccepts DEF Queue!Next, Offsets
  <2>2. CASE txLog' = txLog
    BY <1>2, <2>2, Invisible DEF CaptureOne, QueueVars
  <2>. QED BY <1>2, <2>1, <2>2 DEF CaptureOne, Insert
<1>3. ASSUME NEW p \in Processors, LoadSucceeds(p) PROVE Queue!Next
  BY <1>3, LoadDelivers DEF Queue!Next, Offsets
<1>4. ASSUME NEW p \in Processors, Complete(p) PROVE Queue!Next
  BY <1>4, CompleteAcknowledges DEF Queue!Next, Offsets
<1>5. ASSUME NEW i \in Id, Elapse(i) \/ Operator(i) PROVE UNCHANGED QueueVars
  <2>1. txLog' = txLog /\ published' = published /\ delivered' = delivered
    BY <1>5 DEF Elapse, Operator, OperatorRetry, OperatorArchive
  <2>. QED BY <2>1, Invisible DEF QueueVars
<1>6. CASE UNCHANGED vars
  BY <1>6, Invisible DEF vars, tables, QueueVars
<1>. QED
  BY <1>1, <1>2, <1>3, <1>4, <1>5, <1>6, OtherStepsInvisible
  DEF Next, CaptureStep, ExecuteStep, Fault

\* With one processor per partition, capturing and claiming implement the queue:
\* messages are accepted in order and without gaps, and a message is
\* acknowledged, for good, only after it was executed or superseded.
THEOREM SpecImplementsQueue == OneProcessor /\ Spec => ImplementsQueue
<1>1. OneProcessor /\ Init => QueueInv
  BY InitOwnerInv, InitOrderInv, InitHandledInv DEF QueueInv
<1>2. QueueInv /\ [Next]_vars => QueueInv'
  BY NextOwnerInv, NextOrderInv, NextHandledInv DEF QueueInv, OwnerInv
<1>3. Init => Queue!Init
  BY DEF Init, Queue!Init, Captured, NoTx, Entry, Offsets
<1>4. QueueInv /\ [Next]_vars => [Queue!Next]_(Queue!vars)
  BY StepImplementsQueue DEF QueueVars, Queue!vars, Accepted, Acked
<1>. QED BY <1>1, <1>2, <1>3, <1>4, PTL DEF Spec, ImplementsQueue, Queue!Spec
=============================================================================
