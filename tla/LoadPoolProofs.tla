--------------------------- MODULE LoadPoolProofs ---------------------------
(***************************************************************************)
(* Theorems about LoadPool for any number of threads, any sizes of ranges, *)
(* batches and versions, and any bounds.                                   *)
(***************************************************************************)
EXTENDS LoadPool, FiniteSetTheorems, TLAPS

Looping == {"reading", "waiting", "draining"}

\* Before the HEAD request nothing is there.
FreshOK ==
  pc = "head" =>
    /\ head = 0 /\ length = 0 /\ position = 0 /\ until = 0
    /\ rows = {} /\ jobs = <<>> /\ pending = {}
    /\ result = "none"

\* A future that is not finished, or that failed unnoticed, is still waited for.
PendingOK ==
  /\ Unfinished \subseteq pending
  /\ result # "raised" => InState({"failed"}) \subseteq pending
  /\ Cardinality(pending) <= 2 * Threads
  /\ pc = "reading" => Cardinality(pending) < 2 * Threads

\* The result is set once, when the loop is left.
LoopOK == pc \in Looping => result = "none"

ResultOK ==
  /\ pc = "leaving" => result \in {"rows", "raised"}
  /\ pc = "exchange" => result = "rows"
  /\ pc = "draining" \/ result = "rows" => position = length /\ rows = {}
  /\ result = "rows" => pending = {}
  /\ pc \in Looping \cup {"exchange"} \/ result = "rows" =>
       head \in 1..Versions /\ length = Size[head]

TInv == TypeOK /\ FreshOK

PInv == TInv /\ LoopOK /\ PendingOK /\ StageIsQuiet

Blocks(batch) == {r.block : r \in batch}

\* Every block that was read is in one batch, and in no other.
ReadOnce ==
  /\ \A b \in Block :
       b <= position <=> b \in Blocks(rows) \/ \E j \in DOMAIN jobs : b \in Blocks(jobs[j].rows)
  /\ \A j \in DOMAIN jobs : Blocks(rows) \cap Blocks(jobs[j].rows) = {}
  /\ \A i, j \in DOMAIN jobs : i # j => Blocks(jobs[i].rows) \cap Blocks(jobs[j].rows) = {}

\* Until the exchange, the stage table has what the finished inserts wrote.
StageOK ==
  pc \notin {"cleanup", "ended"} =>
    /\ \A j \in DOMAIN jobs : \A b \in Blocks(jobs[j].rows) :
         /\ jobs[j].state \in {"queued", "running"} => Len(stage[b]) = 0
         /\ jobs[j].state = "done" => Len(stage[b]) = 1
    /\ \A b \in Block :
         (\A j \in DOMAIN jobs : b \notin Blocks(jobs[j].rows)) => Len(stage[b]) = 0

\* Only the exchange puts rows into the table.
TableOK ==
  table # NoRows =>
    /\ pc \in {"cleanup", "ended"}
    /\ \A b \in Block : Len(table[b]) = IF b <= Size[head] THEN 1 ELSE 0

IInv == PInv /\ ResultOK /\ ReadOnce /\ StageOK /\ TableOK

-----------------------------------------------------------------------------
(* The futures.                                                            *)

LEMMA SeqElements ==
  ASSUME NEW S, NEW s \in Seq(S)
  PROVE  /\ Len(s) \in Nat /\ DOMAIN s = 1..Len(s)
         /\ \A i \in DOMAIN s : s[i] \in S
  OBVIOUS

LEMMA FunctionIsSeq ==
  ASSUME NEW S, NEW n \in Nat, NEW f \in [1..n -> S]
  PROVE  f \in Seq(S)
  OBVIOUS

LEMMA JobsTyped ==
  ASSUME TypeOK
  PROVE  /\ Len(jobs) \in Nat /\ DOMAIN jobs = 1..Len(jobs)
         /\ \A j \in DOMAIN jobs : jobs[j].rows \subseteq Row /\ jobs[j].state \in JobStates
<1>1. jobs \in Seq([rows : SUBSET Row, state : JobStates])
  BY DEF TypeOK
<1>2. /\ Len(jobs) \in Nat /\ DOMAIN jobs = 1..Len(jobs)
      /\ \A j \in DOMAIN jobs : jobs[j] \in [rows : SUBSET Row, state : JobStates]
  BY <1>1, SeqElements, Zenon
<1>3. \A j \in DOMAIN jobs : jobs[j].rows \subseteq Row /\ jobs[j].state \in JobStates
  BY <1>2
<1>. QED BY <1>2, <1>3

LEMMA SubmittedJobs ==
  ASSUME TypeOK, Submit
  PROVE  /\ jobs' \in Seq([rows : SUBSET Row, state : JobStates])
         /\ DOMAIN jobs' = DOMAIN jobs \cup {Len(jobs) + 1}
         /\ Len(jobs) + 1 \notin DOMAIN jobs
         /\ \A j \in DOMAIN jobs : jobs'[j] = jobs[j]
         /\ jobs'[Len(jobs) + 1].rows = rows
         /\ jobs'[Len(jobs) + 1].state = "queued"
<1>1. jobs \in Seq([rows : SUBSET Row, state : JobStates]) /\ rows \in SUBSET Row
  BY DEF TypeOK
<1>. DEFINE new == [rows |-> rows, state |-> "queued"]
<1>2. new \in [rows : SUBSET Row, state : JobStates] /\ new.rows = rows /\ new.state = "queued"
  BY <1>1 DEF JobStates
<1>3. jobs' = Append(jobs, new)
  BY DEF Submit
<1>. HIDE DEF new
<1>4. /\ Len(jobs) \in Nat /\ DOMAIN jobs = 1..Len(jobs)
      /\ jobs' \in Seq([rows : SUBSET Row, state : JobStates])
      /\ DOMAIN jobs' = 1..(Len(jobs) + 1)
      /\ \A j \in 1..Len(jobs) : jobs'[j] = jobs[j]
      /\ jobs'[Len(jobs) + 1] = new
  BY <1>1, <1>2, <1>3
<1>5. 1..(Len(jobs) + 1) = 1..Len(jobs) \cup {Len(jobs) + 1} /\ Len(jobs) + 1 \notin 1..Len(jobs)
  BY <1>4
<1>. QED BY <1>2, <1>4, <1>5

\* A thread of the pool moves its future on, and no other.
LEMMA MovedJob ==
  ASSUME TypeOK, NEW j \in DOMAIN jobs, NEW s \in JobStates,
         jobs' = [jobs EXCEPT ![j].state = s]
  PROVE  /\ jobs' \in Seq([rows : SUBSET Row, state : JobStates])
         /\ DOMAIN jobs' = DOMAIN jobs
         /\ \A i \in DOMAIN jobs : jobs'[i].rows = jobs[i].rows
         /\ \A i \in DOMAIN jobs : jobs'[i].state = IF i = j THEN s ELSE jobs[i].state
<1>1. jobs \in Seq([rows : SUBSET Row, state : JobStates])
  BY DEF TypeOK
<1>2. /\ Len(jobs) \in Nat /\ DOMAIN jobs = 1..Len(jobs)
      /\ \A i \in DOMAIN jobs : jobs[i] \in [rows : SUBSET Row, state : JobStates]
  BY <1>1, SeqElements, Zenon
<1>3. DOMAIN jobs' = DOMAIN jobs
  OBVIOUS
<1>4. \A i \in DOMAIN jobs : i # j => jobs'[i] = jobs[i]
  OBVIOUS
<1>5. /\ jobs'[j] \in [rows : SUBSET Row, state : JobStates]
      /\ jobs'[j].rows = jobs[j].rows /\ jobs'[j].state = s
  <2>1. jobs'[j] = [jobs[j] EXCEPT !.state = s]
    OBVIOUS
  <2>. QED BY <2>1, <1>2
<1>6. jobs' \in [1..Len(jobs) -> [rows : SUBSET Row, state : JobStates]]
  <2>1. \A i \in 1..Len(jobs) : jobs'[i] \in [rows : SUBSET Row, state : JobStates]
    BY <1>2, <1>4, <1>5
  <2>. QED BY <2>1, <1>2, <1>3
<1>7. jobs' \in Seq([rows : SUBSET Row, state : JobStates])
  BY <1>2, <1>6, FunctionIsSeq, Zenon
<1>. QED BY <1>3, <1>4, <1>5, <1>7

LEMMA InsertedType ==
  ASSUME TypeOK, NEW batch \in SUBSET Row
  PROVE  Inserted(batch) \in [Block -> Seq(1..Versions)]
<1>1. ASSUME NEW b \in Block PROVE Inserted(batch)[b] \in Seq(1..Versions)
  <2>1. stage[b] \in Seq(1..Versions)
    BY DEF TypeOK
  <2>2. CASE \E r \in batch : r.block = b
    <3>. DEFINE r == CHOOSE r \in batch : r.block = b
    <3>1. r \in batch
      BY <2>2
    <3>2. r.version \in 1..Versions
      BY <3>1 DEF Row
    <3>. HIDE DEF r
    <3>3. Append(stage[b], r.version) \in Seq(1..Versions)
      BY <2>1, <3>2
    <3>. QED BY <2>2, <3>3 DEF Inserted, r
  <2>3. CASE ~(\E r \in batch : r.block = b)
    BY <2>1, <2>3 DEF Inserted
  <2>. QED BY <2>2, <2>3
<1>2. Inserted(batch) = [b \in Block |-> Inserted(batch)[b]]
  BY DEF Inserted
<1>. QED BY <1>1, <1>2

\* An insert adds a row to each block of its batch, and to no other.
LEMMA InsertedLen ==
  ASSUME TypeOK, NEW batch \in SUBSET Row, NEW b \in Block
  PROVE  Len(Inserted(batch)[b]) = IF b \in Blocks(batch) THEN Len(stage[b]) + 1
                                                          ELSE Len(stage[b])
<1>1. stage[b] \in Seq(1..Versions)
  BY DEF TypeOK
<1>. DEFINE v == (CHOOSE r \in batch : r.block = b).version
<1>2. Inserted(batch)[b] = IF b \in Blocks(batch) THEN Append(stage[b], v) ELSE stage[b]
  <2>1. b \in Blocks(batch) <=> \E r \in batch : r.block = b
    BY DEF Blocks
  <2>. QED BY <2>1 DEF Inserted
<1>. HIDE DEF v
<1>. QED BY <1>1, <1>2

-----------------------------------------------------------------------------
(* Types.                                                                  *)

LEMMA InitTInv == Init => TInv
<1> SUFFICES ASSUME Init PROVE TInv
  OBVIOUS
<1>1. NoRows \in [Block -> Seq(1..Versions)]
  BY DEF NoRows
<1>2. jobs \in Seq([rows : SUBSET Row, state : JobStates]) /\ pending \subseteq DOMAIN jobs
  BY DEF Init
<1>3. TypeOK
  BY <1>1, <1>2, PoolAssumption DEF Init, TypeOK, Steps
<1>4. FreshOK
  BY DEF Init, FreshOK
<1>. QED BY <1>3, <1>4 DEF TInv

LEMMA BucketTInv ==
  ASSUME TInv, Overwrite \/ Remove
  PROVE  TInv'
<1>1. object' \in 0..latest' /\ latest' \in 1..Versions
  BY PoolAssumption DEF TInv, TypeOK, Overwrite, Remove
<1>2. UNCHANGED <<stream, rows, pool, stage, table, pc, result, faults>>
  BY DEF Overwrite, Remove
<1>3. TypeOK'
  BY <1>1, <1>2 DEF TInv, TypeOK, stream, pool
<1>4. FreshOK'
  BY <1>2 DEF TInv, FreshOK, stream, pool
<1>. QED BY <1>3, <1>4 DEF TInv

LEMMA StreamTInv ==
  ASSUME TInv, OpenObject \/ OpenRange \/ ReadBlock \/ ReadRaises
  PROVE  TInv'
<1>0. /\ TypeOK /\ FreshOK
      /\ UNCHANGED <<bucket, pool, stage, table>>
      /\ Size \in [1..Versions -> 1..MaxSize]
  BY PoolAssumption DEF TInv, OpenObject, OpenRange, ReadBlock, ReadRaises
<1>1. pc' # "head" /\ pc' \in Steps /\ result' \in {"none", "rows", "raised"}
  BY <1>0 DEF TypeOK, OpenObject, OpenRange, ReadBlock, ReadRaises, WantsBlock, Raise, Steps
<1>2. /\ head' \in 0..Versions /\ length' \in 0..MaxSize
      /\ position' \in 0..length' /\ body' \in 0..Versions /\ until' \in 0..length'
      /\ rows' \subseteq Row /\ faults' \in 0..MaxFaults
  <2>1. CASE OpenObject
    <3>1. CASE object = 0
      BY <1>0, <2>1, <3>1 DEF OpenObject, stream, TypeOK
    <3>2. CASE object # 0
      <4>1. object \in 1..Versions /\ Size[object] \in 1..MaxSize
        BY <1>0, <3>2, PoolAssumption DEF TypeOK
      <4>2. position = 0 /\ until = 0
        BY <1>0, <2>1 DEF FreshOK, OpenObject
      <4>. QED BY <1>0, <2>1, <3>2, <4>1, <4>2, PoolAssumption DEF OpenObject, TypeOK
    <3>. QED BY <3>1, <3>2
  <2>2. CASE OpenRange
    <3>1. body' \in 0..Versions
      BY <1>0, <2>2, PoolAssumption DEF OpenRange, TypeOK
    <3>2. until' \in 0..length
      BY <1>0, <2>2, PoolAssumption DEF OpenRange, TypeOK, Smaller
    <3>. QED BY <1>0, <2>2, <3>1, <3>2 DEF OpenRange, TypeOK
  <2>3. CASE ReadBlock
    <3>1. body \in 1..Versions /\ position + 1 \in 1..length /\ position + 1 \in Block
      BY <1>0, <2>3, PoolAssumption DEF ReadBlock, WantsBlock, TypeOK, Block
    <3>2. [block |-> position + 1, version |-> body] \in Row
      BY <3>1 DEF Row
    <3>3. position' \in 0..length
      BY <2>3, <3>1 DEF ReadBlock, TypeOK
    <3>4. body' \in 0..Versions
      <4>1. body' \in {0, body}
        BY <2>3 DEF ReadBlock
      <4>. QED BY <3>1, <4>1, PoolAssumption
    <3>5. rows' \subseteq Row
      BY <1>0, <2>3, <3>2 DEF ReadBlock, TypeOK
    <3>6. UNCHANGED <<head, length, until, faults>>
      BY <2>3 DEF ReadBlock
    <3>. QED BY <1>0, <3>3, <3>4, <3>5, <3>6 DEF TypeOK
  <2>4. CASE ReadRaises
    <3>1. faults' \in 0..MaxFaults
      BY <1>0, <2>4, PoolAssumption DEF ReadRaises, TypeOK
    <3>. QED BY <1>0, <2>4, <3>1 DEF ReadRaises, stream, TypeOK
  <2>. QED BY <2>1, <2>2, <2>3, <2>4
<1>3. TypeOK'
  BY <1>0, <1>1, <1>2 DEF TypeOK, bucket, pool
<1>. QED BY <1>1, <1>3 DEF TInv, FreshOK

LEMMA LoopTInv ==
  ASSUME TInv,
         \/ Submit \/ WaitFirst \/ EndOfObject \/ Drain \/ Drained \/ LeavePool
         \/ Exchange \/ DropStage
  PROVE  TInv'
<1>0. TypeOK /\ UNCHANGED <<bucket, stream, faults>>
  BY DEF TInv, Submit, WaitFirst, EndOfObject, Drain, Drained, LeavePool, Exchange,
         DropStage, TakeResults
<1>1. pc' # "head" /\ pc' \in Steps /\ result' \in {"none", "rows", "raised"}
  BY <1>0 DEF TypeOK, Submit, WaitFirst, EndOfObject, Drain, Drained, LeavePool, Exchange,
              DropStage, TakeResults, Raise, Steps
<1>2. rows' \subseteq Row
  BY <1>0 DEF TypeOK, Submit, WaitFirst, EndOfObject, Drain, Drained, LeavePool, Exchange,
              DropStage, TakeResults
<1>3. /\ jobs' \in Seq([rows : SUBSET Row, state : JobStates])
      /\ pending' \subseteq DOMAIN jobs'
  <2>1. CASE Submit
    <3>1. /\ jobs' \in Seq([rows : SUBSET Row, state : JobStates])
          /\ DOMAIN jobs' = DOMAIN jobs \cup {Len(jobs) + 1}
      BY <1>0, <2>1, SubmittedJobs
    <3>2. pending' = pending \cup {Len(jobs) + 1}
      BY <2>1 DEF Submit
    <3>. QED BY <1>0, <3>1, <3>2 DEF TypeOK
  <2>2. CASE ~Submit
    <3>1. jobs' = jobs /\ pending' \subseteq pending
      BY <2>2 DEF WaitFirst, EndOfObject, Drain, Drained, LeavePool, Exchange, DropStage,
                  TakeResults, pool
    <3>. QED BY <1>0, <3>1 DEF TypeOK
  <2>. QED BY <2>1, <2>2
<1>4. stage' \in [Block -> Seq(1..Versions)] /\ table' \in [Block -> Seq(1..Versions)]
  <2>1. NoRows \in [Block -> Seq(1..Versions)]
    BY DEF NoRows
  <2>. QED BY <1>0, <2>1 DEF TypeOK, Submit, WaitFirst, EndOfObject, Drain, Drained,
                             LeavePool, Exchange, DropStage, TakeResults
<1>5. TypeOK'
  BY <1>0, <1>1, <1>2, <1>3, <1>4 DEF TypeOK, bucket, stream
<1>. QED BY <1>1, <1>5 DEF TInv, FreshOK

LEMMA PoolTInv ==
  ASSUME TInv, NEW j \in DOMAIN jobs, PoolThread(j)
  PROVE  TInv'
<1>0. /\ TypeOK /\ FreshOK
      /\ UNCHANGED <<bucket, stream, rows, pending, table, pc, result>>
  BY DEF TInv, PoolThread, StartInsert, CommitInsert, InsertFails
<1>1. PICK s \in JobStates : jobs' = [jobs EXCEPT ![j].state = s]
  BY DEF PoolThread, StartInsert, CommitInsert, InsertFails, JobStates
<1>2. /\ jobs' \in Seq([rows : SUBSET Row, state : JobStates])
      /\ DOMAIN jobs' = DOMAIN jobs
  BY <1>0, <1>1, MovedJob
<1>3. stage' \in [Block -> Seq(1..Versions)]
  <2>1. jobs[j].rows \in SUBSET Row
    BY <1>0, JobsTyped
  <2>2. Inserted(jobs[j].rows) \in [Block -> Seq(1..Versions)]
    BY <1>0, <2>1, InsertedType
  <2>3. stage' \in {stage, Inserted(jobs[j].rows)}
    BY DEF PoolThread, StartInsert, CommitInsert, InsertFails
  <2>. QED BY <1>0, <2>2, <2>3 DEF TypeOK
<1>4. faults' \in 0..MaxFaults
  BY <1>0, PoolAssumption DEF TypeOK, PoolThread, StartInsert, CommitInsert, InsertFails
<1>5. TypeOK'
  BY <1>0, <1>2, <1>3, <1>4 DEF TypeOK, bucket, stream
<1>6. pc # "head"
  BY <1>0 DEF FreshOK
<1>. QED BY <1>0, <1>5, <1>6 DEF TInv, FreshOK

LEMMA NextTInv == TInv /\ [Next]_vars => TInv'
<1> SUFFICES ASSUME TInv, [Next]_vars PROVE TInv'
  OBVIOUS
<1>1. CASE Overwrite \/ Remove
  BY <1>1, BucketTInv
<1>2. CASE LoadThread
  BY <1>2, StreamTInv, LoopTInv DEF LoadThread
<1>3. CASE \E j \in DOMAIN jobs : PoolThread(j)
  BY <1>3, PoolTInv
<1>4. CASE UNCHANGED vars
  BY <1>4 DEF vars, bucket, stream, pool, TInv, TypeOK, FreshOK
<1>. QED BY <1>1, <1>2, <1>3, <1>4 DEF Next, Ended

(* The variables of LoadPool keep their types: in particular no more is read than
   the HEAD request told, and only versions that existed. *)
THEOREM SpecTypeOK == Spec => []TypeOK
<1>1. TInv => TypeOK
  BY DEF TInv
<1>. QED BY InitTInv, NextTInv, <1>1, PTL DEF Spec

-----------------------------------------------------------------------------
(* The batches in memory, and the stage table that nobody writes.          *)

\* Which futures are in a state, before and after a step of the pool.
LEMMA StatesMove ==
  ASSUME TInv, NEW j \in DOMAIN jobs, PoolThread(j)
  PROVE  /\ UNCHANGED <<pending, pc, result, rows, position, length, head, table>>
         /\ DOMAIN jobs' = DOMAIN jobs
         /\ \A i \in DOMAIN jobs : jobs'[i].rows = jobs[i].rows
         /\ \A i \in DOMAIN jobs : i # j => jobs'[i].state = jobs[i].state
         /\ jobs[j].state \in {"queued", "running"}
         /\ jobs'[j].state \in {"running", "done", "failed"}
<1>1. PICK s \in {"running", "done", "failed"} : jobs' = [jobs EXCEPT ![j].state = s]
  BY DEF PoolThread, StartInsert, CommitInsert, InsertFails
<1>2. /\ DOMAIN jobs' = DOMAIN jobs
      /\ \A i \in DOMAIN jobs : jobs'[i].rows = jobs[i].rows
      /\ \A i \in DOMAIN jobs : jobs'[i].state = IF i = j THEN s ELSE jobs[i].state
  BY <1>1, MovedJob DEF TInv, JobStates
<1>3. jobs[j].state \in {"queued", "running"}
  BY DEF PoolThread, StartInsert, CommitInsert, InsertFails
<1>4. UNCHANGED <<pending, pc, result, rows, position, length, head, table>>
  BY DEF PoolThread, StartInsert, CommitInsert, InsertFails, stream
<1>. QED BY <1>2, <1>3, <1>4

LEMMA PendingFinite ==
  ASSUME TInv
  PROVE  IsFiniteSet(pending) /\ Cardinality(pending) \in Nat
<1>1. pending \subseteq 1..Len(jobs) /\ Len(jobs) \in Nat
  BY JobsTyped DEF TInv, TypeOK
<1>2. IsFiniteSet(1..Len(jobs))
  BY <1>1, FS_Interval
<1>3. IsFiniteSet(pending)
  BY <1>1, <1>2, FS_Subset
<1>. QED BY <1>3, FS_CardinalityType

\* Taking results makes the set of pending futures no larger, and smaller if
\* there is one to take.
LEMMA PendingShrinks ==
  ASSUME TInv, NEW js
  PROVE  /\ Cardinality(pending \ js) \in Nat
         /\ Cardinality(pending \ js) <= Cardinality(pending)
         /\ pending \cap js # {} => Cardinality(pending \ js) < Cardinality(pending)
<1>1. IsFiniteSet(pending) /\ Cardinality(pending) \in Nat
  BY PendingFinite
<1>2. pending \ js \in SUBSET pending
  OBVIOUS
<1>3. /\ IsFiniteSet(pending \ js)
      /\ Cardinality(pending \ js) <= Cardinality(pending)
      /\ Cardinality(pending) = Cardinality(pending \ js) => pending = pending \ js
  BY <1>1, <1>2, FS_Subset
<1>4. Cardinality(pending \ js) \in Nat
  BY <1>3, FS_CardinalityType
<1>. QED BY <1>1, <1>3, <1>4

LEMMA InitPInv == Init => PInv
<1> SUFFICES ASSUME Init PROVE PInv
  OBVIOUS
<1>1. pending = {} /\ jobs = <<>> /\ pc = "head"
  BY DEF Init
<1>2. \A S : InState(S) = {}
  BY <1>1 DEF InState
<1>3. Cardinality(pending) = 0
  BY <1>1, FS_EmptySet
<1>4. PendingOK
  BY <1>1, <1>2, <1>3, PoolAssumption DEF PendingOK, Unfinished
<1>. QED BY <1>1, <1>4, InitTInv DEF PInv, StageIsQuiet, LoopOK, Looping

LEMMA NextLoopOK ==
  ASSUME TInv, LoopOK, [Next]_vars
  PROVE  LoopOK'
<1>1. CASE Overwrite \/ Remove \/ UNCHANGED vars
  BY <1>1 DEF Overwrite, Remove, vars, LoopOK
<1>2. CASE OpenObject \/ OpenRange \/ ReadBlock \/ ReadRaises
  BY <1>2 DEF OpenObject, OpenRange, ReadBlock, ReadRaises, WantsBlock, Raise, TInv, FreshOK,
              LoopOK, Looping
<1>3. CASE Submit \/ EndOfObject
  BY <1>3 DEF Submit, EndOfObject, LoopOK, Looping
<1>4. CASE WaitFirst \/ Drain
  BY <1>4 DEF WaitFirst, Drain, TakeResults, Raise, LoopOK, Looping
<1>5. CASE Drained \/ LeavePool \/ Exchange \/ DropStage
  BY <1>5 DEF Drained, LeavePool, Exchange, DropStage, LoopOK, Looping
<1>6. CASE \E j \in DOMAIN jobs : PoolThread(j)
  BY <1>6 DEF PoolThread, StartInsert, CommitInsert, InsertFails, LoopOK
<1>. QED BY <1>1, <1>2, <1>3, <1>4, <1>5, <1>6 DEF Next, LoadThread, Ended

\* Steps that keep the futures.
LEMMA KeptPInv ==
  ASSUME PInv, TInv', LoopOK', UNCHANGED pool,
         pc' # pc => pc' # "reading" \/ pc = "head",
         pc' # pc /\ pc' \in {"cleanup", "ended"} =>
           pc \in {"head", "exchange", "cleanup"} \/ Unfinished = {},
         pc' # pc /\ pc' = "exchange" => Unfinished = {},
         result = "raised" => result' = "raised"
  PROVE  PInv'
<1>1. UNCHANGED <<Unfinished, InState({"failed"})>>
  BY DEF pool, Unfinished, InState
<1>2. pc = "head" => Unfinished = {} /\ Cardinality(pending) = 0
  BY FS_EmptySet DEF PInv, TInv, FreshOK, Unfinished, InState
<1>3. PendingOK'
  BY <1>1, <1>2, PoolAssumption DEF PInv, PendingOK, pool
<1>4. StageIsQuiet'
  BY <1>1, <1>2 DEF PInv, StageIsQuiet
<1>. QED BY <1>3, <1>4 DEF PInv

LEMMA SubmitPInv ==
  ASSUME PInv, TInv', LoopOK', Submit
  PROVE  PInv'
<1>1. TInv
  BY DEF PInv
<1>. DEFINE n == Len(jobs) + 1
<1>2. /\ DOMAIN jobs' = DOMAIN jobs \cup {n} /\ n \notin DOMAIN jobs
      /\ \A j \in DOMAIN jobs : jobs'[j] = jobs[j]
      /\ jobs'[n].state = "queued"
  BY <1>1, SubmittedJobs DEF TInv
<1>3. pending' = pending \cup {n} /\ n \notin pending
  BY <1>1, <1>2 DEF Submit, TInv, TypeOK
<1>4. UNCHANGED result /\ pc = "reading"
  BY DEF Submit
<1>5. /\ Unfinished' = Unfinished \cup {n}
      /\ InState({"failed"})' = InState({"failed"})
  BY <1>2 DEF Unfinished, InState
<1>6. Cardinality(pending') = Cardinality(pending) + 1 /\ Cardinality(pending) \in Nat
  BY <1>1, <1>3, PendingFinite, FS_AddElement
<1>7. /\ pc' = "reading" => Cardinality(pending') < 2 * Threads
      /\ pc' \in {"reading", "waiting"}
  BY <1>6, PoolAssumption DEF Submit
<1>8. PendingOK'
  BY <1>3, <1>4, <1>5, <1>6, <1>7, PoolAssumption DEF PInv, PendingOK
<1>9. StageIsQuiet'
  BY <1>7 DEF StageIsQuiet
<1>. QED BY <1>8, <1>9 DEF PInv

LEMMA TakePInv ==
  ASSUME PInv, TInv', LoopOK', NEW js \in SUBSET (pending \cap Finished), js # {},
         NEW next, TakeResults(js, next),
         \/ pc = "waiting" /\ next = "reading"
         \/ pc = "draining" /\ next = "draining"
  PROVE  PInv'
<1>1. /\ pending' = pending \ js /\ UNCHANGED jobs
      /\ result' = result \/ result' = "raised"
      /\ result' = result => result = "raised" \/ js \cap InState({"failed"}) = {}
      /\ pc' \in {"reading", "draining", "leaving"}
  BY DEF TakeResults, Raise
<1>2. UNCHANGED <<Unfinished, InState({"failed"})>>
  BY <1>1 DEF Unfinished, InState
<1>3. Unfinished \cap Finished = {}
  BY DEF Unfinished, Finished, InState
<1>4. /\ Cardinality(pending') \in Nat /\ Cardinality(pending') < Cardinality(pending)
      /\ Cardinality(pending) \in Nat
  BY <1>1, PendingShrinks, PendingFinite DEF PInv
<1>5. PendingOK'
  BY <1>1, <1>2, <1>3, <1>4, PoolAssumption DEF PInv, PendingOK
<1>6. StageIsQuiet'
  BY <1>1 DEF StageIsQuiet
<1>. QED BY <1>5, <1>6 DEF PInv

LEMMA PoolPInv ==
  ASSUME PInv, TInv', LoopOK', NEW j \in DOMAIN jobs, PoolThread(j)
  PROVE  PInv'
<1>0. TInv
  BY DEF PInv
<1>1. /\ UNCHANGED <<pending, pc, result>>
      /\ DOMAIN jobs' = DOMAIN jobs
      /\ \A i \in DOMAIN jobs : i # j => jobs'[i].state = jobs[i].state
      /\ jobs[j].state \in {"queued", "running"}
  BY <1>0, StatesMove
<1>2. j \in Unfinished
  BY <1>1 DEF Unfinished, InState
<1>3. /\ Unfinished' \subseteq Unfinished
      /\ InState({"failed"})' \subseteq InState({"failed"}) \cup {j}
  BY <1>1 DEF Unfinished, InState
<1>4. PendingOK'
  BY <1>1, <1>2, <1>3 DEF PInv, PendingOK
<1>5. StageIsQuiet'
  BY <1>1, <1>2, <1>3 DEF PInv, StageIsQuiet
<1>. QED BY <1>4, <1>5 DEF PInv

LEMMA NextPInv == PInv /\ [Next]_vars => PInv'
<1> SUFFICES ASSUME PInv, [Next]_vars PROVE PInv'
  OBVIOUS
<1>0. TInv' /\ LoopOK'
  BY NextTInv, NextLoopOK DEF PInv
<1>1. CASE Overwrite \/ Remove \/ UNCHANGED vars
  BY <1>0, <1>1, KeptPInv DEF Overwrite, Remove, vars, pool
<1>2. CASE OpenObject \/ OpenRange \/ ReadBlock \/ ReadRaises
  BY <1>0, <1>2, KeptPInv DEF OpenObject, OpenRange, ReadBlock, ReadRaises, WantsBlock, Raise
<1>3. CASE Submit
  BY <1>0, <1>3, SubmitPInv
<1>4. CASE WaitFirst
  BY <1>0, <1>4, TakePInv DEF WaitFirst
<1>5. CASE Drain
  <2>1. PICK j \in pending \cap Finished : TakeResults({j}, "draining")
    BY <1>5 DEF Drain
  <2>. QED BY <1>0, <1>5, <2>1, TakePInv DEF Drain
<1>6. CASE EndOfObject \/ Drained \/ LeavePool \/ Exchange \/ DropStage
  <2>1. result = "raised" => result' = "raised"
    BY <1>6 DEF EndOfObject, Drained, LeavePool, Exchange, DropStage, PInv, LoopOK, Looping
  <2>. QED BY <1>0, <1>6, <2>1, KeptPInv
           DEF EndOfObject, Drained, LeavePool, Exchange, DropStage
<1>7. CASE \E j \in DOMAIN jobs : PoolThread(j)
  BY <1>0, <1>7, PoolPInv
<1>. QED BY <1>1, <1>2, <1>3, <1>4, <1>5, <1>6, <1>7 DEF Next, LoadThread, Ended

(* No insert is under way when the stage table is exchanged or dropped. *)
THEOREM SpecStageIsQuiet == Spec => []StageIsQuiet
<1>1. PInv => StageIsQuiet
  BY DEF PInv
<1>. QED BY InitPInv, NextPInv, <1>1, PTL DEF Spec

(* At most twice as many batches as threads wait in memory. *)
THEOREM SpecBatchesBounded == Spec => []BatchesBounded
<1>1. PInv => BatchesBounded
  <2> SUFFICES ASSUME PInv PROVE BatchesBounded
    OBVIOUS
  <2>1. IsFiniteSet(pending) /\ Cardinality(pending) \in Nat /\ Unfinished \in SUBSET pending
    BY PendingFinite DEF PInv, PendingOK
  <2>2. Cardinality(Unfinished) \in Nat /\ Cardinality(Unfinished) <= Cardinality(pending)
    BY <2>1, FS_Subset, FS_CardinalityType
  <2>. QED BY <2>1, <2>2, PoolAssumption DEF PInv, PendingOK, BatchesBounded
<1>. QED BY InitPInv, NextPInv, <1>1, PTL DEF Spec

-----------------------------------------------------------------------------
(* The rows of the stage table.                                            *)

LEMMA BlocksTyped ==
  ASSUME TypeOK
  PROVE  /\ Blocks(rows) \subseteq Block
         /\ \A j \in DOMAIN jobs : Blocks(jobs[j].rows) \subseteq Block
<1>1. \A r \in Row : r.block \in Block
  BY DEF Row
<1>2. rows \subseteq Row /\ \A j \in DOMAIN jobs : jobs[j].rows \subseteq Row
  BY JobsTyped DEF TypeOK
<1>. QED BY <1>1, <1>2 DEF Blocks

LEMMA InitIInv == Init => IInv
<1> SUFFICES ASSUME Init PROVE IInv
  OBVIOUS
<1>0. PInv
  BY InitPInv
<1>1. /\ pc = "head" /\ result = "none" /\ position = 0 /\ rows = {} /\ jobs = <<>>
      /\ stage = NoRows /\ table = NoRows
  BY DEF Init
<1>2. DOMAIN jobs = {} /\ Blocks(rows) = {}
  BY <1>1 DEF Blocks
<1>3. ResultOK
  BY <1>1 DEF ResultOK, Looping
<1>4. ReadOnce
  BY <1>1, <1>2, PoolAssumption DEF ReadOnce, Block
<1>5. StageOK
  BY <1>1, <1>2 DEF StageOK, NoRows
<1>6. TableOK
  BY <1>1 DEF TableOK
<1>. QED BY <1>0, <1>3, <1>4, <1>5, <1>6 DEF IInv

LEMMA NextResultOK ==
  ASSUME IInv, [Next]_vars
  PROVE  ResultOK'
<1>0. ResultOK /\ LoopOK /\ TInv
  BY DEF IInv, PInv
<1>1. CASE Overwrite \/ Remove \/ UNCHANGED vars
  BY <1>0, <1>1 DEF Overwrite, Remove, vars, stream, pool, ResultOK
<1>2. CASE OpenObject
  <2>1. CASE object = 0
    BY <1>0, <1>2, <2>1 DEF OpenObject, Raise, ResultOK, Looping
  <2>2. CASE object # 0
    <3>1. object \in 1..Versions
      BY <1>0, <2>2, PoolAssumption DEF TInv, TypeOK
    <3>2. head' = object /\ length' = Size[object] /\ pc' = "reading" /\ result' = "none"
      BY <1>0, <1>2, <2>2 DEF OpenObject, TInv, FreshOK
    <3>. QED BY <3>1, <3>2 DEF ResultOK, Looping
  <2>. QED BY <2>1, <2>2
<1>3. CASE OpenRange \/ ReadBlock \/ ReadRaises
  BY <1>0, <1>3 DEF OpenRange, ReadBlock, ReadRaises, WantsBlock, Raise, stream, ResultOK,
                    LoopOK, Looping
<1>4. CASE Submit \/ EndOfObject
  BY <1>0, <1>4 DEF Submit, EndOfObject, stream, ResultOK, LoopOK, Looping
<1>5. CASE WaitFirst \/ Drain
  BY <1>0, <1>5 DEF WaitFirst, Drain, TakeResults, Raise, stream, ResultOK, LoopOK, Looping
<1>6. CASE Drained
  BY <1>0, <1>6 DEF Drained, stream, pool, ResultOK, Looping
<1>7. CASE LeavePool \/ Exchange \/ DropStage
  BY <1>0, <1>7 DEF LeavePool, Exchange, DropStage, stream, pool, ResultOK, Looping
<1>8. CASE \E j \in DOMAIN jobs : PoolThread(j)
  BY <1>0, <1>8 DEF PoolThread, StartInsert, CommitInsert, InsertFails, stream, ResultOK
<1>. QED BY <1>1, <1>2, <1>3, <1>4, <1>5, <1>6, <1>7, <1>8 DEF Next, LoadThread, Ended

LEMMA NextReadOnce ==
  ASSUME IInv, [Next]_vars
  PROVE  ReadOnce'
<1>0. ReadOnce /\ TInv /\ TypeOK
  BY DEF IInv, PInv, TInv
<1>1. CASE ReadBlock
  <2>1. /\ position' = position + 1 /\ UNCHANGED jobs
        /\ rows' = rows \cup {[block |-> position + 1, version |-> body]}
    BY <1>1 DEF ReadBlock, pool
  <2>2. Blocks(rows') = Blocks(rows) \cup {position + 1}
    <3>. DEFINE row == [block |-> position + 1, version |-> body]
    <3>1. row.block = position + 1 /\ rows' = rows \cup {row}
      BY <2>1
    <3>. HIDE DEF row
    <3>2. Blocks(rows') = Blocks(rows) \cup {row.block}
      BY <3>1 DEF Blocks
    <3>. QED BY <3>1, <3>2
  <2>3. position \in Nat /\ Block \subseteq Nat
    BY <1>0, PoolAssumption DEF TypeOK, Block
  <2>4. \A b \in Block : b <= position' <=> b <= position \/ b = position + 1
    BY <2>1, <2>3
  <2>5. \A j \in DOMAIN jobs : position + 1 \notin Blocks(jobs[j].rows)
    <3>1. \A j \in DOMAIN jobs : \A b \in Blocks(jobs[j].rows) : b \in Block /\ b <= position
      BY <1>0, BlocksTyped DEF ReadOnce
    <3>2. ~(position + 1 <= position)
      BY <2>3
    <3>. QED BY <3>1, <3>2
  <2>. QED BY <1>0, <2>1, <2>2, <2>4, <2>5 DEF ReadOnce
<1>2. CASE Submit
  <2>. DEFINE n == Len(jobs) + 1
  <2>1. /\ DOMAIN jobs' = DOMAIN jobs \cup {n} /\ n \notin DOMAIN jobs
        /\ \A j \in DOMAIN jobs : jobs'[j] = jobs[j]
        /\ jobs'[n].rows = rows
    BY <1>0, <1>2, SubmittedJobs
  <2>2. UNCHANGED position /\ Blocks(rows') = {}
    BY <1>2 DEF Submit, stream, Blocks
  <2>. HIDE DEF n
  <2>3. \A b \in Block :
          b <= position' <=> b \in Blocks(rows') \/ \E j \in DOMAIN jobs' : b \in Blocks(jobs'[j].rows)
    BY <1>0, <2>1, <2>2 DEF ReadOnce
  <2>4. \A j \in DOMAIN jobs' : Blocks(rows') \cap Blocks(jobs'[j].rows) = {}
    BY <2>2
  <2>5. \A i, j \in DOMAIN jobs' : i # j => Blocks(jobs'[i].rows) \cap Blocks(jobs'[j].rows) = {}
    BY <1>0, <2>1 DEF ReadOnce
  <2>. QED BY <2>3, <2>4, <2>5 DEF ReadOnce
<1>3. CASE \E j \in DOMAIN jobs : PoolThread(j)
  <2>1. /\ UNCHANGED <<position, rows>> /\ DOMAIN jobs' = DOMAIN jobs
        /\ \A i \in DOMAIN jobs : jobs'[i].rows = jobs[i].rows
    BY <1>0, <1>3, StatesMove
  <2>. QED BY <1>0, <2>1 DEF ReadOnce
<1>4. CASE UNCHANGED <<position, rows, jobs>>
  BY <1>0, <1>4 DEF ReadOnce
<1>5. \/ ReadBlock \/ Submit \/ \E j \in DOMAIN jobs : PoolThread(j)
      \/ UNCHANGED <<position, rows, jobs>>
  BY DEF Next, LoadThread, Ended, Overwrite, Remove, OpenObject, OpenRange, ReadRaises,
         WaitFirst, EndOfObject, Drain, Drained, TakeResults, LeavePool, Exchange, DropStage,
         vars, stream, pool
<1>. QED BY <1>1, <1>2, <1>3, <1>4, <1>5

LEMMA PoolStageOK ==
  ASSUME IInv, NEW j \in DOMAIN jobs, PoolThread(j)
  PROVE  StageOK'
<1>0. StageOK /\ ReadOnce /\ TInv /\ TypeOK
  BY DEF IInv, PInv, TInv
<1> SUFFICES ASSUME pc \notin {"cleanup", "ended"}
    PROVE  /\ \A i \in DOMAIN jobs' : \A b \in Blocks(jobs'[i].rows) :
                /\ jobs'[i].state \in {"queued", "running"} => Len(stage'[b]) = 0
                /\ jobs'[i].state = "done" => Len(stage'[b]) = 1
           /\ \A b \in Block :
                (\A i \in DOMAIN jobs' : b \notin Blocks(jobs'[i].rows)) => Len(stage'[b]) = 0
  BY <1>0, StatesMove DEF StageOK
<1>1. /\ DOMAIN jobs' = DOMAIN jobs
      /\ \A i \in DOMAIN jobs : jobs'[i].rows = jobs[i].rows
      /\ \A i \in DOMAIN jobs : i # j => jobs'[i].state = jobs[i].state
      /\ jobs[j].state \in {"queued", "running"}
      /\ jobs'[j].state \in {"running", "done", "failed"}
  BY <1>0, StatesMove
<1>. DEFINE mine == Blocks(jobs[j].rows)
<1>2. \A i \in DOMAIN jobs : Blocks(jobs[i].rows) \subseteq Block
  BY <1>0, BlocksTyped
<1>3. \A b \in Block \ mine : Len(stage'[b]) = Len(stage[b])
  <2>1. jobs[j].rows \in SUBSET Row
    BY <1>0, JobsTyped
  <2>2. stage' \in {stage, Inserted(jobs[j].rows)}
    BY DEF PoolThread, StartInsert, CommitInsert, InsertFails
  <2>. QED BY <1>0, <2>1, <2>2, InsertedLen
<1>4. /\ jobs'[j].state = "running" => UNCHANGED stage
      /\ jobs'[j].state = "done" => \A b \in mine : Len(stage'[b]) = Len(stage[b]) + 1
  <2>1. CASE StartInsert(j)
    <3>1. jobs'[j].state = "running" /\ UNCHANGED stage
      BY <1>0, <2>1, MovedJob DEF StartInsert, JobStates
    <3>. QED BY <3>1
  <2>2. CASE CommitInsert(j)
    <3>1. jobs'[j].state = "done" /\ stage' = Inserted(jobs[j].rows)
      BY <1>0, <2>2, MovedJob DEF CommitInsert, JobStates
    <3>2. jobs[j].rows \in SUBSET Row
      BY <1>0, JobsTyped
    <3>. QED BY <1>0, <1>2, <3>1, <3>2, InsertedLen
  <2>3. CASE InsertFails(j)
    <3>1. jobs'[j].state = "failed"
      BY <1>0, <2>3, MovedJob DEF InsertFails, JobStates
    <3>. QED BY <3>1
  <2>. QED BY <2>1, <2>2, <2>3 DEF PoolThread
<1>5. \A b \in mine : Len(stage[b]) = 0
  BY <1>0, <1>1 DEF StageOK
<1>6. \A i \in DOMAIN jobs : i # j => Blocks(jobs[i].rows) \cap mine = {}
  BY <1>0 DEF ReadOnce
<1>7. ASSUME NEW i \in DOMAIN jobs, NEW b \in Blocks(jobs[i].rows)
      PROVE  /\ jobs'[i].state \in {"queued", "running"} => Len(stage'[b]) = 0
             /\ jobs'[i].state = "done" => Len(stage'[b]) = 1
  <2>1. CASE i = j
    <3>1. b \in mine /\ Len(stage[b]) = 0
      BY <1>5, <2>1
    <3>2. jobs'[j].state \in {"running", "done", "failed"}
      BY <1>1
    <3>. HIDE DEF mine
    <3>3. jobs'[j].state = "running" => Len(stage'[b]) = 0
      BY <1>4, <3>1
    <3>4. ASSUME jobs'[j].state = "done" PROVE Len(stage'[b]) = 1
      <4>1. Len(stage'[b]) = Len(stage[b]) + 1
        BY <1>4, <3>1, <3>4, Zenon
      <4>. QED BY <3>1, <4>1
    <3>. QED BY <2>1, <3>2, <3>3, <3>4
  <2>2. CASE i # j
    <3>1. b \in Block \ mine
      BY <1>2, <1>6, <1>7, <2>2
    <3>2. Len(stage'[b]) = Len(stage[b]) /\ jobs'[i].state = jobs[i].state
      BY <1>1, <1>3, <2>2, <3>1
    <3>. QED BY <1>0, <3>2 DEF StageOK
  <2>. QED BY <2>1, <2>2
<1>8. ASSUME NEW b \in Block, \A i \in DOMAIN jobs : b \notin Blocks(jobs[i].rows)
      PROVE  Len(stage'[b]) = 0
  <2>1. b \in Block \ mine
    BY <1>8
  <2>. QED BY <1>0, <1>3, <1>8, <2>1 DEF StageOK
<1>. HIDE DEF mine
<1>. QED BY <1>1, <1>7, <1>8

LEMMA SubmitStageOK ==
  ASSUME IInv, Submit
  PROVE  StageOK'
<1>0. StageOK /\ ReadOnce /\ TypeOK
  BY DEF IInv, PInv, TInv
<1>. DEFINE n == Len(jobs) + 1
<1>1. /\ DOMAIN jobs' = DOMAIN jobs \cup {n}
      /\ \A j \in DOMAIN jobs : jobs'[j] = jobs[j]
      /\ jobs'[n].rows = rows /\ jobs'[n].state = "queued"
  BY <1>0, SubmittedJobs
<1>2. UNCHANGED stage /\ pc \notin {"cleanup", "ended"}
  BY DEF Submit
<1>. HIDE DEF n
<1>3. \A b \in Blocks(rows) : Len(stage[b]) = 0
  <2>1. \A b \in Blocks(rows) : b \in Block /\ \A j \in DOMAIN jobs : b \notin Blocks(jobs[j].rows)
    BY <1>0, BlocksTyped DEF ReadOnce
  <2>. QED BY <1>0, <1>2, <2>1 DEF StageOK
<1>4. \A j \in DOMAIN jobs' : \A b \in Blocks(jobs'[j].rows) :
        /\ jobs'[j].state \in {"queued", "running"} => Len(stage'[b]) = 0
        /\ jobs'[j].state = "done" => Len(stage'[b]) = 1
  BY <1>0, <1>1, <1>2, <1>3 DEF StageOK
<1>5. \A b \in Block :
        (\A j \in DOMAIN jobs' : b \notin Blocks(jobs'[j].rows)) => Len(stage'[b]) = 0
  BY <1>0, <1>1, <1>2 DEF StageOK
<1>. QED BY <1>4, <1>5 DEF StageOK

LEMMA NextStageOK ==
  ASSUME IInv, [Next]_vars
  PROVE  StageOK'
<1>1. CASE Submit
  BY <1>1, SubmitStageOK
<1>2. CASE \E j \in DOMAIN jobs : PoolThread(j)
  BY <1>2, PoolStageOK
<1>3. CASE pc' \in {"cleanup", "ended"}
  BY <1>3 DEF StageOK
<1>4. CASE UNCHANGED <<stage, jobs>> /\ pc \notin {"cleanup", "ended"}
  BY <1>4 DEF IInv, StageOK
<1>5. \/ Submit \/ \E j \in DOMAIN jobs : PoolThread(j)
      \/ pc' \in {"cleanup", "ended"}
      \/ UNCHANGED <<stage, jobs>> /\ pc \notin {"cleanup", "ended"}
  BY DEF Next, LoadThread, Ended, Overwrite, Remove, OpenObject, OpenRange, ReadBlock,
         ReadRaises, WantsBlock, WaitFirst, EndOfObject, Drain, Drained, TakeResults,
         LeavePool, Exchange, DropStage, vars, pool
<1>. QED BY <1>1, <1>2, <1>3, <1>4, <1>5

\* What is exchanged: every future is done, and together they have every block.
LEMMA ExchangeTableOK ==
  ASSUME IInv, Exchange
  PROVE  TableOK'
<1>0. ResultOK /\ StageOK /\ ReadOnce /\ TypeOK
  BY DEF IInv, PInv, TInv
<1>1. pc = "exchange" /\ table' = stage /\ pc' = "cleanup" /\ UNCHANGED head
  BY DEF Exchange, stream
<1>2. /\ result = "rows" /\ pending = {} /\ rows = {} /\ position = length
      /\ length = Size[head]
  BY <1>0, <1>1 DEF ResultOK
<1>3. \A j \in DOMAIN jobs : jobs[j].state = "done"
  <2>1. Unfinished = {} /\ InState({"failed"}) = {}
    BY <1>2 DEF IInv, PInv, PendingOK
  <2>2. \A j \in DOMAIN jobs : jobs[j].state \in JobStates
    BY <1>0, JobsTyped
  <2>. QED BY <2>1, <2>2 DEF Unfinished, InState, JobStates
<1>4. ASSUME NEW b \in Block
      PROVE  Len(stage[b]) = IF b <= Size[head] THEN 1 ELSE 0
  <2>1. b <= Size[head] <=> \E j \in DOMAIN jobs : b \in Blocks(jobs[j].rows)
    BY <1>0, <1>2 DEF ReadOnce, Blocks
  <2>. QED BY <1>0, <1>1, <1>3, <2>1 DEF StageOK
<1>. QED BY <1>1, <1>4 DEF TableOK

LEMMA NextTableOK ==
  ASSUME IInv, [Next]_vars
  PROVE  TableOK'
<1>0. TableOK /\ TInv
  BY DEF IInv, PInv
<1>1. CASE Exchange
  BY <1>1, ExchangeTableOK
<1>2. CASE pc = "head" /\ UNCHANGED table
  BY <1>0, <1>2 DEF TableOK
<1>3. CASE /\ UNCHANGED <<table, head>>
           /\ pc \in {"cleanup", "ended"} => pc' \in {"cleanup", "ended"}
  BY <1>0, <1>3 DEF TableOK
<1>4. \/ Exchange
      \/ pc = "head" /\ UNCHANGED table
      \/ /\ UNCHANGED <<table, head>>
         /\ pc \in {"cleanup", "ended"} => pc' \in {"cleanup", "ended"}
  BY DEF Next, LoadThread, PoolThread, Ended, Overwrite, Remove, OpenObject, OpenRange,
         ReadBlock, ReadRaises, WantsBlock, Submit, WaitFirst, EndOfObject, Drain, Drained,
         TakeResults, LeavePool, DropStage, StartInsert, CommitInsert, InsertFails,
         vars, stream
<1>. QED BY <1>1, <1>2, <1>3, <1>4

LEMMA NextIInv == IInv /\ [Next]_vars => IInv'
BY NextPInv, NextResultOK, NextReadOnce, NextStageOK, NextTableOK DEF IInv

(* What is exchanged into the target has every row of the length that was told,
   once: no failure of a read or an insert, in whichever thread, is lost. *)
THEOREM SpecExchangedWhole == Spec => []ExchangedWhole
<1>1. IInv => ExchangedWhole
  BY DEF IInv, TableOK, ExchangedWhole
<1>. QED BY InitIInv, NextIInv, <1>1, PTL DEF Spec
-----------------------------------------------------------------------------
(* The versions of the rows.                                               *)

\* Every row that was read, whether it was inserted yet or not.
AllRows == rows \cup UNION {jobs[j].rows : j \in DOMAIN jobs}

\* A range is answered by the version that is the latest, so that the versions
\* read never go back, and a block is only read from a version that has it.
ReadForward ==
  /\ object \in {0, latest} /\ head <= latest
  /\ pc = "head" => body = 0
  /\ body # 0 => head <= body /\ body <= latest
  /\ \A r \in AllRows :
       /\ r.block <= position /\ r.block <= Size[r.version]
       /\ head <= r.version /\ r.version <= latest
       /\ body # 0 => r.version <= body
  /\ \A r, s \in AllRows : r.block <= s.block => r.version <= s.version

\* The tables have nothing but rows that were read.
WasRead(b, v) == \E r \in AllRows : r.block = b /\ r.version = v
OnlyRead(content) == \A b \in Block : \A i \in DOMAIN content[b] : WasRead(b, content[b][i])
TablesRead == OnlyRead(stage) /\ OnlyRead(table)

\* Nothing is exchanged without an answer to the HEAD request.
HeadTold == table # NoRows => head \in 1..Versions

VInv == IInv /\ ReadForward /\ TablesRead /\ HeadTold

LEMMA AllRowsTyped ==
  ASSUME TypeOK
  PROVE  /\ AllRows \subseteq Row
         /\ \A r \in AllRows : /\ r.block \in Block /\ r.block \in Nat
                              /\ r.version \in 1..Versions /\ Size[r.version] \in Nat
<1>1. AllRows \subseteq Row
  BY JobsTyped DEF AllRows, TypeOK
<1>2. \A r \in Row : r.block \in Block /\ r.version \in 1..Versions
  BY DEF Row
<1>. QED BY <1>1, <1>2, PoolAssumption DEF Block

\* Reading a block adds a row, and no other step does.
LEMMA RowsRead ==
  ASSUME TInv, [Next]_vars
  PROVE  IF ReadBlock THEN AllRows' = AllRows \cup {[block |-> position + 1, version |-> body]}
                      ELSE AllRows' = AllRows
<1>0. TypeOK
  BY DEF TInv
<1>1. CASE ReadBlock
  BY <1>1 DEF ReadBlock, pool, AllRows
<1>2. CASE Submit
  <2>1. /\ DOMAIN jobs' = DOMAIN jobs \cup {Len(jobs) + 1}
        /\ \A j \in DOMAIN jobs : jobs'[j] = jobs[j]
        /\ jobs'[Len(jobs) + 1].rows = rows
    BY <1>0, <1>2, SubmittedJobs
  <2>2. rows' = {} /\ ~ReadBlock
    BY <1>2 DEF Submit, ReadBlock, stream, TInv, TypeOK
  <2>3. ASSUME NEW r PROVE r \in AllRows' <=> r \in AllRows
    <3>1. r \in AllRows <=> r \in rows \/ \E j \in DOMAIN jobs : r \in jobs[j].rows
      BY DEF AllRows
    <3>2. r \in AllRows' <=> \E j \in DOMAIN jobs' : r \in jobs'[j].rows
      BY <2>2 DEF AllRows
    <3>. QED BY <2>1, <3>1, <3>2
  <2>. QED BY <2>2, <2>3
<1>3. CASE \E j \in DOMAIN jobs : PoolThread(j)
  <2>1. /\ UNCHANGED <<position, rows>> /\ DOMAIN jobs' = DOMAIN jobs
        /\ \A i \in DOMAIN jobs : jobs'[i].rows = jobs[i].rows
    BY <1>3, StatesMove
  <2>2. ~ReadBlock
    BY <1>0, <2>1 DEF ReadBlock, TypeOK
  <2>. QED BY <2>1, <2>2 DEF AllRows
<1>4. CASE UNCHANGED <<position, rows, jobs>>
  <2>1. ~ReadBlock
    BY <1>0, <1>4 DEF ReadBlock, TypeOK
  <2>. QED BY <1>4, <2>1 DEF AllRows
<1>5. \/ ReadBlock \/ Submit \/ \E j \in DOMAIN jobs : PoolThread(j)
      \/ UNCHANGED <<position, rows, jobs>>
  BY DEF Next, LoadThread, Ended, Overwrite, Remove, OpenObject, OpenRange, ReadRaises,
         WaitFirst, EndOfObject, Drain, Drained, TakeResults, LeavePool, Exchange, DropStage,
         vars, stream, pool
<1>. QED BY <1>1, <1>2, <1>3, <1>4, <1>5

LEMMA ReadBlockForward ==
  ASSUME TInv, ReadForward, ReadBlock
  PROVE  ReadForward'
<1> DEFINE row == [block |-> position + 1, version |-> body]
<1>0. TypeOK
  BY DEF TInv
<1>1. /\ position' = position + 1 /\ position \in Nat /\ position + 1 <= Size[body]
      /\ body \in 1..Versions /\ body' \in {0, body} /\ head \in Nat /\ latest \in Nat
      /\ Size[body] \in Nat
      /\ UNCHANGED <<object, latest, head>> /\ pc' # "head"
  BY <1>0, PoolAssumption DEF ReadBlock, WantsBlock, TypeOK, bucket
<1>2. AllRows' = AllRows \cup {row}
  BY RowsRead DEF Next, LoadThread
<1>3. row.block = position + 1 /\ row.version = body
  OBVIOUS
<1> HIDE DEF row
<1>4. head <= body /\ body <= latest
  BY <1>1 DEF ReadForward
<1>5. \A r \in AllRows' :
        /\ r.block <= position' /\ r.block <= Size[r.version]
        /\ head <= r.version /\ r.version <= latest
        /\ body' # 0 => r.version <= body'
  BY <1>0, <1>1, <1>2, <1>3, <1>4, AllRowsTyped DEF ReadForward
<1>6. ASSUME NEW r \in AllRows', NEW s \in AllRows', r.block <= s.block
      PROVE  r.version <= s.version
  <2>1. CASE r \in AllRows /\ s \in AllRows
    BY <1>6, <2>1 DEF ReadForward
  <2>2. CASE s = row
    BY <1>0, <1>1, <1>2, <1>3, <2>2, AllRowsTyped DEF ReadForward
  <2>3. CASE r = row /\ s \in AllRows
    BY <1>0, <1>1, <1>3, <1>6, <2>3, AllRowsTyped DEF ReadForward
  <2>. QED BY <1>2, <2>1, <2>2, <2>3
<1>. QED BY <1>1, <1>4, <1>5, <1>6 DEF ReadForward

LEMMA NextReadForward ==
  ASSUME TInv, ReadForward, [Next]_vars
  PROVE  ReadForward'
<1>0. TypeOK /\ object \in Nat /\ latest \in Nat /\ head \in Nat /\ body \in Nat
  BY PoolAssumption DEF TInv, TypeOK
<1>1. CASE ReadBlock
  BY <1>1, ReadBlockForward
<1>2. CASE Overwrite
  <2>1. /\ latest' = latest + 1 /\ object' = latest' /\ UNCHANGED <<head, body, position, pc>>
        /\ AllRows' = AllRows
    BY <1>2 DEF Overwrite, stream, pool, AllRows
  <2>. QED BY <1>0, <2>1, AllRowsTyped DEF ReadForward
<1>3. CASE OpenObject
  <2>1. AllRows = {} /\ AllRows' = {}
    BY <1>3 DEF OpenObject, pool, AllRows, TInv, FreshOK
  <2>2. CASE object = 0
    BY <1>3, <2>1, <2>2 DEF OpenObject, Raise, bucket, stream, ReadForward
  <2>3. CASE object # 0
    BY <1>0, <1>3, <2>1, <2>3 DEF OpenObject, bucket, ReadForward
  <2>. QED BY <2>2, <2>3
<1>4. CASE OpenRange
  <2>1. /\ AllRows' = AllRows /\ UNCHANGED <<object, latest, head, position>> /\ pc' # "head"
        /\ body' \in {0, latest} /\ (body' = latest \/ body' = body)
    BY <1>4 DEF OpenRange, WantsBlock, Raise, bucket, pool, AllRows, ReadForward
  <2>. QED BY <1>0, <2>1 DEF ReadForward
<1>5. CASE /\ AllRows' = AllRows /\ UNCHANGED <<latest, head, position, body>>
           /\ object' \in {0, object} /\ (pc' = "head" => pc = "head")
  BY <1>5 DEF ReadForward
<1>6. \/ ReadBlock \/ Overwrite \/ OpenObject \/ OpenRange
      \/ /\ ~ReadBlock /\ UNCHANGED <<latest, head, position, body>>
         /\ object' \in {0, object} /\ (pc' = "head" => pc = "head")
  BY DEF Next, LoadThread, PoolThread, Ended, Remove, ReadRaises, Submit, WaitFirst, EndOfObject,
         Drain, Drained, TakeResults, Raise, LeavePool, Exchange, DropStage, StartInsert,
         CommitInsert, InsertFails, vars, bucket, stream
<1>. QED BY <1>1, <1>2, <1>3, <1>4, <1>5, <1>6, RowsRead

\* An insert adds rows of its batch.
LEMMA InsertedRead ==
  ASSUME TypeOK, TablesRead, NEW j \in DOMAIN jobs
  PROVE  OnlyRead(Inserted(jobs[j].rows))
<1> DEFINE batch == jobs[j].rows
<1>1. batch \subseteq AllRows
  BY DEF AllRows
<1> SUFFICES ASSUME NEW b \in Block, NEW i \in DOMAIN Inserted(batch)[b]
             PROVE  WasRead(b, Inserted(batch)[b][i])
  BY DEF OnlyRead
<1>2. stage[b] \in Seq(1..Versions)
  BY DEF TypeOK
<1>3. \A k \in DOMAIN stage[b] : WasRead(b, stage[b][k])
  BY DEF TablesRead, OnlyRead
<1>4. CASE \E r \in batch : r.block = b
  <2> DEFINE r == CHOOSE r \in batch : r.block = b
  <2>1. r \in batch /\ r.block = b
    BY <1>4
  <2>2. Inserted(batch)[b] = Append(stage[b], r.version)
    BY <1>4 DEF Inserted
  <2>3. WasRead(b, r.version)
    BY <1>1, <2>1 DEF WasRead
  <2> HIDE DEF r, batch
  <2>4. \/ i \in DOMAIN stage[b] /\ Inserted(batch)[b][i] = stage[b][i]
        \/ Inserted(batch)[b][i] = r.version
    BY <1>2, <2>2
  <2>. QED BY <1>3, <2>3, <2>4
<1>5. CASE ~(\E r \in batch : r.block = b)
  <2>1. Inserted(batch)[b] = stage[b]
    BY <1>5 DEF Inserted
  <2>. QED BY <1>3, <2>1
<1>. QED BY <1>4, <1>5

LEMMA NextTablesRead ==
  ASSUME TInv, TablesRead, [Next]_vars
  PROVE  TablesRead'
<1>0. TypeOK
  BY DEF TInv
<1>1. AllRows \subseteq AllRows'
  BY RowsRead
<1>2. ASSUME NEW content, OnlyRead(content)
      PROVE  \A b \in Block : \A i \in DOMAIN content[b] : WasRead(b, content[b][i])'
  BY <1>1, <1>2 DEF OnlyRead, WasRead
<1>3. OnlyRead(stage) /\ OnlyRead(table) /\ OnlyRead(NoRows)
  BY DEF TablesRead, OnlyRead, NoRows
<1>4. CASE stage' \in {stage, table, NoRows} /\ table' \in {stage, table}
  BY <1>2, <1>3, <1>4 DEF TablesRead, OnlyRead
<1>5. ASSUME NEW j \in DOMAIN jobs, PoolThread(j)
      PROVE  TablesRead'
  <2>1. stage' \in {stage, Inserted(jobs[j].rows)} /\ table' = table
    BY <1>5 DEF PoolThread, StartInsert, CommitInsert, InsertFails
  <2>2. OnlyRead(Inserted(jobs[j].rows))
    BY <1>0, InsertedRead DEF TablesRead
  <2>. QED BY <1>2, <1>3, <2>1, <2>2 DEF TablesRead, OnlyRead
<1>6. \/ \E j \in DOMAIN jobs : PoolThread(j)
      \/ stage' \in {stage, table, NoRows} /\ table' \in {stage, table}
  BY DEF Next, LoadThread, Ended, Overwrite, Remove, OpenObject, OpenRange, ReadBlock, ReadRaises,
         Submit, WaitFirst, EndOfObject, Drain, Drained, TakeResults, LeavePool, Exchange, DropStage,
         vars
<1>. QED BY <1>4, <1>5, <1>6

LEMMA NextHeadTold ==
  ASSUME IInv, HeadTold, [Next]_vars
  PROVE  HeadTold'
<1>1. CASE Exchange
  BY <1>1 DEF Exchange, stream, IInv, ResultOK, HeadTold, Looping
<1>2. CASE pc = "head" /\ UNCHANGED table
  BY <1>2 DEF IInv, TableOK, HeadTold
<1>3. CASE UNCHANGED <<table, head>>
  BY <1>3 DEF HeadTold
<1>4. \/ Exchange
      \/ pc = "head" /\ UNCHANGED table
      \/ UNCHANGED <<table, head>>
  BY DEF Next, LoadThread, PoolThread, Ended, Overwrite, Remove, OpenObject, OpenRange,
         ReadBlock, ReadRaises, WantsBlock, Submit, WaitFirst, EndOfObject, Drain, Drained,
         TakeResults, LeavePool, DropStage, StartInsert, CommitInsert, InsertFails,
         vars, stream
<1>. QED BY <1>1, <1>2, <1>3, <1>4

LEMMA NextVInv == VInv /\ [Next]_vars => VInv'
BY NextIInv, NextReadForward, NextTablesRead, NextHeadTold DEF VInv, IInv, PInv

LEMMA InitVInv == Init => VInv
<1> SUFFICES ASSUME Init PROVE VInv
  OBVIOUS
<1>1. AllRows = {} /\ TablesRead
  BY DEF Init, AllRows, TablesRead, OnlyRead, NoRows
<1>2. ReadForward
  BY <1>1 DEF Init, ReadForward
<1>. QED BY <1>1, <1>2, InitIInv DEF VInv, HeadTold, Init

(* Versions of the object may be combined, but only in their order, never if the
   object was not overwritten, and never with an end that is missing. *)
THEOREM SpecExchangedVersions == Spec => []ExchangedVersions
<1>1. VInv => ExchangedVersions
  <2> SUFFICES ASSUME VInv, table # NoRows PROVE ExchangedVersions
    BY DEF ExchangedVersions
  <2>0. TypeOK /\ ReadForward /\ TableOK /\ ResultOK
    BY DEF VInv, IInv, PInv, TInv
  <2>1. ASSUME NEW b \in Block, NEW v \in VersionsAt(b) PROVE WasRead(b, v)
    BY <2>1 DEF VersionsAt, VInv, TablesRead, OnlyRead
  <2>2. latest = head => \A b \in Block : VersionsAt(b) \subseteq {head}
    <3> SUFFICES ASSUME latest = head, NEW b \in Block, NEW v \in VersionsAt(b) PROVE v = head
      OBVIOUS
    <3>1. PICK r \in AllRows : r.version = v
      BY <2>1 DEF WasRead
    <3>2. head <= v /\ v <= latest /\ v \in 1..Versions /\ latest \in Nat
      BY <2>0, <3>1, AllRowsTyped DEF ReadForward, TypeOK
    <3>. QED BY <3>2
  <2>3. \A a, b \in Block : a < b => \A v \in VersionsAt(a), w \in VersionsAt(b) : v <= w
    <3> SUFFICES ASSUME NEW a \in Block, NEW b \in Block, a < b,
                        NEW v \in VersionsAt(a), NEW w \in VersionsAt(b)
                 PROVE  v <= w
      OBVIOUS
    <3>1. PICK r \in AllRows : r.block = a /\ r.version = v
      BY <2>1 DEF WasRead
    <3>2. PICK s \in AllRows : s.block = b /\ s.version = w
      BY <2>1 DEF WasRead
    <3>3. r.block <= s.block
      BY <3>1, <3>2 DEF Block
    <3>. QED BY <2>0, <3>1, <3>2, <3>3 DEF ReadForward
  <2>4. \E v \in VersionsAt(Size[head]) : Size[v] >= Size[head]
    <3> DEFINE b == Size[head]
    <3>1. b \in Block /\ b \in Nat
      BY PoolAssumption DEF VInv, HeadTold, Block
    <3>2. table[b] \in Seq(1..Versions) /\ Len(table[b]) = 1
      BY <2>0, <3>1 DEF TableOK, TypeOK
    <3> DEFINE v == table[b][1]
    <3>3. v \in VersionsAt(b)
      <4>1. 1 \in DOMAIN table[b]
        BY <3>2
      <4>. QED BY <4>1 DEF VersionsAt
    <3>4. PICK r \in AllRows : r.block = b /\ r.version = v
      BY <2>1, <3>1, <3>3 DEF WasRead
    <3>. QED BY <2>0, <3>1, <3>3, <3>4, AllRowsTyped DEF ReadForward
  <2>. QED BY <2>2, <2>3, <2>4 DEF ExchangedVersions
<1>. QED BY InitVInv, NextVInv, <1>1, PTL DEF Spec
=============================================================================
