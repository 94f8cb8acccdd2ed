------------------------ MODULE PartitionLoaderProofs ------------------------
(***************************************************************************)
(* Theorems about PartitionLoader for any number of workers, objects,      *)
(* mappings and targets, and any bounds.                                   *)
(***************************************************************************)
EXTENDS PartitionLoader, TLAPS

\* A worker that executes something has an event and, once it needs them, a
\* target and a batch number.
WorkersOK ==
  \A w \in Workers :
    /\ pc[w] # "idle" => job[w] \in 1..Len(log) /\ to[w] \in Targets
    /\ pc[w] \in LoadSteps \cup {"dropping", "dropped"} => batch[w] \in Batch
    /\ pc[w] \in LoadSteps \cup {"raised", "dropping", "dropped"} => Known(Object(w))

\* A record that exists has a batch number, below the next one of its target.
RecordsOK ==
  \A o \in Objects : Known(o) =>
    /\ record[o].batch \in Batch
    /\ record[o].batch < sequence[record[o].target]

TInv == TypeOK /\ WorkersOK /\ RecordsOK

-----------------------------------------------------------------------------
(* Types.                                                                  *)

LEMMA RecordType ==
  ASSUME NEW s \in States, NEW t \in Targets, NEW b \in 0..MaxBatches,
         NEW v \in 0..MaxEvents, NEW l \in {"none", "running", "elapsed"}
  PROVE  /\ Record(s, t, b, v, l) \in RecordRow
         /\ Record(s, t, b, v, l).state = s
         /\ Record(s, t, b, v, l).target = t
         /\ Record(s, t, b, v, l).batch = b
         /\ Record(s, t, b, v, l).version = v
         /\ Record(s, t, b, v, l).lease = l
  BY DEF Record, RecordRow

LEMMA RecordFields ==
  ASSUME TypeOK, NEW o \in Objects
  PROVE  /\ record[o].state \in States
         /\ record[o].target \in Targets
         /\ record[o].batch \in 0..MaxBatches
         /\ record[o].version \in 0..MaxEvents
         /\ record[o].lease \in {"none", "running", "elapsed"}
<1>1. record[o] \in RecordRow
  BY DEF TypeOK
<1>. QED BY <1>1 DEF RecordRow

LEMMA RowsType ==
  ASSUME NEW o \in Objects \cup {NoObject}, NEW h \in 0..MaxEvents, NEW v \in 0..MaxEvents
  PROVE  RowsOf(o, h, v) \in Contents /\ RowsOf(o, h, v).of = o /\ NoRows \in Contents
         /\ NoRows.of = NoObject
  BY ConstantsAssumption DEF RowsOf, NoRows, Contents

LEMMA EventFields ==
  ASSUME TypeOK, NEW n \in 1..Len(log)
  PROVE  log[n].object \in Objects /\ log[n].action \in Actions
<1>1. log[n] \in Events
  BY DEF TypeOK
<1>. QED BY <1>1 DEF Events

LEMMA WorkerFacts ==
  ASSUME TInv, NEW w \in Workers, pc[w] # "idle"
  PROVE  /\ job[w] \in 1..Len(log) /\ job[w] \in 0..MaxEvents
         /\ Object(w) \in Objects
         /\ to[w] \in Targets
<1>1. job[w] \in 1..Len(log) /\ to[w] \in Targets
  BY DEF TInv, WorkersOK
<1>2. Len(log) \in Nat /\ Len(log) <= MaxEvents
  BY DEF TInv, TypeOK
<1>. QED BY <1>1, <1>2, EventFields, ConstantsAssumption DEF TInv, Object

LEMMA InitTInv == Init => TInv
<1> SUFFICES ASSUME Init PROVE TInv
  OBVIOUS
<1>0. NoRows \in Contents
  BY ConstantsAssumption DEF NoRows, RowsOf, Contents
<1>1. \A o \in Objects : Record("none", InitialTarget[MappingOf[o]], 0, 0, "none") \in RecordRow
  BY RecordType, ConstantsAssumption DEF States
<1>2. TypeOK
  BY <1>0, <1>1, ConstantsAssumption DEF Init, TypeOK, Steps
<1>3. WorkersOK
  BY DEF Init, WorkersOK, LoadSteps
<1>4. RecordsOK
  BY DEF Init, RecordsOK, Known, Record
<1>. QED BY <1>2, <1>3, <1>4 DEF TInv

LEMMA PutObjectTInv ==
  ASSUME TInv, NEW o \in Objects, PutObject(o) \/ RemoveObject(o)
  PROVE  TInv'
<1>1. PICK e \in Events : log' = Append(log, e)
  BY DEF PutObject, RemoveObject, Event, Events, Actions
<1>2. /\ log \in Seq(Events) /\ log' \in Seq(Events)
      /\ Len(log') = Len(log) + 1 /\ Len(log) \in Nat
      /\ \A n \in 1..Len(log) : log'[n] = log[n]
  BY <1>1 DEF TInv, TypeOK
<1>3. Len(log') <= MaxEvents
  BY <1>2, ConstantsAssumption DEF PutObject, RemoveObject
<1>4. bucket' \in [Objects -> 0..Len(log')]
  <2>1. PICK v \in {0, Len(log) + 1} : bucket' = [bucket EXCEPT ![o] = v]
    BY DEF PutObject, RemoveObject
  <2>2. bucket \in [Objects -> 0..Len(log)]
    BY DEF TInv, TypeOK
  <2>3. 0..Len(log) \subseteq 0..Len(log') /\ v \in 0..Len(log')
    BY <1>2
  <2>. QED BY <2>1, <2>2, <2>3
<1>5. job' \in [Workers -> 0..Len(log')]
  BY <1>2 DEF TInv, TypeOK, PutObject, RemoveObject, workers
<1>6. UNCHANGED <<target, control, tables, workers, orphans, limits>>
  BY DEF PutObject, RemoveObject
<1>7. TypeOK'
  BY <1>2, <1>3, <1>4, <1>5, <1>6 DEF TInv, TypeOK, control, tables, workers, limits
<1>8. WorkersOK'
  BY <1>2, <1>6 DEF TInv, WorkersOK, workers, control, Known, Object, LoadSteps
<1>9. RecordsOK'
  BY <1>6 DEF TInv, RecordsOK, control, Known
<1>. QED BY <1>7, <1>8, <1>9 DEF TInv

\* Steps of a worker that leave the control tables alone.
LEMMA QuietTInv ==
  ASSUME TInv, NEW w \in Workers,
         UNCHANGED <<source, target, control>>,
         pc' \in [Workers -> Steps],
         \A v \in Workers \ {w} : pc'[v] = pc[v] /\ job'[v] = job[v] /\ to'[v] = to[v] /\ batch'[v] = batch[v],
         job' \in [Workers -> 0..Len(log)],
         to' \in [Workers -> Targets \cup {NoTarget}],
         batch' \in [Workers -> 0..MaxBatches],
         stage' \in [Workers -> SUBSET Contents],
         outcome' \in [Workers -> {"ok", "error", "missing"}],
         partitions' \in [Targets -> SUBSET Batch],
         rows' \in [Targets -> [Batch -> Contents]],
         orphans' \in Nat, retargets' \in 0..MaxRetargets, faults' \in 0..MaxFaults,
         pc'[w] # "idle" => job'[w] \in 1..Len(log) /\ to'[w] \in Targets,
         pc'[w] \in LoadSteps \cup {"dropping", "dropped"} => batch'[w] \in Batch,
         pc'[w] \in LoadSteps \cup {"raised", "dropping", "dropped"} => Known(log[job'[w]].object)
  PROVE  TInv'
<1>1. TypeOK'
  BY DEF TInv, TypeOK, source, control
<1>2. WorkersOK'
  BY DEF TInv, WorkersOK, source, control, Known, Object
<1>3. RecordsOK'
  BY DEF TInv, RecordsOK, control, Known
<1>. QED BY <1>1, <1>2, <1>3 DEF TInv

\* A worker that holds a record goes on, raises or ends its call.
LEMMA HeldTInv ==
  ASSUME TInv, NEW w \in Workers,
         pc[w] \in LoadSteps \cup {"raised", "cleanup", "resolved", "deleting", "dropping", "dropped"},
         NEW s \in Steps, pc' = [pc EXCEPT ![w] = s],
         \/ s \in LoadSteps /\ pc[w] \in LoadSteps
         \/ s = "raised" /\ pc[w] \in LoadSteps
         \/ s = "dropped" /\ pc[w] = "dropping"
         \/ s \in {"cleanup", "returned"},
         UNCHANGED <<source, target, control, job, to, batch, retargets>>,
         outcome' \in [Workers -> {"ok", "error", "missing"}],
         stage' \in [Workers -> SUBSET Contents],
         partitions' \in [Targets -> SUBSET Batch],
         rows' \in [Targets -> [Batch -> Contents]],
         orphans' \in Nat, faults' \in 0..MaxFaults
  PROVE  TInv'
<1>1. pc' \in [Workers -> Steps] /\ pc'[w] = s /\ pc[w] # "idle"
  BY DEF TInv, TypeOK, LoadSteps
<1>2. \A v \in Workers \ {w} : pc'[v] = pc[v]
  BY DEF TInv, TypeOK
<1>3. job[w] \in 1..Len(log) /\ to[w] \in Targets
  BY <1>1, WorkerFacts
<1>4. s \in LoadSteps \cup {"dropping", "dropped"} => batch[w] \in Batch
  BY DEF TInv, WorkersOK, LoadSteps
<1>5. s \in LoadSteps \cup {"raised", "dropping", "dropped"} => Known(log[job[w]].object)
  BY DEF TInv, WorkersOK, LoadSteps, Object
<1>6. /\ job \in [Workers -> 0..Len(log)]
      /\ to \in [Workers -> Targets \cup {NoTarget}]
      /\ batch \in [Workers -> 0..MaxBatches]
      /\ retargets \in 0..MaxRetargets
  BY DEF TInv, TypeOK
<1>. QED BY <1>1, <1>2, <1>3, <1>4, <1>5, <1>6, QuietTInv

\* The tables and limits of a step that changes none of them have their types.
LEMMA CurrentTypes ==
  ASSUME TInv
  PROVE  /\ stage \in [Workers -> SUBSET Contents]
         /\ outcome \in [Workers -> {"ok", "error", "missing"}]
         /\ partitions \in [Targets -> SUBSET Batch]
         /\ rows \in [Targets -> [Batch -> Contents]]
         /\ orphans \in Nat /\ faults \in 0..MaxFaults /\ retargets \in 0..MaxRetargets
  BY DEF TInv, TypeOK

LEMMA LoadQuietTInv ==
  ASSUME TInv, NEW w \in Workers,
         \/ AllocateRefused(w) \/ EnsurePartition(w) \/ CreateStage(w) \/ OpenObject(w)
         \/ FillStage(w) \/ ObjectMissing(w) \/ ObjectChanged(w)
         \/ Exchange(w) \/ ExchangeFails(w) \/ DropStage(w)
         \/ DeleteAbsent(w) \/ DeleteRefused(w) \/ DropPartition(w) \/ DropFails(w)
  PROVE  TInv'
<1>0. UNCHANGED <<source, target, control, job, to, batch, retargets, faults, orphans>>
  BY DEF AllocateRefused, EnsurePartition, CreateStage, OpenObject, FillStage, ObjectMissing,
         ObjectChanged, Exchange, ExchangeFails, DropStage, DeleteAbsent, DeleteRefused, DropPartition, DropFails, limits
<1>1. NoRows \in Contents
  BY ConstantsAssumption DEF NoRows, RowsOf, Contents
<1>2. CASE AllocateRefused(w) \/ DeleteAbsent(w) \/ DeleteRefused(w) \/ DropFails(w)
  <2>1. outcome' \in [Workers -> {"ok", "error", "missing"}] /\ UNCHANGED <<tables, stage>>
    BY <1>2, CurrentTypes DEF AllocateRefused, DeleteAbsent, DeleteRefused, DropFails, Returns
  <2>2. pc' = [pc EXCEPT ![w] = "returned"] /\ pc[w] \in {"resolved", "deleting", "dropping"}
    BY <1>2 DEF AllocateRefused, DeleteAbsent, DeleteRefused, DropFails, Returns, Step
  <2>. QED BY <1>0, <2>1, <2>2, CurrentTypes, HeldTInv DEF Steps, tables
<1>3. CASE EnsurePartition(w)
  <2>1. pc[w] = "allocated" /\ pc' = [pc EXCEPT ![w] = "partitioned"] /\ UNCHANGED <<rows, stage, outcome>>
    BY <1>3 DEF EnsurePartition, Step
  <2>2. batch[w] \in Batch
    BY <2>1 DEF TInv, WorkersOK, LoadSteps
  <2>3. partitions' \in [Targets -> SUBSET Batch]
    BY <1>3, <2>2, CurrentTypes DEF EnsurePartition
  <2>. QED BY <1>0, <2>1, <2>3, CurrentTypes, HeldTInv DEF Steps, LoadSteps
<1>4. CASE CreateStage(w)
  <2>1. pc[w] = "partitioned" /\ pc' = [pc EXCEPT ![w] = "staged"] /\ UNCHANGED <<tables, outcome>>
    BY <1>4 DEF CreateStage, Step
  <2>2. stage' \in [Workers -> SUBSET Contents]
    BY <1>1, <1>4, CurrentTypes DEF CreateStage
  <2>. QED BY <1>0, <2>1, <2>2, CurrentTypes, HeldTInv DEF Steps, LoadSteps, tables
<1>5. CASE OpenObject(w)
  <2>1. pc[w] = "staged" /\ pc' = [pc EXCEPT ![w] = "reading"] /\ UNCHANGED <<tables, outcome>>
    BY <1>5 DEF OpenObject, Step
  <2>2. Object(w) \in Objects /\ bucket[Object(w)] \in 0..MaxEvents
    BY <2>1, WorkerFacts, ConstantsAssumption DEF TInv, TypeOK
  <2>3. RowsOf(Object(w), bucket[Object(w)], bucket[Object(w)]) \in Contents
    BY <2>2, RowsType
  <2>4. stage' \in [Workers -> SUBSET Contents]
    BY <1>5, <2>3, CurrentTypes DEF OpenObject
  <2>. QED BY <1>0, <2>1, <2>4, CurrentTypes, HeldTInv DEF Steps, LoadSteps, tables
<1>10. CASE FillStage(w)
  <2>1. pc[w] = "reading" /\ pc' = [pc EXCEPT ![w] = "filled"] /\ UNCHANGED <<tables, outcome>>
    BY <1>10 DEF FillStage, Step
  <2>2. Object(w) \in Objects /\ bucket[Object(w)] \in 0..MaxEvents
    BY <2>1, WorkerFacts, ConstantsAssumption DEF TInv, TypeOK
  <2>3. PICK c \in stage[w] :
          stage' = [stage EXCEPT ![w] = {RowsOf(Object(w), c.head, bucket[Object(w)])}]
    BY <1>10 DEF FillStage
  <2>4. c.head \in 0..MaxEvents
    BY CurrentTypes DEF Contents
  <2>5. RowsOf(Object(w), c.head, bucket[Object(w)]) \in Contents
    BY <2>2, <2>4, RowsType
  <2>6. stage' \in [Workers -> SUBSET Contents]
    BY <2>3, <2>5, CurrentTypes
  <2>. QED BY <1>0, <2>1, <2>6, CurrentTypes, HeldTInv DEF Steps, LoadSteps, tables
<1>6. CASE ObjectMissing(w) \/ ObjectChanged(w) \/ ExchangeFails(w)
  <2>1. outcome' \in [Workers -> {"ok", "error", "missing"}] /\ UNCHANGED <<tables, stage>>
    BY <1>6, CurrentTypes DEF ObjectMissing, ObjectChanged, ExchangeFails, Raises
  <2>2. pc' = [pc EXCEPT ![w] = "raised"] /\ pc[w] \in {"staged", "reading", "filled"}
    BY <1>6 DEF ObjectMissing, ObjectChanged, ExchangeFails, Raises, Step
  <2>. QED BY <1>0, <2>1, <2>2, CurrentTypes, HeldTInv DEF Steps, LoadSteps, tables
<1>7. CASE Exchange(w)
  <2>1. pc[w] = "filled" /\ pc' = [pc EXCEPT ![w] = "exchanged"] /\ UNCHANGED <<partitions, outcome>>
    BY <1>7 DEF Exchange, Step
  <2>2. to[w] \in Targets /\ batch[w] \in Batch
    BY <2>1, WorkerFacts DEF TInv, WorkersOK, LoadSteps
  <2>3. PICK c \in stage[w] : rows' = [rows EXCEPT ![to[w]][batch[w]] = c]
    BY <1>7 DEF Exchange
  <2>4. c \in Contents
    BY CurrentTypes
  <2>5. rows' \in [Targets -> [Batch -> Contents]]
    BY <2>2, <2>3, <2>4, CurrentTypes
  <2>6. stage' \in [Workers -> SUBSET Contents]
    BY <1>7, <2>2, CurrentTypes DEF Exchange
  <2>. QED BY <1>0, <2>1, <2>5, <2>6, CurrentTypes, HeldTInv DEF Steps, LoadSteps
<1>8. CASE DropStage(w)
  <2>1. pc[w] = "cleanup" /\ pc' = [pc EXCEPT ![w] = "returned"] /\ UNCHANGED <<tables, outcome>>
    BY <1>8 DEF DropStage, Step
  <2>2. stage' \in [Workers -> SUBSET Contents]
    BY <1>8, CurrentTypes DEF DropStage
  <2>. QED BY <1>0, <2>1, <2>2, CurrentTypes, HeldTInv DEF Steps, tables
<1>9. CASE DropPartition(w)
  <2>1. pc[w] = "dropping" /\ pc' = [pc EXCEPT ![w] = "dropped"] /\ UNCHANGED <<stage, outcome>>
    BY <1>9 DEF DropPartition, Step
  <2>2. to[w] \in Targets /\ batch[w] \in Batch
    BY <2>1, WorkerFacts DEF TInv, WorkersOK
  <2>3. partitions' \in [Targets -> SUBSET Batch]
    BY <1>9, CurrentTypes DEF DropPartition
  <2>4. rows' \in [Targets -> [Batch -> Contents]]
    BY <1>1, <1>9, <2>2, CurrentTypes DEF DropPartition
  <2>. QED BY <1>0, <2>1, <2>3, <2>4, CurrentTypes, HeldTInv DEF Steps
<1>. QED BY <1>2, <1>3, <1>4, <1>5, <1>6, <1>7, <1>8, <1>9, <1>10

LEMMA FaultTInv ==
  ASSUME TInv, NEW w \in Workers,
         CallFails(w) \/ LoadFails(w) \/ MarkErrorFails(w) \/ DropStageFails(w)
  PROVE  TInv'
<1>1. faults' \in 0..MaxFaults /\ UNCHANGED <<source, target, control, job, to, batch, retargets, tables>>
  BY ConstantsAssumption, CurrentTypes DEF CallFails, LoadFails, MarkErrorFails, DropStageFails, Fault
<1>2. orphans' \in Nat
  BY CurrentTypes DEF CallFails, LoadFails, MarkErrorFails, DropStageFails, Abandoned
<1>3. stage' \in [Workers -> SUBSET Contents]
  BY CurrentTypes DEF CallFails, LoadFails, MarkErrorFails, DropStageFails
<1>4. outcome' \in [Workers -> {"ok", "error", "missing"}]
  BY CurrentTypes DEF CallFails, LoadFails, MarkErrorFails, DropStageFails, Returns, Raises
<1>5. CASE CallFails(w)
  <2>1. /\ pc[w] \in {"resolved", "deleting", "dropping", "dropped"}
        /\ pc' = [pc EXCEPT ![w] = "returned"]
    BY <1>5 DEF CallFails, Returns, Step
  <2>. QED BY <1>1, <1>2, <1>3, <1>4, <2>1, CurrentTypes, HeldTInv DEF Steps, tables
<1>6. CASE LoadFails(w)
  <2>1. pc[w] \in LoadSteps /\ pc' = [pc EXCEPT ![w] = "raised"]
    BY <1>6 DEF LoadFails, Raises, Step
  <2>. QED BY <1>1, <1>2, <1>3, <1>4, <2>1, CurrentTypes, HeldTInv DEF Steps, tables
<1>7. CASE MarkErrorFails(w)
  <2>1. pc[w] = "raised" /\ pc' = [pc EXCEPT ![w] = "cleanup"]
    BY <1>7 DEF MarkErrorFails, Step
  <2>. QED BY <1>1, <1>2, <1>3, <1>4, <2>1, CurrentTypes, HeldTInv DEF Steps, tables
<1>8. CASE DropStageFails(w)
  <2>1. pc[w] = "cleanup" /\ pc' = [pc EXCEPT ![w] = "returned"]
    BY <1>8 DEF DropStageFails, Step
  <2>. QED BY <1>1, <1>2, <1>3, <1>4, <2>1, CurrentTypes, HeldTInv DEF Steps, tables
<1>. QED BY <1>5, <1>6, <1>7, <1>8

LEMMA LeavesTInv ==
  ASSUME TInv, NEW w \in Workers, Leaves(w), orphans' \in Nat, faults' \in 0..MaxFaults
  PROVE  TInv'
<1>1. pc' = [pc EXCEPT ![w] = "idle"] /\ pc'[w] = "idle" /\ pc' \in [Workers -> Steps]
  BY DEF Leaves, TInv, TypeOK, Steps
<1>2. /\ job' \in [Workers -> 0..Len(log)]
      /\ to' \in [Workers -> Targets \cup {NoTarget}]
      /\ batch' \in [Workers -> 0..MaxBatches]
      /\ stage' \in [Workers -> SUBSET Contents]
      /\ outcome' \in [Workers -> {"ok", "error", "missing"}]
  BY ConstantsAssumption DEF Leaves, TInv, TypeOK
<1>3. \A v \in Workers \ {w} : pc'[v] = pc[v] /\ job'[v] = job[v] /\ to'[v] = to[v] /\ batch'[v] = batch[v]
  BY DEF Leaves, TInv, TypeOK
<1>4. UNCHANGED <<source, target, control, tables, retargets>>
  BY DEF Leaves
<1>5. "idle" \notin LoadSteps \cup {"raised", "dropping", "dropped"}
  BY DEF LoadSteps
<1>. QED BY <1>1, <1>2, <1>3, <1>4, <1>5, CurrentTypes, QuietTInv DEF tables

LEMMA BeginTInv ==
  ASSUME TInv, NEW w \in Workers, NEW n \in 1..Len(log), Begin(w, n)
  PROVE  TInv'
<1>1. PICK s \in {"deleting", "resolved"} : pc' = [pc EXCEPT ![w] = s]
  BY DEF Begin, Step
<1>2. pc' \in [Workers -> Steps] /\ pc'[w] = s
  BY <1>1 DEF TInv, TypeOK, Steps
<1>3. target[MappingOf[log[n].object]] \in Targets
  BY EventFields, ConstantsAssumption DEF TInv, TypeOK
<1>4. /\ job' \in [Workers -> 0..Len(log)] /\ job'[w] = n
      /\ to' \in [Workers -> Targets \cup {NoTarget}] /\ to'[w] \in Targets
      /\ batch' \in [Workers -> 0..MaxBatches]
  BY <1>3 DEF Begin, TInv, TypeOK
<1>5. \A v \in Workers \ {w} : pc'[v] = pc[v] /\ job'[v] = job[v] /\ to'[v] = to[v] /\ batch'[v] = batch[v]
  BY <1>1 DEF Begin, TInv, TypeOK
<1>6. UNCHANGED <<source, target, control, tables, stage, outcome, orphans, limits>>
  BY DEF Begin
<1>7. s \notin LoadSteps \cup {"raised", "dropping", "dropped"}
  BY DEF LoadSteps
<1>. QED BY <1>1, <1>2, <1>4, <1>5, <1>6, <1>7, CurrentTypes, QuietTInv DEF tables, limits

LEMMA DeleteReadTInv ==
  ASSUME TInv, NEW w \in Workers, DeleteRead(w)
  PROVE  TInv'
<1>1. /\ pc[w] = "deleting" /\ pc' = [pc EXCEPT ![w] = "dropping"]
      /\ pc' \in [Workers -> Steps] /\ pc'[w] = "dropping"
  BY DEF DeleteRead, Step, TInv, TypeOK, Steps
<1>2. job[w] \in 1..Len(log) /\ Object(w) \in Objects
  BY <1>1, WorkerFacts
<1>3. Known(Object(w)) /\ Now(w).target \in Targets /\ Now(w).batch \in Batch
  BY <1>2, RecordFields DEF DeleteRead, Now, Known, TInv, RecordsOK
<1>4. /\ to' \in [Workers -> Targets \cup {NoTarget}] /\ to'[w] \in Targets
      /\ batch' \in [Workers -> 0..MaxBatches] /\ batch'[w] \in Batch
      /\ job' = job
  BY <1>3, ConstantsAssumption DEF DeleteRead, TInv, TypeOK, Batch
<1>5. \A v \in Workers \ {w} : pc'[v] = pc[v] /\ job'[v] = job[v] /\ to'[v] = to[v] /\ batch'[v] = batch[v]
  BY <1>1 DEF DeleteRead, TInv, TypeOK
<1>6. UNCHANGED <<source, target, control, tables, stage, outcome, orphans, limits>>
  BY DEF DeleteRead
<1>7. job' \in [Workers -> 0..Len(log)]
  BY <1>4 DEF TInv, TypeOK
<1>. QED BY <1>1, <1>2, <1>3, <1>4, <1>5, <1>6, <1>7, CurrentTypes, QuietTInv DEF tables, limits, Object

LEMMA AllocateReplayTInv ==
  ASSUME TInv, NEW w \in Workers, AllocateReplay(w)
  PROVE  TInv'
<1>1. /\ pc[w] = "resolved" /\ pc' = [pc EXCEPT ![w] = "allocated"]
      /\ pc' \in [Workers -> Steps] /\ pc'[w] = "allocated"
  BY DEF AllocateReplay, Step, TInv, TypeOK, Steps, LoadSteps
<1>2. job[w] \in 1..Len(log) /\ to[w] \in Targets /\ Object(w) \in Objects
  BY <1>1, WorkerFacts
<1>3. Known(Object(w)) /\ Now(w).batch \in Batch
  BY <1>2 DEF AllocateReplay, Now, Known, TInv, RecordsOK
<1>4. batch' \in [Workers -> 0..MaxBatches] /\ batch'[w] \in Batch /\ job' = job /\ to' = to
  BY <1>3, ConstantsAssumption DEF AllocateReplay, TInv, TypeOK, Batch
<1>5. \A v \in Workers \ {w} : pc'[v] = pc[v] /\ job'[v] = job[v] /\ to'[v] = to[v] /\ batch'[v] = batch[v]
  BY <1>1 DEF AllocateReplay, TInv, TypeOK
<1>6. UNCHANGED <<source, target, control, tables, stage, outcome, orphans, limits>>
  BY DEF AllocateReplay
<1>7. job \in [Workers -> 0..Len(log)] /\ to \in [Workers -> Targets \cup {NoTarget}]
  BY DEF TInv, TypeOK
<1>. QED BY <1>1, <1>2, <1>3, <1>4, <1>5, <1>6, <1>7, CurrentTypes, QuietTInv DEF tables, limits, Object

\* A step that rewrites the state of one record: a known object stays known
\* under its target and batch number.
LEMMA StateTInv ==
  ASSUME TInv, NEW o \in Objects, Known(o),
         NEW st \in States \ {"none"}, NEW l \in {"none", "running", "elapsed"},
         record' = [record EXCEPT ![o] = Record(st, @.target, @.batch, @.version, l)],
         UNCHANGED <<source, target, sequence, tables, job, to, batch, stage, orphans, limits>>,
         outcome' \in [Workers -> {"ok", "error", "missing"}],
         \/ pc' = pc
         \/ \E w \in Workers, s \in {"cleanup", "returned"} :
              pc[w] # "idle" /\ pc' = [pc EXCEPT ![w] = s]
  PROVE  TInv'
<1>1. record' = [record EXCEPT ![o] = Record(st, record[o].target, record[o].batch, record[o].version, l)]
  OBVIOUS
<1>2. record' \in [Objects -> RecordRow]
  BY <1>1, RecordType, RecordFields DEF TInv, TypeOK
<1>3. \A q \in Objects : /\ Known(q)' <=> Known(q)
                         /\ record'[q].target = record[q].target /\ record'[q].batch = record[q].batch
  <2>1. \A q \in Objects \ {o} : record'[q] = record[q]
    BY <1>1 DEF TInv, TypeOK
  <2>2. record'[o] = Record(st, record[o].target, record[o].batch, record[o].version, l)
    BY <1>1 DEF TInv, TypeOK
  <2>3. /\ record'[o].state = st /\ st # "none"
        /\ record'[o].target = record[o].target /\ record'[o].batch = record[o].batch
    BY <2>2 DEF Record
  <2>. QED BY <2>1, <2>3 DEF Known
<1>4. pc' \in [Workers -> Steps]
  BY DEF TInv, TypeOK, Steps
<1>5. TypeOK'
  BY <1>2, <1>4 DEF TInv, TypeOK, source, tables, limits
<1>6. \A w \in Workers : pc'[w] = pc[w] \/ (pc[w] # "idle" /\ pc'[w] \in {"cleanup", "returned"})
  <2>1. ASSUME NEW v \in Workers, NEW s \in {"cleanup", "returned"},
               pc[v] # "idle", pc' = [pc EXCEPT ![v] = s]
        PROVE  \A w \in Workers : pc'[w] = pc[w] \/ (pc[w] # "idle" /\ pc'[w] \in {"cleanup", "returned"})
    BY <2>1 DEF TInv, TypeOK
  <2>. QED BY <2>1
<1>7. \A w \in Workers : pc[w] # "idle" => Object(w) \in Objects
  BY WorkerFacts
<1>9. WorkersOK'
  BY <1>3, <1>6, <1>7 DEF TInv, WorkersOK, Object, source, LoadSteps, Known
<1>10. RecordsOK'
  BY <1>3 DEF TInv, RecordsOK, Known
<1>. QED BY <1>5, <1>9, <1>10 DEF TInv

LEMMA MarkTInv ==
  ASSUME TInv, NEW w \in Workers, MarkActive(w) \/ MarkError(w) \/ MarkDeleted(w)
  PROVE  TInv'
<1>1. PICK st \in {"ACTIVE", "ERROR", "DELETED"} : SetState(w, st)
  BY DEF MarkActive, MarkError, MarkDeleted
<1>2. pc[w] \in {"exchanged", "raised", "dropped"}
  BY DEF MarkActive, MarkError, MarkDeleted, Returns, Step
<1>3. PICK s \in {"cleanup", "returned"} : pc' = [pc EXCEPT ![w] = s]
  BY DEF MarkActive, MarkError, MarkDeleted, Returns, Step
<1>4. Object(w) \in Objects /\ Known(Object(w))
  BY <1>2, WorkerFacts DEF TInv, WorkersOK, LoadSteps
<1>5. outcome' \in [Workers -> {"ok", "error", "missing"}]
  BY CurrentTypes DEF MarkActive, MarkError, MarkDeleted, Returns
<1>6. UNCHANGED <<source, target, sequence, tables, job, to, batch, stage, orphans, limits>>
  BY DEF MarkActive, MarkError, MarkDeleted
<1>7. record' = [record EXCEPT ![Object(w)] = Record(st, @.target, @.batch, @.version, "none")]
  BY <1>1 DEF SetState
<1>8. st \in States \ {"none"}
  BY DEF States
<1>. QED BY <1>2, <1>3, <1>4, <1>5, <1>6, <1>7, <1>8, StateTInv

LEMMA LeaseTInv ==
  ASSUME TInv, NEW o \in Objects, LeaseElapses(o)
  PROVE  TInv'
<1>1. Known(o) /\ record[o].state = "LOADING"
  BY DEF LeaseElapses, Busy, Known
<1>2. record' = [record EXCEPT ![o] = Record("LOADING", @.target, @.batch, @.version, "elapsed")]
  BY <1>1 DEF LeaseElapses
<1>3. UNCHANGED <<source, target, sequence, tables, workers, orphans, limits>>
  BY DEF LeaseElapses
<1>. QED BY <1>1, <1>2, <1>3, StateTInv, CurrentTypes DEF States, workers

\* A step that gives a worker the batch number of its object.
LEMMA AllocateTInv ==
  ASSUME TInv, NEW w \in Workers, Step(w, "resolved", "allocated"),
         UNCHANGED <<source, target, tables, job, to, stage, outcome, orphans, limits>>,
         NEW b \in Batch, batch' = [batch EXCEPT ![w] = b],
         NEW t \in Targets, Known(Object(w)) => b = Now(w).batch /\ t = Now(w).target,
         record' = [record EXCEPT ![Object(w)] = Record("LOADING", t, b, job[w], "running")],
         NEW k \in 0..(MaxBatches + 1), sequence' = [sequence EXCEPT ![to[w]] = k],
         k >= sequence[to[w]], b < sequence'[t]
  PROVE  TInv'
<1>1. pc[w] = "resolved" /\ pc' = [pc EXCEPT ![w] = "allocated"]
  BY DEF Step
<1>2. job[w] \in 1..Len(log) /\ job[w] \in 0..MaxEvents /\ to[w] \in Targets /\ Object(w) \in Objects
  BY <1>1, WorkerFacts
<1>3. Record("LOADING", t, b, job[w], "running") \in RecordRow
  BY <1>2, RecordType, ConstantsAssumption DEF States, Batch
<1>4. TypeOK'
  <2>1. pc' \in [Workers -> Steps] /\ batch' \in [Workers -> 0..MaxBatches]
    BY <1>1, ConstantsAssumption DEF TInv, TypeOK, Steps, LoadSteps, Batch
  <2>2. record' \in [Objects -> RecordRow] /\ sequence' \in [Targets -> 0..(MaxBatches + 1)]
    BY <1>3 DEF TInv, TypeOK
  <2>. QED BY <2>1, <2>2 DEF TInv, TypeOK, source, tables, limits
<1>5. /\ Known(Object(w))'
      /\ record'[Object(w)].batch = b /\ record'[Object(w)].target = t
      /\ \A q \in Objects \ {Object(w)} : record'[q] = record[q]
  BY <1>2 DEF TInv, TypeOK, Known, Record, Object, source
<1>6. /\ pc'[w] = "allocated" /\ batch'[w] = b
      /\ \A v \in Workers \ {w} : pc'[v] = pc[v] /\ batch'[v] = batch[v]
  BY <1>1 DEF TInv, TypeOK
<1>7. \A v \in Workers : pc[v] # "idle" => Object(v) \in Objects
  BY WorkerFacts
<1>8. record'[Object(w)].state # "none"
  BY <1>2 DEF TInv, TypeOK, Record
<1>9. WorkersOK'
  BY <1>1, <1>2, <1>5, <1>6, <1>7, <1>8 DEF TInv, WorkersOK, Object, source, LoadSteps, Known
<1>10. RecordsOK'
  <2> SUFFICES ASSUME NEW q \in Objects, Known(q)'
               PROVE  record'[q].batch \in Batch /\ record'[q].batch < sequence'[record'[q].target]
    BY DEF RecordsOK
  <2>1. CASE q = Object(w)
    BY <1>5, <2>1
  <2>2. CASE q # Object(w)
    <3>1. record'[q] = record[q] /\ Known(q)
      BY <1>5, <2>2 DEF Known
    <3>2. record[q].batch \in Batch /\ record[q].batch < sequence[record[q].target]
      BY <3>1 DEF TInv, RecordsOK
    <3>3. record[q].target \in Targets /\ sequence[record[q].target] \in Int /\ sequence[to[w]] \in Int
      <4>1. TypeOK /\ sequence \in [Targets -> 0..(MaxBatches + 1)] /\ 0..(MaxBatches + 1) \subseteq Int
        BY ConstantsAssumption DEF TInv, TypeOK
      <4>. QED BY <1>2, <4>1, RecordFields
    <3>4. sequence'[record[q].target] \in Int /\ sequence'[record[q].target] >= sequence[record[q].target]
      <4>1. sequence \in [Targets -> 0..(MaxBatches + 1)] /\ k \in Int
        BY ConstantsAssumption DEF TInv, TypeOK
      <4>2. \A r \in Targets : sequence'[r] = IF r = to[w] THEN k ELSE sequence[r]
        BY <4>1
      <4>. QED BY <3>3, <4>1, <4>2
    <3>. QED BY <3>1, <3>2, <3>3, <3>4, ConstantsAssumption DEF Batch
  <2>. QED BY <2>1, <2>2
<1>. QED BY <1>4, <1>9, <1>10 DEF TInv

LEMMA AllocateAgainTInv ==
  ASSUME TInv, NEW w \in Workers, AllocateAgain(w)
  PROVE  TInv'
<1>1. Step(w, "resolved", "allocated") /\ pc[w] # "idle"
  BY DEF AllocateAgain, Step
<1>2. Object(w) \in Objects /\ to[w] \in Targets /\ Known(Object(w))
  BY <1>1, WorkerFacts DEF AllocateAgain, Now, Known
<1>3. Now(w).batch \in Batch /\ Now(w).target \in Targets /\ Now(w).batch < sequence[Now(w).target]
  BY <1>2, RecordFields DEF TInv, RecordsOK, Now
<1> DEFINE k == IF sequence[to[w]] > Now(w).batch THEN sequence[to[w]] ELSE Now(w).batch + 1
<1>4. sequence \in [Targets -> 0..(MaxBatches + 1)] /\ sequence[to[w]] \in 0..(MaxBatches + 1)
      /\ sequence[Now(w).target] \in 0..(MaxBatches + 1)
  BY <1>2, <1>3 DEF TInv, TypeOK
<1>5. k \in 0..(MaxBatches + 1) /\ k >= sequence[to[w]] /\ k > Now(w).batch
  BY <1>3, <1>4, ConstantsAssumption DEF Batch
<1>6. sequence' = [sequence EXCEPT ![to[w]] = k]
  BY DEF AllocateAgain
<1>7. Now(w).batch < sequence'[Now(w).target]
  BY <1>2, <1>3, <1>4, <1>5, <1>6
<1>8. record' = [record EXCEPT ![Object(w)] = Record("LOADING", Now(w).target, Now(w).batch, job[w], "running")]
  BY DEF AllocateAgain, Now
<1>9. /\ batch' = [batch EXCEPT ![w] = Now(w).batch]
      /\ UNCHANGED <<source, target, tables, job, to, stage, outcome, orphans, limits>>
  BY DEF AllocateAgain
<1> HIDE DEF k
<1>. QED BY <1>1, <1>3, <1>5, <1>6, <1>7, <1>8, <1>9, AllocateTInv

\* What AllocateNew does once it has drawn the number b: no object of the
\* target has that number.
LEMMA DrawnNumber ==
  ASSUME TInv, NEW w \in Workers, to[w] \in Targets, NEW b \in Batch,
         IF sequence[to[w]] # 0 THEN b = sequence[to[w]] ELSE IsInitialBatch(to[w], b)
  PROVE  /\ sequence[to[w]] <= b
         /\ \A o \in Objects : Known(o) /\ record[o].target = to[w] => record[o].batch < b
<1>1. sequence[to[w]] \in 0..(MaxBatches + 1) /\ b \in Nat
  BY DEF TInv, TypeOK, Batch
<1>2. \A o \in Objects : Known(o) => record[o].batch \in Nat /\ record[o].batch < sequence[record[o].target]
  BY DEF TInv, RecordsOK, Batch
<1>. QED BY <1>1, <1>2, ConstantsAssumption

LEMMA AllocateNewTInv ==
  ASSUME TInv, NEW w \in Workers, AllocateNew(w)
  PROVE  TInv'
<1>1. Step(w, "resolved", "allocated") /\ pc[w] # "idle"
  BY DEF AllocateNew, Step
<1>2. Object(w) \in Objects /\ to[w] \in Targets /\ ~Known(Object(w))
  BY <1>1, WorkerFacts DEF AllocateNew, Now, Known
<1>3. PICK b \in Batch :
        /\ IF sequence[to[w]] # 0 THEN b = sequence[to[w]] ELSE IsInitialBatch(to[w], b)
        /\ sequence' = [sequence EXCEPT ![to[w]] = b + 1]
        /\ record' = [record EXCEPT ![Object(w)] = Record("LOADING", to[w], b, job[w], "running")]
        /\ batch' = [batch EXCEPT ![w] = b]
  BY DEF AllocateNew
<1>4. sequence[to[w]] <= b /\ sequence[to[w]] \in 0..(MaxBatches + 1)
  BY <1>2, <1>3, DrawnNumber DEF TInv, TypeOK
<1>5. b + 1 \in 0..(MaxBatches + 1) /\ b + 1 >= sequence[to[w]] /\ b < sequence'[to[w]]
  BY <1>2, <1>3, <1>4, ConstantsAssumption DEF Batch, TInv, TypeOK
<1>6. UNCHANGED <<source, target, tables, job, to, stage, outcome, orphans, limits>>
  BY DEF AllocateNew
<1>. QED BY <1>1, <1>2, <1>3, <1>5, <1>6, AllocateTInv

LEMMA RetargetTInv ==
  ASSUME TInv, NEW m \in Mappings, NEW t \in Targets, Retarget(m, t)
  PROVE  TInv'
<1>1. UNCHANGED <<source, control, tables, workers, orphans, faults>>
  BY DEF Retarget
<1>2. target' \in [Mappings -> Targets] /\ retargets' \in 0..MaxRetargets
  BY ConstantsAssumption DEF Retarget, TInv, TypeOK
<1>3. TypeOK'
  BY <1>1, <1>2 DEF TInv, TypeOK, source, control, tables, workers
<1>4. WorkersOK'
  BY <1>1 DEF TInv, WorkersOK, source, control, workers, Known, Object
<1>5. RecordsOK'
  BY <1>1 DEF TInv, RecordsOK, control, Known
<1>. QED BY <1>3, <1>4, <1>5 DEF TInv

LEMMA NextTInv ==
  ASSUME TInv, Next
  PROVE  TInv'
<1>1. CASE Buckets
  BY <1>1, PutObjectTInv DEF Buckets
<1>2. CASE \E m \in Mappings, t \in Targets : Retarget(m, t)
  BY <1>2, RetargetTInv
<1>3. CASE \E w \in Workers, n \in 1..Len(log) : Begin(w, n)
  BY <1>3, BeginTInv
<1>4. ASSUME NEW w \in Workers, LoadStep(w) \/ DeleteStep(w) PROVE TInv'
  BY <1>4, LoadQuietTInv, AllocateReplayTInv, AllocateAgainTInv, AllocateNewTInv, MarkTInv,
     DeleteReadTInv DEF LoadStep, DeleteStep
<1>5. ASSUME NEW w \in Workers, Failure(w) \/ Return(w) PROVE TInv'
  <2>1. CASE Crash(w)
    <3>1. Leaves(w) /\ faults' \in 0..MaxFaults /\ orphans' \in Nat
      BY <2>1, CurrentTypes, ConstantsAssumption DEF Crash, Fault, Abandoned
    <3>. QED BY <3>1, LeavesTInv
  <2>2. CASE Return(w)
    BY <2>2, CurrentTypes, LeavesTInv DEF Return
  <2>. QED BY <1>5, <2>1, <2>2, FaultTInv DEF Failure
<1>6. CASE \E o \in Objects : LeaseElapses(o)
  BY <1>6, LeaseTInv
<1>. QED BY <1>1, <1>2, <1>3, <1>4, <1>5, <1>6 DEF Next

LEMMA StutterTInv ==
  ASSUME TInv, UNCHANGED vars
  PROVE  TInv'
  BY DEF TInv, TypeOK, WorkersOK, RecordsOK, Known, Object, vars, source, control, tables,
         workers, limits

THEOREM SpecTInv == Spec => []TInv
<1>1. TInv /\ [Next]_vars => TInv'
  BY NextTInv, StutterTInv
<1>. QED BY InitTInv, <1>1, PTL DEF Spec

\* TypeOK holds in every reachable state.
THEOREM SpecTypeOK == Spec => []TypeOK
<1>1. TInv => TypeOK
  BY DEF TInv
<1>. QED BY SpecTInv, <1>1, PTL

-----------------------------------------------------------------------------
(* Batch numbers.                                                          *)

\* The record of o exists or not, and names the same partition.
Keeps(o) ==
  /\ Known(o)' <=> Known(o)
  /\ record'[o].target = record[o].target
  /\ record'[o].batch = record[o].batch

\* What a first create does: a number below which all others of the target are.
Draws(w, b) ==
  /\ pc[w] = "resolved" /\ ~Known(Object(w))
  /\ to[w] \in Targets /\ Object(w) \in Objects
  /\ record'[Object(w)].target = to[w] /\ record'[Object(w)].batch = b
  /\ \A o \in Objects \ {Object(w)} : record'[o] = record[o]
  /\ \A o \in Objects : Known(o) /\ record[o].target = to[w] => record[o].batch < b
  /\ batch'[w] = b

LEMMA RewriteKeeps ==
  ASSUME TInv, NEW q \in Objects, Known(q), NEW st \in States \ {"none"}, NEW v, NEW l,
         record' = [record EXCEPT ![q] = Record(st, @.target, @.batch, v, l)]
  PROVE  \A o \in Objects : Keeps(o)
<1>1. record'[q] = Record(st, record[q].target, record[q].batch, v, l)
  BY DEF TInv, TypeOK
<1>2. \A o \in Objects \ {q} : record'[o] = record[o]
  BY DEF TInv, TypeOK
<1>3. /\ record'[q].state = st /\ st # "none"
      /\ record'[q].target = record[q].target /\ record'[q].batch = record[q].batch
  BY <1>1 DEF Record
<1>. QED BY <1>2, <1>3 DEF Keeps, Known

LEMMA AllocateNewDraws ==
  ASSUME TInv, NEW w \in Workers, AllocateNew(w)
  PROVE  \E b \in Batch : Draws(w, b)
<1>1. pc[w] = "resolved" /\ Object(w) \in Objects /\ to[w] \in Targets /\ ~Known(Object(w))
  BY WorkerFacts DEF AllocateNew, Step, Now, Known
<1>2. PICK b \in Batch :
        /\ IF sequence[to[w]] # 0 THEN b = sequence[to[w]] ELSE IsInitialBatch(to[w], b)
        /\ record' = [record EXCEPT ![Object(w)] = Record("LOADING", to[w], b, job[w], "running")]
        /\ batch' = [batch EXCEPT ![w] = b]
  BY DEF AllocateNew
<1>3. record'[Object(w)].target = to[w] /\ record'[Object(w)].batch = b
  BY <1>1, <1>2 DEF TInv, TypeOK, Record
<1>4. \A o \in Objects \ {Object(w)} : record'[o] = record[o]
  BY <1>1, <1>2 DEF TInv, TypeOK
<1>5. \A o \in Objects : Known(o) /\ record[o].target = to[w] => record[o].batch < b
  BY <1>1, <1>2, DrawnNumber
<1>6. batch'[w] = b
  BY <1>2 DEF TInv, TypeOK
<1>. QED BY <1>1, <1>3, <1>4, <1>5, <1>6 DEF Draws

\* Every step keeps every record, or is the first create of an object.
LEMMA KeepsOrDraws ==
  ASSUME TInv, [Next]_vars
  PROVE  \/ \A o \in Objects : Keeps(o)
         \/ \E w \in Workers, b \in Batch : Draws(w, b)
<1>1. CASE UNCHANGED record
  BY <1>1 DEF Keeps, Known
<1>2. CASE \E w \in Workers : AllocateNew(w)
  BY <1>2, AllocateNewDraws
<1>3. ASSUME NEW w \in Workers, AllocateAgain(w)
      PROVE  \A o \in Objects : Keeps(o)
  <2>1. Object(w) \in Objects /\ Known(Object(w))
    BY <1>3, WorkerFacts DEF AllocateAgain, Step, Now, Known
  <2>2. record' = [record EXCEPT ![Object(w)] = Record("LOADING", @.target, @.batch, job[w], "running")]
    BY <1>3 DEF AllocateAgain
  <2>. QED BY <2>1, <2>2, RewriteKeeps DEF States
<1>4. ASSUME NEW w \in Workers, MarkActive(w) \/ MarkError(w) \/ MarkDeleted(w)
      PROVE  \A o \in Objects : Keeps(o)
  <2>1. Object(w) \in Objects /\ Known(Object(w))
    BY <1>4, WorkerFacts DEF MarkActive, MarkError, MarkDeleted, Returns, Step, TInv, WorkersOK, LoadSteps
  <2>2. PICK st \in {"ACTIVE", "ERROR", "DELETED"} : SetState(w, st)
    BY <1>4 DEF MarkActive, MarkError, MarkDeleted
  <2>3. record' = [record EXCEPT ![Object(w)] = Record(st, @.target, @.batch, record[Object(w)].version, "none")]
    BY <2>2 DEF SetState
  <2>. QED BY <2>1, <2>3, RewriteKeeps DEF States
<1>5. ASSUME NEW q \in Objects, LeaseElapses(q)
      PROVE  \A o \in Objects : Keeps(o)
  <2>1. Known(q) /\ record' = [record EXCEPT ![q] = Record("LOADING", @.target, @.batch, record[q].version, "elapsed")]
    BY <1>5 DEF LeaseElapses, Busy, Known
  <2>. QED BY <2>1, RewriteKeeps DEF States
<1>6. CASE UNCHANGED vars
  BY <1>1, <1>6 DEF vars, control
<1>7. ASSUME NEW w \in Workers, LoadStep(w) \/ DeleteStep(w)
      PROVE  \/ \A o \in Objects : Keeps(o)
             \/ \E v \in Workers, b \in Batch : Draws(v, b)
  <2>1. CASE AllocateRefused(w) \/ AllocateReplay(w) \/ EnsurePartition(w) \/ CreateStage(w)
             \/ OpenObject(w) \/ FillStage(w) \/ ObjectMissing(w) \/ ObjectChanged(w)
             \/ Exchange(w) \/ ExchangeFails(w) \/ DropStage(w)
             \/ DeleteAbsent(w) \/ DeleteRefused(w) \/ DeleteRead(w) \/ DropPartition(w) \/ DropFails(w)
    <3>1. UNCHANGED record
      BY <2>1 DEF AllocateRefused, AllocateReplay, EnsurePartition, CreateStage, OpenObject, FillStage,
         ObjectMissing, ObjectChanged, Exchange, ExchangeFails, DropStage, DeleteAbsent, DeleteRefused,
         DeleteRead, DropPartition, DropFails, control
    <3>. QED BY <1>1, <3>1
  <2>. QED BY <1>2, <1>3, <1>4, <1>7, <2>1 DEF LoadStep, DeleteStep
<1>8. ASSUME NEW w \in Workers, Failure(w) \/ Return(w)
      PROVE  UNCHANGED record
  BY <1>8 DEF Failure, Return, CallFails, LoadFails, MarkErrorFails, DropStageFails, Crash,
     Leaves, control
<1>9. CASE Buckets \/ (\E m \in Mappings, t \in Targets : Retarget(m, t))
           \/ \E w \in Workers, n \in 1..Len(log) : Begin(w, n)
  <2>1. UNCHANGED record
    BY <1>9 DEF Buckets, PutObject, RemoveObject, Retarget, Begin, control
  <2>. QED BY <1>1, <2>1
<1>. QED BY <1>1, <1>5, <1>6, <1>7, <1>8, <1>9 DEF Next

LEMMA BatchesDistinctStep ==
  ASSUME TInv, TInv', BatchesDistinct, [Next]_vars
  PROVE  BatchesDistinct'
<1>1. CASE \A o \in Objects : Keeps(o)
  BY <1>1 DEF BatchesDistinct, Keeps
<1>2. ASSUME NEW w \in Workers, NEW b \in Batch, Draws(w, b)
      PROVE  BatchesDistinct'
  <2> SUFFICES ASSUME NEW o \in Objects, NEW q \in Objects, Known(o)', Known(q)', o # q,
                      record'[o].target = record'[q].target
               PROVE  record'[o].batch # record'[q].batch
    BY DEF BatchesDistinct
  <2>1. b \in Nat /\ \A p \in Objects : Known(p) => record[p].batch \in Nat
    BY DEF Batch, TInv, RecordsOK
  <2>2. \A p \in Objects \ {Object(w)} :
          (Known(p)' <=> Known(p)) /\ record'[p].target = record[p].target /\ record'[p].batch = record[p].batch
    BY <1>2 DEF Draws, Known
  <2>3. CASE o = Object(w)
    <3>1. Known(q) /\ record[q].target = to[w]
      BY <1>2, <2>2, <2>3 DEF Draws
    <3>. QED BY <1>2, <2>1, <2>2, <2>3, <3>1 DEF Draws
  <2>4. CASE q = Object(w)
    <3>1. Known(o) /\ record[o].target = to[w]
      BY <1>2, <2>2, <2>4 DEF Draws
    <3>. QED BY <1>2, <2>1, <2>2, <2>4, <3>1 DEF Draws
  <2>5. CASE o # Object(w) /\ q # Object(w)
    BY <2>2, <2>5 DEF BatchesDistinct
  <2>. QED BY <2>3, <2>4, <2>5
<1>. QED BY <1>1, <1>2, KeepsOrDraws

\* allocate_or_get_batch never gives two objects of a target one number,
\* whatever is replayed, overlaps or is given another target.
THEOREM SpecBatchesDistinct == Spec => []BatchesDistinct
<1>1. Init => BatchesDistinct
  BY DEF Init, BatchesDistinct, Known, Record
<1>. QED BY <1>1, BatchesDistinctStep, SpecTInv, PTL DEF Spec

-----------------------------------------------------------------------------
(* Stage tables.                                                           *)

\* A step abandons a stage table only if it is one of the failures.
LEMMA OrphansStep ==
  ASSUME TInv, [Next]_vars
  PROVE  \/ UNCHANGED <<orphans, faults>>
         \/ faults' = faults - 1 /\ orphans' \in {orphans, orphans + 1}
<1>1. CASE UNCHANGED vars
  BY <1>1 DEF vars, limits
<1>2. CASE Buckets \/ (\E m \in Mappings, t \in Targets : Retarget(m, t))
           \/ (\E w \in Workers, n \in 1..Len(log) : Begin(w, n))
           \/ \E o \in Objects : LeaseElapses(o)
  BY <1>2 DEF Buckets, PutObject, RemoveObject, Retarget, Begin, LeaseElapses, limits
<1>3. ASSUME NEW w \in Workers, LoadStep(w) \/ DeleteStep(w) \/ Return(w)
      PROVE  UNCHANGED <<orphans, faults>>
  BY <1>3 DEF LoadStep, DeleteStep, Return, AllocateRefused, AllocateReplay, AllocateAgain, AllocateNew,
     EnsurePartition, CreateStage, OpenObject, FillStage, ObjectMissing, ObjectChanged, Exchange,
     ExchangeFails, MarkActive,
     MarkError, DropStage, DeleteAbsent, DeleteRefused, DeleteRead, DropPartition, DropFails,
     MarkDeleted, limits
<1>4. ASSUME NEW w \in Workers, Failure(w)
      PROVE  faults' = faults - 1 /\ orphans' \in {orphans, orphans + 1}
  BY <1>4 DEF Failure, CallFails, LoadFails, MarkErrorFails, DropStageFails, Crash, Fault, Abandoned
<1>. QED BY <1>1, <1>2, <1>3, <1>4 DEF Next

\* _run_load leaves a stage table behind only if a statement failed or the
\* process died, and at most one each time.
THEOREM SpecOrphansNeedFaults == Spec => []OrphansNeedFaults
<1>1. Init => OrphansNeedFaults
  BY ConstantsAssumption DEF Init, OrphansNeedFaults
<1>2. TInv /\ OrphansNeedFaults /\ [Next]_vars => OrphansNeedFaults'
  <2> SUFFICES ASSUME TInv, OrphansNeedFaults, [Next]_vars
               PROVE  OrphansNeedFaults'
    OBVIOUS
  <2>1. orphans \in Int /\ faults \in Int /\ MaxFaults \in Int
    BY ConstantsAssumption DEF TInv, TypeOK
  <2>. QED BY <2>1, OrphansStep DEF OrphansNeedFaults
<1>. QED BY <1>1, <1>2, SpecTInv, PTL DEF Spec

-----------------------------------------------------------------------------
(* Rows.                                                                   *)

Home(o) == InitialTarget[MappingOf[o]]

\* A load works on the partition of its object's record, in the target of the
\* object's mapping, with a stage table of that object.
WorkerAtHome(w) ==
  /\ pc[w] \in {"resolved"} \cup LoadSteps => to[w] = Home(Object(w))
  /\ pc[w] \in LoadSteps => batch[w] = record[Object(w)].batch
  /\ pc[w] \in {"staged", "reading", "filled"} => \A c \in stage[w] : c.of \in {NoObject, Object(w)}

RecordAtHome(o) == Known(o) => record[o].target = Home(o)

RowsOwned(t, b) ==
  LET o == rows[t][b].of
  IN o # NoObject => Known(o) /\ record[o].target = t /\ record[o].batch = b

\* RowsInOwnPartition, strengthened to what a step preserves.
OwnInv ==
  retargets = MaxRetargets =>
    /\ target = InitialTarget
    /\ \A o \in Objects : RecordAtHome(o)
    /\ \A w \in Workers : WorkerAtHome(w)
    /\ \A t \in Targets, b \in Batch : RowsOwned(t, b)

LEMMA InitOwnInv == Init => OwnInv
<1> SUFFICES ASSUME Init PROVE OwnInv
  OBVIOUS
<1>1. \A o \in Objects : RecordAtHome(o)
  BY DEF Init, RecordAtHome, Known, Record
<1>2. \A w \in Workers : WorkerAtHome(w)
  BY DEF Init, WorkerAtHome, LoadSteps
<1>3. \A t \in Targets, b \in Batch : RowsOwned(t, b)
  BY DEF Init, RowsOwned, NoRows, RowsOf
<1>. QED BY <1>1, <1>2, <1>3 DEF Init, OwnInv

\* What a worker does not touch, and a step of the log, keep it at home.
LEMMA StaysAtHome ==
  ASSUME TInv, NEW w \in Workers, WorkerAtHome(w),
         \A n \in 1..Len(log) : log'[n] = log[n],
         pc'[w] = pc[w], job'[w] = job[w], to'[w] = to[w], batch'[w] = batch[w], stage'[w] = stage[w],
         Known(Object(w)) => record'[Object(w)].batch = record[Object(w)].batch
  PROVE  WorkerAtHome(w)'
<1>1. CASE pc[w] \notin {"resolved"} \cup LoadSteps
  BY <1>1 DEF WorkerAtHome, LoadSteps
<1>2. CASE pc[w] \in {"resolved"} \cup LoadSteps
  <2>1. pc[w] # "idle"
    BY <1>2 DEF LoadSteps
  <2>2. log'[job'[w]] = log[job[w]]
    BY <2>1, WorkerFacts
  <2>3. pc[w] \in LoadSteps => Known(Object(w))
    BY DEF TInv, WorkersOK
  <2>. QED BY <2>2, <2>3 DEF WorkerAtHome, Object
<1>. QED BY <1>1, <1>2

\* Rows of an object that is known stay where its record says.
LEMMA RowsStayOwned ==
  ASSUME TInv, NEW t \in Targets, NEW b \in Batch, RowsOwned(t, b),
         \A o \in Objects : Known(o) => Keeps(o),
         \/ rows'[t][b] = rows[t][b]
         \/ rows'[t][b].of = NoObject
  PROVE  RowsOwned(t, b)'
<1>1. rows[t][b].of \in Objects \cup {NoObject}
  BY DEF TInv, TypeOK, Contents
<1>. QED BY <1>1 DEF RowsOwned, Keeps

\* A step of a worker touches the state of no other, nor the buckets.
LEMMA OnlyWorker ==
  ASSUME TInv, NEW w \in Workers,
         \/ LoadStep(w) \/ DeleteStep(w) \/ Failure(w) \/ Return(w)
         \/ \E n \in 1..Len(log) : Begin(w, n)
  PROVE  /\ UNCHANGED <<source, target, retargets>>
         /\ \A v \in Workers \ {w} :
              /\ pc'[v] = pc[v] /\ job'[v] = job[v] /\ to'[v] = to[v]
              /\ batch'[v] = batch[v] /\ stage'[v] = stage[v]
<1>0. /\ pc \in [Workers -> Steps] /\ job \in [Workers -> 0..Len(log)]
      /\ to \in [Workers -> Targets \cup {NoTarget}]
      /\ batch \in [Workers -> 0..MaxBatches] /\ stage \in [Workers -> SUBSET Contents]
  BY DEF TInv, TypeOK
<1>1. CASE \E n \in 1..Len(log) : Begin(w, n)
  BY <1>0, <1>1 DEF Begin, Step, limits
<1>2. CASE Return(w) \/ Crash(w)
  BY <1>0, <1>2 DEF Return, Crash, Leaves
<1>3. CASE CallFails(w) \/ LoadFails(w) \/ MarkErrorFails(w) \/ DropStageFails(w)
  BY <1>0, <1>3 DEF CallFails, LoadFails, MarkErrorFails, DropStageFails, Returns, Raises, Step
<1>4. CASE AllocateRefused(w) \/ AllocateReplay(w) \/ AllocateAgain(w) \/ AllocateNew(w)
  BY <1>0, <1>4 DEF AllocateRefused, AllocateReplay, AllocateAgain, AllocateNew, Returns, Step, limits
<1>5. CASE EnsurePartition(w) \/ CreateStage(w) \/ OpenObject(w) \/ FillStage(w)
           \/ ObjectMissing(w) \/ ObjectChanged(w) \/ Exchange(w) \/ ExchangeFails(w) \/ MarkActive(w) \/ MarkError(w) \/ DropStage(w)
  BY <1>0, <1>5 DEF EnsurePartition, CreateStage, OpenObject, FillStage, ObjectMissing,
     ObjectChanged, Exchange, ExchangeFails, MarkActive, MarkError, DropStage, Returns, Raises, Step, limits
<1>6. CASE DeleteStep(w)
  BY <1>0, <1>6 DEF DeleteStep, DeleteAbsent, DeleteRefused, DeleteRead, DropPartition, DropFails,
     MarkDeleted, Returns, Step, limits
<1>. QED BY <1>1, <1>2, <1>3, <1>4, <1>5, <1>6 DEF LoadStep, Failure

LEMMA KnownKeeps ==
  ASSUME TInv, [Next]_vars
  PROVE  \A o \in Objects : Known(o) => Keeps(o)
<1>1. ASSUME NEW w \in Workers, NEW b \in Batch, Draws(w, b)
      PROVE  \A o \in Objects : Known(o) => Keeps(o)
  BY <1>1 DEF Draws, Keeps, Known
<1>. QED BY <1>1, KeepsOrDraws

LEMMA RecordAtHomeStep ==
  ASSUME TInv, [Next]_vars, \A w \in Workers : WorkerAtHome(w), \A o \in Objects : RecordAtHome(o)
  PROVE  \A o \in Objects : RecordAtHome(o)'
<1>1. ASSUME NEW w \in Workers, NEW b \in Batch, Draws(w, b)
      PROVE  \A o \in Objects : RecordAtHome(o)'
  BY <1>1 DEF Draws, WorkerAtHome, RecordAtHome, Known, Home
<1>2. CASE \A o \in Objects : Keeps(o)
  BY <1>2 DEF Keeps, RecordAtHome, Home
<1>. QED BY <1>1, <1>2, KeepsOrDraws

\* An exchange puts rows of the load's object, or none, into the partition
\* of that object's record.
LEMMA ExchangeOwned ==
  ASSUME TInv, NEW w \in Workers, Exchange(w), WorkerAtHome(w),
         \A o \in Objects : RecordAtHome(o),
         NEW t \in Targets, NEW b \in Batch, RowsOwned(t, b)
  PROVE  RowsOwned(t, b)'
<1>1. pc[w] = "filled" /\ UNCHANGED record
  BY DEF Exchange, Step, control
<1>2. PICK c \in stage[w] : rows' = [rows EXCEPT ![to[w]][batch[w]] = c]
  BY DEF Exchange
<1>3. /\ Object(w) \in Objects /\ Known(Object(w))
      /\ to[w] \in Targets /\ batch[w] \in Batch
      /\ c.of \in {NoObject, Object(w)}
  BY <1>1, WorkerFacts DEF TInv, WorkersOK, LoadSteps, WorkerAtHome
<1>4. record[Object(w)].target = to[w] /\ record[Object(w)].batch = batch[w]
  BY <1>1, <1>3 DEF WorkerAtHome, RecordAtHome, LoadSteps
<1>5. CASE t = to[w] /\ b = batch[w]
  <2>1. rows'[t][b] = c
    BY <1>2, <1>3, <1>5 DEF TInv, TypeOK
  <2>2. c.of # NoObject => Known(c.of)' /\ record'[c.of].target = t /\ record'[c.of].batch = b
    BY <1>1, <1>3, <1>4, <1>5 DEF Known
  <2>. QED BY <2>1, <2>2 DEF RowsOwned
<1>6. CASE ~(t = to[w] /\ b = batch[w])
  <2>1. rows'[t][b] = rows[t][b]
    BY <1>2, <1>3, <1>6 DEF TInv, TypeOK
  <2>. QED BY <1>1, <2>1 DEF RowsOwned, Known
<1>. QED BY <1>5, <1>6

LEMMA DropOwned ==
  ASSUME TInv, [Next]_vars, NEW w \in Workers, DropPartition(w),
         NEW t \in Targets, NEW b \in Batch, RowsOwned(t, b)
  PROVE  RowsOwned(t, b)'
<1>1. to[w] \in Targets /\ batch[w] \in Batch
  BY WorkerFacts DEF DropPartition, Step, TInv, WorkersOK
<1>2. rows' = [rows EXCEPT ![to[w]][batch[w]] = NoRows] /\ NoRows.of = NoObject
  BY DEF DropPartition, NoRows, RowsOf
<1>3. rows'[t][b] = rows[t][b] \/ rows'[t][b].of = NoObject
  BY <1>1, <1>2 DEF TInv, TypeOK
<1>. QED BY <1>3, KnownKeeps, RowsStayOwned

LEMMA RowsOwnedStep ==
  ASSUME TInv, [Next]_vars,
         \A w \in Workers : WorkerAtHome(w), \A o \in Objects : RecordAtHome(o),
         NEW t \in Targets, NEW b \in Batch, RowsOwned(t, b)
  PROVE  RowsOwned(t, b)'
<1>1. CASE UNCHANGED rows
  BY <1>1, KnownKeeps, RowsStayOwned
<1>2. CASE UNCHANGED vars
  BY <1>1, <1>2 DEF vars, tables
<1>3. ASSUME NEW w \in Workers, LoadStep(w) \/ DeleteStep(w)
      PROVE  UNCHANGED rows \/ Exchange(w) \/ DropPartition(w)
  BY <1>3 DEF LoadStep, DeleteStep, AllocateRefused, AllocateReplay, AllocateAgain, AllocateNew,
     EnsurePartition, CreateStage, OpenObject, FillStage, ObjectMissing, ObjectChanged,
     ExchangeFails, MarkActive,
     MarkError, DropStage, DeleteAbsent, DeleteRefused, DeleteRead, DropFails, MarkDeleted, tables
<1>4. ASSUME NEW w \in Workers, Failure(w) \/ Return(w)
      PROVE  UNCHANGED rows
  BY <1>4 DEF Failure, Return, CallFails, LoadFails, MarkErrorFails, DropStageFails, Crash,
     Leaves, tables
<1>5. CASE Buckets \/ (\E m \in Mappings, s \in Targets : Retarget(m, s))
           \/ (\E w \in Workers, n \in 1..Len(log) : Begin(w, n))
           \/ \E o \in Objects : LeaseElapses(o)
  <2>1. UNCHANGED rows
    BY <1>5 DEF Buckets, PutObject, RemoveObject, Retarget, Begin, LeaseElapses, tables
  <2>. QED BY <1>1, <2>1
<1>. QED BY <1>1, <1>2, <1>3, <1>4, <1>5, ExchangeOwned, DropOwned DEF Next

\* A worker's own step keeps it at home.
LEMMA WorkerAtHomeStep ==
  ASSUME TInv, [Next]_vars, NEW w \in Workers, WorkerAtHome(w), target = InitialTarget,
         \/ LoadStep(w) \/ DeleteStep(w) \/ Failure(w) \/ Return(w)
         \/ \E n \in 1..Len(log) : Begin(w, n)
  PROVE  WorkerAtHome(w)'
<1>0. /\ pc \in [Workers -> Steps] /\ job \in [Workers -> 0..Len(log)]
      /\ to \in [Workers -> Targets \cup {NoTarget}]
      /\ batch \in [Workers -> 0..MaxBatches] /\ stage \in [Workers -> SUBSET Contents]
  BY DEF TInv, TypeOK
<1>1. CASE pc'[w] \notin {"resolved"} \cup LoadSteps
  BY <1>1 DEF WorkerAtHome, LoadSteps
<1>2. CASE \E n \in 1..Len(log) : Begin(w, n)
  <2>1. PICK n \in 1..Len(log) : Begin(w, n)
    BY <1>2
  <2>2. pc'[w] \in {"resolved", "deleting"} /\ job'[w] = n /\ UNCHANGED log
    BY <1>0, <2>1 DEF Begin, Step, source
  <2>3. to'[w] = InitialTarget[MappingOf[log[n].object]]
    BY <1>0, <2>1 DEF Begin
  <2>. QED BY <2>2, <2>3 DEF WorkerAtHome, LoadSteps, Object, Home
<1>3. CASE AllocateReplay(w) \/ AllocateAgain(w)
  <2>1. /\ pc[w] = "resolved" /\ pc'[w] = "allocated" /\ batch'[w] = record[Object(w)].batch
        /\ UNCHANGED <<log, job, to>> /\ Known(Object(w))
    BY <1>0, <1>3 DEF AllocateReplay, AllocateAgain, Step, Now, Known, source
  <2>2. Object(w) \in Objects
    BY <2>1, WorkerFacts
  <2>3. record'[Object(w)].batch = record[Object(w)].batch
    BY <2>1, <2>2, KnownKeeps DEF Keeps
  <2>. QED BY <2>1, <2>3 DEF WorkerAtHome, LoadSteps, Object
<1>4. CASE AllocateNew(w)
  <2>1. PICK b \in Batch : Draws(w, b)
    BY <1>4, AllocateNewDraws
  <2>2. pc[w] = "resolved" /\ pc'[w] = "allocated" /\ UNCHANGED <<log, job, to>>
    BY <1>0, <1>4 DEF AllocateNew, Step, source
  <2>. QED BY <2>1, <2>2 DEF WorkerAtHome, LoadSteps, Object, Draws
<1>5. CASE EnsurePartition(w) \/ CreateStage(w) \/ OpenObject(w) \/ FillStage(w) \/ Exchange(w)
  <2>1. /\ pc[w] \in LoadSteps /\ UNCHANGED <<log, job, to, batch, record>>
        /\ pc'[w] \in LoadSteps
    BY <1>0, <1>5 DEF EnsurePartition, CreateStage, OpenObject, FillStage, Exchange, Step, source,
       control, LoadSteps
  <2>2. pc'[w] \in {"staged", "reading", "filled"} => \A c \in stage'[w] : c.of \in {NoObject, Object(w)}
    BY <1>0, <1>5 DEF EnsurePartition, CreateStage, OpenObject, FillStage, Exchange, Step,
       NoRows, RowsOf
  <2>. QED BY <2>1, <2>2 DEF WorkerAtHome, Object, LoadSteps
<1>6. CASE \/ AllocateRefused(w) \/ ObjectMissing(w) \/ ObjectChanged(w) \/ ExchangeFails(w)
           \/ MarkActive(w) \/ MarkError(w) \/ DropStage(w) \/ DeleteStep(w)
  <2>1. pc'[w] \in {"returned", "raised", "cleanup", "dropping", "dropped"}
    BY <1>0, <1>6 DEF AllocateRefused, ObjectMissing, ObjectChanged, ExchangeFails, MarkActive,
       MarkError, DropStage,
       DeleteStep, DeleteAbsent, DeleteRefused, DeleteRead, DropPartition, DropFails, MarkDeleted,
       Returns, Raises, Step
  <2>. QED BY <1>1, <2>1 DEF LoadSteps
<1>7. CASE Failure(w) \/ Return(w)
  <2>1. pc'[w] \in {"returned", "raised", "cleanup", "idle"}
    BY <1>0, <1>7 DEF Failure, Return, CallFails, LoadFails, MarkErrorFails, DropStageFails, Crash,
       Leaves, Returns, Raises, Step
  <2>. QED BY <1>1, <2>1 DEF LoadSteps
<1>. QED BY <1>2, <1>3, <1>4, <1>5, <1>6, <1>7 DEF LoadStep

LEMMA OwnStep ==
  ASSUME TInv, TInv', OwnInv, [Next]_vars
  PROVE  OwnInv'
<1> SUFFICES ASSUME retargets' = MaxRetargets
             PROVE  /\ target' = InitialTarget
                    /\ \A o \in Objects : RecordAtHome(o)'
                    /\ \A w \in Workers : WorkerAtHome(w)'
                    /\ \A t \in Targets, b \in Batch : RowsOwned(t, b)'
  BY DEF OwnInv
<1>0. retargets \in 0..MaxRetargets /\ retargets' \in 0..MaxRetargets /\ MaxRetargets \in Nat
  BY ConstantsAssumption DEF TInv, TypeOK
<1>1. ASSUME NEW w \in Workers,
             \/ LoadStep(w) \/ DeleteStep(w) \/ Failure(w) \/ Return(w)
             \/ \E n \in 1..Len(log) : Begin(w, n)
      PROVE  /\ UNCHANGED <<log, target, retargets>>
             /\ \A v \in Workers \ {w} :
                  /\ pc'[v] = pc[v] /\ job'[v] = job[v] /\ to'[v] = to[v]
                  /\ batch'[v] = batch[v] /\ stage'[v] = stage[v]
  BY <1>1, OnlyWorker DEF source
<1>2. CASE \E m \in Mappings, t \in Targets : Retarget(m, t)
  BY <1>0, <1>2 DEF Retarget
<1>3. CASE Buckets \/ (\E o \in Objects : LeaseElapses(o)) \/ UNCHANGED vars
  <2>1. /\ UNCHANGED <<target, retargets, workers>>
        /\ \A n \in 1..Len(log) : log'[n] = log[n]
    <3>1. UNCHANGED <<target, retargets, workers>>
      BY <1>3 DEF Buckets, PutObject, RemoveObject, LeaseElapses, vars, limits
    <3>2. UNCHANGED log \/ \E e \in Events : log' = Append(log, e)
      BY <1>3 DEF Buckets, PutObject, RemoveObject, LeaseElapses, vars, source, Event, Events, Actions
    <3>3. log \in Seq(Events)
      BY DEF TInv, TypeOK
    <3>. QED BY <3>1, <3>2, <3>3
  <2>2. retargets = MaxRetargets /\ target' = InitialTarget
    BY <2>1 DEF OwnInv
  <2>3. \A w \in Workers : WorkerAtHome(w)'
    <3> SUFFICES ASSUME NEW w \in Workers
                 PROVE  WorkerAtHome(w)'
      OBVIOUS
    <3>1. WorkerAtHome(w)
      BY <2>2 DEF OwnInv
    <3>2. CASE pc[w] = "idle"
      BY <2>1, <3>2 DEF WorkerAtHome, LoadSteps, workers
    <3>3. CASE pc[w] # "idle"
      <4>1. Known(Object(w)) => record'[Object(w)].batch = record[Object(w)].batch
        BY <3>3, WorkerFacts, KnownKeeps DEF Keeps
      <4>. QED BY <2>1, <3>1, <4>1, StaysAtHome DEF workers
    <3>. QED BY <3>2, <3>3
  <2>. QED BY <2>2, <2>3, RecordAtHomeStep, RowsOwnedStep DEF OwnInv
<1>4. ASSUME NEW w \in Workers,
             \/ LoadStep(w) \/ DeleteStep(w) \/ Failure(w) \/ Return(w)
             \/ \E n \in 1..Len(log) : Begin(w, n)
      PROVE  /\ target' = InitialTarget
             /\ \A o \in Objects : RecordAtHome(o)'
             /\ \A v \in Workers : WorkerAtHome(v)'
             /\ \A t \in Targets, b \in Batch : RowsOwned(t, b)'
  <2>1. retargets = MaxRetargets /\ UNCHANGED <<log, target>>
    BY <1>1, <1>4
  <2>2. /\ target = InitialTarget
        /\ \A o \in Objects : RecordAtHome(o)
        /\ \A v \in Workers : WorkerAtHome(v)
        /\ \A t \in Targets, b \in Batch : RowsOwned(t, b)
    BY <2>1 DEF OwnInv
  <2>3. \A v \in Workers : WorkerAtHome(v)'
    <3> SUFFICES ASSUME NEW v \in Workers
                 PROVE  WorkerAtHome(v)'
      OBVIOUS
    <3>1. CASE v = w
      BY <1>4, <2>2, <3>1, WorkerAtHomeStep
    <3>2. CASE v # w
      <4>1. /\ pc'[v] = pc[v] /\ job'[v] = job[v] /\ to'[v] = to[v]
            /\ batch'[v] = batch[v] /\ stage'[v] = stage[v]
        BY <1>1, <1>4, <3>2
      <4>2. CASE pc[v] = "idle"
        BY <4>1, <4>2 DEF WorkerAtHome, LoadSteps
      <4>3. CASE pc[v] # "idle"
        <5>1. Known(Object(v)) => record'[Object(v)].batch = record[Object(v)].batch
          BY <4>3, WorkerFacts, KnownKeeps DEF Keeps
        <5>. QED BY <2>1, <2>2, <4>1, <5>1, StaysAtHome
      <4>. QED BY <4>2, <4>3
    <3>. QED BY <3>1, <3>2
  <2>. QED BY <2>1, <2>2, <2>3, RecordAtHomeStep, RowsOwnedStep
<1>5. ASSUME NEW w \in Workers, NEW n \in 1..Len(log), Begin(w, n)
      PROVE  \E k \in 1..Len(log) : Begin(w, k)
  BY <1>5
<1>. QED BY <1>2, <1>3, <1>4, <1>5 DEF Next

\* As long as no mapping gets another target, a load never displaces the rows
\* of another object and a delete drops no other object's rows.
THEOREM SpecRowsInOwnPartition == Spec => []RowsInOwnPartition
<1>1. OwnInv => RowsInOwnPartition
  BY DEF OwnInv, RowsInOwnPartition, RowsOwned
<1>. QED BY <1>1, InitOwnInv, OwnStep, SpecTInv, PTL DEF Spec

=============================================================================
