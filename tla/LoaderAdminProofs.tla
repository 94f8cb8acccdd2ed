------------------------- MODULE LoaderAdminProofs --------------------------
(***************************************************************************)
(* Theorems about the loader together with the cleanup of its stage        *)
(* tables, for any number of workers, objects, mappings, targets and table *)
(* names, and any bounds.                                                  *)
(***************************************************************************)
EXTENDS LoaderAdmin, PartitionLoaderProofs

\* The request has its types; a load it found under way is one until its call
\* returns, and a load that made its record LOADING is one while it is.
CleanupOK ==
  /\ cleanup \in [step : {"idle", "opened", "listed"}, target : Targets \cup {NoTarget},
                  names : SUBSET Workers, busy : SUBSET Workers]
  /\ lapsed \subseteq Workers /\ recorded \subseteq Workers
  /\ \A w \in cleanup.busy : pc[w] # "idle"
  /\ \A w \in recorded : pc[w] \in LoadSteps /\ record[Object(w)].state = "LOADING"

Loading(w) == pc[w] \in {"resolved"} \cup LoadSteps

\* The loads of its target that the request found under way are those that
\* neither a record nor a capture shows, and it does not get any others.
GuardInv ==
  retargets = MaxRetargets =>
    \A w \in cleanup.busy :
      Loading(w) /\ to[w] = cleanup.target
        => pc[w] # "resolved" /\ w \in lapsed /\ w \notin recorded

AdminInv == TInv /\ OwnInv /\ CleanupOK /\ GuardInv

-----------------------------------------------------------------------------
(* The invariants of the loader hold beside the cleanup.                   *)

\* A load raises, or stage tables go, and nothing else happens to the loader.
Strips ==
  /\ UNCHANGED <<source, target, control, tables, job, to, batch, limits>>
  /\ \A w \in Workers :
       \/ pc'[w] = "raised"
       \/ pc'[w] = pc[w] /\ stage'[w] \subseteq stage[w]

LEMMA StripsOwn ==
  ASSUME OwnInv, Strips
  PROVE  OwnInv'
<1> SUFFICES ASSUME retargets = MaxRetargets
             PROVE  OwnInv'
  BY DEF OwnInv, Strips, limits
<1>1. /\ target = InitialTarget
      /\ \A o \in Objects : RecordAtHome(o)
      /\ \A w \in Workers : WorkerAtHome(w)
      /\ \A t \in Targets, b \in Batch : RowsOwned(t, b)
  BY DEF OwnInv
<1>2. UNCHANGED <<log, target, record, rows, job, to, batch>>
  BY DEF Strips, source, control, tables
<1>3. \A w \in Workers : WorkerAtHome(w)'
  <2> SUFFICES ASSUME NEW w \in Workers
               PROVE  WorkerAtHome(w)'
    OBVIOUS
  <2>1. CASE pc'[w] = "raised"
    BY <2>1 DEF WorkerAtHome, LoadSteps
  <2>2. CASE pc'[w] = pc[w] /\ stage'[w] \subseteq stage[w]
    BY <1>1, <1>2, <2>2 DEF WorkerAtHome, Object, Home
  <2>. QED BY <2>1, <2>2 DEF Strips
<1>4. \A o \in Objects : RecordAtHome(o)'
  BY <1>1, <1>2 DEF RecordAtHome, Known, Home
<1>5. \A t \in Targets, b \in Batch : RowsOwned(t, b)'
  BY <1>1, <1>2 DEF RowsOwned, Known
<1>. QED BY <1>1, <1>2, <1>3, <1>4, <1>5 DEF OwnInv

LEMMA StageGoneStrips ==
  ASSUME TInv, NEW w \in Workers, StageGone(w)
  PROVE  TInv' /\ Strips
<1>1. PICK from \in {"staged", "reading", "filled"} : Raises(w, from, "error")
  BY DEF StageGone
<1>2. /\ pc[w] \in LoadSteps /\ pc' = [pc EXCEPT ![w] = "raised"]
      /\ outcome' = [outcome EXCEPT ![w] = "error"]
  BY <1>1 DEF Raises, Step, LoadSteps
<1>3. UNCHANGED <<source, target, control, tables, job, to, batch, stage, orphans, limits>>
  BY DEF StageGone
<1>4. TInv'
  <2>1. "raised" \in Steps /\ outcome' \in [Workers -> {"ok", "error", "missing"}]
    BY <1>2, CurrentTypes DEF Steps
  <2>2. /\ UNCHANGED <<source, target, control, job, to, batch, retargets>>
        /\ stage' \in [Workers -> SUBSET Contents]
        /\ partitions' \in [Targets -> SUBSET Batch]
        /\ rows' \in [Targets -> [Batch -> Contents]]
        /\ orphans' \in Nat /\ faults' \in 0..MaxFaults
    BY <1>3, CurrentTypes DEF tables, limits
  <2>. QED BY <1>2, <2>1, <2>2, HeldTInv
<1>5. pc \in [Workers -> Steps]
  BY DEF TInv, TypeOK
<1>. QED BY <1>2, <1>3, <1>4, <1>5 DEF Strips

\* A step of the loader is one of PartitionLoader, or finds a table dropped.
LEMMA LoadsOrGone ==
  ASSUME Loads
  PROVE  Next \/ \E w \in Workers : StageGone(w)
  BY DEF Loads, Next

LEMMA CleanupStrips ==
  ASSUME TInv, CleanupStep
  PROVE  /\ TInv' /\ Strips
         /\ UNCHANGED <<pc, faults>> /\ orphans' \in 0..orphans
<1>0. orphans \in Nat
  BY DEF TInv, TypeOK
<1>1. CASE UNCHANGED vars
  BY <1>0, <1>1, StutterTInv DEF Strips, vars, workers, limits
<1>2. CASE (\E t \in Targets : OpenView(t)) \/ ListNames
  BY <1>1, <1>2 DEF OpenView, ListNames
<1>3. ASSUME NEW w \in Workers, DropNamed(w)
      PROVE  TInv' /\ Strips /\ UNCHANGED <<pc, faults>> /\ orphans' \in 0..orphans
  <2>1. /\ UNCHANGED <<source, target, control, tables, pc, job, to, batch, outcome, orphans, limits>>
        /\ stage' = [stage EXCEPT ![w] = {}]
    BY <1>3 DEF DropNamed
  <2>2. stage' \in [Workers -> SUBSET Contents] /\ \A v \in Workers : stage'[v] \subseteq stage[v]
    BY <2>1 DEF TInv, TypeOK
  <2>3. TInv'
    BY <2>1, <2>2 DEF TInv, TypeOK, WorkersOK, RecordsOK, Known, Object, source, control, tables, limits
  <2>. QED BY <1>0, <2>1, <2>2, <2>3 DEF Strips, limits
<1>4. CASE EndCleanup
  <2>1. /\ UNCHANGED <<source, target, control, tables, workers, limits>> /\ orphans' \in 0..orphans
    BY <1>4 DEF EndCleanup
  <2>2. orphans' \in Nat
    BY <1>0, <2>1
  <2>3. TInv'
    BY <2>1, <2>2 DEF TInv, TypeOK, WorkersOK, RecordsOK, Known, Object, source, control, tables,
       workers, limits
  <2>. QED BY <2>1, <2>3 DEF Strips, workers, limits
<1>. QED BY <1>2, <1>3, <1>4 DEF CleanupStep

LEMMA AdminLoaderInv ==
  ASSUME TInv, OwnInv, [AdminNext]_adminVars
  PROVE  TInv' /\ OwnInv'
<1>1. CASE Next \/ UNCHANGED vars
  BY <1>1, NextTInv, StutterTInv, OwnStep
<1>2. CASE \E w \in Workers : StageGone(w)
  BY <1>2, StageGoneStrips, StripsOwn
<1>3. CASE CleanupStep
  BY <1>3, CleanupStrips, StripsOwn
<1>4. CASE \E w \in Workers : MessageLapses(w)
  BY <1>1, <1>4 DEF MessageLapses
<1>. QED BY <1>1, <1>2, <1>3, <1>4, LoadsOrGone DEF AdminNext, LoaderStep, adminVars

-----------------------------------------------------------------------------
(* What a step does to a load.                                             *)

\* A load that goes on has resolved its mapping long since.
LEMMA LoadGoesOn ==
  ASSUME TInv, Loads, NEW w \in Workers, pc[w] # "idle", Loading(w)'
  PROVE  /\ Loading(w) /\ to'[w] = to[w] /\ job'[w] = job[w]
         /\ pc'[w] = "resolved" => pc[w] = "resolved"
<1>0. pc \in [Workers -> Steps]
  BY DEF TInv, TypeOK
<1>1. CASE Next
  <2>1. CASE \E v \in Workers : \/ LoadStep(v) \/ DeleteStep(v) \/ Failure(v) \/ Return(v)
                                \/ \E n \in 1..Len(log) : Begin(v, n)
    <3>1. PICK v \in Workers : \/ LoadStep(v) \/ DeleteStep(v) \/ Failure(v) \/ Return(v)
                               \/ \E n \in 1..Len(log) : Begin(v, n)
      BY <2>1
    <3>2. CASE v # w
      <4>1. pc'[w] = pc[w] /\ to'[w] = to[w] /\ job'[w] = job[w]
        BY <3>1, <3>2, OnlyWorker
      <4>. QED BY <4>1 DEF Loading
    <3>3. CASE v = w
      <4>1. CASE (\E n \in 1..Len(log) : Begin(w, n)) \/ Return(w) \/ Failure(w)
        <5>1. pc'[w] \in {"idle", "returned", "raised", "cleanup"} \/ pc[w] = "idle"
          BY <1>0, <4>1 DEF Begin, Return, Failure, CallFails, LoadFails, MarkErrorFails,
             DropStageFails, Crash, Leaves, Returns, Raises, Step
        <5>. QED BY <5>1 DEF Loading, LoadSteps
      <4>2. CASE DeleteStep(w)
        <5>1. pc'[w] \in {"returned", "dropping", "dropped"}
          BY <1>0, <4>2 DEF DeleteStep, DeleteAbsent, DeleteRefused, DeleteRead, DropPartition,
             DropFails, MarkDeleted, Returns, Step
        <5>. QED BY <5>1 DEF Loading, LoadSteps
      <4>3. CASE \/ AllocateReplay(w) \/ AllocateAgain(w) \/ AllocateNew(w)
                 \/ EnsurePartition(w) \/ CreateStage(w) \/ OpenObject(w) \/ FillStage(w)
                 \/ Exchange(w)
        BY <1>0, <4>3 DEF AllocateReplay, AllocateAgain, AllocateNew, EnsurePartition, CreateStage,
           OpenObject, FillStage, Exchange, Step, Loading, LoadSteps
      <4>4. CASE \/ AllocateRefused(w) \/ ObjectMissing(w) \/ ObjectChanged(w) \/ ExchangeFails(w)
                 \/ MarkActive(w) \/ MarkError(w) \/ DropStage(w)
        <5>1. pc'[w] \in {"returned", "raised", "cleanup"}
          BY <1>0, <4>4 DEF AllocateRefused, ObjectMissing, ObjectChanged, ExchangeFails, MarkActive,
             MarkError, DropStage, Returns, Raises, Step
        <5>. QED BY <5>1 DEF Loading, LoadSteps
      <4>. QED BY <3>1, <3>3, <4>1, <4>2, <4>3, <4>4 DEF LoadStep
    <3>. QED BY <3>2, <3>3
  <2>2. CASE Buckets \/ (\E m \in Mappings, t \in Targets : Retarget(m, t))
             \/ \E o \in Objects : LeaseElapses(o)
    <3>1. UNCHANGED <<pc, to, job>>
      BY <2>2 DEF Buckets, PutObject, RemoveObject, Retarget, LeaseElapses, workers
    <3>. QED BY <3>1 DEF Loading
  <2>. QED BY <1>1, <2>1, <2>2 DEF Next
<1>2. CASE \E v \in Workers : StageGone(v)
  <2>1. UNCHANGED <<to, job>> /\ \E v \in Workers : pc' = [pc EXCEPT ![v] = "raised"]
    BY <1>2 DEF StageGone, Raises, Step
  <2>2. pc'[w] = pc[w] \/ pc'[w] = "raised"
    BY <1>0, <2>1
  <2>. QED BY <2>1, <2>2 DEF Loading, LoadSteps
<1>. QED BY <1>1, <1>2, LoadsOrGone

\* A worker whose load goes on after a step of the loader executes its event.
LEMMA LoadsSameEvent ==
  ASSUME TInv, TInv', Loads, NEW w \in Workers, pc'[w] # "idle"
  PROVE  log'[job'[w]] = log[job'[w]]
<1>1. CASE UNCHANGED log
  BY <1>1
<1>2. CASE Buckets
  <2>1. UNCHANGED <<pc, job>> /\ \E e \in Events : log' = Append(log, e)
    BY <1>2 DEF Buckets, PutObject, RemoveObject, workers, Event, Events, Actions
  <2>2. job[w] \in 1..Len(log) /\ log \in Seq(Events)
    BY <2>1, WorkerFacts DEF TInv, TypeOK
  <2>. QED BY <2>1, <2>2
<1>3. CASE \E v \in Workers : StageGone(v)
  BY <1>1, <1>3 DEF StageGone, source
<1>4. ASSUME NEW v \in Workers,
             \/ LoadStep(v) \/ DeleteStep(v) \/ Failure(v) \/ Return(v)
             \/ \E n \in 1..Len(log) : Begin(v, n)
      PROVE  UNCHANGED log
  BY <1>4, OnlyWorker DEF source
<1>5. CASE (\E m \in Mappings, t \in Targets : Retarget(m, t)) \/ \E o \in Objects : LeaseElapses(o)
  BY <1>1, <1>5 DEF Retarget, LeaseElapses, source
<1>. QED BY <1>1, <1>2, <1>3, <1>4, <1>5, LoadsOrGone DEF Next

-----------------------------------------------------------------------------
(* Theorem: the cleanup spares the loads it found under way.               *)

LEMMA CleanupFields ==
  ASSUME CleanupOK
  PROVE  /\ cleanup.busy \subseteq Workers /\ cleanup.names \subseteq Workers
         /\ cleanup.target \in Targets \cup {NoTarget}
  BY DEF CleanupOK

LEMMA LoaderCleanupOK ==
  ASSUME TInv, TInv', CleanupOK, LoaderStep
  PROVE  CleanupOK'
<1>1. /\ cleanup' = [cleanup EXCEPT !.busy = @ \ {w \in Workers : pc'[w] = "idle"},
                                    !.names = @ \ {w \in Workers : stage'[w] = {}}]
      /\ lapsed' \subseteq lapsed /\ Loads
  BY DEF LoaderStep
<1>2. /\ cleanup' \in [step : {"idle", "opened", "listed"}, target : Targets \cup {NoTarget},
                       names : SUBSET Workers, busy : SUBSET Workers]
      /\ cleanup'.busy = cleanup.busy \ {w \in Workers : pc'[w] = "idle"}
  BY <1>1 DEF CleanupOK
<1>3. \A w \in cleanup'.busy : pc'[w] # "idle"
  BY <1>2, CleanupFields
<1>4. ASSUME NEW w \in recorded'
      PROVE  w \in Workers /\ pc'[w] \in LoadSteps /\ record'[Object(w)'].state = "LOADING"
  <2>1. w \in Workers /\ pc'[w] \in LoadSteps /\ record'[log[job'[w]].object].state = "LOADING"
    BY <1>4 DEF LoaderStep
  <2>2. log'[job'[w]] = log[job'[w]]
    BY <1>1, <2>1, LoadsSameEvent DEF LoadSteps
  <2>. QED BY <2>1, <2>2 DEF Object
<1>. QED BY <1>1, <1>2, <1>3, <1>4 DEF CleanupOK

LEMMA CleanupOKStep ==
  ASSUME TInv, TInv', CleanupOK, [AdminNext]_adminVars
  PROVE  CleanupOK'
<1>1. CASE LoaderStep
  BY <1>1, LoaderCleanupOK
<1>2. CASE UNCHANGED adminVars
  BY <1>2 DEF CleanupOK, adminVars, vars, source, control, workers, Object
<1>3. ASSUME NEW w \in Workers, MessageLapses(w)
      PROVE  CleanupOK'
  BY <1>3 DEF MessageLapses, CleanupOK, vars, source, control, workers, Object
<1>4. ASSUME NEW t \in Targets, OpenView(t)
      PROVE  CleanupOK'
  <2>1. /\ cleanup' = [step |-> "opened", target |-> t, names |-> {}, busy |-> UnderWay]
        /\ UNCHANGED <<pc, job, log, record, lapsed, recorded>>
    BY <1>4 DEF OpenView, NoCleanup, vars, source, control, workers
  <2>2. UnderWay \subseteq Workers /\ \A w \in UnderWay : pc[w] # "idle"
    BY DEF UnderWay, LoadSteps
  <2>. QED BY <2>1, <2>2 DEF CleanupOK, Object
<1>5. CASE ListNames
  <2>1. PICK names \in {Named(cleanup.target), {}} \cup {{w} : w \in Named(cleanup.target)} :
          cleanup' = [cleanup EXCEPT !.step = "listed", !.names = names]
    BY <1>5 DEF ListNames
  <2>2. names \subseteq Workers
    BY DEF Named
  <2>3. UNCHANGED <<pc, job, log, record, lapsed, recorded>>
    BY <1>5 DEF ListNames, vars, source, control, workers
  <2>. QED BY <2>1, <2>2, <2>3 DEF CleanupOK, Object
<1>6. ASSUME NEW w \in Workers, DropNamed(w)
      PROVE  CleanupOK'
  <2>1. /\ cleanup' = [cleanup EXCEPT !.names = @ \ {w}]
        /\ UNCHANGED <<pc, job, log, record, lapsed, recorded>>
    BY <1>6 DEF DropNamed, source, control
  <2>. QED BY <2>1 DEF CleanupOK, Object
<1>7. CASE EndCleanup
  <2>1. /\ cleanup' = [step |-> "idle", target |-> NoTarget, names |-> {}, busy |-> {}]
        /\ UNCHANGED <<pc, job, log, record, lapsed, recorded>>
    BY <1>7 DEF EndCleanup, NoCleanup, source, control, workers
  <2>. QED BY <2>1 DEF CleanupOK, Object
<1>. QED BY <1>1, <1>2, <1>3, <1>4, <1>5, <1>6, <1>7 DEF AdminNext, CleanupStep

\* What the request reads when it opens its view shows every load of its
\* target but those that neither their message nor their record shows.
LEMMA ViewShowsLoads ==
  ASSUME AdminInv, NEW t \in Targets, ~Blocked(t), retargets = MaxRetargets,
         NEW w \in UnderWay, to[w] = t
  PROVE  pc[w] # "resolved" /\ w \in lapsed /\ w \notin recorded
<1>1. /\ w \in Workers /\ Loading(w) /\ pc[w] \notin {"idle", "returned"}
      /\ pc[w] = "resolved" => w \notin lapsed
  BY DEF UnderWay, Loading, LoadSteps
<1>2. Object(w) \in Objects
  BY <1>1, WorkerFacts DEF AdminInv
<1>3. to[w] = Home(Object(w)) /\ target = InitialTarget /\ RecordAtHome(Object(w))
  BY <1>1, <1>2 DEF AdminInv, OwnInv, WorkerAtHome, Loading
<1>4. w \in lapsed
  BY <1>1, <1>3 DEF Blocked, CaptureBlocks, Home
<1>5. w \notin recorded
  <2> SUFFICES ASSUME w \in recorded
               PROVE  FALSE
    OBVIOUS
  <2>1. record[Object(w)].state = "LOADING"
    BY DEF AdminInv, CleanupOK
  <2>2. record[Object(w)].target = t
    BY <1>3, <2>1 DEF RecordAtHome, Known
  <2>. QED BY <1>2, <2>1, <2>2 DEF Blocked, RecordBlocks
<1>. QED BY <1>1, <1>4, <1>5

LEMMA LoaderGuard ==
  ASSUME AdminInv, LoaderStep
  PROVE  GuardInv'
<1> SUFFICES ASSUME retargets' = MaxRetargets, NEW w \in cleanup'.busy, Loading(w)',
                    to'[w] = cleanup'.target
             PROVE  pc'[w] # "resolved" /\ w \in lapsed' /\ w \notin recorded'
  BY DEF GuardInv
<1>1. /\ Loads /\ w \in cleanup.busy /\ cleanup'.target = cleanup.target
  BY DEF LoaderStep, AdminInv, CleanupOK
<1>2. w \in Workers /\ pc[w] # "idle"
  BY <1>1, CleanupFields DEF AdminInv, CleanupOK
<1>3. Loading(w) /\ to'[w] = to[w] /\ (pc'[w] = "resolved" => pc[w] = "resolved")
  BY <1>1, <1>2, LoadGoesOn DEF AdminInv
<1>4. retargets = MaxRetargets
  <2>1. retargets' = retargets \/ retargets' = retargets - 1
    <3>1. ASSUME NEW v \in Workers,
                 \/ LoadStep(v) \/ DeleteStep(v) \/ Failure(v) \/ Return(v)
                 \/ \E n \in 1..Len(log) : Begin(v, n)
          PROVE  retargets' = retargets
      BY <3>1, OnlyWorker DEF AdminInv
    <3>2. CASE Buckets \/ (\E o \in Objects : LeaseElapses(o)) \/ \E v \in Workers : StageGone(v)
      BY <3>2 DEF Buckets, PutObject, RemoveObject, LeaseElapses, StageGone, limits
    <3>3. CASE \E m \in Mappings, t \in Targets : Retarget(m, t)
      BY <3>3 DEF Retarget
    <3>. QED BY <1>1, <3>1, <3>2, <3>3, LoadsOrGone DEF Next
  <2>2. retargets \in 0..MaxRetargets /\ MaxRetargets \in Nat
    BY ConstantsAssumption DEF AdminInv, TInv, TypeOK
  <2>. QED BY <2>1, <2>2
<1>5. pc[w] # "resolved" /\ w \in lapsed /\ w \notin recorded
  BY <1>1, <1>3, <1>4 DEF AdminInv, GuardInv
<1>6. pc'[w] \notin {"idle", "returned"}
  BY DEF Loading, LoadSteps
<1>. QED BY <1>2, <1>3, <1>5, <1>6 DEF LoaderStep, Allocates

LEMMA GuardStep ==
  ASSUME AdminInv, [AdminNext]_adminVars
  PROVE  GuardInv'
<1>1. CASE LoaderStep
  BY <1>1, LoaderGuard
<1>2. CASE UNCHANGED adminVars
  BY <1>2 DEF AdminInv, GuardInv, Loading, adminVars, vars, workers, limits
<1>3. ASSUME NEW v \in Workers, MessageLapses(v)
      PROVE  GuardInv'
  BY <1>3 DEF AdminInv, GuardInv, Loading, MessageLapses, vars, workers, limits
<1>4. ASSUME NEW t \in Targets, OpenView(t)
      PROVE  GuardInv'
  <2>1. /\ cleanup'.target = t /\ cleanup'.busy = UnderWay /\ ~Blocked(t)
        /\ UNCHANGED <<pc, to, retargets, lapsed, recorded>>
    BY <1>4 DEF OpenView, NoCleanup, vars, workers, limits
  <2>. QED BY <2>1, ViewShowsLoads DEF GuardInv
<1>5. CASE ListNames
  <2>1. /\ cleanup'.target = cleanup.target /\ cleanup'.busy = cleanup.busy
        /\ UNCHANGED <<pc, to, retargets, lapsed, recorded>>
    BY <1>5 DEF ListNames, AdminInv, CleanupOK, vars, workers, limits
  <2>. QED BY <2>1 DEF AdminInv, GuardInv, Loading
<1>6. ASSUME NEW v \in Workers, DropNamed(v)
      PROVE  GuardInv'
  <2>1. /\ cleanup'.target = cleanup.target /\ cleanup'.busy = cleanup.busy
        /\ UNCHANGED <<pc, to, retargets, lapsed, recorded>>
    BY <1>6 DEF DropNamed, AdminInv, CleanupOK, limits
  <2>. QED BY <2>1 DEF AdminInv, GuardInv, Loading
<1>7. CASE EndCleanup
  BY <1>7 DEF EndCleanup, NoCleanup, GuardInv
<1>. QED BY <1>1, <1>2, <1>3, <1>4, <1>5, <1>6, <1>7 DEF AdminNext, CleanupStep

LEMMA InitAdminInv == AdminInit => AdminInv
<1> SUFFICES ASSUME AdminInit
             PROVE  AdminInv
  OBVIOUS
<1>1. Init /\ cleanup = NoCleanup /\ lapsed = {} /\ recorded = {}
  BY DEF AdminInit
<1>2. CleanupOK /\ GuardInv
  BY <1>1 DEF CleanupOK, GuardInv, NoCleanup
<1>. QED BY <1>1, <1>2, InitTInv, InitOwnInv DEF AdminInv

THEOREM SpecAdminInv == AdminSpec => []AdminInv
<1>1. AdminInv /\ [AdminNext]_adminVars => AdminInv'
  BY AdminLoaderInv, CleanupOKStep, GuardStep DEF AdminInv
<1>. QED BY InitAdminInv, <1>1, PTL DEF AdminSpec

\* _stage_snapshot protects what it says it protects: no step takes the stage
\* table of a load that was under way when the cleanup began, while its message
\* is open or its record is LOADING for no other load.
THEOREM SpecCleanupSparesLoads == AdminSpec => CleanupSparesLoads
<1>1. AdminInv => \A w \in Workers : LosesStage(w) =>
                    \/ w \notin cleanup.busy
                    \/ to[w] # cleanup.target
                    \/ retargets < MaxRetargets
                    \/ w \in lapsed /\ w \notin recorded
  <2> SUFFICES ASSUME AdminInv, NEW w \in Workers, LosesStage(w), w \in cleanup.busy,
                      to[w] = cleanup.target, ~(retargets < MaxRetargets)
               PROVE  w \in lapsed /\ w \notin recorded
    OBVIOUS
  <2>1. retargets = MaxRetargets
    BY ConstantsAssumption DEF AdminInv, TInv, TypeOK
  <2>2. Loading(w)
    BY DEF LosesStage, Loading, LoadSteps
  <2>. QED BY <2>1, <2>2 DEF AdminInv, GuardInv
<1>. QED BY <1>1, SpecAdminInv, PTL DEF CleanupSparesLoads

-----------------------------------------------------------------------------
(* Theorems of the loader that the cleanup leaves true.                    *)

\* Stage tables that no worker knows of still cost a fault each: the cleanup
\* only ever drops some of them.
THEOREM SpecAdminOrphansNeedFaults == AdminSpec => []OrphansNeedFaults
<1>1. AdminInit => OrphansNeedFaults
  BY ConstantsAssumption DEF AdminInit, Init, OrphansNeedFaults
<1>2. TInv /\ OrphansNeedFaults /\ [AdminNext]_adminVars => OrphansNeedFaults'
  <2> SUFFICES ASSUME TInv, OrphansNeedFaults, [AdminNext]_adminVars
               PROVE  OrphansNeedFaults'
    OBVIOUS
  <2>1. orphans \in Nat /\ faults \in Nat /\ MaxFaults \in Nat
    BY ConstantsAssumption DEF TInv, TypeOK
  <2>2. CASE Next \/ UNCHANGED vars
    BY <2>1, <2>2, OrphansStep DEF OrphansNeedFaults
  <2>3. CASE CleanupStep
    BY <2>1, <2>3, CleanupStrips DEF OrphansNeedFaults
  <2>4. CASE \E w \in Workers : StageGone(w)
    BY <2>4 DEF StageGone, OrphansNeedFaults, limits
  <2>5. CASE \E w \in Workers : MessageLapses(w)
    BY <2>2, <2>5 DEF MessageLapses
  <2>. QED BY <2>2, <2>3, <2>4, <2>5, LoadsOrGone DEF AdminNext, LoaderStep, adminVars
<1>3. AdminInv => TInv
  BY DEF AdminInv
<1>. QED BY <1>1, <1>2, <1>3, SpecAdminInv, PTL DEF AdminSpec

\* The rows of an object stay in the partition its record names, although the
\* cleanup takes stage tables from loads that go on to an exchange.
THEOREM SpecAdminRowsInOwnPartition == AdminSpec => []RowsInOwnPartition
<1>1. AdminInv => RowsInOwnPartition
  BY DEF AdminInv, OwnInv, RowsInOwnPartition, RowsOwned
<1>. QED BY <1>1, SpecAdminInv, PTL
=============================================================================
