---------------------- MODULE ProcessorDeploymentProofs ----------------------
(***************************************************************************)
(* Theorems about ProcessorDeployment for any number of request threads,   *)
(* any names, streams and mappings, and any bounds.                        *)
(***************************************************************************)
EXTENDS ProcessorDeployment, SequenceTheorems, TLAPS

InstanceType ==
  [name : Names, stream : Streams, mode : Modes, partitions : SUBSET Numbers,
   managed : BOOLEAN, among : 0..MaxInstances, state : States]

DeployCalls ==
  [kind : {"deploy"}, name : Names, stream : Streams, mode : Modes,
   partitions : SUBSET Numbers, among : 0..MaxInstances]
RecordCalls == [kind : {"record"}, id : 1..MaxInstances]
DeleteCalls == [kind : {"delete"}, ids : SUBSET (1..MaxInstances)]

\* The first instances, up to the given number, leave the name free.
FreeAmong(n, name) == \A i \in 1..n : instances[i].name = name => ~Holds(i)

\* What a request remembers of its validation and of its search, and which
\* instances it means.
CallOK(t) ==
  /\ pc[t] \in {"look", "create"} =>
       call[t] \in DeployCalls /\ Fits(call[t].mode, call[t].stream, call[t].partitions)
  /\ pc[t] = "create" => call[t].among <= Len(instances) /\ FreeAmong(call[t].among, call[t].name)
  /\ pc[t] = "record" => call[t] \in RecordCalls /\ call[t].id \in DOMAIN instances
  /\ pc[t] \in {"find", "delete"} => call[t] \in DeleteCalls

CallsOK == \A t \in Threads : CallOK(t)

\* validate_deployment, as every instance of the application remembers it.
InstancesFit ==
  \A i \in DOMAIN instances : instances[i].managed =>
    Fits(instances[i].mode, instances[i].stream, instances[i].partitions)

IInv == TypeOK /\ CallsOK /\ InstancesFit /\ NameDeployedOnce

-----------------------------------------------------------------------------
(* Sequences of instances, and what a step may do to them.                 *)

LEMMA SeqElements ==
  ASSUME NEW S, NEW s \in Seq(S)
  PROVE  /\ Len(s) \in Nat /\ DOMAIN s = 1..Len(s)
         /\ \A i \in DOMAIN s : s[i] \in S
  OBVIOUS

LEMMA FunctionIsSeq ==
  ASSUME NEW S, NEW n \in Nat, NEW f \in [1..n -> S]
  PROVE  f \in Seq(S) /\ Len(f) = n /\ DOMAIN f = 1..n
  OBVIOUS

LEMMA InstanceFields ==
  ASSUME NEW r \in InstanceType
  PROVE  /\ r.name \in Names /\ r.stream \in Streams /\ r.mode \in Modes
         /\ r.partitions \subseteq Numbers /\ r.managed \in BOOLEAN
         /\ r.among \in 0..MaxInstances /\ r.state \in States
  BY DEF InstanceType

LEMMA InstancesTyped ==
  ASSUME TypeOK
  PROVE  /\ instances \in Seq(InstanceType)
         /\ Len(instances) \in 0..MaxInstances /\ DOMAIN instances = 1..Len(instances)
         /\ \A i \in DOMAIN instances : instances[i] \in InstanceType
<1>1. instances \in Seq(InstanceType) /\ Len(instances) <= MaxInstances
  BY DEF TypeOK, InstanceType
<1>. QED BY <1>1, SeqElements, DeploymentAssumption

\* Gone for good: OCI never takes an instance back out of these states.
Gone == {"DELETING", "DELETED"}

\* A step that may only move instances to other states.
Restates ==
  /\ instances' \in Seq(InstanceType) /\ Len(instances') = Len(instances)
  /\ \A i \in DOMAIN instances :
       /\ instances'[i] = [instances[i] EXCEPT !.state = instances'[i].state]
       /\ instances[i].state \in Gone => instances'[i].state \in Gone

LEMMA RestatedFields ==
  ASSUME TypeOK, Restates
  PROVE  /\ DOMAIN instances' = DOMAIN instances
         /\ \A i \in DOMAIN instances :
              /\ instances'[i].name = instances[i].name
              /\ instances'[i].stream = instances[i].stream
              /\ instances'[i].mode = instances[i].mode
              /\ instances'[i].partitions = instances[i].partitions
              /\ instances'[i].managed = instances[i].managed
              /\ instances'[i].among = instances[i].among
              /\ Holds(i)' => Holds(i)
<1>1. DOMAIN instances' = DOMAIN instances
  BY InstancesTyped, SeqElements DEF Restates
<1>2. ASSUME NEW i \in DOMAIN instances
      PROVE  /\ instances'[i].name = instances[i].name
             /\ instances'[i].stream = instances[i].stream
             /\ instances'[i].mode = instances[i].mode
             /\ instances'[i].partitions = instances[i].partitions
             /\ instances'[i].managed = instances[i].managed
             /\ instances'[i].among = instances[i].among
             /\ Holds(i)' => Holds(i)
  <2> DEFINE r == instances[i]
             n == instances'[i]
  <2>1. r \in InstanceType /\ n = [r EXCEPT !.state = n.state] /\ (r.state \in Gone => n.state \in Gone)
    BY InstancesTyped DEF Restates
  <2>2. /\ n.name = r.name /\ n.stream = r.stream /\ n.mode = r.mode
        /\ n.partitions = r.partitions /\ n.managed = r.managed /\ n.among = r.among
    BY <2>1 DEF InstanceType
  <2>. QED BY <2>1, <2>2 DEF Holds, Gone
<1>. QED BY <1>1, <1>2

LEMMA SameInstancesRestate ==
  ASSUME TypeOK, instances' = instances
  PROVE  Restates
<1>1. \A i \in DOMAIN instances : instances[i] = [instances[i] EXCEPT !.state = instances[i].state]
  BY InstancesTyped DEF InstanceType
<1>. QED BY <1>1, InstancesTyped DEF Restates

\* Giving one instance a new state, if there is such an instance.
LEMMA OneRestated ==
  ASSUME TypeOK, NEW k, NEW s \in States,
         instances' = [instances EXCEPT ![k].state = s],
         k \in DOMAIN instances /\ instances[k].state \in Gone => s \in Gone
  PROVE  Restates
<1> DEFINE D == DOMAIN instances
<1>1. D = 1..Len(instances) /\ Len(instances) \in Nat /\ instances \in [D -> InstanceType]
  BY InstancesTyped, DeploymentAssumption
<1>2. \A i \in D : instances'[i] = IF i = k THEN [instances[i] EXCEPT !.state = s] ELSE instances[i]
  BY <1>1
<1>3. \A r \in InstanceType : /\ [r EXCEPT !.state = s] \in InstanceType
                              /\ [r EXCEPT !.state = s].state = s
                              /\ r = [r EXCEPT !.state = r.state]
  BY DEF InstanceType
<1>4. instances' \in [D -> InstanceType]
  BY <1>1, <1>2, <1>3
<1>5. instances' \in Seq(InstanceType) /\ Len(instances') = Len(instances)
  BY <1>1, <1>4, FunctionIsSeq
<1>6. ASSUME NEW i \in D
      PROVE  /\ instances'[i] = [instances[i] EXCEPT !.state = instances'[i].state]
             /\ instances[i].state \in Gone => instances'[i].state \in Gone
  BY <1>1, <1>2, <1>3
<1>. QED BY <1>5, <1>6 DEF Restates

\* The parts of the invariant that speak of the instances alone.
InstancesOK ==
  /\ instances \in Seq(InstanceType) /\ Len(instances) <= MaxInstances
  /\ \A i \in DOMAIN instances : instances[i].partitions \subseteq Partitions(instances[i].stream)
  /\ InstancesFit /\ NameDeployedOnce

ThreadsType ==
  /\ mapping \in [Mappings -> Mapping]
  /\ pc \in [Threads -> {"idle", "look", "create", "record", "find", "delete"}]
  /\ call \in [Threads -> Calls]
  /\ requests \in 0..MaxRequests /\ edits \in 0..MaxEdits /\ faults \in 0..MaxFaults

LEMMA SplitIInv ==
  IInv <=> InstancesOK /\ ThreadsType /\ CallsOK /\ history \subseteq DOMAIN instances
  BY DEF IInv, TypeOK, InstancesOK, ThreadsType, InstanceType

LEMMA RestatedInstancesOK ==
  ASSUME IInv, Restates
  PROVE  InstancesOK'
<1> TypeOK /\ InstancesFit /\ NameDeployedOnce
  BY DEF IInv
<1>1. /\ DOMAIN instances' = DOMAIN instances
      /\ instances' \in Seq(InstanceType) /\ Len(instances') <= MaxInstances
  BY RestatedFields, InstancesTyped, DeploymentAssumption DEF Restates
<1>2. \A i \in DOMAIN instances' : instances'[i].partitions \subseteq Partitions(instances'[i].stream)
  BY <1>1, RestatedFields DEF TypeOK
<1>3. InstancesFit'
  BY <1>1, RestatedFields DEF InstancesFit
<1>4. NameDeployedOnce'
  BY <1>1, RestatedFields DEF NameDeployedOnce
<1>. QED BY <1>1, <1>2, <1>3, <1>4 DEF InstancesOK

\* What a request remembers stays true when instances change state.
LEMMA RestatedCall ==
  ASSUME IInv, Restates, NEW t \in Threads, CallOK(t), pc'[t] = pc[t], call'[t] = call[t]
  PROVE  CallOK(t)'
<1> TypeOK
  BY DEF IInv
<1>1. /\ DOMAIN instances' = DOMAIN instances /\ Len(instances') = Len(instances)
      /\ DOMAIN instances = 1..Len(instances) /\ Len(instances) \in Nat
  BY RestatedFields, InstancesTyped, DeploymentAssumption DEF Restates
<1>2. CASE pc[t] = "create"
  <2>1. call[t].among \in Nat /\ call[t].among <= Len(instances)
    BY <1>2, DeploymentAssumption DEF CallOK, DeployCalls
  <2>2. FreeAmong(call[t].among, call[t].name)'
    BY <1>1, <1>2, <2>1, RestatedFields DEF CallOK, FreeAmong
  <2>. QED BY <1>1, <1>2, <2>1, <2>2 DEF CallOK
<1>3. CASE pc[t] # "create"
  BY <1>1, <1>3 DEF CallOK
<1>. QED BY <1>2, <1>3

LEMMA AppendFacts ==
  ASSUME TypeOK, Len(instances) < MaxInstances, NEW new \in InstanceType,
         instances' = Append(instances, new)
  PROVE  /\ instances' \in Seq(InstanceType)
         /\ Len(instances') = Len(instances) + 1 /\ Len(instances') <= MaxInstances
         /\ DOMAIN instances' = DOMAIN instances \cup {Len(instances) + 1}
         /\ \A i \in DOMAIN instances : instances'[i] = instances[i]
         /\ instances'[Len(instances) + 1] = new
<1>1. /\ instances \in Seq(InstanceType)
      /\ Len(instances) \in Nat /\ DOMAIN instances = 1..Len(instances)
  BY InstancesTyped, DeploymentAssumption
<1>2. /\ instances' \in Seq(InstanceType)
      /\ Len(instances') = Len(instances) + 1
      /\ \A i \in 1..Len(instances) : instances'[i] = instances[i]
      /\ instances'[Len(instances) + 1] = new
  BY <1>1, AppendProperties
<1>3. DOMAIN instances' = 1..(Len(instances) + 1)
  BY <1>2, SeqElements
<1>. QED BY <1>1, <1>2, <1>3, DeploymentAssumption

\* What a validated request makes, and that it finds the name free.
LEMMA NewInstanceFacts ==
  ASSUME IInv, NEW t \in Threads, pc[t] = "create"
  PROVE  /\ NewInstance(t) \in InstanceType
         /\ NewInstance(t).name = call[t].name /\ NewInstance(t).managed
         /\ NewInstance(t).partitions \subseteq Partitions(NewInstance(t).stream)
         /\ Fits(NewInstance(t).mode, NewInstance(t).stream, NewInstance(t).partitions)
         /\ call[t].among \in Nat /\ FreeAmong(call[t].among, call[t].name)
<1>1. /\ call[t] \in DeployCalls /\ Fits(call[t].mode, call[t].stream, call[t].partitions)
      /\ FreeAmong(call[t].among, call[t].name)
  BY DEF IInv, CallsOK, CallOK
<1>2. /\ call[t].name \in Names /\ call[t].stream \in Streams /\ call[t].mode \in Modes
      /\ call[t].partitions \subseteq Numbers /\ call[t].among \in 0..MaxInstances
  BY <1>1 DEF DeployCalls
<1>3. NewInstance(t) \in InstanceType
  BY <1>2 DEF NewInstance, Instance, InstanceType, States
<1>. QED BY <1>1, <1>2, <1>3, DeploymentAssumption DEF NewInstance, Instance, Fits

LEMMA AppendedInstancesOK ==
  ASSUME IInv, NEW t \in Threads, pc[t] = "create", Len(instances) < MaxInstances,
         instances' = Append(instances, NewInstance(t))
  PROVE  InstancesOK'
<1> DEFINE k == Len(instances) + 1
           new == NewInstance(t)
<1>1. TypeOK /\ InstancesFit /\ NameDeployedOnce
  BY DEF IInv
<1>2. /\ instances' \in Seq(InstanceType) /\ Len(instances') <= MaxInstances
      /\ DOMAIN instances' = DOMAIN instances \cup {k}
      /\ \A i \in DOMAIN instances : instances'[i] = instances[i]
      /\ instances'[k] = new
  BY <1>1, NewInstanceFacts, AppendFacts
<1>3. DOMAIN instances = 1..Len(instances) /\ Len(instances) \in Nat
  BY <1>1, InstancesTyped, DeploymentAssumption
<1>4. \A i \in DOMAIN instances' : instances'[i].partitions \subseteq Partitions(instances'[i].stream)
  BY <1>1, <1>2, NewInstanceFacts DEF TypeOK
<1>5. InstancesFit'
  BY <1>1, <1>2, NewInstanceFacts DEF InstancesFit
<1>6. ASSUME NEW i \in DOMAIN instances', NEW j \in DOMAIN instances', i < j,
             Holds(i)', Holds(j)', instances'[i].name = instances'[j].name
      PROVE  instances'[j].among < i
  <2>1. i \in DOMAIN instances /\ instances'[i] = instances[i] /\ Holds(i)
    BY <1>2, <1>3, <1>6 DEF Holds
  <2>2. CASE j \in DOMAIN instances
    BY <1>1, <1>2, <1>6, <2>1, <2>2 DEF NameDeployedOnce, Holds
  <2>3. CASE j = k
    <3>1. instances[i].name = call[t].name /\ instances'[j].among = call[t].among
      BY <1>2, <1>6, <2>1, <2>3, NewInstanceFacts DEF NewInstance, Instance
    <3>2. call[t].among \in Nat /\ FreeAmong(call[t].among, call[t].name)
      BY NewInstanceFacts
    <3>3. i \notin 1..call[t].among
      BY <2>1, <3>1, <3>2 DEF FreeAmong
    <3>. QED BY <1>3, <2>1, <3>1, <3>2, <3>3
  <2>. QED BY <1>2, <2>2, <2>3
<1>. QED BY <1>2, <1>4, <1>5, <1>6 DEF InstancesOK, NameDeployedOnce

\* A new instance behind the others is none that a request has looked at.
LEMMA AppendedCall ==
  ASSUME IInv, NEW u \in Threads, pc[u] = "create", Len(instances) < MaxInstances,
         instances' = Append(instances, NewInstance(u)),
         NEW t \in Threads, CallOK(t), pc'[t] = pc[t], call'[t] = call[t]
  PROVE  CallOK(t)'
<1>1. TypeOK
  BY DEF IInv
<1>2. /\ Len(instances') = Len(instances) + 1
      /\ DOMAIN instances \subseteq DOMAIN instances'
      /\ \A i \in DOMAIN instances : instances'[i] = instances[i]
  BY <1>1, NewInstanceFacts, AppendFacts
<1>3. DOMAIN instances = 1..Len(instances) /\ Len(instances) \in Nat
  BY <1>1, InstancesTyped, DeploymentAssumption
<1>4. CASE pc[t] = "create"
  <2>1. call[t].among \in Nat /\ call[t].among <= Len(instances)
    BY <1>4, DeploymentAssumption DEF CallOK, DeployCalls
  <2>2. FreeAmong(call[t].among, call[t].name)'
    BY <1>2, <1>3, <1>4, <2>1 DEF CallOK, FreeAmong, Holds
  <2>. QED BY <1>2, <1>3, <1>4, <2>1, <2>2 DEF CallOK
<1>5. CASE pc[t] # "create"
  BY <1>2, <1>5 DEF CallOK
<1>. QED BY <1>4, <1>5
-----------------------------------------------------------------------------
(* The steps.                                                              *)

\* Thread t moves to a step, with new local variables or the old ones.
Turns(t, step, request) ==
  /\ pc' = [pc EXCEPT ![t] = step]
  /\ call' = [call EXCEPT ![t] = request]

Steps == {"idle", "look", "create", "record", "find", "delete"}

LEMMA TurnFacts ==
  ASSUME ThreadsType, NEW t \in Threads, NEW step, NEW request, Turns(t, step, request)
  PROVE  /\ pc'[t] = step /\ call'[t] = request
         /\ \A u \in Threads : u # t => pc'[u] = pc[u] /\ call'[u] = call[u]
         /\ step \in Steps /\ request \in Calls =>
              pc' \in [Threads -> Steps] /\ call' \in [Threads -> Calls]
  BY DEF ThreadsType, Turns, Steps

LEMMA IdleTurns ==
  ASSUME NEW t \in Threads, Idle(t)
  PROVE  Turns(t, "idle", NoCall)
  BY DEF Idle, Turns

\* The requests' limits count down and no further.
LimitsType == requests \in 0..MaxRequests /\ edits \in 0..MaxEdits /\ faults \in 0..MaxFaults

\* A thread's step that leaves the instances there are in place.
LEMMA TurnRestates ==
  ASSUME IInv, NEW t \in Threads, NEW step \in Steps, NEW request \in Calls,
         Turns(t, step, request), Restates, CallOK(t)',
         mapping' = mapping, history' \subseteq DOMAIN instances, LimitsType'
  PROVE  IInv'
<1>1. ThreadsType /\ CallsOK /\ TypeOK
  BY SplitIInv DEF IInv
<1>2. InstancesOK' /\ DOMAIN instances' = DOMAIN instances
  BY <1>1, RestatedInstancesOK, RestatedFields
<1>3. CallsOK'
  BY <1>1, TurnFacts, RestatedCall DEF CallsOK
<1>4. ThreadsType'
  BY <1>1, TurnFacts DEF ThreadsType, LimitsType, Steps
<1>5. (IInv <=> InstancesOK /\ ThreadsType /\ CallsOK /\ history \subseteq DOMAIN instances)'
  BY SplitIInv, PTL
<1>. QED BY <1>2, <1>3, <1>4, <1>5

\* A thread's step that has an instance created.
LEMMA TurnAppends ==
  ASSUME IInv, NEW t \in Threads, NEW step \in Steps, NEW request \in Calls,
         Turns(t, step, request), CallOK(t)',
         pc[t] = "create", Len(instances) < MaxInstances,
         instances' = Append(instances, NewInstance(t)),
         mapping' = mapping, history' = history, LimitsType'
  PROVE  IInv'
<1>1. ThreadsType /\ CallsOK /\ TypeOK /\ history \subseteq DOMAIN instances
  BY SplitIInv DEF IInv
<1>2. InstancesOK' /\ DOMAIN instances \subseteq DOMAIN instances'
  BY <1>1, AppendedInstancesOK, NewInstanceFacts, AppendFacts
<1>3. CallsOK'
  BY <1>1, TurnFacts, AppendedCall DEF CallsOK
<1>4. ThreadsType'
  BY <1>1, TurnFacts DEF ThreadsType, LimitsType, Steps
<1>5. (IInv <=> InstancesOK /\ ThreadsType /\ CallsOK /\ history \subseteq DOMAIN instances)'
  BY SplitIInv, PTL
<1>. QED BY <1>1, <1>2, <1>3, <1>4, <1>5

\* A thread that is idle has nothing to remember.
LEMMA IdleCall ==
  ASSUME NEW t \in Threads, pc'[t] = "idle"
  PROVE  CallOK(t)'
  BY DEF CallOK

LEMMA LimitsFacts ==
  ASSUME IInv
  PROVE  /\ LimitsType
         /\ requests > 0 => requests - 1 \in 0..MaxRequests
         /\ edits > 0 => edits - 1 \in 0..MaxEdits
         /\ faults > 0 => faults - 1 \in 0..MaxFaults
  BY DeploymentAssumption DEF IInv, TypeOK, LimitsType

LEMMA BeginDeployIInv ==
  ASSUME IInv, NEW t \in Threads, BeginDeploy(t)
  PROVE  IInv'
<1>1. TypeOK /\ ThreadsType
  BY SplitIInv DEF IInv
<1>2. PICK m \in Mappings, n \in Names, parts \in SUBSET Numbers :
        /\ Fits(mapping[m].mode, mapping[m].stream, parts)
        /\ Begin(t, "look", [kind |-> "deploy", name |-> n, stream |-> mapping[m].stream,
                             mode |-> mapping[m].mode, partitions |-> parts, among |-> 0])
  BY DEF BeginDeploy
<1> DEFINE request == [kind |-> "deploy", name |-> n, stream |-> mapping[m].stream,
                       mode |-> mapping[m].mode, partitions |-> parts, among |-> 0]
<1>3. mapping[m].mode \in Modes /\ mapping[m].stream \in Streams
  BY <1>1 DEF TypeOK, Mapping
<1>4. /\ request \in DeployCalls /\ request \in Calls
      /\ Fits(request.mode, request.stream, request.partitions)
  BY <1>2, <1>3, DeploymentAssumption DEF DeployCalls, Calls
<1> HIDE DEF request
<1>5. Turns(t, "look", request)
  BY <1>2 DEF Begin, Goes, Turns, request
<1>6. CallOK(t)'
  BY <1>1, <1>4, <1>5, TurnFacts DEF CallOK, Fits
<1>7. Restates /\ mapping' = mapping /\ history' \subseteq DOMAIN instances /\ LimitsType'
  BY <1>1, <1>2, SameInstancesRestate, LimitsFacts DEF Begin, TypeOK, LimitsType
<1>. QED BY <1>4, <1>5, <1>6, <1>7, TurnRestates DEF Steps

LEMMA LookForNameIInv ==
  ASSUME IInv, NEW t \in Threads, LookForName(t)
  PROVE  IInv'
<1>1. TypeOK /\ ThreadsType /\ pc[t] = "look" /\ CallOK(t)
  BY SplitIInv DEF IInv, CallsOK, LookForName
<1>2. /\ instances' = instances /\ Restates /\ mapping' = mapping
      /\ history' \subseteq DOMAIN instances /\ LimitsType'
  BY <1>1, SameInstancesRestate, LimitsFacts DEF LookForName, TypeOK, limits, LimitsType
<1>3. CASE Idle(t)
  BY <1>1, <1>2, <1>3, IdleTurns, TurnFacts, IdleCall, TurnRestates DEF Steps, Calls
<1>4. CASE /\ ~(\E i \in DOMAIN instances : Taken(i, call[t].name))
           /\ Goes(t, "create") /\ call' = [call EXCEPT ![t].among = Len(instances)]
  <2> DEFINE request == [call[t] EXCEPT !.among = Len(instances)]
  <2>1. call[t] \in DeployCalls /\ Fits(call[t].mode, call[t].stream, call[t].partitions)
    BY <1>1 DEF CallOK
  <2>2. Len(instances) \in 0..MaxInstances /\ DOMAIN instances = 1..Len(instances)
    BY <1>1, InstancesTyped
  <2>3. /\ request \in DeployCalls /\ request.among = Len(instances)
        /\ request.name = call[t].name /\ request.mode = call[t].mode
        /\ request.stream = call[t].stream /\ request.partitions = call[t].partitions
    BY <2>1, <2>2 DEF DeployCalls
  <2>4. request \in Calls
    BY <2>3 DEF Calls, DeployCalls
  <2>5. Turns(t, "create", request)
    BY <1>4 DEF Goes, Turns
  <2> HIDE DEF request
  <2>6. FreeAmong(Len(instances), call[t].name)
    BY <1>4, <2>2 DEF FreeAmong, Taken, Holds
  <2>7. CallOK(t)'
    <3>1. pc'[t] = "create" /\ call'[t] = request
      BY <1>1, <2>5, TurnFacts
    <3>2. \A i \in 1..request.among : instances'[i].name = request.name => ~Holds(i)'
      BY <1>2, <2>3, <2>6 DEF FreeAmong, Holds
    <3>3. request.among <= Len(instances')
      BY <1>2, <2>2, <2>3, DeploymentAssumption
    <3>. QED BY <2>1, <2>3, <3>1, <3>2, <3>3 DEF CallOK, Fits, FreeAmong
  <2>. QED BY <1>2, <2>4, <2>5, <2>7, TurnRestates DEF Steps
<1>. QED BY <1>3, <1>4 DEF LookForName

LEMMA CreateIInv ==
  ASSUME IInv, NEW t \in Threads, Create(t)
  PROVE  IInv'
<1> DEFINE request == [kind |-> "record", id |-> Len(instances) + 1]
<1>1. TypeOK /\ ThreadsType
  BY SplitIInv DEF IInv
<1>2. /\ pc[t] = "create" /\ Len(instances) < MaxInstances
      /\ instances' = Append(instances, NewInstance(t))
      /\ mapping' = mapping /\ history' = history /\ LimitsType'
  BY <1>1 DEF Create, limits, TypeOK, LimitsType
<1>3. Len(instances) + 1 \in DOMAIN instances'
  BY <1>1, <1>2, NewInstanceFacts, AppendFacts
<1>4. request \in RecordCalls /\ request \in Calls /\ request.id = Len(instances) + 1
  BY <1>1, <1>2, InstancesTyped, DeploymentAssumption DEF RecordCalls, Calls
<1>5. Turns(t, "record", request)
  BY DEF Create, Goes, Turns
<1> HIDE DEF request
<1>6. CallOK(t)'
  BY <1>1, <1>3, <1>4, <1>5, TurnFacts DEF CallOK
<1>. QED BY <1>2, <1>4, <1>5, <1>6, TurnAppends DEF Steps

LEMMA CreateFailsIInv ==
  ASSUME IInv, NEW t \in Threads, CreateFails(t)
  PROVE  IInv'
<1>1. TypeOK /\ ThreadsType
  BY SplitIInv DEF IInv
<1>2. Turns(t, "idle", NoCall) /\ CallOK(t)' /\ "idle" \in Steps /\ NoCall \in Calls
  BY <1>1, IdleTurns, TurnFacts, IdleCall DEF CreateFails, Steps, Calls
<1>3. /\ pc[t] = "create" /\ mapping' = mapping /\ history' = history
      /\ history \subseteq DOMAIN instances /\ LimitsType'
  BY <1>1, LimitsFacts DEF CreateFails, TypeOK, LimitsType
<1>4. CASE instances' = instances
  BY <1>1, <1>2, <1>3, <1>4, SameInstancesRestate, TurnRestates
<1>5. CASE Len(instances) < MaxInstances /\ instances' = Append(instances, NewInstance(t))
  BY <1>2, <1>3, <1>5, TurnAppends
<1>. QED BY <1>4, <1>5 DEF CreateFails

LEMMA RecordIInv ==
  ASSUME IInv, NEW t \in Threads, Record(t)
  PROVE  IInv'
<1>1. TypeOK /\ ThreadsType /\ call[t].id \in DOMAIN instances
  BY SplitIInv DEF IInv, CallsOK, CallOK, Record
<1>2. Turns(t, "idle", NoCall) /\ CallOK(t)' /\ "idle" \in Steps /\ NoCall \in Calls
  BY <1>1, IdleTurns, TurnFacts, IdleCall DEF Record, Steps, Calls
<1>3. /\ Restates /\ mapping' = mapping
      /\ history' \subseteq DOMAIN instances /\ LimitsType'
  BY <1>1, SameInstancesRestate, LimitsFacts DEF Record, TypeOK, LimitsType
<1>. QED BY <1>2, <1>3, TurnRestates

LEMMA BeginDeleteIInv ==
  ASSUME IInv, NEW t \in Threads, BeginDelete(t)
  PROVE  IInv'
<1>1. TypeOK /\ ThreadsType
  BY SplitIInv DEF IInv
<1>2. PICK ids \in SUBSET DOMAIN instances : Begin(t, "find", [kind |-> "delete", ids |-> ids])
  BY DEF BeginDelete
<1> DEFINE request == [kind |-> "delete", ids |-> ids]
<1>3. request \in DeleteCalls /\ request \in Calls
  <2>1. ids \subseteq 1..MaxInstances
    BY <1>1, InstancesTyped, DeploymentAssumption
  <2>. QED BY <2>1 DEF DeleteCalls, Calls
<1>4. Turns(t, "find", request)
  BY <1>2 DEF Begin, Goes, Turns
<1> HIDE DEF request
<1>5. CallOK(t)'
  BY <1>1, <1>3, <1>4, TurnFacts DEF CallOK
<1>6. Restates /\ mapping' = mapping /\ history' \subseteq DOMAIN instances /\ LimitsType'
  BY <1>1, <1>2, SameInstancesRestate, LimitsFacts DEF Begin, TypeOK, LimitsType
<1>. QED BY <1>3, <1>4, <1>5, <1>6, TurnRestates DEF Steps

LEMMA FindIInv ==
  ASSUME IInv, NEW t \in Threads, Find(t)
  PROVE  IInv'
<1>1. TypeOK /\ ThreadsType /\ call[t] \in DeleteCalls /\ call[t] \in Calls
  BY SplitIInv DEF IInv, CallsOK, CallOK, Find, TypeOK
<1>2. Restates /\ mapping' = mapping /\ history' \subseteq DOMAIN instances /\ LimitsType'
  BY <1>1, SameInstancesRestate DEF Find, TypeOK, limits, LimitsType
<1>3. CASE Idle(t)
  BY <1>1, <1>2, <1>3, IdleTurns, TurnFacts, IdleCall, TurnRestates DEF Steps, Calls
<1>4. CASE Goes(t, "delete") /\ UNCHANGED call
  <2>1. Turns(t, "delete", call[t])
    BY <1>1, <1>4 DEF Goes, Turns, TypeOK
  <2>2. CallOK(t)'
    BY <1>1, <2>1, TurnFacts DEF CallOK
  <2>. QED BY <1>1, <1>2, <2>1, <2>2, TurnRestates DEF Steps
<1>. QED BY <1>3, <1>4 DEF Find

LEMMA DeleteIInv ==
  ASSUME IInv, NEW t \in Threads, Delete(t)
  PROVE  IInv'
<1>1. TypeOK /\ ThreadsType /\ call[t] \in DeleteCalls
  BY SplitIInv DEF IInv, CallsOK, CallOK, Delete
<1> DEFINE id == First(call[t].ids)
           rest == [call[t] EXCEPT !.ids = @ \ {id}]
<1>2. mapping' = mapping /\ history' \subseteq DOMAIN instances /\ LimitsType'
  BY <1>1 DEF Delete, TypeOK, limits, LimitsType
<1>3. Restates
  <2>1. CASE instances' = instances
    BY <1>1, <2>1, SameInstancesRestate
  <2>2. CASE instances' = [instances EXCEPT ![id].state = "DELETING"]
    BY <1>1, <2>2, OneRestated DEF Gone, States
  <2>. QED BY <2>1, <2>2 DEF Delete
<1>4. CASE Idle(t)
  BY <1>1, <1>2, <1>3, <1>4, IdleTurns, TurnFacts, IdleCall, TurnRestates DEF Steps, Calls
<1>5. CASE Goes(t, "find") /\ call' = [call EXCEPT ![t].ids = @ \ {id}]
  <2>1. rest \in DeleteCalls /\ rest \in Calls
    BY <1>1 DEF DeleteCalls, Calls
  <2>2. Turns(t, "find", rest)
    BY <1>5 DEF Goes, Turns
  <2> HIDE DEF rest
  <2>3. CallOK(t)'
    BY <1>1, <2>1, <2>2, TurnFacts DEF CallOK
  <2>. QED BY <1>2, <1>3, <2>1, <2>2, <2>3, TurnRestates DEF Steps
<1>. QED BY <1>4, <1>5 DEF Delete

\* A step of OCI, or of somebody who edits a mapping: no request moves.
LEMMA OutsideStep ==
  ASSUME IInv, Restates, UNCHANGED <<history, threads>>, mapping' \in [Mappings -> Mapping], LimitsType'
  PROVE  IInv'
<1>1. ThreadsType /\ CallsOK /\ TypeOK /\ history \subseteq DOMAIN instances
  BY SplitIInv DEF IInv
<1>2. InstancesOK' /\ DOMAIN instances' = DOMAIN instances
  BY <1>1, RestatedInstancesOK, RestatedFields
<1>3. CallsOK'
  BY <1>1, RestatedCall DEF CallsOK, threads
<1>4. ThreadsType'
  BY <1>1 DEF ThreadsType, LimitsType, threads
<1>5. (IInv <=> InstancesOK /\ ThreadsType /\ CallsOK /\ history \subseteq DOMAIN instances)'
  BY SplitIInv, PTL
<1>. QED BY <1>1, <1>2, <1>3, <1>4, <1>5

LEMMA CrashIInv ==
  ASSUME IInv, Crash
  PROVE  IInv'
<1>1. ThreadsType /\ TypeOK /\ history \subseteq DOMAIN instances
  BY SplitIInv DEF IInv
<1>2. InstancesOK' /\ DOMAIN instances' = DOMAIN instances
  BY <1>1, SameInstancesRestate, RestatedInstancesOK DEF Crash
<1>3. CallsOK'
  BY DEF Crash, CallsOK, CallOK
<1>4. ThreadsType'
  BY <1>1, LimitsFacts DEF ThreadsType, Crash, Calls
<1>5. (IInv <=> InstancesOK /\ ThreadsType /\ CallsOK /\ history \subseteq DOMAIN instances)'
  BY SplitIInv, PTL
<1>. QED BY <1>1, <1>2, <1>3, <1>4, <1>5 DEF Crash

LEMMA NextIInv == IInv /\ [Next]_vars => IInv'
<1> SUFFICES ASSUME IInv, [Next]_vars PROVE IInv'
  OBVIOUS
<1>0. TypeOK /\ LimitsType /\ mapping \in [Mappings -> Mapping]
  BY LimitsFacts DEF IInv, TypeOK
<1>1. ASSUME NEW t \in Threads, Request(t) PROVE IInv'
  BY <1>1, BeginDeployIInv, LookForNameIInv, CreateIInv, CreateFailsIInv, RecordIInv,
    BeginDeleteIInv, FindIInv, DeleteIInv DEF Request
<1>2. ASSUME NEW i \in DOMAIN instances, Starts(i) \/ CannotStart(i) \/ Ends(i) PROVE IInv'
  <2>1. PICK from \in States, to \in States : Moves(i, from, to) /\ (from \in Gone => to \in Gone)
    BY <1>2 DEF Starts, CannotStart, Ends, States, Gone
  <2>2. Restates
    BY <1>0, <2>1, OneRestated DEF Moves
  <2>3. LimitsType' /\ mapping' = mapping /\ UNCHANGED <<history, threads>>
    BY <1>0, <2>1 DEF Moves, limits, LimitsType
  <2>. QED BY <1>0, <2>2, <2>3, OutsideStep
<1>3. ASSUME NEW m \in Mappings, EditMapping(m) PROVE IInv'
  <2>1. mapping' \in [Mappings -> Mapping] /\ LimitsType' /\ UNCHANGED <<history, threads, instances>>
    BY <1>0, <1>3, LimitsFacts DEF EditMapping, LimitsType
  <2>. QED BY <1>0, <2>1, SameInstancesRestate, OutsideStep
<1>4. CASE UNCHANGED vars
  <2>1. mapping' = mapping /\ LimitsType' /\ UNCHANGED <<history, threads, instances>>
    BY <1>0, <1>4 DEF vars, limits, LimitsType
  <2>. QED BY <1>0, <2>1, SameInstancesRestate, OutsideStep
<1>. QED BY <1>1, <1>2, <1>3, <1>4, CrashIInv DEF Next

LEMMA InitIInv == Init => IInv
<1> SUFFICES ASSUME Init PROVE IInv
  OBVIOUS
<1> PICK n \in Names : instances = [i \in 1..Foreign |-> ForeignInstance(n)]
  BY DEF Init
<1> DEFINE r == ForeignInstance(n)
<1>1. PICK c \in Streams : c = CHOOSE s \in Streams : TRUE
  BY DeploymentAssumption
<1>2. r \in InstanceType /\ ~r.managed /\ r.partitions = {}
  <2>1. r = [[name |-> n, stream |-> c, mode |-> "FIFO", partitions |-> {},
              managed |-> FALSE, among |-> 0, state |-> "CREATING"] EXCEPT !.state = "ACTIVE"]
    BY <1>1 DEF ForeignInstance, Instance
  <2>2. 0 \in 0..MaxInstances /\ "FIFO" \in Modes /\ "ACTIVE" \in States /\ {} \in SUBSET Numbers
    BY DeploymentAssumption DEF Modes, States
  <2>. QED BY <1>1, <2>1, <2>2 DEF InstanceType
<1> HIDE DEF r
<1>3. instances \in [1..Foreign -> InstanceType] /\ Foreign \in Nat
  BY <1>2, DeploymentAssumption DEF r
<1>4. /\ instances \in Seq(InstanceType) /\ Len(instances) = Foreign
      /\ DOMAIN instances = 1..Foreign /\ \A i \in DOMAIN instances : instances[i] = r
  BY <1>3, FunctionIsSeq DEF r
<1>5. InstancesOK
  BY <1>2, <1>4, DeploymentAssumption DEF InstancesOK, InstancesFit, NameDeployedOnce, Holds
<1>6. ThreadsType
  BY DeploymentAssumption DEF Init, ThreadsType, Calls
<1>7. CallsOK
  BY DEF Init, CallsOK, CallOK
<1>. QED BY <1>5, <1>6, <1>7, SplitIInv DEF Init

\* Every processor has partitions that its stream has, and the requests know
\* what the invariants rest on.
THEOREM SpecTypeOK == Spec => []TypeOK
<1>1. IInv => TypeOK
  BY DEF IInv
<1>. QED BY <1>1, InitIInv, NextIInv, PTL DEF Spec

\* Two instances hold one name only if neither existed when the request that
\* made the other looked: whatever fails, is lost, is tried again or is deleted.
THEOREM SpecNameDeployedOnce == Spec => []NameDeployedOnce
<1>1. IInv => NameDeployedOnce
  BY DEF IInv
<1>. QED BY <1>1, InitIInv, NextIInv, PTL DEF Spec

\* The processors of a stream are of one mode, and a FIFO processor reads its
\* stream whole: whatever is edited while requests are under way.
THEOREM SpecModeFitsStream == Spec => []ModeFitsStream
<1>1. IInv => ModeFitsStream
  <2> SUFFICES ASSUME IInv, NEW i \in DOMAIN instances, NEW j \in DOMAIN instances,
                      instances[i].managed, instances[j].managed,
                      instances[i].stream = instances[j].stream
               PROVE  /\ instances[i].mode = instances[j].mode
                      /\ instances[i].mode = "FIFO" =>
                           instances[i].partitions = Partitions(instances[i].stream)
    BY DEF ModeFitsStream
  <2>1. /\ Fits(instances[i].mode, instances[i].stream, instances[i].partitions)
        /\ Fits(instances[j].mode, instances[j].stream, instances[j].partitions)
    BY DEF IInv, InstancesFit
  <2>2. /\ instances[i].mode \in Modes /\ instances[j].mode \in Modes
        /\ instances[i].stream \in Streams
    BY InstancesTyped, InstanceFields DEF IInv
  <2>3. PartitionCount[instances[i].stream] \in Nat
    BY <2>2, DeploymentAssumption
  <2>4. instances[i].mode = instances[j].mode
    BY <2>1, <2>2, <2>3 DEF Fits, Modes
  <2>5. ASSUME instances[i].mode = "FIFO" PROVE instances[i].partitions = Partitions(instances[i].stream)
    <3>1. instances[i].partitions = {0} /\ PartitionCount[instances[i].stream] = 1
      BY <2>1, <2>5 DEF Fits
    <3>2. 0..(1 - 1) = {0}
      OBVIOUS
    <3>. QED BY <3>1, <3>2 DEF Partitions
  <2>. QED BY <2>4, <2>5
<1>. QED BY <1>1, InitIInv, NextIInv, PTL DEF Spec
=============================================================================
