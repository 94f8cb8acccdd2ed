------------------------- MODULE ProcessorDeployment -------------------------
(***************************************************************************)
(* Processors as OCI Container Instances: the requests of                  *)
(* orchestration_routes.py that deploy and delete them, served by threads  *)
(* of the UI, and the states OCI takes the instances through.              *)
(*                                                                         *)
(* An instance is identified by its position in `instances'; OCI goes on   *)
(* listing deleted ones.  A request lists the instances and acts on what   *)
(* it saw with a later call.  Everything that only refuses a form (names,  *)
(* images, secrets that are not listed) is left out.                       *)
(***************************************************************************)
EXTENDS Integers, Sequences

CONSTANTS
  Threads,        \* request threads of the UI process
  Names,          \* display names
  Streams,        \* streams
  PartitionCount, \* how many partitions each stream has; this never changes
  Mappings,       \* rows of object_storage_mappings
  Foreign,        \* instances at first that the application does not manage
  MaxInstances,   \* bound: instances
  MaxRequests,    \* bound: requests
  MaxEdits,       \* bound: edits of mappings
  MaxFaults       \* bound: failing calls and crashes

ASSUME DeploymentAssumption ==
  /\ Streams # {}
  /\ PartitionCount \in [Streams -> Nat \ {0}]
  /\ Foreign \in 0..MaxInstances
  /\ MaxInstances \in Nat /\ MaxRequests \in Nat
  /\ MaxEdits \in Nat /\ MaxFaults \in Nat

VARIABLES
  mapping,   \* stream and mode of each mapping
  instances, \* the container instances, in the order of their creation
  history,   \* instances that deployment_history has a row for
  pc,        \* what each thread does next
  call,      \* what its request holds in local variables
  requests,  \* requests left
  edits,     \* edits of mappings left
  faults     \* faults left

threads == <<pc, call>>
limits == <<requests, edits, faults>>
vars == <<mapping, instances, history, threads, limits>>

Modes == {"FIFO", "PARALLEL"}
Mapping == [stream : Streams, mode : Modes]
States == {"CREATING", "ACTIVE", "FAILED", "DELETING", "DELETED"}

\* `among' is a history variable: how many instances existed when the name was
\* looked for.
Instance(name, of, mode, parts, managed, among) ==
  [name |-> name, stream |-> of, mode |-> mode, partitions |-> parts,
   managed |-> managed, among |-> among, state |-> "CREATING"]

Partitions(s) == 0..(PartitionCount[s] - 1)
\* What a form may name, also one too many.
Numbers == UNION {0..PartitionCount[s] : s \in Streams}

NoCall == [kind |-> "none"]
Idle(t) ==
  /\ pc' = [pc EXCEPT ![t] = "idle"]
  /\ call' = [call EXCEPT ![t] = NoCall]
Goes(t, step) == pc' = [pc EXCEPT ![t] = step]

\* Only its name and tag matter.
ForeignInstance(name) ==
  [Instance(name, CHOOSE s \in Streams : TRUE, "FIFO", {}, FALSE, 0)
     EXCEPT !.state = "ACTIVE"]

Init ==
  /\ mapping \in [Mappings -> Mapping]
  /\ \E n \in Names : instances = [i \in 1..Foreign |-> ForeignInstance(n)]
  /\ history = {}
  /\ pc = [t \in Threads |-> "idle"]
  /\ call = [t \in Threads |-> NoCall]
  /\ requests = MaxRequests /\ edits = MaxEdits /\ faults = MaxFaults

Begin(t, step, request) ==
  /\ pc[t] = "idle" /\ requests > 0
  /\ requests' = requests - 1
  /\ Goes(t, step)
  /\ call' = [call EXCEPT ![t] = request]
  /\ UNCHANGED <<mapping, instances, history, edits, faults>>

-----------------------------------------------------------------------------
(* validate_deployment and assigned_partitions. *)

\* Mutated: validate_deployment is not called.
FitsAssignment(mode, s, parts) ==
  /\ parts # {} /\ parts \subseteq Partitions(s)
  /\ mode = "FIFO" => parts = {0}

\* Mutated: a partition number is not compared with the partition count.
FitsUnbounded(mode, s, parts) ==
  /\ parts # {}
  /\ mode = "FIFO" => parts = {0} /\ PartitionCount[s] = 1
  /\ mode = "PARALLEL" => PartitionCount[s] >= 2

Fits(mode, s, parts) ==
  /\ parts # {} /\ parts \subseteq Partitions(s)
  /\ mode = "FIFO" => parts = {0} /\ PartitionCount[s] = 1
  /\ mode = "PARALLEL" => PartitionCount[s] >= 2

-----------------------------------------------------------------------------
(* deploy() and ContainerOrchestrationService.create. *)

BeginDeploy(t) ==
  \E m \in Mappings, n \in Names, parts \in SUBSET Numbers :
    LET s == mapping[m].stream
        mode == mapping[m].mode
    IN /\ Fits(mode, s, parts)
       /\ Begin(t, "look", [kind |-> "deploy", name |-> n, stream |-> s, mode |-> mode,
                            partitions |-> parts, among |-> 0])

\* Mutated: only an instance that is ACTIVE has its name.
TakenIfActive(i, name) ==
  /\ instances[i].managed
  /\ instances[i].name = name
  /\ instances[i].state = "ACTIVE"

Taken(i, name) ==
  /\ instances[i].managed
  /\ instances[i].name = name
  /\ instances[i].state \notin {"DELETED", "DELETING"}

LookForName(t) ==
  /\ pc[t] = "look"
  /\ IF \E i \in DOMAIN instances : Taken(i, call[t].name)
     THEN Idle(t)
     ELSE /\ Goes(t, "create")
          /\ call' = [call EXCEPT ![t].among = Len(instances)]
  /\ UNCHANGED <<mapping, instances, history, limits>>

NewInstance(t) ==
  Instance(call[t].name, call[t].stream, call[t].mode, call[t].partitions, TRUE,
           call[t].among)

Create(t) ==
  /\ pc[t] = "create" /\ Len(instances) < MaxInstances
  /\ instances' = Append(instances, NewInstance(t))
  /\ Goes(t, "record")
  /\ call' = [call EXCEPT ![t] = [kind |-> "record", id |-> Len(instances) + 1]]
  /\ UNCHANGED <<mapping, history, limits>>

\* The call fails; OCI may have created the instance all the same.
CreateFails(t) ==
  /\ pc[t] = "create" /\ faults > 0
  /\ \/ UNCHANGED instances
     \/ /\ Len(instances) < MaxInstances
        /\ instances' = Append(instances, NewInstance(t))
  /\ faults' = faults - 1
  /\ Idle(t)
  /\ UNCHANGED <<mapping, history, requests, edits>>

\* ReleaseHistoryService.record; that it fails is only logged.
Record(t) ==
  /\ pc[t] = "record"
  /\ \/ history' = history \cup {call[t].id} /\ UNCHANGED faults
     \/ faults > 0 /\ faults' = faults - 1 /\ UNCHANGED history
  /\ Idle(t)
  /\ UNCHANGED <<mapping, instances, requests, edits>>

-----------------------------------------------------------------------------
(* delete_deployment, delete_deployments and ContainerOrchestrationService.delete. *)

\* A form lists the instances in the order of the page, that of their creation.
BeginDelete(t) ==
  \E ids \in (SUBSET DOMAIN instances) \ {{}} :
    Begin(t, "find", [kind |-> "delete", ids |-> ids])

First(ids) == CHOOSE i \in ids : \A j \in ids : i <= j

\* The first failure ends the request: the instances behind it stay.
Find(t) ==
  /\ pc[t] = "find"
  /\ LET found == instances[First(call[t].ids)]
     IN IF found.managed /\ found.state # "DELETED"
        THEN Goes(t, "delete") /\ UNCHANGED call
        ELSE Idle(t)
  /\ UNCHANGED <<mapping, instances, history, limits>>

\* OCI refuses to delete what is being deleted or is gone.
Delete(t) ==
  /\ pc[t] = "delete"
  /\ LET id == First(call[t].ids) IN
     IF instances[id].state \in {"DELETING", "DELETED"}
     THEN Idle(t) /\ UNCHANGED instances
     ELSE /\ instances' = [instances EXCEPT ![id].state = "DELETING"]
          /\ IF call[t].ids = {id}
             THEN Idle(t)
             ELSE /\ Goes(t, "find")
                  /\ call' = [call EXCEPT ![t].ids = @ \ {id}]
  /\ UNCHANGED <<mapping, history, limits>>

-----------------------------------------------------------------------------
(* The UI process ends; OCI; the pages for mappings. *)

Crash ==
  /\ faults > 0
  /\ \E t \in Threads : pc[t] # "idle"
  /\ pc' = [t \in Threads |-> "idle"]
  /\ call' = [t \in Threads |-> NoCall]
  /\ faults' = faults - 1
  /\ UNCHANGED <<mapping, instances, history, requests, edits>>

Moves(i, from, to) ==
  /\ instances[i].state = from
  /\ instances' = [instances EXCEPT ![i].state = to]
  /\ UNCHANGED <<mapping, history, threads, limits>>

Starts(i) == Moves(i, "CREATING", "ACTIVE")
CannotStart(i) == Moves(i, "CREATING", "FAILED")
Ends(i) == Moves(i, "DELETING", "DELETED")

EditMapping(m) ==
  /\ edits > 0
  /\ \E new \in Mapping : mapping' = [mapping EXCEPT ![m] = new]
  /\ edits' = edits - 1
  /\ UNCHANGED <<instances, history, threads, requests, faults>>

Request(t) ==
  \/ BeginDeploy(t) \/ LookForName(t) \/ Create(t) \/ CreateFails(t) \/ Record(t)
  \/ BeginDelete(t) \/ Find(t) \/ Delete(t)

Next ==
  \/ \E t \in Threads : Request(t)
  \/ Crash
  \/ \E i \in DOMAIN instances : Starts(i) \/ CannotStart(i) \/ Ends(i)
  \/ \E m \in Mappings : EditMapping(m)

Spec == Init /\ [][Next]_vars

-----------------------------------------------------------------------------
Calls ==
  {NoCall}
  \cup [kind : {"deploy"}, name : Names, stream : Streams, mode : Modes,
        partitions : SUBSET Numbers, among : 0..MaxInstances]
  \cup [kind : {"record"}, id : 1..MaxInstances]
  \cup [kind : {"delete"}, ids : SUBSET (1..MaxInstances)]

(* The variables have their types, and a processor has partitions that exist. *)
TypeOK ==
  /\ mapping \in [Mappings -> Mapping]
  /\ instances \in Seq([name : Names, stream : Streams, mode : Modes,
                        partitions : SUBSET Numbers, managed : BOOLEAN,
                        among : 0..MaxInstances, state : States])
  /\ Len(instances) <= MaxInstances
  /\ \A i \in DOMAIN instances :
       instances[i].partitions \subseteq Partitions(instances[i].stream)
  /\ history \subseteq DOMAIN instances
  /\ pc \in [Threads -> {"idle", "look", "create", "record", "find", "delete"}]
  /\ call \in [Threads -> Calls]
  /\ requests \in 0..MaxRequests /\ edits \in 0..MaxEdits /\ faults \in 0..MaxFaults

Holds(i) == instances[i].managed /\ instances[i].state \notin {"DELETING", "DELETED"}

(* The name check of create() is the only thing that keeps a deployment from
   being made twice.  It does, also after an answer of OCI was lost and the
   operator tries again or the UI was restarted: two instances hold one name
   only if neither existed when the other's request looked. *)
NameDeployedOnce ==
  \A i, j \in DOMAIN instances :
    i < j /\ Holds(i) /\ Holds(j) /\ instances[i].name = instances[j].name
      => instances[j].among < i

(* Whatever is edited while requests are under way, a FIFO processor serves a
   stream of one partition, which it reads whole, and so all processors of a
   stream are of one mode. *)
ModeFitsStream ==
  \A i, j \in DOMAIN instances :
    LET a == instances[i]
        b == instances[j]
    IN a.managed /\ b.managed /\ a.stream = b.stream =>
         /\ a.mode = b.mode
         /\ a.mode = "FIFO" => a.partitions = Partitions(a.stream)
=============================================================================
