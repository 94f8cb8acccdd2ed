------------------------------ MODULE Requests ------------------------------
(***************************************************************************)
(* The request threads of the web process, as the modules about single     *)
(* pages of the UI share them: what each thread does next, and what its    *)
(* request holds in local variables.  A fault is an operation that raises  *)
(* or the end of the process.                                              *)
(***************************************************************************)
EXTENDS Integers

CONSTANTS
  Threads,     \* threads of the web process
  MaxRequests, \* bound: requests
  MaxFaults    \* bound: faults

ASSUME RequestsAssumption == MaxRequests \in Nat /\ MaxFaults \in Nat

VARIABLES
  pc,       \* what each thread does next
  call,     \* what its request knows
  requests, \* requests left
  faults    \* faults left

threads == <<pc, call>>
limits == <<requests, faults>>

NoCall == [kind |-> "none"]

InitThreads ==
  /\ pc = [t \in Threads |-> "idle"]
  /\ call = [t \in Threads |-> NoCall]
  /\ requests = MaxRequests
  /\ faults = MaxFaults

\* A request arrives at an idle thread.
Begin(t, step, request) ==
  /\ pc[t] = "idle" /\ requests > 0
  /\ pc' = [pc EXCEPT ![t] = step]
  /\ call' = [call EXCEPT ![t] = request]
  /\ requests' = requests - 1
  /\ UNCHANGED faults

Goes(t, step) == pc' = [pc EXCEPT ![t] = step] /\ UNCHANGED call
GoesWith(t, step, request) ==
  /\ pc' = [pc EXCEPT ![t] = step]
  /\ call' = [call EXCEPT ![t] = request]
Ends(t) == GoesWith(t, "idle", NoCall)

Fault == faults > 0 /\ faults' = faults - 1 /\ UNCHANGED requests

\* Nothing of a request survives the process.
ProcessEnds ==
  /\ Fault
  /\ \E t \in Threads : pc[t] # "idle"
  /\ pc' = [t \in Threads |-> "idle"]
  /\ call' = [t \in Threads |-> NoCall]
=============================================================================
