----------------------------- MODULE SourceTable -----------------------------
(***************************************************************************)
(* What the loader promises to the readers of a target table.  The rows of *)
(* an object that they see were read between two of its versions: they are *)
(* a mix if the object was overwritten while it was loaded, and whole if   *)
(* both are the same.  A step publishes rows of versions that were really  *)
(* written, none older than any that is visible, and rows go away only     *)
(* after the object has been deleted.                                      *)
(***************************************************************************)
EXTENDS Integers, Sequences

CONSTANTS Objects

VARIABLES
  log,    \* the events of the objects: [action, object]
  oldest, \* no row of an object that is seen is of an older version, ...
  newest  \* ... or of a newer one: 0 if none is seen

Init ==
  /\ log = <<>>
  /\ oldest = [o \in Objects |-> 0]
  /\ newest = [o \in Objects |-> 0]

Change ==
  /\ \E e \in [action : {"CREATE", "UPDATE", "DELETE"}, object : Objects] : log' = Append(log, e)
  /\ UNCHANGED <<oldest, newest>>

Writes(n, o) == log[n].object = o /\ log[n].action # "DELETE"
Deletes(n, o) == log[n].object = o /\ log[n].action = "DELETE"

Publish(o) ==
  /\ \E m, n \in 1..Len(log) :
        /\ Writes(m, o) /\ Writes(n, o)
        /\ newest[o] <= m /\ m <= n
        /\ oldest' = [oldest EXCEPT ![o] = m]
        /\ newest' = [newest EXCEPT ![o] = n]
  /\ UNCHANGED log

Withdraw(o) ==
  /\ \E n \in 1..Len(log) : Deletes(n, o)
  /\ oldest' = [oldest EXCEPT ![o] = 0]
  /\ newest' = [newest EXCEPT ![o] = 0]
  /\ UNCHANGED log

Next == Change \/ \E o \in Objects : Publish(o) \/ Withdraw(o)

Spec == Init /\ [][Next]_<<log, oldest, newest>>
=============================================================================
