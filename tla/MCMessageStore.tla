--------------------------- MODULE MCMessageStore ---------------------------
(* Streams on which MessageStore is checked. *)
EXTENDS MessageStore, TLC

Event(kind, object) == [kind |-> kind, object |-> object]

\* A load and the delete that may supersede it.
CreateDelete == <<Event("create", "x"), Event("delete", "x")>>

\* The same with an undecodable message behind them, and a load it holds up.
JunkBehind ==
  <<Event("create", "x"), Event("delete", "x"), [kind |-> "undecodable"],
    Event("update", "y")>>

ProcessorSymmetry == Permutations(Processors)
=============================================================================
