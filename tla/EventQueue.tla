----------------------------- MODULE EventQueue -----------------------------
(***************************************************************************)
(* What the durable capture of a stream partition promises its users: an   *)
(* at-least-once queue.  Messages are accepted in stream order and without *)
(* gaps, an accepted message may be executed any number of times, and it   *)
(* is acknowledged, for good, only after it was executed or because a      *)
(* later delete of its object, already accepted, makes it pointless.       *)
(***************************************************************************)
EXTENDS Integers, Sequences

CONSTANT Stream  \* the messages of the partition, in offset order

VARIABLES
  published,  \* messages the stream holds so far
  accepted,   \* offsets stored durably
  delivered,  \* offsets executed successfully at least once
  acked       \* offsets that count as done

vars == <<published, accepted, delivered, acked>>

Init ==
  /\ published = 0
  /\ accepted = {}
  /\ delivered = {}
  /\ acked = {}

Publish ==
  /\ published < Len(Stream)
  /\ published' = published + 1
  /\ UNCHANGED <<accepted, delivered, acked>>

Accept(o) ==
  /\ o \in 1..published
  /\ Stream[o].kind # "undecodable"
  /\ 1..(o - 1) \subseteq accepted
  /\ accepted' = accepted \cup {o}
  /\ UNCHANGED <<published, delivered, acked>>

Deliver(o) ==
  /\ o \in accepted
  /\ delivered' = delivered \cup {o}
  /\ UNCHANGED <<published, accepted, acked>>

Superseded(o) ==
  /\ Stream[o].kind \in {"create", "update"}
  /\ \E d \in accepted :
        /\ d > o
        /\ Stream[d].kind = "delete"
        /\ Stream[d].object = Stream[o].object

Acknowledge(o) ==
  /\ o \in accepted
  /\ o \in delivered \/ Superseded(o)
  /\ acked' = acked \cup {o}
  /\ UNCHANGED <<published, accepted, delivered>>

Next ==
  \/ Publish
  \/ \E o \in 1..Len(Stream) : Accept(o) \/ Deliver(o) \/ Acknowledge(o)

Spec == Init /\ [][Next]_vars
=============================================================================
