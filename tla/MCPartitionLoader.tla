-------------------------- MODULE MCPartitionLoader --------------------------
(* Instances of PartitionLoader: two mappings, one object each. *)
EXTENDS PartitionLoader, TLC

CONSTANTS w1, w2, orders, clients, orderMapping, clientMapping, sales, archive

\* Each object has a mapping of its own.
OwnMapping == orders :> orderMapping @@ clients :> clientMapping

\* Both mappings load into one table at first.
SharedTarget == [m \in Mappings |-> sales]

\* Workers are alike, and so are the two objects together with their mappings.
Swapped ==
  orders :> clients @@ clients :> orders
    @@ orderMapping :> clientMapping @@ clientMapping :> orderMapping

Symmetry == Permutations(Workers) \cup {Swapped @@ p : p \in Permutations(Workers)}
=============================================================================
