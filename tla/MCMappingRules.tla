---------------------------- MODULE MCMappingRules ----------------------------
(* Instances of MappingRules: two scopes, each with its condition. *)
EXTENDS MappingRules, TLC

CONSTANTS orders, clients, ordersRule, clientsRule

OwnCondition == orders :> ordersRule @@ clients :> clientsRule

SwappedScopes ==
  orders :> clients @@ clients :> orders @@ ordersRule :> clientsRule @@ clientsRule :> ordersRule

Alike == {p @@ q : p \in Permutations(Workers), q \in Permutations(Streams)}

\* Workers are alike, streams are alike, and so are the scopes with their
\* conditions.
Symmetry == Alike \cup {SwappedScopes @@ p : p \in Alike}
=============================================================================
