---------------------------- MODULE MCWebConsole ----------------------------
(* A small web process for WebConsole: one SSH profile, a signed-in session   *)
(* with two uploaded files, the second reviewed, of the same two keys, one of *)
(* which the table has, and a failed and a completed message.                 *)
EXTENDS WebConsole, TLC

CONSTANTS local, prod, localKey, prodKey, s1, j1, j2, k1, k2, m1, m2

OwnKeys == (local :> localKey) @@ (prod :> prodKey)
OneTunnel == (local :> Profile("ssh", localKey)) @@ (prod :> Absent)
SharedKeys == [r \in Jobs \cup {OldRows} |-> IF r = OldRows THEN {k1} ELSE {k1, k2}]
TwoUploads == (j1 :> s1) @@ (j2 :> s1)
OneReviewed == j2 :> [drop |-> FALSE, data |-> TRUE, keyed |-> TRUE]
OneFailed == (m1 :> "FAILED") @@ (m2 :> "COMPLETED")

ConsoleSymmetry == Permutations(Threads)
=============================================================================
