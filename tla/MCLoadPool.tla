----------------------------- MODULE MCLoadPool -----------------------------
(* The sizes of the versions of an object for LoadPool: the second is longer
   than the first, the third shorter. *)
EXTENDS LoadPool

GrowsThenShrinks == <<5, 6, 3, 5>>
=============================================================================
