--------------------------- MODULE MCLoaderAdmin ---------------------------
(* One object, its mapping, and the table it is loaded into. *)
EXTENDS LoaderAdmin, TLC

CONSTANTS w1, w2, orders, mapping, sales

OneMapping == orders :> mapping
OneTarget == mapping :> sales
OneName == sales :> "sales"

Symmetry == Permutations(Workers)
=============================================================================
