--------------------------- MODULE MCStreamPipeline ---------------------------
(* Instances of StreamPipeline: one processor, one mapping, one target. *)
EXTENDS StreamPipeline, TLC

CONSTANTS mapping, sales

OneMapping == [o \in Objects |-> mapping]
OneTarget == mapping :> sales
=============================================================================
