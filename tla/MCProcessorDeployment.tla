----------------------- MODULE MCProcessorDeployment -----------------------
(* The topology on which ProcessorDeployment is checked. *)
EXTENDS ProcessorDeployment, TLC

CONSTANTS single, double

\* A stream of one partition and one of two.
OneAndTwo == (single :> 1) @@ (double :> 2)

DeploymentSymmetry == Permutations(Threads) \cup Permutations(Names)
=============================================================================
