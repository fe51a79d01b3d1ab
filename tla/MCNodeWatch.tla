---------------------------- MODULE MCNodeWatch ----------------------------
(***************************************************************************)
(* A pod that may be ahead, a margin of one block and a chain that can     *)
(* outgrow it; two faults of jailings, restarts, lost answers and changes  *)
(* of the stake.                                                           *)
(***************************************************************************)
EXTENDS NodeWatch

CONSTANT a

MCPods == {a}

=============================================================================
