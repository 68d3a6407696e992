------------------------------- MODULE MCLoop -------------------------------
(* Loops of up to MaxIterations iterations, for LoopStep. *)
EXTENDS LoopStep
=============================================================================
