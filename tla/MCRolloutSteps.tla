--------------------------- MODULE MCRolloutSteps ---------------------------
(* RolloutSteps for TLC: two prompts, three batches, two attempts, one     *)
(* slot for all of them, or one more than a batch has rollouts; closing    *)
(* may fail in the rollouts of one prompt.                                 *)
EXTENDS RolloutSteps
=============================================================================
