----------------------------- MODULE MCRunBatch -----------------------------
(* RunBatch for TLC: the bounds are in the configurations *)
EXTENDS RunBatch
=============================================================================
