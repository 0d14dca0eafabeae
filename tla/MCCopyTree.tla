----------------------------- MODULE MCCopyTree -----------------------------
(***************************************************************************)
(* Workers that start sandboxes at the same time, before or after the tool *)
(* archive exists.                                                         *)
(***************************************************************************)
EXTENDS CopyTree
CONSTANTS w1, w2, w3
ThreeWorkers == {w1, w2, w3}
=============================================================================
