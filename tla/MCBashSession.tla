--------------------------- MODULE MCBashSession ---------------------------
(* BashSession for TLC: three commands and an interrupt with two tries. *)
EXTENDS BashSession
=============================================================================
