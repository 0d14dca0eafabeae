------------------------- MODULE MCCapacityLimiter -------------------------
(***************************************************************************)
(* A budget of 3 units: two files of 1 or one of 1 and one of 2 fit, two   *)
(* of 2 do not, a file of 5 never does, and a file may be empty.           *)
(***************************************************************************)
EXTENDS CapacityLimiter

CONSTANTS t1, t2, t3

MCThreads == {t1, t2, t3}
MCTotal == 3
MCSizes == {0, 1, 2, 5}
=============================================================================
