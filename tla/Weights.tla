------------------------------ MODULE Weights ------------------------------
(***************************************************************************)
(* The total weight of a finite set whose members have natural weights, as *)
(* the number of units its members hold.  A cardinality, unlike a fold, is *)
(* a notion the proof library has theorems about.                          *)
(***************************************************************************)
EXTENDS Integers, FiniteSets

Units(S, w) == UNION {{s} \X (1 .. w[s]) : s \in S}

Weight(S, w) == Cardinality(Units(S, w))
=============================================================================
