--------------------------- MODULE CapacityBroker ---------------------------
(***************************************************************************)
(* What the size limiter promises to the workers that unpack archives,     *)
(* with no lock, counter or waiting: a worker gets the size it asks for    *)
(* when it fits beside what the others hold, or when nothing is held.      *)
(***************************************************************************)
EXTENDS Integers, FiniteSets, Weights

CONSTANTS Threads, Total, Sizes

VARIABLES
  holders,   \* workers that hold capacity
  size       \* what each worker holds, or asks for

Init ==
  /\ holders = {}
  /\ size = [t \in Threads |-> 0]

\* A worker that holds nothing settles on the file it wants next.
Want(t) ==
  /\ t \notin holders
  /\ \E s \in Sizes : size' = [size EXCEPT ![t] = s]
  /\ UNCHANGED holders

Enter(t) ==
  /\ t \notin holders
  /\ \/ Weight(holders, size) = 0
     \/ Weight(holders, size) + size[t] <= Total
  /\ holders' = holders \union {t}
  /\ UNCHANGED size

Leave(t) ==
  /\ t \in holders
  /\ holders' = holders \ {t}
  /\ UNCHANGED size

Next == \E t \in Threads : Want(t) \/ Enter(t) \/ Leave(t)

Spec == Init /\ [][Next]_<<holders, size>>
=============================================================================
