-------------------------- MODULE CapacityLimiter --------------------------
(***************************************************************************)
(* SizeCapacityLimiter of sandboxdev/swesandbox/utils.py together with its *)
(* only client, tar_extract_local: worker threads that unpack tar files    *)
(* first reserve the size of the file, in MiB, from one process-wide       *)
(* budget.                                                                 *)
(*                                                                         *)
(* The limiter is a monitor (threading.Condition over one lock), so every  *)
(* critical section between acquiring the lock and releasing it, or        *)
(* waiting, is one action.  Sizes are natural numbers: getsize() / 2^20 is *)
(* a binary fraction, and sums of such fractions are exact in a float.     *)
(***************************************************************************)
EXTENDS Integers, FiniteSets, Weights

CONSTANTS
  Threads,   \* worker threads that extract tar files
  Total,     \* total_capacity_mb
  Sizes      \* sizes of the tar files the workers meet

ASSUME LimiterAssumption ==
  /\ IsFiniteSet(Threads)
  /\ Total \in Nat
  /\ Sizes \subseteq Nat

VARIABLES
  used,      \* used_capacity_mb
  active,    \* active_tasks
  pc,        \* where each thread is in tar_extract_local
  need       \* size_mb of the extraction a thread is in

vars == <<used, active, pc, need>>

Positions == {"idle", "acquiring", "waiting", "extracting"}

TypeOK ==
  /\ used \in Nat
  /\ active \in Nat
  /\ pc \in [Threads -> Positions]
  /\ need \in [Threads -> Nat]

Init ==
  /\ used = 0
  /\ active = 0
  /\ pc = [t \in Threads |-> "idle"]
  /\ need = [t \in Threads |-> 0]

Oversize(size) == size > Total

\* Mutant of Admissible: an oversize file treated like any other.
AdmissiblePlain(size) == used + size <= Total

\* The condition each branch of acquire waits for.
Admissible(size) == IF Oversize(size) THEN used = 0 ELSE used + size <= Total

\* tar_extract_local: read the file's size and call acquire.
Request(t) ==
  /\ pc[t] = "idle"
  /\ \E size \in Sizes : need' = [need EXCEPT ![t] = size]
  /\ pc' = [pc EXCEPT ![t] = "acquiring"]
  /\ UNCHANGED <<used, active>>

\* Mutant of Admit: an oversize file "fills" the budget, as the comment says,
\* instead of being counted with its size.
AdmitFills(t) ==
  /\ pc[t] = "acquiring"
  /\ Admissible(need[t])
  /\ used' = IF Oversize(need[t]) THEN Total ELSE used + need[t]
  /\ active' = active + 1
  /\ pc' = [pc EXCEPT ![t] = "extracting"]
  /\ UNCHANGED need

\* The condition holds when the lock is obtained.  An oversize file sets the
\* counter, it does not add to it.
Admit(t) ==
  /\ pc[t] = "acquiring"
  /\ Admissible(need[t])
  /\ used' = IF Oversize(need[t]) THEN need[t] ELSE used + need[t]
  /\ active' = active + 1
  /\ pc' = [pc EXCEPT ![t] = "extracting"]
  /\ UNCHANGED need

\* The condition does not hold: cond.wait() gives up the lock.
Wait(t) ==
  /\ pc[t] = "acquiring"
  /\ ~ Admissible(need[t])
  /\ pc' = [pc EXCEPT ![t] = "waiting"]
  /\ UNCHANGED <<used, active, need>>

Clamp(n) == IF n < 0 THEN 0 ELSE n

\* Mutant of NotifyAll: notify() instead of notify_all().
NotifyOne ==
  LET waiters == {t \in Threads : pc[t] = "waiting"}
  IN  IF waiters = {} THEN pc
      ELSE [pc EXCEPT ![CHOOSE t \in waiters : TRUE] = "acquiring"]

\* notify_all(): every waiter goes back to contending for the lock.
NotifyAll == [t \in Threads |-> IF pc[t] = "waiting" THEN "acquiring" ELSE pc[t]]

\* The extraction ends or raises; the finally clause releases in both cases.
Release(t) ==
  /\ pc[t] = "extracting"
  /\ used' = Clamp(used - need[t])
  /\ active' = Clamp(active - 1)
  /\ pc' = [NotifyAll EXCEPT ![t] = "idle"]
  /\ UNCHANGED need

Next == \E t \in Threads : Request(t) \/ Admit(t) \/ Wait(t) \/ Release(t)

Spec == Init /\ [][Next]_vars

\* A thread that got the lock runs on, and an extraction ends.  Nothing forces
\* a worker to ask for another file.
Fairness == \A t \in Threads : WF_vars(Admit(t) \/ Wait(t)) /\ WF_vars(Release(t))

FairSpec == Spec /\ Fairness

-----------------------------------------------------------------------------

Holders == {t \in Threads : pc[t] = "extracting"}

\* Sum of the sizes being extracted by the threads of S.
HeldSize(S) == Weight(S, need)

\* The counters are the sum and the number of the extractions under way, so
\* the clamps of release never hide a lost unit.
Accounting ==
  /\ used = HeldSize(Holders)
  /\ active = Cardinality(Holders)

\* The data being extracted at one time is within the budget, or all of a
\* single file that is larger than it: acquire lets an oversize file in only on
\* an empty budget, and nothing that needs room joins it.
BudgetRespected ==
  \/ HeldSize(Holders) <= Total
  \/ \E t \in Holders : Oversize(need[t]) /\ HeldSize(Holders \ {t}) = 0

\* No lost wakeup: a thread stays in cond.wait() only while what it waits for
\* is false, although only release notifies.
NoLostWakeup ==
  \A t \in Threads : pc[t] = "waiting" => ~ Admissible(need[t])

\* Nobody is forgotten: once no worker asks for a further file, every thread
\* in acquire, with an oversize file too, gets its capacity.  (While smaller
\* files keep coming a waiter can starve: the lock admits in no order.)
DrainServesAll ==
  <>[][\A t \in Threads : ~ Request(t)]_vars
     => \A t \in Threads : pc[t] = "acquiring" ~> pc[t] = "extracting"

\* The monitor implements the broker: holding capacity is being in the
\* extraction, whatever the counters say.
Broker == INSTANCE CapacityBroker WITH holders <- Holders, size <- need

ImplementsBroker == Broker!Spec
=============================================================================
