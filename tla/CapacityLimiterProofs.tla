----------------------- MODULE CapacityLimiterProofs -----------------------
(***************************************************************************)
(* Proofs about CapacityLimiter for any number of threads, any budget and  *)
(* any file sizes.                                                         *)
(***************************************************************************)
EXTENDS CapacityLimiter, FiniteSetTheorems, TLAPS

-----------------------------------------------------------------------------
(* Weights of finite sets. *)

\* One member alone weighs its own weight.
LEMMA SingletonUnits ==
  ASSUME NEW t, NEW n \in Nat
  PROVE  /\ IsFiniteSet({t} \X (1 .. n))
         /\ Cardinality({t} \X (1 .. n)) = n
<1>1. IsFiniteSet({t}) /\ Cardinality({t}) = 1
  BY FS_Singleton
<1>2. IsFiniteSet(1 .. n) /\ Cardinality(1 .. n) = n
  BY FS_Interval
<1> DEFINE T == {t}
           N == 1 .. n
<1> HIDE DEF T, N
<1>3. IsFiniteSet(T) /\ IsFiniteSet(N) /\ Cardinality(T) = 1 /\ Cardinality(N) = n
  BY <1>1, <1>2 DEF T, N
<1>4. IsFiniteSet(T \X N) /\ Cardinality(T \X N) = Cardinality(T) * Cardinality(N)
  BY <1>3, FS_Product
<1>5. QED
  BY <1>3, <1>4 DEF T, N

\* The weight of a set depends only on the weights of its members.
LEMMA UnitsCongruence ==
  ASSUME NEW S, NEW v, NEW w, \A s \in S : v[s] = w[s]
  PROVE  Units(S, v) = Units(S, w)
<1>1. \A x : x \in Units(S, v) => x \in Units(S, w)
  BY DEF Units
<1>2. \A x : x \in Units(S, w) => x \in Units(S, v)
  BY DEF Units
<1>3. QED
  BY <1>1, <1>2

\* A new member adds its weight.
LEMMA AddWeight ==
  ASSUME NEW S, NEW w, NEW t, t \notin S, w[t] \in Nat, IsFiniteSet(Units(S, w))
  PROVE  /\ IsFiniteSet(Units(S \union {t}, w))
         /\ Weight(S \union {t}, w) = Weight(S, w) + w[t]
<1> DEFINE U == {t} \X (1 .. w[t])
<1>1. Units(S \union {t}, w) = Units(S, w) \union U
  BY DEF Units
<1>2. Units(S, w) \intersect U = {}
  BY DEF Units
<1>3. IsFiniteSet(U) /\ Cardinality(U) = w[t]
  BY SingletonUnits
<1>4. Cardinality({}) = 0
  BY FS_EmptySet
<1>5. Cardinality(Units(S, w)) \in Nat
  BY FS_CardinalityType
<1> DEFINE V == Units(S, w)
<1> HIDE DEF U, V
<1>6. IsFiniteSet(V) /\ IsFiniteSet(U) /\ V \intersect U = {}
  BY <1>2, <1>3 DEF V
<1>7. /\ IsFiniteSet(V \union U)
      /\ Cardinality(V \union U) = Cardinality(V) + Cardinality(U) - Cardinality(V \intersect U)
  BY <1>6, FS_Union
<1>8. Units(S \union {t}, w) = V \union U
  BY <1>1 DEF V
<1>9. Cardinality(V \union U) = Cardinality(V) + w[t]
  <2>1. Cardinality(V) \in Nat
    BY <1>5 DEF V
  <2>2. Cardinality(V \intersect U) = 0
    BY <1>4, <1>6
  <2>3. QED
    BY <1>3, <1>7, <2>1, <2>2
<1>10. QED
  BY <1>7, <1>8, <1>9 DEF Weight, V

\* A member that leaves takes its weight away.
LEMMA RemoveWeight ==
  ASSUME NEW S, NEW w, NEW t \in S, w[t] \in Nat, IsFiniteSet(Units(S, w))
  PROVE  /\ IsFiniteSet(Units(S \ {t}, w))
         /\ Weight(S, w) = Weight(S \ {t}, w) + w[t]
         /\ Weight(S \ {t}, w) \in Nat
<1>1. Units(S \ {t}, w) \in SUBSET Units(S, w)
  BY DEF Units
<1>2. IsFiniteSet(Units(S \ {t}, w))
  BY <1>1, FS_Subset
<1>3. S = (S \ {t}) \union {t} /\ t \notin S \ {t}
  OBVIOUS
<1>4. Weight(S, w) = Weight(S \ {t}, w) + w[t]
  BY <1>2, <1>3, AddWeight
<1>5. QED
  BY <1>2, <1>4, FS_CardinalityType DEF Weight

\* Fewer members do not weigh more.
LEMMA SubsetWeight ==
  ASSUME NEW S, NEW T, NEW w, T \subseteq S, IsFiniteSet(Units(S, w))
  PROVE  /\ IsFiniteSet(Units(T, w))
         /\ Weight(T, w) <= Weight(S, w)
         /\ Weight(T, w) \in Nat
         /\ Weight(S, w) \in Nat
<1>1. Units(T, w) \in SUBSET Units(S, w)
  BY DEF Units
<1>2. QED
  BY <1>1, FS_Subset, FS_CardinalityType DEF Weight

-----------------------------------------------------------------------------
(* Type correctness. *)

LEMMA TypeStep == TypeOK /\ [Next]_vars => TypeOK'
<1> SUFFICES ASSUME TypeOK, [Next]_vars
             PROVE  TypeOK'
  OBVIOUS
<1> USE LimiterAssumption DEF TypeOK, Positions
<1>1. ASSUME NEW t \in Threads, Request(t)
      PROVE  TypeOK'
  BY <1>1 DEF Request
<1>2. ASSUME NEW t \in Threads, Admit(t)
      PROVE  TypeOK'
  BY <1>2 DEF Admit
<1>3. ASSUME NEW t \in Threads, Wait(t)
      PROVE  TypeOK'
  BY <1>3 DEF Wait
<1>4. ASSUME NEW t \in Threads, Release(t)
      PROVE  TypeOK'
  BY <1>4 DEF Release, Clamp, NotifyAll
<1>5. CASE UNCHANGED vars
  BY <1>5 DEF vars
<1>6. QED
  BY <1>1, <1>2, <1>3, <1>4, <1>5 DEF Next

\* The counters stay naturals and every thread stays in tar_extract_local.
THEOREM TypeCorrect == Spec => []TypeOK
<1>1. Init => TypeOK
  BY DEF Init, TypeOK, Positions
<1>2. QED
  BY <1>1, TypeStep, PTL DEF Spec

-----------------------------------------------------------------------------
(* How the actions move the set of holders. *)

LEMMA RequestHolders ==
  ASSUME TypeOK, NEW t \in Threads, Request(t)
  PROVE  /\ Holders' = Holders
         /\ t \notin Holders
         /\ \A S \in SUBSET Holders : Units(S, need') = Units(S, need)
<1>1. Holders' = Holders /\ t \notin Holders
  BY DEF TypeOK, Request, Holders
<1>2. \A s \in Holders : need'[s] = need[s]
  BY DEF TypeOK, Request, Holders
<1>3. QED
  BY <1>1, <1>2, UnitsCongruence

LEMMA AdmitHolders ==
  ASSUME TypeOK, NEW t \in Threads, Admit(t)
  PROVE  Holders' = Holders \union {t} /\ t \notin Holders
BY DEF TypeOK, Admit, Holders

LEMMA WaitHolders ==
  ASSUME TypeOK, NEW t \in Threads, Wait(t)
  PROVE  Holders' = Holders
BY DEF TypeOK, Wait, Holders

LEMMA ReleaseHolders ==
  ASSUME TypeOK, NEW t \in Threads, Release(t)
  PROVE  Holders' = Holders \ {t} /\ t \in Holders
BY DEF TypeOK, Release, Holders, NotifyAll

LEMMA FiniteHolders ==
  IsFiniteSet(Holders) /\ Cardinality(Holders) \in Nat
<1>1. Holders \in SUBSET Threads
  BY DEF Holders
<1>2. QED
  BY <1>1, LimiterAssumption, FS_Subset, FS_CardinalityType

-----------------------------------------------------------------------------
(* The accounting is inductive by itself, once typed: the clamps of release *)
(* never apply, and an oversize file is admitted when nothing weighs.       *)

AccountingInv ==
  /\ TypeOK
  /\ IsFiniteSet(Units(Holders, need))
  /\ Accounting

LEMMA AccountingInit == Init => AccountingInv
<1> SUFFICES ASSUME Init
             PROVE  AccountingInv
  OBVIOUS
<1>1. TypeOK
  BY DEF Init, TypeOK, Positions
<1>2. Holders = {}
  BY DEF Init, Holders
<1>3. Units({}, need) = {}
  BY DEF Units
<1>4. IsFiniteSet({}) /\ Cardinality({}) = 0
  BY FS_EmptySet
<1>5. QED
  BY <1>1, <1>2, <1>3, <1>4 DEF Init, AccountingInv, Accounting, HeldSize, Weight

LEMMA AccountingNext == AccountingInv /\ [Next]_vars => AccountingInv'
<1> SUFFICES ASSUME AccountingInv, [Next]_vars
             PROVE  AccountingInv'
  OBVIOUS
<1>1. TypeOK'
  BY TypeStep DEF AccountingInv
<1>2. TypeOK /\ IsFiniteSet(Units(Holders, need)) /\ Accounting
  BY DEF AccountingInv
<1>3. ASSUME NEW t \in Threads, Request(t)
      PROVE  (IsFiniteSet(Units(Holders, need)) /\ Accounting)'
  <2>1. Holders' = Holders /\ Units(Holders', need') = Units(Holders, need)
    BY <1>2, <1>3, RequestHolders
  <2>2. used' = used /\ active' = active
    BY <1>3 DEF Request
  <2>3. QED
    BY <1>2, <2>1, <2>2 DEF Accounting, HeldSize, Weight
<1>4. ASSUME NEW t \in Threads, Admit(t)
      PROVE  (IsFiniteSet(Units(Holders, need)) /\ Accounting)'
  <2>1. Holders' = Holders \union {t} /\ t \notin Holders
    BY <1>2, <1>4, AdmitHolders
  <2>2. need' = need /\ need[t] \in Nat /\ active' = active + 1
    BY <1>2, <1>4 DEF Admit, TypeOK
  <2>3. used' = used + need[t]
    BY <1>2, <1>4, <2>2 DEF Admit, Admissible, TypeOK
  <2>4. /\ IsFiniteSet(Units(Holders \union {t}, need))
        /\ Weight(Holders \union {t}, need) = Weight(Holders, need) + need[t]
    BY <1>2, <2>1, <2>2, AddWeight
  <2>5. Cardinality(Holders \union {t}) = Cardinality(Holders) + 1
    BY <2>1, FiniteHolders, FS_AddElement
  <2>6. QED
    BY <1>2, <2>1, <2>2, <2>3, <2>4, <2>5 DEF Accounting, HeldSize
<1>5. ASSUME NEW t \in Threads, Wait(t)
      PROVE  (IsFiniteSet(Units(Holders, need)) /\ Accounting)'
  <2>1. Holders' = Holders /\ need' = need /\ used' = used /\ active' = active
    BY <1>2, <1>5, WaitHolders DEF Wait
  <2>2. QED
    BY <1>2, <2>1 DEF Accounting, HeldSize
<1>6. ASSUME NEW t \in Threads, Release(t)
      PROVE  (IsFiniteSet(Units(Holders, need)) /\ Accounting)'
  <2>1. Holders' = Holders \ {t} /\ t \in Holders
    BY <1>2, <1>6, ReleaseHolders
  <2>2. need' = need /\ need[t] \in Nat
    BY <1>2, <1>6 DEF Release, TypeOK
  <2>3. /\ IsFiniteSet(Units(Holders \ {t}, need))
        /\ Weight(Holders, need) = Weight(Holders \ {t}, need) + need[t]
        /\ Weight(Holders \ {t}, need) \in Nat
    BY <1>2, <2>1, <2>2, RemoveWeight
  <2>4. /\ Cardinality(Holders \ {t}) = Cardinality(Holders) - 1
        /\ Cardinality(Holders \ {t}) \in Nat
    BY <2>1, FiniteHolders, FS_RemoveElement, FS_CardinalityType
  <2>5. used' = Weight(Holders \ {t}, need)
    BY <1>2, <1>6, <2>2, <2>3 DEF Release, Clamp, Accounting, HeldSize
  <2>6. active' = Cardinality(Holders \ {t})
    BY <1>2, <1>6, <2>4, FiniteHolders DEF Release, Clamp, Accounting
  <2>7. QED
    BY <2>1, <2>2, <2>3, <2>5, <2>6 DEF Accounting, HeldSize
<1>7. ASSUME UNCHANGED vars
      PROVE  (IsFiniteSet(Units(Holders, need)) /\ Accounting)'
  <2>1. Holders' = Holders /\ need' = need /\ used' = used /\ active' = active
    BY <1>7 DEF vars, Holders
  <2>2. QED
    BY <1>2, <2>1 DEF Accounting, HeldSize
<1>8. (IsFiniteSet(Units(Holders, need)) /\ Accounting)'
  BY <1>3, <1>4, <1>5, <1>6, <1>7 DEF Next
<1>9. QED
  BY <1>1, <1>8 DEF AccountingInv

\* used_capacity_mb is the sum of the files being extracted and active_tasks
\* their number, whatever the interleaving of acquire and release.
THEOREM AccountingCorrect == Spec => []Accounting
<1>1. Spec => []AccountingInv
  BY AccountingInit, AccountingNext, PTL DEF Spec
<1>2. AccountingInv => Accounting
  BY DEF AccountingInv
<1>3. QED
  BY <1>1, <1>2, PTL

-----------------------------------------------------------------------------
(* Wakeups.  Only release makes an admissible size out of one that was not, *)
(* and it leaves no thread waiting.                                         *)

LEMMA WakeupNext == TypeOK /\ NoLostWakeup /\ [Next]_vars => NoLostWakeup'
<1> SUFFICES ASSUME TypeOK, NoLostWakeup, [Next]_vars
             PROVE  NoLostWakeup'
  OBVIOUS
<1> USE LimiterAssumption DEF TypeOK, Positions, NoLostWakeup, Admissible, Oversize
<1>1. ASSUME NEW t \in Threads, Request(t)
      PROVE  NoLostWakeup'
  BY <1>1 DEF Request
<1>2. ASSUME NEW t \in Threads, Admit(t)
      PROVE  NoLostWakeup'
  BY <1>2 DEF Admit
<1>3. ASSUME NEW t \in Threads, Wait(t)
      PROVE  NoLostWakeup'
  BY <1>3 DEF Wait
<1>4. ASSUME NEW t \in Threads, Release(t)
      PROVE  NoLostWakeup'
  BY <1>4 DEF Release, NotifyAll
<1>5. CASE UNCHANGED vars
  BY <1>5 DEF vars
<1>6. QED
  BY <1>1, <1>2, <1>3, <1>4, <1>5 DEF Next

\* No thread sleeps in cond.wait() while its file could be let in.
THEOREM WakeupCorrect == Spec => []NoLostWakeup
<1>1. Init => TypeOK /\ NoLostWakeup
  BY DEF Init, TypeOK, Positions, NoLostWakeup
<1>2. QED
  BY <1>1, TypeStep, WakeupNext, PTL DEF Spec

-----------------------------------------------------------------------------
(* The budget.  The counters being exact, what acquire compares them with  *)
(* is what the threads hold.                                               *)

LEMMA BudgetNext ==
  AccountingInv /\ BudgetRespected /\ [Next]_vars => BudgetRespected'
<1> SUFFICES ASSUME AccountingInv, BudgetRespected, [Next]_vars
             PROVE  BudgetRespected'
  OBVIOUS
<1>1. /\ TypeOK /\ IsFiniteSet(Units(Holders, need))
      /\ used = HeldSize(Holders) /\ used \in Nat
  BY DEF AccountingInv, Accounting, TypeOK
<1>2. (used = HeldSize(Holders))'
  BY AccountingNext DEF AccountingInv, Accounting
<1>3. ASSUME NEW t \in Threads, Request(t)
      PROVE  BudgetRespected'
  <2>1. Holders' = Holders /\ t \notin Holders
    BY <1>1, <1>3, RequestHolders
  <2>2. \A S \in SUBSET Holders : HeldSize(S)' = HeldSize(S)
    <3>1. \A S \in SUBSET Holders : Units(S, need') = Units(S, need)
      BY <1>1, <1>3, RequestHolders
    <3>2. QED
      BY <3>1 DEF HeldSize, Weight
  <2>3. \A s \in Holders : need'[s] = need[s]
    BY <1>1, <1>3, <2>1 DEF TypeOK, Request, Holders
  <2>4. CASE HeldSize(Holders) <= Total
    BY <1>2, <1>1, <1>3, <2>4 DEF BudgetRespected, Request
  <2>5. CASE \E s \in Holders : Oversize(need[s]) /\ HeldSize(Holders \ {s}) = 0
    <3>1. PICK s \in Holders : Oversize(need[s]) /\ HeldSize(Holders \ {s}) = 0
      BY <2>5
    <3>2. HeldSize(Holders \ {s})' = 0
      <4>1. Units(Holders \ {s}, need') = Units(Holders \ {s}, need)
        BY <1>1, <1>3, RequestHolders
      <4>2. QED
        BY <2>1, <3>1, <4>1 DEF HeldSize, Weight
    <3>3. QED
      BY <2>1, <2>3, <3>1, <3>2 DEF BudgetRespected, Oversize
  <2>6. QED
    BY <2>4, <2>5 DEF BudgetRespected
<1>4. ASSUME NEW t \in Threads, Admit(t)
      PROVE  BudgetRespected'
  <2>1. Holders' = Holders \union {t} /\ t \notin Holders /\ need' = need
    BY <1>1, <1>4, AdmitHolders DEF Admit
  <2>2. CASE Oversize(need[t])
    <3>1. HeldSize(Holders) = 0
      BY <1>1, <1>4, <2>2 DEF Admit, Admissible
    <3>2. Holders' \ {t} = Holders
      BY <2>1
    <3>3. HeldSize(Holders \ {t})' = 0
      BY <2>1, <3>1, <3>2 DEF HeldSize
    <3>4. QED
      BY <2>1, <2>2, <3>3 DEF BudgetRespected
  <2>3. CASE ~ Oversize(need[t])
    BY <1>2, <1>4, <2>3 DEF Admit, Admissible, BudgetRespected
  <2>4. QED
    BY <2>2, <2>3
<1>5. ASSUME NEW t \in Threads, Wait(t)
      PROVE  BudgetRespected'
  BY <1>1, <1>5, WaitHolders DEF BudgetRespected, HeldSize, Wait
<1>6. ASSUME NEW t \in Threads, Release(t)
      PROVE  BudgetRespected'
  <2>1. Holders' = Holders \ {t} /\ t \in Holders /\ need' = need
    BY <1>1, <1>6, ReleaseHolders DEF Release
  <2>2. \A S, T \in SUBSET Holders :
          S \subseteq T => /\ Weight(S, need) <= Weight(T, need)
                         /\ Weight(S, need) \in Nat /\ Weight(T, need) \in Nat
    <3> SUFFICES ASSUME NEW S \in SUBSET Holders, NEW T \in SUBSET Holders,
                        S \subseteq T
                 PROVE  /\ Weight(S, need) <= Weight(T, need)
                        /\ Weight(S, need) \in Nat /\ Weight(T, need) \in Nat
      OBVIOUS
    <3>1. IsFiniteSet(Units(T, need))
      BY <1>1, SubsetWeight
    <3>2. QED
      BY <3>1, SubsetWeight
  <2>3. CASE HeldSize(Holders) <= Total
    <3>1. /\ Weight(Holders \ {t}, need) <= Weight(Holders, need)
          /\ Weight(Holders \ {t}, need) \in Nat /\ Weight(Holders, need) \in Nat
      BY <2>2
    <3>2. QED
      BY <2>1, <2>3, <3>1, LimiterAssumption DEF BudgetRespected, HeldSize
  <2>4. CASE \E s \in Holders : Oversize(need[s]) /\ HeldSize(Holders \ {s}) = 0
    <3>1. PICK s \in Holders : Oversize(need[s]) /\ HeldSize(Holders \ {s}) = 0
      BY <2>4
    <3>2. CASE s = t
      BY <2>1, <3>1, <3>2, LimiterAssumption DEF BudgetRespected, HeldSize
    <3>3. CASE s # t
      <4>1. /\ Weight((Holders \ {t}) \ {s}, need) <= Weight(Holders \ {s}, need)
            /\ Weight((Holders \ {t}) \ {s}, need) \in Nat
        <5>1. (Holders \ {t}) \ {s} \subseteq Holders \ {s}
          OBVIOUS
        <5>2. QED
          BY <2>2, <5>1
      <4>2. Weight((Holders \ {t}) \ {s}, need) = 0
        BY <3>1, <4>1 DEF HeldSize
      <4>3. QED
        BY <2>1, <3>1, <3>3, <4>2 DEF BudgetRespected, HeldSize
    <3>4. QED
      BY <3>2, <3>3
  <2>5. QED
    BY <2>3, <2>4 DEF BudgetRespected
<1>7. ASSUME UNCHANGED vars
      PROVE  BudgetRespected'
  BY <1>7 DEF vars, BudgetRespected, HeldSize, Holders
<1>8. QED
  BY <1>3, <1>4, <1>5, <1>6, <1>7 DEF Next

\* What is extracted at one time is within the budget, or one larger file.
THEOREM BudgetCorrect == Spec => []BudgetRespected
<1>1. Init => BudgetRespected
  <2> SUFFICES ASSUME Init PROVE BudgetRespected
    OBVIOUS
  <2>1. Holders = {} /\ HeldSize(Holders) = used /\ used = 0
    BY AccountingInit DEF Init, Holders, AccountingInv, Accounting
  <2>2. QED
    BY <2>1, LimiterAssumption DEF BudgetRespected
<1>2. QED
  BY <1>1, AccountingInit, AccountingNext, BudgetNext, PTL DEF Spec

-----------------------------------------------------------------------------
(* The broker.  Requests, admissions and releases are its three actions;    *)
(* waiting is not seen.                                                     *)

LEMMA BrokerStep ==
  AccountingInv /\ [Next]_vars => [Broker!Next]_<<Holders, need>>
<1> SUFFICES ASSUME AccountingInv, [Next]_vars
             PROVE  Broker!Next \/ (Holders' = Holders /\ need' = need)
  OBVIOUS
<1>1. TypeOK /\ used = Weight(Holders, need)
  BY DEF AccountingInv, Accounting, HeldSize
<1>2. ASSUME NEW t \in Threads, Request(t)
      PROVE  Broker!Want(t)
  BY <1>1, <1>2, RequestHolders DEF Request, Broker!Want
<1>3. ASSUME NEW t \in Threads, Admit(t)
      PROVE  Broker!Enter(t)
  <2>1. /\ Holders' = Holders \union {t} /\ t \notin Holders
        /\ need' = need
    BY <1>1, <1>3, AdmitHolders DEF Admit
  <2>2. used = 0 \/ used + need[t] <= Total
    BY <1>3 DEF Admit, Admissible
  <2>3. Broker!Weight(Holders, need) = used
    BY <1>1, Zenon
    DEF Broker!Weight, Broker!Units, Broker!Cardinality, Weight, Units, Cardinality
  <2>4. QED
    BY <2>1, <2>2, <2>3 DEF Broker!Enter
<1>4. ASSUME NEW t \in Threads, Wait(t)
      PROVE  Holders' = Holders /\ need' = need
  BY <1>1, <1>4, WaitHolders DEF Wait
<1>5. ASSUME NEW t \in Threads, Release(t)
      PROVE  Broker!Leave(t)
  BY <1>1, <1>5, ReleaseHolders DEF Release, Broker!Leave
<1>6. CASE UNCHANGED vars
  BY <1>6 DEF vars, Holders
<1>7. QED
  BY <1>2, <1>3, <1>4, <1>5, <1>6 DEF Next, Broker!Next

\* Whatever the lock, the counters and the notifications do, a worker gets its
\* capacity exactly when the broker could give it.
THEOREM BrokerImplemented == Spec => ImplementsBroker
<1>1. Init => Broker!Init
  BY DEF Init, Broker!Init, Holders
<1>2. QED
  BY <1>1, AccountingInit, AccountingNext, BrokerStep, PTL
  DEF Spec, ImplementsBroker, Broker!Spec
=============================================================================
