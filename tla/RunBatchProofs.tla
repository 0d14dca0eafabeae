--------------------------- MODULE RunBatchProofs ---------------------------
(***************************************************************************)
(* What batches of any number of instances, workers, attempts, runs and    *)
(* interrupts keep.  Each group of properties has an inductive invariant   *)
(* of its own, with one case per action; all use the types.                *)
(***************************************************************************)
EXTENDS RunBatch, FiniteSetTheorems, TLAPS

Attempting == {"start", "run", "close", "closeError", "closeExit"}

(* An attempt that goes on is one of the max_retries. *)
AttemptInv ==
    /\ TypeOK
    /\ \A i \in Instances :
         /\ job[i] \in {"pending", "check"} \cup Attempting => attempt[i] < MaxRetries
         /\ job[i] = "pending" => attempt[i] = 0

(* What is saved, or is about to be, is a finished trajectory; without     *)
(* redo_existing an instance that is worked on has no current prediction.  *)
PredInv ==
    \A i \in Instances :
        /\ pred[i] = "current" \/ job[i] \in {"ok", "skipped", "close", "save", "hook"}
           => traj[i] = "ended"
        /\ job[i] \in {"ok", "hook"} => pred[i] = "current"
        /\ conf.redo = "no" /\ job[i] \in Attempting \cup {"save"} => pred[i] # "current"

-----------------------------------------------------------------------------
(* A kill or an interrupt tears at most the trajectory of a running agent  *)
(* and the prediction that is being saved, and preds.json if it is merged. *)
LEMMA Cut ==
  ASSUME TypeOK, CutShort
  PROVE  /\ traj' \in [Instances -> {"none", "broken", "unfinished", "ended"}]
         /\ pred' \in [Instances -> {"none", "broken", "current", "stale"}]
         /\ preds' \in [Instances -> {"none", "broken", "current", "stale"}]
         /\ \A i \in Instances :
              /\ traj'[i] = traj[i] \/ (job[i] = "run" /\ traj'[i] = "broken")
              /\ \/ pred'[i] = pred[i]
                 \/ job[i] = "save" /\ pred'[i] = "broken"
                 \/ job[i] = "run" /\ pred'[i] = Outdated(pred[i])
              /\ traj'[i] # traj[i] => pred'[i] = Outdated(pred[i])
         /\ preds' = preds \/ (main = "merging" /\ Predicted)
  <1>1. PICK s \in SUBSET {i \in Instances : job[i] = "run"} :
          traj' = [i \in Instances |-> IF i \in s THEN "broken" ELSE traj[i]]
    BY DEF CutShort, Torn
  <1>2. PICK r \in SUBSET {i \in Instances : job[i] = "save"} :
          pred' = [i \in Instances |->
                    IF traj'[i] # traj[i]
                    THEN Outdated([k \in Instances |->
                                     IF k \in r THEN "broken" ELSE pred[k]][i])
                    ELSE [k \in Instances |-> IF k \in r THEN "broken" ELSE pred[k]][i]]
    BY DEF CutShort, Torn
  <1>3. \A i \in Instances :
          pred'[i] = IF traj'[i] # traj[i]
                     THEN Outdated(IF i \in r THEN "broken" ELSE pred[i])
                     ELSE IF i \in r THEN "broken" ELSE pred[i]
    BY <1>2
  <1>4. preds' = preds \/ (main = "merging" /\ Predicted /\ preds' = All("broken"))
    BY DEF CutShort
  <1>q. QED
    BY <1>1, <1>2, <1>3, <1>4 DEF TypeOK, Outdated, All

(* At first nothing has been attempted. *)
LEMMA AttemptInit == Init => AttemptInv
  BY RunBatchAssumption
  DEF Init, AttemptInv, TypeOK, All, Flags, Instances, Busy, Over, Raised, Attempting

(* What the end of an attempt leads to. *)
LEMMA EndOfAttempt ==
  ASSUME AttemptInv, NEW i \in Instances, job[i] \in Attempting,
         NEW outcomes, outcomes \subseteq {"ok", "failed", "error", "break"},
         AttemptEnds(i, outcomes)
  PROVE  /\ job' = [job EXCEPT ![i] = job'[i]]
         /\ job'[i] \in {"start", "save", "failed", "error", "break"}
         /\ job'[i] = "start" => attempt[i] + 1 < MaxRetries
         /\ job'[i] = "save" => "ok" \in outcomes
         /\ attempt' = [attempt EXCEPT ![i] = attempt[i] + 1]
         /\ attempt[i] + 1 \in 0 .. MaxRetries
  <1>1. PICK s \in outcomes : job' = [job EXCEPT ![i] = AfterAttempt(i, s)]
    BY DEF AttemptEnds, Job
  <1>2. job \in [Instances -> {"pending"} \cup Busy \cup Over \cup Raised]
    BY DEF AttemptInv, TypeOK
  <1>3. job'[i] = AfterAttempt(i, s) /\ job' = [job EXCEPT ![i] = job'[i]]
    BY <1>1, <1>2
  <1>4. attempt[i] \in 0 .. MaxRetries /\ attempt[i] < MaxRetries
    BY DEF AttemptInv, TypeOK
  <1>5. /\ job'[i] \in {"start", "save", "failed", "error", "break"}
        /\ job'[i] = "start" => attempt[i] + 1 < MaxRetries
        /\ job'[i] = "save" => "ok" \in outcomes
    BY <1>3 DEF AfterAttempt
  <1>6. attempt' = [attempt EXCEPT ![i] = attempt[i] + 1]
    BY DEF AttemptEnds
  <1>7. attempt[i] + 1 \in 0 .. MaxRetries
    BY <1>4, RunBatchAssumption
  <1>q. QED
    BY <1>3, <1>5, <1>6, <1>7

(* Where NoEnvironment and Closed lead to. *)
LEMMA Failed ==
  ASSUME AttemptInv, NEW i \in Instances, NoEnvironment(i) \/ Closed(i)
  PROVE  /\ job' = [job EXCEPT ![i] = job'[i]]
         /\ job'[i] \in {"start", "save", "failed", "error", "break", "closeError"}
         /\ job'[i] = "save" => job[i] = "close"
         /\ \/ /\ attempt' = [attempt EXCEPT ![i] = attempt[i] + 1]
               /\ attempt[i] + 1 \in 0 .. MaxRetries
               /\ job'[i] = "start" => attempt[i] + 1 < MaxRetries
               /\ job'[i] # "closeError"
            \/ attempt' = attempt /\ job'[i] \in {"closeError", "break"}
         /\ job[i] \in Attempting
         /\ UNCHANGED <<conf, main, hooked, traj, pred, patch, preds, runs, interrupts>>
  <1> USE DEF Attempting
  <1>a. job \in [Instances -> {"pending"} \cup Busy \cup Over \cup Raised]
    BY DEF AttemptInv, TypeOK
  <1>1. Failure \in {"error", "failed"} /\ Fatal \in {"error", "break"}
    BY DEF Failure, Fatal
  <1>b. /\ job[i] \in Attempting
        /\ UNCHANGED <<conf, main, hooked, traj, pred, patch, preds, runs, interrupts>>
    BY DEF NoEnvironment, Closed, files, bounds
  <1>2. CASE NoEnvironment(i) /\ AttemptEnds(i, {Failure})
    <2>1. job[i] \in Attempting
      BY <1>2 DEF NoEnvironment
    <2>q. QED
      BY <1>1, <1>2, <1>b, <2>1, EndOfAttempt
  <1>3. CASE NoEnvironment(i) /\ ~AttemptEnds(i, {Failure})
    BY <1>3, <1>a, <1>b DEF NoEnvironment, Job
  <1>4. CASE Closed(i) /\ job[i] = "close"
    <2>1. AttemptEnds(i, {"ok", Failure})
      BY <1>4 DEF Closed
    <2>q. QED
      BY <1>1, <1>4, <1>b, <2>1, EndOfAttempt
  <1>5. CASE Closed(i) /\ job[i] = "closeError"
    <2>1. AttemptEnds(i, {Failure, Fatal})
      BY <1>5 DEF Closed
    <2>q. QED
      BY <1>1, <1>5, <1>b, <2>1, EndOfAttempt
  <1>6. CASE Closed(i) /\ job[i] = "closeExit" /\ AttemptEnds(i, {Failure})
    BY <1>1, <1>6, <1>b, EndOfAttempt
  <1>7. CASE Closed(i) /\ job[i] = "closeExit" /\ ~AttemptEnds(i, {Failure})
    BY <1>7, <1>a, <1>b DEF Closed, Job
  <1>q. QED
    BY <1>2, <1>3, <1>4, <1>5, <1>6, <1>7 DEF Closed

(* An attempt that fails keeps what is known of attempts.                  *)
LEMMA FailedAttempt ==
  ASSUME AttemptInv, NEW i \in Instances, NoEnvironment(i) \/ Closed(i)
  PROVE  AttemptInv'
  <1>1. /\ job' = [job EXCEPT ![i] = job'[i]]
        /\ job'[i] \in {"start", "save", "failed", "error", "break", "closeError"}
    BY Failed
  <1>2. \/ /\ attempt' = [attempt EXCEPT ![i] = attempt[i] + 1]
           /\ attempt[i] + 1 \in 0 .. MaxRetries
           /\ job'[i] = "start" => attempt[i] + 1 < MaxRetries
           /\ job'[i] # "closeError"
        \/ attempt' = attempt /\ job'[i] \in {"closeError", "break"}
    BY Failed
  <1>3. UNCHANGED <<conf, main, hooked, files, bounds>> /\ job[i] \in Attempting
    BY Failed DEF files, bounds
  <1>4. TypeOK'
    BY <1>1, <1>2, <1>3
    DEF AttemptInv, TypeOK, Busy, Over, Raised, files, bounds
  <1>5. \A k \in Instances : k # i => job'[k] = job[k] /\ attempt'[k] = attempt[k]
    BY <1>1, <1>2 DEF AttemptInv, TypeOK
  <1>6. job'[i] \in {"pending", "check"} \cup Attempting => attempt'[i] < MaxRetries
    BY <1>1, <1>2, <1>3 DEF AttemptInv, TypeOK, Attempting
  <1>q. QED
    BY <1>1, <1>4, <1>5, <1>6 DEF AttemptInv

(* The states of the files and of run_instance, and the loop's counter. *)
LEMMA AttemptNext == AttemptInv /\ [Next]_vars => AttemptInv'
  <1> SUFFICES ASSUME AttemptInv, [Next]_vars PROVE AttemptInv'
    OBVIOUS
  <1> USE RunBatchAssumption
      DEF AttemptInv, TypeOK, Busy, Over, Raised, Attempting, files, bounds, Job,
          Instances
  <1>1. ASSUME NEW i \in Instances, Start(i) PROVE AttemptInv'
    BY <1>1 DEF Start
  <1>2. ASSUME NEW i \in Instances, Skip(i) PROVE AttemptInv'
    BY <1>2 DEF Skip
  <1>3. ASSUME NEW i \in Instances, DoNotSkip(i) PROVE AttemptInv'
    BY <1>3 DEF DoNotSkip, Outdated
  <1>4. ASSUME NEW i \in Instances, NoEnvironment(i) PROVE AttemptInv'
    BY <1>4, FailedAttempt
  <1>5. ASSUME NEW i \in Instances, Started(i) PROVE AttemptInv'
    BY <1>5 DEF Started, HookFor
  <1>6. ASSUME NEW i \in Instances, AgentStep(i) PROVE AttemptInv'
    BY <1>6 DEF AgentStep, Outdated
  <1>7. ASSUME NEW i \in Instances, AgentEnds(i) PROVE AttemptInv'
    BY <1>7 DEF AgentEnds, Outdated
  <1>8. ASSUME NEW i \in Instances, AgentRaises(i) PROVE AttemptInv'
    BY <1>8 DEF AgentRaises
  <1>9. ASSUME NEW i \in Instances, Closed(i) PROVE AttemptInv'
    BY <1>9, FailedAttempt
  <1>10. ASSUME NEW i \in Instances, Save(i) PROVE AttemptInv'
    BY <1>10 DEF Save
  <1>11. ASSUME NEW i \in Instances, Completed(i) PROVE AttemptInv'
    BY <1>11 DEF Completed
  <1>12. ASSUME NEW i \in Instances, SeeBreak(i) PROVE AttemptInv'
    BY <1>12 DEF SeeBreak, Cancel, Seen
  <1>13. ASSUME NEW i \in Instances, SeeError(i) PROVE AttemptInv'
    BY <1>13 DEF SeeError, Cancel, Seen
  <1>14. CASE AllDone
    BY <1>14 DEF AllDone
  <1>15. CASE Merge
    BY <1>15 DEF Merge
  <1>16. CASE Interrupt
    <2>1. CASE InterruptPool
      BY <1>16, <2>1 DEF Interrupt, InterruptPool, Cancel
    <2>2. CASE InterruptSingle
      BY <1>16, <2>2, Cut DEF Interrupt, InterruptSingle
    <2>3. CASE InterruptMain
      BY <1>16, <2>3, Cut DEF Interrupt, InterruptMain, Abandon
    <2>q. QED
      BY <1>16, <2>1, <2>2, <2>3 DEF Interrupt
  <1>17. CASE Kill
    BY <1>17, Cut DEF Kill, Abandon
  <1>18. CASE RunAgain
    BY <1>18 DEF RunAgain, All, Flags
  <1>19. CASE UNCHANGED vars
    BY <1>19 DEF vars
  <1>q. QED
    BY <1>1, <1>2, <1>3, <1>4, <1>5, <1>6, <1>7, <1>8, <1>9, <1>10, <1>11,
       <1>12, <1>13, <1>14, <1>15, <1>16, <1>17, <1>18, <1>19
    DEF Next, Worker, Main

(* What is known of attempts holds in every state.                         *)
LEMMA AttemptInvariance == Spec => []AttemptInv
  BY AttemptInit, AttemptNext, PTL DEF Spec

(* Types, and a loop over the attempts that makes no more than max_retries. *)
THEOREM TypeCorrect == Spec => []TypeOK
  BY AttemptInvariance, PTL DEF AttemptInv

-----------------------------------------------------------------------------
(* Predictions. *)

(* A prediction is current only beside a finished trajectory, through any  *)
(* kill or interrupt.                                                      *)
LEMMA PredNext == AttemptInv /\ PredInv /\ [Next]_vars => PredInv'
  <1> SUFFICES ASSUME AttemptInv, PredInv, [Next]_vars PROVE PredInv'
    OBVIOUS
  <1>0. TypeOK
    BY DEF AttemptInv
  <1> USE <1>0 DEF TypeOK, PredInv, Busy, Over, Raised, Attempting, files, bounds, Job, Outdated
  <1>1. ASSUME NEW i \in Instances, Start(i) PROVE PredInv'
    BY <1>1 DEF Start
  <1>2. ASSUME NEW i \in Instances, Skip(i) PROVE PredInv'
    BY <1>2 DEF Skip, Skippable
  <1>3. ASSUME NEW i \in Instances, DoNotSkip(i) PROVE PredInv'
    BY <1>3 DEF DoNotSkip, Skippable
  <1>4. ASSUME NEW i \in Instances, Started(i) PROVE PredInv'
    BY <1>4 DEF Started
  <1>5. ASSUME NEW i \in Instances, AgentStep(i) PROVE PredInv'
    BY <1>5 DEF AgentStep
  <1>6. ASSUME NEW i \in Instances, AgentEnds(i) PROVE PredInv'
    BY <1>6 DEF AgentEnds
  <1>7. ASSUME NEW i \in Instances, AgentRaises(i) PROVE PredInv'
    BY <1>7 DEF AgentRaises
  <1>8. ASSUME NEW i \in Instances, Save(i) PROVE PredInv'
    BY <1>8 DEF Save
  <1>9. ASSUME NEW i \in Instances, Completed(i) PROVE PredInv'
    BY <1>9 DEF Completed
  <1>10. ASSUME NEW i \in Instances, SeeBreak(i) PROVE PredInv'
    BY <1>10 DEF SeeBreak, Cancel, Seen
  <1>11. ASSUME NEW i \in Instances, SeeError(i) PROVE PredInv'
    BY <1>11 DEF SeeError, Cancel, Seen
  <1>12. ASSUME NEW i \in Instances, NoEnvironment(i) \/ Closed(i) PROVE PredInv'
    BY <1>12, Failed DEF NoEnvironment, Closed
  <1>13. CASE AllDone
    BY <1>13 DEF AllDone
  <1>14. CASE Merge
    BY <1>14 DEF Merge
  <1>15. CASE Interrupt
    <2>1. CASE InterruptPool
      BY <1>15, <2>1 DEF Interrupt, InterruptPool, Cancel
    <2>2. CASE InterruptSingle
      BY <1>15, <2>2, Cut DEF Interrupt, InterruptSingle
    <2>3. CASE InterruptMain
      BY <1>15, <2>3, Cut DEF Interrupt, InterruptMain, Abandon
    <2>q. QED
      BY <1>15, <2>1, <2>2, <2>3 DEF Interrupt
  <1>16. CASE Kill
    BY <1>16, Cut DEF Kill, Abandon
  <1>17. CASE RunAgain
    BY <1>17 DEF RunAgain, All
  <1>18. CASE UNCHANGED vars
    BY <1>18 DEF vars
  <1>q. QED
    BY <1>1, <1>2, <1>3, <1>4, <1>5, <1>6, <1>7, <1>8, <1>9, <1>10, <1>11,
       <1>12, <1>13, <1>14, <1>15, <1>16, <1>17, <1>18
    DEF Next, Worker, Main

(* What is known of predictions holds in every state.                      *)
LEMMA PredInvariance == Spec => []PredInv
  <1>1. Init => PredInv
    BY DEF Init, PredInv, All, Attempting
  <1>q. QED
    BY <1>1, AttemptInvariance, PredNext, PTL DEF Spec

(* Predictions fit the trajectories beside them: see PredFits. *)
THEOREM PredFitsCorrect == Spec => []PredFits
  <1>1. PredInv => PredFits
    BY DEF PredInv, PredFits
  <1>q. QED
    BY <1>1, PredInvariance, PTL

(* What is complete is not touched again: see CompletedKept. *)
THEOREM CompletedKeptCorrect == Spec => CompletedKept
  <1> DEFINE Kept == \A i \in Instances :
                        conf.redo = "no" /\ pred[i] = "current"
                        => pred'[i] = "current" /\ traj'[i] = "ended"
  <1>1. AttemptInv /\ PredInv /\ [Next]_vars => [Kept]_vars
    <2> SUFFICES ASSUME AttemptInv, PredInv, [Next]_vars, PredInv',
                        NEW i \in Instances, conf.redo = "no", pred[i] = "current"
                 PROVE  pred'[i] = "current" /\ traj'[i] = "ended"
      BY PredNext
    <2>1. pred'[i] = "current" => traj'[i] = "ended"
      BY DEF PredInv
    <2>2. job[i] \notin Attempting \cup {"save"} /\ traj[i] = "ended" /\ TypeOK
      BY DEF PredInv, AttemptInv
    <2>3. pred'[i] = "current"
      <3> USE <2>2 DEF TypeOK, Attempting, files, bounds
      <3>1. ASSUME NEW k \in Instances, Worker(k) PROVE pred'[i] = "current"
        BY <3>1
        DEF Worker, Start, Skip, DoNotSkip, Skippable, NoEnvironment, Started, AgentStep,
            AgentEnds, AgentRaises, Closed, Save, Completed
      <3>2. CASE Main
        BY <3>2 DEF Main, SeeBreak, SeeError, AllDone, Merge
      <3>3. CASE Interrupt
        BY <3>3, Cut DEF Interrupt, InterruptPool, InterruptSingle, InterruptMain
      <3>4. CASE Kill
        BY <3>4, Cut DEF Kill
      <3>5. CASE RunAgain
        BY <3>5 DEF RunAgain
      <3>6. CASE UNCHANGED vars
        BY <3>6 DEF vars
      <3>q. QED
        BY <3>1, <3>2, <3>3, <3>4, <3>5, <3>6 DEF Next
    <2>q. QED
      BY <2>1, <2>3
  <1>q. QED
    BY <1>1, AttemptInvariance, PredInvariance, PTL DEF Spec, CompletedKept

-----------------------------------------------------------------------------
(* Stopping and merging. *)

(* Where main is says what its workers may still do. *)
MergeInv ==
    /\ main \in {"stopping", "merging", "ended"} => \A i \in Instances : job[i] # "pending"
    /\ main \in {"merging", "ended"} => \A i \in Instances : job[i] \in Over \cup Raised
    /\ main = "ended" => preds = pred
    /\ (\E i \in Instances : preds[i] # "none") => \E i \in Instances : pred[i] # "none"

(* Nothing starts after main has stopped, and nothing is predicted after   *)
(* it has merged.                                                          *)
LEMMA MergeNext == AttemptInv /\ MergeInv /\ [Next]_vars => MergeInv'
  <1> SUFFICES ASSUME AttemptInv, MergeInv, [Next]_vars PROVE MergeInv'
    OBVIOUS
  <1>0. TypeOK
    BY DEF AttemptInv
  <1> USE <1>0 DEF TypeOK, MergeInv, Busy, Over, Raised, files, bounds, Job, Outdated,
          Predicted, All, running
  <1>1. ASSUME NEW i \in Instances, Start(i) PROVE MergeInv'
    BY <1>1 DEF Start
  <1>2. ASSUME NEW i \in Instances, Skip(i) PROVE MergeInv'
    BY <1>2 DEF Skip
  <1>3. ASSUME NEW i \in Instances, DoNotSkip(i) PROVE MergeInv'
    BY <1>3 DEF DoNotSkip
  <1>4. ASSUME NEW i \in Instances, Started(i) PROVE MergeInv'
    BY <1>4 DEF Started
  <1>5. ASSUME NEW i \in Instances, AgentStep(i) PROVE MergeInv'
    BY <1>5 DEF AgentStep
  <1>6. ASSUME NEW i \in Instances, AgentEnds(i) PROVE MergeInv'
    BY <1>6 DEF AgentEnds
  <1>7. ASSUME NEW i \in Instances, AgentRaises(i) PROVE MergeInv'
    BY <1>7 DEF AgentRaises
  <1>8. ASSUME NEW i \in Instances, Save(i) PROVE MergeInv'
    BY <1>8 DEF Save
  <1>9. ASSUME NEW i \in Instances, Completed(i) PROVE MergeInv'
    BY <1>9 DEF Completed
  <1>10. ASSUME NEW i \in Instances, SeeBreak(i) PROVE MergeInv'
    BY <1>10 DEF SeeBreak, Cancel, Seen
  <1>11. ASSUME NEW i \in Instances, SeeError(i) PROVE MergeInv'
    BY <1>11 DEF SeeError, Cancel, Seen
  <1>12. ASSUME NEW i \in Instances, NoEnvironment(i) \/ Closed(i) PROVE MergeInv'
    <2>1. /\ job' = [job EXCEPT ![i] = job'[i]] /\ job[i] \in Attempting
          /\ job'[i] \in {"start", "save", "failed", "error", "break", "closeError"}
          /\ UNCHANGED <<conf, main, pred, preds>>
      BY <1>12, Failed
    <2>q. QED
      BY <2>1 DEF Attempting
  <1>13. CASE AllDone
    BY <1>13 DEF AllDone, Finished
  <1>14. CASE Merge
    BY <1>14 DEF Merge
  <1>15. CASE Interrupt
    <2>1. CASE InterruptPool
      BY <1>15, <2>1 DEF Interrupt, InterruptPool, Cancel
    <2>2. CASE InterruptSingle
      BY <1>15, <2>2, Cut DEF Interrupt, InterruptSingle
    <2>3. CASE InterruptMain
      BY <1>15, <2>3, Cut DEF Interrupt, InterruptMain, Abandon
    <2>q. QED
      BY <1>15, <2>1, <2>2, <2>3 DEF Interrupt
  <1>16. CASE Kill
    BY <1>16, Cut DEF Kill, Abandon
  <1>17. CASE RunAgain
    BY <1>17 DEF RunAgain, All
  <1>18. CASE UNCHANGED vars
    BY <1>18 DEF vars
  <1>q. QED
    BY <1>1, <1>2, <1>3, <1>4, <1>5, <1>6, <1>7, <1>8, <1>9, <1>10, <1>11,
       <1>12, <1>13, <1>14, <1>15, <1>16, <1>17, <1>18
    DEF Next, Worker, Main

(* What is known of merges holds in every state.                           *)
LEMMA MergeInvariance == Spec => []MergeInv
  <1>1. Init => MergeInv
    BY DEF Init, MergeInv, All
  <1>q. QED
    BY <1>1, AttemptInvariance, MergeNext, PTL DEF Spec

(* preds.json holds what the .pred files hold: see MergedAll. *)
THEOREM MergedAllCorrect == Spec => []MergedAll
  <1>1. MergeInv => MergedAll
    BY DEF MergeInv, MergedAll, running, Busy, Over, Raised
  <1>q. QED
    BY <1>1, MergeInvariance, PTL

-----------------------------------------------------------------------------
(* The order of a single worker. *)

(* What a single worker has not finished cleanly is the last it started.   *)
OrderInv ==
    conf.workers = 1 =>
      /\ \A i, j \in Instances :
           i < j /\ job[i] \in Busy \cup Raised \cup {"seen", "pending", "cancelled"}
           => job[j] \in {"pending", "cancelled"}
      /\ main = "working" => \A i \in Instances : job[i] \notin {"seen", "cancelled"}

(* Fewer than one running is none.                                         *)
LEMMA NoneRunning ==
  ASSUME Cardinality(running) < 1
  PROVE  running = {}
  <1>1. IsFiniteSet(Instances)
    BY FS_Interval, RunBatchAssumption DEF Instances
  <1>2. IsFiniteSet(running)
    <2>1. running \in SUBSET Instances
      BY DEF running
    <2>q. QED
      BY <1>1, <2>1, FS_Subset
  <1>3. Cardinality(running) \in Nat
    BY <1>2, FS_CardinalityType
  <1>q. QED
    BY <1>2, <1>3, FS_EmptySet

(* An instance that is worked on may go on, end or raise. *)
LEMMA Moved ==
  ASSUME TypeOK, OrderInv, NEW i \in Instances, UNCHANGED <<conf, main>>,
         job' = [job EXCEPT ![i] = job'[i]], job[i] \in Busy,
         job'[i] \in Busy \cup Raised \cup {"failed"}
  PROVE  OrderInv'
  <1>1. \A k \in Instances : k # i => job'[k] = job[k]
    BY DEF TypeOK
  <1>2. CASE conf.workers = 1
    <2>1. \A j \in Instances : i < j => job'[j] \in {"pending", "cancelled"}
      BY <1>1, <1>2, RunBatchAssumption DEF OrderInv, Instances
    <2>2. \A j, k \in Instances :
            j < k /\ job'[j] \in Busy \cup Raised \cup {"seen", "pending", "cancelled"}
            => job'[k] \in {"pending", "cancelled"}
      <3> SUFFICES ASSUME NEW j \in Instances, NEW k \in Instances, j < k,
                          job'[j] \in Busy \cup Raised \cup {"seen", "pending", "cancelled"}
                   PROVE  job'[k] \in {"pending", "cancelled"}
        OBVIOUS
      <3>1. CASE j = i
        BY <2>1, <3>1
      <3>2. CASE j # i
        <4>1. job[k] \in {"pending", "cancelled"}
          BY <1>1, <1>2, <3>2 DEF OrderInv
        <4>2. k # i
          BY <4>1 DEF Busy
        <4>q. QED
          BY <1>1, <4>1, <4>2
      <3>q. QED
        BY <3>1, <3>2
    <2>3. main = "working" => \A k \in Instances : job'[k] \notin {"seen", "cancelled"}
      BY <1>1, <1>2 DEF OrderInv, Busy, Raised
    <2>q. QED
      BY <2>2, <2>3 DEF OrderInv
  <1>3. CASE conf.workers # 1
    BY <1>3 DEF OrderInv
  <1>q. QED
    BY <1>2, <1>3

(* A single worker starts an instance when all before it have ended well. *)
LEMMA OrderNext == AttemptInv /\ OrderInv /\ [Next]_vars => OrderInv'
  <1> SUFFICES ASSUME AttemptInv, OrderInv, [Next]_vars PROVE OrderInv'
    OBVIOUS
  <1>0. TypeOK
    BY DEF AttemptInv
  <1> USE <1>0, RunBatchAssumption
      DEF TypeOK, OrderInv, Busy, Over, Raised, files, bounds, Job, Instances
  <1>1. ASSUME NEW i \in Instances, Start(i) PROVE OrderInv'
    <2> SUFFICES ASSUME conf.workers = 1 PROVE OrderInv'
      BY <1>1 DEF Start
    <2>1. running = {}
      BY <1>1, NoneRunning DEF Start
    <2>2. \A j \in Instances :
            j < i => job[j] \notin Busy \cup Raised \cup {"seen", "pending", "cancelled"}
      BY <1>1, <2>1 DEF Start, running
    <2>q. QED
      BY <1>1, <2>2 DEF Start
  <1>2. ASSUME NEW i \in Instances, Skip(i) PROVE OrderInv'
    BY <1>2 DEF Skip
  <1>3. ASSUME NEW i \in Instances, DoNotSkip(i) PROVE OrderInv'
    BY <1>3 DEF DoNotSkip
  <1>4. ASSUME NEW i \in Instances, Started(i) PROVE OrderInv'
    BY <1>4 DEF Started
  <1>5. ASSUME NEW i \in Instances, AgentStep(i) PROVE OrderInv'
    BY <1>5 DEF AgentStep
  <1>6. ASSUME NEW i \in Instances, AgentEnds(i) PROVE OrderInv'
    BY <1>6 DEF AgentEnds
  <1>7. ASSUME NEW i \in Instances, AgentRaises(i) PROVE OrderInv'
    BY <1>7 DEF AgentRaises
  <1>8. ASSUME NEW i \in Instances, Save(i) PROVE OrderInv'
    BY <1>8 DEF Save
  <1>9. ASSUME NEW i \in Instances, Completed(i) PROVE OrderInv'
    BY <1>9 DEF Completed
  <1>10. ASSUME NEW i \in Instances, SeeBreak(i) PROVE OrderInv'
    BY <1>10 DEF SeeBreak, Cancel, Seen
  <1>11. ASSUME NEW i \in Instances, SeeError(i) PROVE OrderInv'
    BY <1>11 DEF SeeError, Cancel, Seen
  <1>12. ASSUME NEW i \in Instances, NoEnvironment(i) \/ Closed(i) PROVE OrderInv'
    <2>1. /\ job' = [job EXCEPT ![i] = job'[i]] /\ job[i] \in Attempting
          /\ job'[i] \in {"start", "save", "failed", "error", "break", "closeError"}
          /\ UNCHANGED <<conf, main>>
      BY <1>12, Failed
    <2>2. job[i] \in Busy /\ job'[i] \in Busy \cup Raised \cup {"failed"}
      BY <2>1 DEF Attempting
    <2>q. QED
      BY <2>1, <2>2, Moved
  <1>13. CASE AllDone
    BY <1>13 DEF AllDone
  <1>14. CASE Merge
    BY <1>14 DEF Merge
  <1>15. CASE Interrupt
    <2>1. CASE InterruptPool
      BY <1>15, <2>1 DEF Interrupt, InterruptPool, Cancel
    <2>2. CASE InterruptSingle
      <3>1. PICK i \in Instances : /\ job' = [job EXCEPT ![i] = job'[i]] /\ job[i] \in Busy
                                   /\ job'[i] \in Busy \cup Raised
        BY <2>2 DEF InterruptSingle
      <3>2. UNCHANGED <<conf, main>>
        BY <1>15, <2>2 DEF Interrupt, InterruptSingle
      <3>q. QED
        BY <3>1, <3>2, Moved
    <2>3. CASE InterruptMain
      BY <1>15, <2>3, Cut DEF Interrupt, InterruptMain, Abandon
    <2>q. QED
      BY <1>15, <2>1, <2>2, <2>3 DEF Interrupt
  <1>16. CASE Kill
    BY <1>16, Cut DEF Kill, Abandon
  <1>17. CASE RunAgain
    BY <1>17 DEF RunAgain, All
  <1>18. CASE UNCHANGED vars
    BY <1>18 DEF vars
  <1>q. QED
    BY <1>1, <1>2, <1>3, <1>4, <1>5, <1>6, <1>7, <1>8, <1>9, <1>10, <1>11,
       <1>12, <1>13, <1>14, <1>15, <1>16, <1>17, <1>18
    DEF Next, Worker, Main

(* The order of the instances holds in every state.                        *)
LEMMA OrderInvariance == Spec => []OrderInv
  <1>1. Init => OrderInv
    BY DEF Init, OrderInv, All, Busy, Raised
  <1>q. QED
    BY <1>1, AttemptInvariance, OrderNext, PTL DEF Spec

(* A batch that stops starts nothing: see StopsAtBreak. *)
THEOREM StopsAtBreakCorrect == Spec => []StopsAtBreak
  <1>1. MergeInv /\ OrderInv => StopsAtBreak
    BY DEF MergeInv, OrderInv, StopsAtBreak
  <1>q. QED
    BY <1>1, MergeInvariance, OrderInvariance, PTL
-----------------------------------------------------------------------------
(* Patches of a single worker. *)

(* The hook knows the instance that a single worker has started.           *)
HookInv ==
    conf.workers = 1 =>
      \A i \in Instances : job[i] \in {"run", "close", "save", "hook"} => hooked = i

(* Every step leaves the hook with the only running instance.              *)
LEMMA HookNext == AttemptInv /\ OrderInv /\ HookInv /\ [Next]_vars => HookInv'
  <1> SUFFICES ASSUME AttemptInv, OrderInv, HookInv, [Next]_vars PROVE HookInv'
    OBVIOUS
  <1>0. TypeOK
    BY DEF AttemptInv
  <1> USE <1>0 DEF TypeOK, HookInv, files, bounds, Job
  <1>1. ASSUME NEW i \in Instances, Started(i) PROVE HookInv'
    <2> SUFFICES ASSUME conf.workers = 1 PROVE HookInv'
      BY <1>1 DEF Started
    <2>1. \A k \in Instances : k # i => job[k] \notin {"run", "close", "save", "hook"}
      <3> SUFFICES ASSUME NEW k \in Instances, k # i,
                          job[k] \in {"run", "close", "save", "hook"}
                   PROVE  FALSE
        OBVIOUS
      <3>1. k < i \/ i < k
        BY RunBatchAssumption DEF Instances
      <3>q. QED
        BY <1>1, <3>1 DEF Started, OrderInv, Busy
    <2>q. QED
      BY <1>1, <2>1 DEF Started, HookFor
  <1>2. ASSUME NEW i \in Instances, NoEnvironment(i) \/ Closed(i) PROVE HookInv'
    BY <1>2, Failed
  <1>3. ASSUME NEW i \in Instances,
               Start(i) \/ Skip(i) \/ DoNotSkip(i) \/ AgentStep(i) \/ AgentEnds(i)
                 \/ AgentRaises(i) \/ Save(i) \/ Completed(i)
        PROVE  HookInv'
    BY <1>3 DEF Start, Skip, DoNotSkip, AgentStep, AgentEnds, AgentRaises, Save, Completed
  <1>4. CASE Main
    BY <1>4 DEF Main, SeeBreak, SeeError, AllDone, Merge, Cancel, Seen
  <1>5. CASE Interrupt
    BY <1>5 DEF Interrupt, InterruptPool, InterruptSingle, InterruptMain, Cancel, Abandon
  <1>6. CASE Kill
    BY <1>6 DEF Kill, Abandon
  <1>7. CASE RunAgain
    BY <1>7 DEF RunAgain, All
  <1>8. CASE UNCHANGED vars
    BY <1>8 DEF vars
  <1>q. QED
    BY <1>1, <1>2, <1>3, <1>4, <1>5, <1>6, <1>7, <1>8 DEF Next, Worker

(* What is known of the hook holds in every state.                         *)
LEMMA HookInvariance == Spec => []HookInv
  <1>1. Init => HookInv
    BY DEF Init, HookInv, All
  <1>q. QED
    BY <1>1, AttemptInvariance, OrderInvariance, HookNext, PTL DEF Spec

(* A single worker saves every patch under its own name: see PatchOwn.     *)
THEOREM PatchOwnCorrect == Spec => PatchOwn
  <1>1. AttemptInv /\ HookInv /\ [Next]_vars
        => [conf.workers = 1 => \A i \in Instances : patch'[i] \in {patch[i], i}]_vars
    <2> SUFFICES ASSUME AttemptInv, HookInv, [Next]_vars, conf.workers = 1,
                        NEW i \in Instances
                 PROVE  patch'[i] \in {patch[i], i}
      OBVIOUS
    <2> USE DEF files, bounds
    <2>1. ASSUME NEW k \in Instances, Completed(k) PROVE patch'[i] \in {patch[i], i}
      <3>1. hooked = k /\ patch \in [Instances -> 0 .. N]
        BY <2>1 DEF Completed, HookInv, AttemptInv, TypeOK
      <3>q. QED
        BY <2>1, <3>1 DEF Completed
    <2>2. ASSUME NEW k \in Instances, Worker(k), ~Completed(k)
          PROVE  patch' = patch
      BY <2>2
      DEF Worker, Start, Skip, DoNotSkip, NoEnvironment, Started, AgentStep, AgentEnds,
          AgentRaises, Closed, Save
    <2>3. CASE Main \/ Interrupt \/ Kill \/ RunAgain \/ UNCHANGED vars
      BY <2>3 DEF Main, SeeBreak, SeeError, AllDone, Merge, Interrupt, Kill, RunAgain, vars
    <2>q. QED
      BY <2>1, <2>2, <2>3 DEF Next
  <1>q. QED
    BY <1>1, AttemptInvariance, HookInvariance, PTL DEF Spec, PatchOwn
=============================================================================
