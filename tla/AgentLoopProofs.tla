-------------------------- MODULE AgentLoopProofs --------------------------
(***************************************************************************)
(* What a run of the agent loop does for every step limit, number of       *)
(* timeouts in a row and number of requeries.  The properties are proved   *)
(* together from the inductive invariant Inv, whose conjuncts say what is  *)
(* known in each phase of a run: while it goes on, the calls made since    *)
(* the last command that did not time out are all timeouts, nothing has    *)
(* been submitted and the tests are not in the repository.                 *)
(***************************************************************************)
EXTENDS AgentLoop, TLAPS

GoesOn == pc \in {"setup", "query", "act"}
Submitting == pc = "submit" /\ exit = Normal

(* While the run goes on, or a submission of its own is being read. *)
CallsInv ==
    /\ GoesOn \/ Submitting
       => nCalls <= (StepLimit - 1) + timeouts /\ timeouts <= MaxTimeouts - 1
    /\ nCalls <= StepLimit + MaxTimeouts - 1

StepInv ==
    /\ GoesOn => exit = Normal /\ record = "whole" /\ tree = "work"
    /\ GoesOn => fails < MaxRequeries
    /\ Submitting => record # "lost" /\ tree = "work"

TreeInv ==
    pc = "submit" => /\ tree \in {"work", "sometests"}
                     /\ tree = "sometests" => exit.reward = 0

ResultInv ==
    /\ pc # "done" => /\ info.status = "none" /\ info.submission = "none"
                      /\ saved \in {"nofile", "none"}
    /\ pc = "done" => /\ info.status # "none" /\ saved = info.status
                      /\ record # "whole" => info.status \in {"exit", "autosubmitted"}

Inv == /\ TypeOK /\ CallsInv /\ StepInv /\ TreeInv
       /\ ResultInv /\ SubmissionClean

-----------------------------------------------------------------------------
(* A run starts with nothing counted, nothing submitted and no file. *)
LEMMA InvInit == Init => Inv
  BY AgentLoopAssumption
  DEF Init, Inv, TypeOK, CallsInv, StepInv, TreeInv, ResultInv,
      SubmissionClean, LimitReward, Normal, GoesOn, Submitting

(* Every step of a run keeps the invariant, whatever the model, the        *)
(* sandbox and the clock answer.                                           *)
LEMMA InvNext == Inv /\ [Next]_vars => Inv'
  <1> SUFFICES ASSUME Inv, [Next]_vars PROVE Inv'
    OBVIOUS
  <1> USE AgentLoopAssumption
      DEF Inv, TypeOK, CallsInv, StepInv, TreeInv, ResultInv,
          SubmissionClean, LimitReward, Normal, GoesOn, Submitting, disk
  <1>1. CASE Setup
    BY <1>1 DEF Setup
  <1>2. CASE TimeExceeded
    BY <1>2 DEF TimeExceeded, AutoSubmit, LimitReward
  <1>3. CASE Answer
    BY <1>3 DEF Answer, AutoSubmit, Requery, Counted
  <1>4. CASE Fatal
    BY <1>4 DEF Fatal
  <1>5. CASE ExitCommand
    BY <1>5 DEF ExitCommand, EndStep
  <1>6. CASE NotExecuted
    BY <1>6 DEF NotExecuted, AutoSubmit, Requery, Counted
  <1>7. CASE Executed
    BY <1>7 DEF Executed, AutoSubmit, Observe, EndStep, LimitReached, LimitReward
  <1>8. CASE TimedOut
    BY <1>8 DEF TimedOut, AutoSubmit, Observe, EndStep, TooMany
  <1>9. CASE NoPatch
    BY <1>9 DEF NoPatch, SubmissionRaises, AutoSubmit, forced
  <1>10. CASE NoPatchFile
    BY <1>10 DEF NoPatchFile, EndStep, forced
  <1>11. CASE Ungraded
    BY <1>11 DEF Ungraded, EndStep, Graded, PatchesOf, Status, forced
  <1>12. CASE Grade
    BY <1>12 DEF Grade, EndStep, Graded, PatchesOf, Status, forced
  <1>13. CASE TestPatchFails
    BY <1>13 DEF TestPatchFails, SubmissionRaises, AutoSubmit, forced, Graded
  <1>14. CASE FilesUnreadable
    BY <1>14 DEF FilesUnreadable
  <1>15. CASE Ended
    BY <1>15 DEF Ended, vars
  <1>16. CASE UNCHANGED vars
    BY <1>16 DEF vars
  <1>q. QED
    BY <1>1, <1>2, <1>3, <1>4, <1>5, <1>6, <1>7, <1>8, <1>9,
       <1>10, <1>11, <1>12, <1>13, <1>14, <1>15, <1>16 DEF Next

(* The invariant holds in every state.                                     *)
LEMMA Invariance == Spec => []Inv
  BY InvInit, InvNext, PTL DEF Spec

-----------------------------------------------------------------------------
(* The counters of a run stay in the ranges their tests give them. *)
THEOREM TypeCorrect == Spec => []TypeOK
  <1>1. Inv => TypeOK
    BY DEF Inv
  <1>q. QED
    BY <1>1, Invariance, PTL

(* For any limits, an agent executes at most step_limit commands plus the  *)
(* timeouts in a row that handle_action tolerates, less one.               *)
THEOREM CallsBoundedCorrect == Spec => []CallsBounded
  <1>1. Inv => CallsBounded
    BY DEF Inv, CallsInv, CallsBounded
  <1>q. QED
    BY <1>1, Invariance, PTL

(* No submission holds the test patch, and one that holds a part of it is  *)
(* marked as made after an error.                                          *)
THEOREM SubmissionCleanCorrect == Spec => []SubmissionClean
  <1>1. Inv => SubmissionClean
    BY DEF Inv
  <1>q. QED
    BY <1>1, Invariance, PTL

(* The trajectory on disk says that the run ended exactly when it did. *)
THEOREM SavedAsEndedCorrect == Spec => []SavedAsEnded
  <1>1. Inv => SavedAsEnded
    BY DEF Inv, TypeOK, ResultInv, SavedAsEnded
  <1>q. QED
    BY <1>1, Invariance, PTL

(* No executed command is missing from the trajectory of a run that goes   *)
(* on or that ended of itself.                                             *)
THEOREM RecordedCorrect == Spec => []RecordedUnlessCutShort
  <1>1. Inv => RecordedUnlessCutShort
    BY DEF Inv, TypeOK, StepInv, ResultInv, GoesOn, RecordedUnlessCutShort
  <1>q. QED
    BY <1>1, Invariance, PTL
=============================================================================
