----------------------------- MODULE AgentLoop -----------------------------
(***************************************************************************)
(* One run of an agent on one problem: DefaultAgent.run, step, forward and *)
(* forward_with_handling, handle_action, handle_submission and the         *)
(* autosubmission after an error, of                                       *)
(* SWE-agent/sweagent/agent/agent_sandbox.py and of its twin for training, *)
(* sky_agent_sb.py.                                                        *)
(*                                                                         *)
(* The model, the sandbox and the clock may answer anything at any time.   *)
(* Exit statuses are told apart by what they cause: exit_status is "none", *)
(* "exit_command", "exit" (any exit_...), "submitted", or "autosubmitted"  *)
(* for "submitted (exit_...)".  Patches are told apart by what they hold.  *)
(***************************************************************************)
EXTENDS Naturals

CONSTANTS StepLimit,      \* config.step_limit
          MaxTimeouts,    \* tools.config.max_consecutive_execution_timeouts
          MaxRequeries    \* max_requeries

ASSUME AgentLoopAssumption ==
    {StepLimit, MaxTimeouts, MaxRequeries} \subseteq Nat \ {0}

VARIABLES
    conf,      \* the agent: "sky", "sandbox", or "eval" (config.eval)
    pc,        \* where run is
    exit,      \* why the step is ending, and the reward it starts from
    nCalls,    \* model.n_calls
    timeouts,  \* _n_consecutive_timeouts
    fails,     \* n_format_fails of the step
    tree,      \* the repository: the agent's work, some or all tests over it
    info,      \* exit_status, submission and reward of the run
    saved,     \* exit_status in the trajectory on disk, "nofile" before
    record     \* history: whether what ran is in the trajectory

vars == <<conf, pc, exit, nCalls, timeouts, fails, tree, info, saved, record>>
disk == <<tree, info, saved>>

-----------------------------------------------------------------------------
Normal == [why |-> "submit", reward |-> 1]
forced == exit # Normal

(* The two classes: the one of agent_sandbox.py has the patch graded when  *)
(* a run ends at a limit, the one of sky_agent_sb.py gives it reward 0.    *)
LimitReward == IF conf = "sky" THEN 0 ELSE 1

Init ==
    /\ conf \in {"sky", "sandbox", "eval"}
    /\ pc = "setup" /\ exit = Normal
    /\ nCalls = 0 /\ timeouts = 0 /\ fails = 0
    /\ tree = "work" /\ saved = "nofile"
    /\ info = [status |-> "none", submission |-> "none", reward |-> "none"]
    /\ record = "whole"

(* run: the pre-check, set_env_variables or get_state may raise. *)
Setup ==
    /\ pc = "setup" /\ pc' \in {"query", "raised"}
    /\ UNCHANGED <<conf, exit, nCalls, timeouts, fails, disk, record>>

-----------------------------------------------------------------------------
(* handle_error_with_autosubmission: a new step takes the place of the one *)
(* that failed; the sandbox's runtime always says it is alive, so the      *)
(* patch is extracted and submitted.                                       *)
AutoSubmit(why, reward, recorded) ==
    /\ pc' = "submit" /\ exit' = [why |-> why, reward |-> reward]
    /\ record' = recorded

(* An answer that cannot be used: the model is asked again, up to          *)
(* max_requeries times in one step.                                        *)
CountedNot(n) == n
Counted(n) == n + 1
Requery ==
    /\ fails' = Counted(fails)
    /\ IF fails' < MaxRequeries
       THEN pc' = "query" /\ UNCHANGED <<exit, record>>
       ELSE AutoSubmit("format", 0, record)

(* forward: the limits on time are looked at before the model is queried;  *)
(* total_time_limit may have the patch graded, total_execution_timeout not. *)
TimeExceeded ==
    /\ pc = "query"
    /\ \/ AutoSubmit("limit", LimitReward, record)
       \/ AutoSubmit("error", 0, record)
    /\ UNCHANGED <<conf, nCalls, timeouts, fails, disk>>

(* The answer is malformed or refused by its provider; or the model fails  *)
(* (context window, cost limit, retries exhausted); or it gives an action. *)
Answer ==
    /\ pc = "query"
    /\ \/ Requery
       \/ AutoSubmit("error", 0, record) /\ UNCHANGED fails
       \/ pc' = "act" /\ UNCHANGED <<exit, fails, record>>
    /\ UNCHANGED <<conf, nCalls, timeouts, disk>>

(* TotalCostLimitExceededError, EOFError and KeyboardInterrupt leave run.  *)
Fatal ==
    /\ pc \in {"query", "act"} /\ pc' = "raised"
    /\ UNCHANGED <<conf, exit, nCalls, timeouts, fails, disk, record>>

-----------------------------------------------------------------------------
(* step, run: the step goes into the trajectory, info is updated from it,  *)
(* and both are saved.                                                     *)
EndStep(status, submission, reward) ==
    /\ info' = [status |-> status, submission |-> submission, reward |-> reward]
    /\ saved' = status /\ fails' = 0
    /\ exit' = Normal
    /\ record' = IF record = "open" THEN "whole" ELSE record

(* handle_action: "exit" ends the run without a submission. *)
ExitCommand ==
    /\ pc = "act" /\ pc' = "done"
    /\ EndStep("exit_command", "none", info.reward)
    /\ UNCHANGED <<conf, nCalls, timeouts, tree>>

(* The action is blocked or bash rejects it; or the session is broken.     *)
NotExecuted ==
    /\ pc = "act"
    /\ \/ Requery
       \/ AutoSubmit("error", 0, record) /\ UNCHANGED fails
    /\ UNCHANGED <<conf, nCalls, timeouts, disk>>

(* After a command: get_state may raise, or the observation may hold the   *)
(* forfeit token; a retry token (with the output the step is recorded,     *)
(* without it is not); the submission marker; or none of these.            *)
Observe ==
    \/ AutoSubmit("error", 0, "lost") /\ UNCHANGED <<fails, info, saved>>
    \/ pc' = "query" /\ UNCHANGED <<exit, fails, info, saved, record>>
    \/ pc' = "submit" /\ record' = "open" /\ UNCHANGED <<exit, fails, info, saved>>
    \/ pc' = "query" /\ EndStep("none", "none", info.reward)

(* The command ran.  At the step limit the session is interrupted and the  *)
(* patch submitted; an interrupt that fails is an error of its own.        *)
LimitReachedLate(n) == n > StepLimit
LimitReached(n) == n >= StepLimit

Executed ==
    /\ pc = "act" /\ nCalls' = nCalls + 1
    /\ IF LimitReached(nCalls')
       THEN /\ \/ AutoSubmit("limit", LimitReward, "lost")
               \/ AutoSubmit("error", 0, "lost")
            /\ UNCHANGED <<timeouts, fails, info, saved>>
       ELSE timeouts' = 0 /\ Observe
    /\ UNCHANGED <<conf, tree>>

(* The command timed out: too many in a row end the run (as an interrupt   *)
(* that fails does); otherwise it is interrupted and the step goes on.     *)
(* This path never looks at step_limit.                                    *)
TooMany(n) == n >= MaxTimeouts

TimedOut ==
    /\ pc = "act"
    /\ nCalls' = nCalls + 1 /\ timeouts' = timeouts + 1
    /\ \/ AutoSubmit("error", 0, "lost") /\ UNCHANGED <<fails, info, saved>>
       \/ ~TooMany(timeouts') /\ Observe
    /\ UNCHANGED <<conf, tree>>

-----------------------------------------------------------------------------
(* handle_submission.  An exception in it leads to an autosubmission, and  *)
(* an exception in that one leaves run.                                    *)
SubmissionRaisesOn ==
    IF forced THEN pc' = "raised" /\ UNCHANGED <<exit, record>>
              ELSE pc' = "query" /\ exit' = Normal /\ record' = "lost"
SubmissionRaises ==
    IF forced THEN pc' = "raised" /\ UNCHANGED <<exit, record>>
              ELSE AutoSubmit("error", 0, "lost")

(* get_patch fails twice, or its file cannot be read. *)
NoPatch ==
    /\ pc = "submit" /\ SubmissionRaises
    /\ UNCHANGED <<conf, nCalls, timeouts, fails, disk>>

(* The patch file is not there: nothing is submitted, and a run that was   *)
(* not ending goes on.                                                     *)
NoPatchFileSubmitted ==
    /\ pc = "submit"
    /\ IF forced
       THEN pc' = "done" /\ EndStep("exit", "none", info.reward)
       ELSE pc' = "query" /\ EndStep("submitted", "none", info.reward)
    /\ UNCHANGED <<conf, nCalls, timeouts, tree>>
NoPatchFile ==
    /\ pc = "submit"
    /\ IF forced
       THEN pc' = "done" /\ EndStep("exit", "none", info.reward)
       ELSE pc' = "query" /\ EndStep("none", "none", info.reward)
    /\ UNCHANGED <<conf, nCalls, timeouts, tree>>

(* The patch is what the repository holds, or empty where the agent has    *)
(* changed nothing.  It is read before the tests are put over it.          *)
PatchesAfterTests(t) == {"tests"}
PatchesOf(t) == IF t = "work" THEN {"none", "work"} ELSE {t}
Status(patch) ==
    IF ~forced THEN "submitted" ELSE IF patch = "none" THEN "exit" ELSE "autosubmitted"

Graded == exit.reward = 1 \/ conf = "eval"

Ungraded ==
    /\ pc = "submit" /\ ~Graded
    /\ pc' = "done"
    /\ \E patch \in PatchesOf(tree) : EndStep(Status(patch), patch, "zero")
    /\ UNCHANGED <<conf, nCalls, timeouts, tree>>

Grade ==
    /\ pc = "submit" /\ Graded
    /\ pc' = "done" /\ tree' = "tests"
    /\ \E patch \in PatchesOf(tree) : EndStep(Status(patch), patch, "graded")
    /\ UNCHANGED <<conf, nCalls, timeouts>>

(* apply_test_patch raises: its last method, patch --batch, may have put   *)
(* some of the tests into the repository.                                  *)
TestPatchFails ==
    /\ pc = "submit" /\ Graded
    /\ tree' \in {tree, "sometests"}
    /\ SubmissionRaises
    /\ UNCHANGED <<conf, nCalls, timeouts, fails, info, saved>>

(* step, after the submission: the files the patch modifies are read for   *)
(* the trajectory, and one that is not UTF-8, or that the tests removed,   *)
(* raises where nothing catches it, before anything is saved.              *)
FilesUnreadable ==
    /\ pc = "submit" /\ pc' = "raised"
    /\ tree' = IF Graded THEN "tests" ELSE tree
    /\ UNCHANGED <<conf, exit, nCalls, timeouts, fails, info, saved, record>>

Ended == pc \in {"done", "raised"} /\ UNCHANGED vars

-----------------------------------------------------------------------------
Next ==
    \/ Setup \/ TimeExceeded \/ Answer \/ Fatal
    \/ ExitCommand \/ NotExecuted \/ Executed \/ TimedOut
    \/ NoPatch \/ NoPatchFile \/ Ungraded \/ Grade \/ TestPatchFails
    \/ FilesUnreadable
    \/ Ended

(* The model and the sandbox answer in the end: queries and commands have  *)
(* timeouts of their own.                                                  *)
Spec == Init /\ [][Next]_vars /\ WF_vars(Next)

-----------------------------------------------------------------------------
(* The counters stay within the limits that reset them, and a step ends    *)
(* for one of four reasons.                                                *)
TypeOK ==
    /\ conf \in {"sky", "sandbox", "eval"}
    /\ pc \in {"setup", "query", "act", "submit", "done", "raised"}
    /\ exit \in [why : {"submit", "format", "limit", "error"}, reward : {0, 1}]
    /\ nCalls \in Nat
    /\ timeouts \in 0 .. MaxTimeouts /\ fails \in 0 .. MaxRequeries
    /\ tree \in {"work", "sometests", "tests"}
    /\ info \in [status : {"none", "exit_command", "exit", "submitted",
                           "autosubmitted"},
                 submission : {"none", "work", "sometests", "tests"},
                 reward : {"none", "zero", "graded"}]
    /\ saved \in {"nofile", "none", "exit_command", "exit", "submitted",
                  "autosubmitted"}
    /\ record \in {"whole", "open", "lost"}

(* The commands an agent runs are bounded by the step limit and the number *)
(* of timeouts in a row, however retries, requeries and timeouts mix:      *)
(* handle_action tests the limit only where a command did not time out.    *)
CallsBounded == nCalls <= StepLimit + MaxTimeouts - 1

(* Every run ends: no mix of malformed answers, retry tokens, timeouts and *)
(* missing patch files keeps forward_with_handling or run in its loop.     *)
Ends == <>(pc \in {"done", "raised"})

(* A submission never holds the whole test patch, and one that holds some  *)
(* of it, left by an apply_test_patch that failed, is never reported as an *)
(* ordinary submission, nor graded unless config.eval asks for it.         *)
SubmissionClean ==
    /\ info.submission # "tests"
    /\ info.submission = "sometests"
       => info.status = "autosubmitted" /\ (info.reward = "graded" => conf = "eval")

(* What handle_action executes is in the trajectory, unless the model was  *)
(* told to retry without output, or the run was cut short by an error or a *)
(* limit: then the step that ended it, and only that one, is missing.      *)
RecordedUnlessCutShort ==
    /\ pc = "query" => record = "whole"
    /\ pc = "done" /\ record # "whole" => info.status \in {"exit", "autosubmitted"}

(* On disk a run is said to have ended exactly when it has: a run that     *)
(* raised, or was killed at any point, reads as unfinished and is run      *)
(* again by run_batch.                                                     *)
SavedAsEnded == saved \notin {"nofile", "none"} <=> pc = "done"

=============================================================================
