------------------------------ MODULE RunBatch ------------------------------
(***************************************************************************)
(* sweagent run-batch: RunBatch of SWE-agent/sweagent/run/run_batch.py,    *)
(* with save_predictions (run/common.py), merge_predictions and the hook   *)
(* that saves patches (run/hooks/apply_patch.py).                          *)
(*                                                                         *)
(* Instances 1 .. N are worked on by a thread pool, or by the main thread  *)
(* where there is one worker, which is a pool of one that stops for its    *)
(* first exception.  job[i] is where run_instance is on instance i, which  *)
(* ends in "skipped", "ok", "failed" (an exception that is only logged),   *)
(* or raises: "error", or "break" for _BreakLoop; "seen" once the main     *)
(* thread has read that from the future; "cancelled" if it never started.  *)
(*                                                                         *)
(* The files outlive the process.  A .traj is "broken" when a write_text   *)
(* was cut short, "unfinished" without and "ended" with an exit status; a  *)
(* .pred is "current" if it is of the trajectory beside it, "stale" if     *)
(* that has been written or removed since.                                 *)
(***************************************************************************)
EXTENDS Integers, FiniteSets

CONSTANTS N,              \* the number of instances
          MaxWorkers,     \* bound on num_workers
          MaxRetries,     \* agent_config.max_retries
          MaxRuns,        \* bound on the times the batch is run
          MaxInterrupts   \* bound on the Ctrl-C in one run

ASSUME RunBatchAssumption ==
    /\ {N, MaxWorkers, MaxRetries, MaxRuns} \subseteq Nat \ {0}
    /\ MaxInterrupts \in Nat

Instances == 1 .. N

VARIABLES
    conf,        \* num_workers, raise_exceptions and redo_existing of the run
    main,        \* where main is
    job,         \* where run_instance is, per instance
    attempt,     \* the attempt of _run_instance's loop
    hooked,      \* _problem_statement of the patch hook, shared by all workers
    traj, pred,  \* the .traj and the .pred of an instance
    patch,       \* whose submission the .patch of an instance holds, 0 for none
    preds,       \* what preds.json holds of an instance
    runs, interrupts

vars == <<conf, main, job, attempt, hooked, traj, pred, patch, preds, runs, interrupts>>
files == <<traj, pred, patch, preds>>
bounds == <<runs, interrupts>>

-----------------------------------------------------------------------------
Busy == {"check", "start", "run", "close", "closeError", "closeExit", "save", "hook"}
Over == {"skipped", "ok", "failed", "seen", "cancelled"}
Raised == {"error", "break"}

running == {i \in Instances : job[i] \in Busy}

(* What a .pred is worth once the trajectory beside it is replaced. *)
Outdated(p) == IF p = "current" THEN "stale" ELSE p

Flags == [workers : 1 .. MaxWorkers, raise : {"yes", "no"}, redo : {"yes", "no"}]

All(state) == [i \in Instances |-> state]

Init ==
    /\ conf \in Flags /\ main = "working" /\ hooked = 0
    /\ job = All("pending") /\ attempt = All(0)
    /\ traj = All("none") /\ pred = All("none") /\ preds = All("none")
    /\ patch = All(0)
    /\ runs = 1 /\ interrupts = 0

Job(i, s) == job' = [job EXCEPT ![i] = s]

-----------------------------------------------------------------------------
(* The pool takes the instances in order.  A single worker is the main     *)
(* thread itself, which stops at once for an exception.                    *)
Start(i) ==
    /\ job[i] = "pending" /\ \A j \in 1 .. i - 1 : job[j] # "pending"
    /\ Cardinality(running) < conf.workers
    /\ conf.workers = 1 => main = "working" /\ \A j \in Instances : job[j] \notin Raised
    /\ Job(i, "check")
    /\ UNCHANGED <<conf, main, attempt, hooked, files, bounds>>

(* should_skip: an ended trajectory is kept and the instance skipped; any  *)
(* other is deleted and the instance done again.                           *)
SkippableNot(t) == FALSE
Skippable(t) == t = "ended"

Skip(i) ==
    /\ job[i] = "check" /\ conf.redo = "no" /\ Skippable(traj[i])
    /\ Job(i, "skipped")
    /\ UNCHANGED <<conf, main, attempt, hooked, files, bounds>>

DoNotSkip(i) ==
    /\ job[i] = "check" /\ (conf.redo = "no" => ~Skippable(traj[i]))
    /\ Job(i, "start")
    /\ IF conf.redo = "no"
       THEN /\ traj' = [traj EXCEPT ![i] = "none"]
            /\ pred' = [pred EXCEPT ![i] = Outdated(@)]
       ELSE UNCHANGED <<traj, pred>>
    /\ UNCHANGED <<conf, main, attempt, hooked, patch, preds, bounds>>

-----------------------------------------------------------------------------
(* _run_instance: the attempts.  There is no break after one that worked,  *)
(* so every attempt is made; what the last one does is what counts.        *)
EarlierKept(i, s) ==
    IF attempt[i] + 1 < MaxRetries THEN "start"
    ELSE IF s = "ok" \/ attempt[i] > 0 THEN "save" ELSE s
AfterAttempt(i, s) ==
    IF attempt[i] + 1 < MaxRetries THEN "start" ELSE IF s = "ok" THEN "save" ELSE s

(* What run_instance makes of an exception: it is logged, or raised if the *)
(* user says so; and one of the agent that tells of a wrong configuration  *)
(* or an exhausted budget ends the batch.                                  *)
Failure == IF conf.raise = "yes" THEN "error" ELSE "failed"
Fatal == IF conf.raise = "yes" THEN "error" ELSE "break"

AttemptUncounted(i, outcomes) ==
    /\ \E s \in outcomes : Job(i, AfterAttempt(i, s))
    /\ UNCHANGED attempt
AttemptEnds(i, outcomes) ==
    /\ \E s \in outcomes : Job(i, AfterAttempt(i, s))
    /\ attempt' = [attempt EXCEPT ![i] = @ + 1]

(* from_config raises, or the environment fails to start and is closed.    *)
NoEnvironment(i) ==
    /\ job[i] = "start"
    /\ \/ AttemptEnds(i, {Failure})
       \/ Job(i, "closeError") /\ UNCHANGED attempt
    /\ UNCHANGED <<conf, main, hooked, files, bounds>>

(* env.start, then on_instance_start.                                      *)
HookFor(i) == i

Started(i) ==
    /\ job[i] = "start" /\ Job(i, "run")
    /\ hooked' = HookFor(i)
    /\ UNCHANGED <<conf, main, attempt, files, bounds>>

(* agent.run saves the trajectory after each of its steps, the last with   *)
(* an exit status.  The same agent makes all attempts of an instance.      *)
AgentStep(i) ==
    /\ job[i] = "run"
    /\ traj' = [traj EXCEPT ![i] = "unfinished"]
    /\ pred' = [pred EXCEPT ![i] = Outdated(@)]
    /\ UNCHANGED <<conf, main, job, attempt, hooked, patch, preds, bounds>>

AgentEnds(i) ==
    /\ job[i] = "run" /\ Job(i, "close")
    /\ traj' = [traj EXCEPT ![i] = "ended"]
    /\ pred' = [pred EXCEPT ![i] = Outdated(@)]
    /\ UNCHANGED <<conf, main, attempt, hooked, patch, preds, bounds>>

AgentRaises(i) ==
    /\ job[i] = "run" /\ Job(i, "closeError")
    /\ UNCHANGED <<conf, main, attempt, hooked, files, bounds>>

(* env.close, in a finally: an exception in it replaces the result or what *)
(* was raised, even a KeyboardInterrupt, which no retry would catch.       *)
Closed(i) ==
    /\ \/ job[i] = "close" /\ AttemptEnds(i, {"ok", Failure})
       \/ job[i] = "closeError" /\ AttemptEnds(i, {Failure, Fatal})
       \/ /\ job[i] = "closeExit"
          /\ AttemptEnds(i, {Failure}) \/ (Job(i, "break") /\ UNCHANGED attempt)
    /\ UNCHANGED <<conf, main, hooked, files, bounds>>

-----------------------------------------------------------------------------
(* save_predictions, after the last attempt; then on_instance_completed:   *)
(* _save_patch writes to the directory of the instance the hook knows,     *)
(* or nothing where there is no submission.                                *)
Save(i) ==
    /\ job[i] = "save" /\ Job(i, "hook")
    /\ pred' = [pred EXCEPT ![i] = "current"]
    /\ UNCHANGED <<conf, main, attempt, hooked, traj, patch, preds, bounds>>

Completed(i) ==
    /\ job[i] = "hook" /\ Job(i, "ok")
    /\ patch' \in {patch, [patch EXCEPT ![hooked] = i]}
    /\ UNCHANGED <<conf, main, attempt, hooked, traj, pred, preds, bounds>>

Worker(i) ==
    \/ Start(i) \/ Skip(i) \/ DoNotSkip(i) \/ NoEnvironment(i) \/ Started(i)
    \/ AgentStep(i) \/ AgentEnds(i) \/ AgentRaises(i) \/ Closed(i)
    \/ Save(i) \/ Completed(i)

-----------------------------------------------------------------------------
(* main: as_completed hands over the futures as they finish.  _BreakLoop   *)
(* cancels what has not started; another exception leaves the pool, which  *)
(* first runs all that was submitted, and then main.  One worker has no    *)
(* pool.                                                                   *)
Cancel(j) == [i \in Instances |-> IF j[i] = "pending" THEN "cancelled" ELSE j[i]]

Seen(i) == [job EXCEPT ![i] = "seen"]

SeeBreak(i) ==
    /\ main = "working" /\ job[i] = "break"
    /\ job' = Cancel(Seen(i)) /\ main' = "stopping"
    /\ UNCHANGED <<conf, attempt, hooked, files, bounds>>

SeeError(i) ==
    /\ main = "working" /\ job[i] = "error" /\ main' = "raising"
    /\ job' = IF conf.workers = 1 THEN Cancel(Seen(i)) ELSE Seen(i)
    /\ UNCHANGED <<conf, attempt, hooked, files, bounds>>

(* Everything is waited for before the predictions are merged. *)
FinishedEarly == \A i \in Instances : job[i] \in Over \cup Raised \/ main = "stopping"
Finished == \A i \in Instances : job[i] \in Over \/ (main # "working" /\ job[i] \in Raised)

AllDone ==
    /\ main \in {"working", "stopping", "raising"} /\ Finished
    /\ main' = IF main = "raising" THEN "raised" ELSE "merging"
    /\ UNCHANGED <<conf, job, attempt, hooked, files, bounds>>

(* merge_predictions: a .pred that was cut short makes json.loads raise;   *)
(* where there is none, preds.json is left alone.                          *)
Predicted == pred # All("none")

Merge ==
    /\ main = "merging"
    /\ IF \A i \in Instances : pred[i] # "broken"
       THEN /\ main' = "ended"
            /\ preds' = IF Predicted THEN pred ELSE preds
       ELSE main' = "raised" /\ UNCHANGED preds
    /\ UNCHANGED <<conf, job, attempt, hooked, traj, pred, patch, bounds>>

-----------------------------------------------------------------------------
(* A file that is being written when the process is killed, or its only    *)
(* thread interrupted, may be cut short.                                   *)
Torn(f, states) ==
    {[i \in Instances |-> IF i \in s THEN "broken" ELSE f[i]] :
        s \in SUBSET {i \in Instances : job[i] \in states}}

CutShort ==
    /\ traj' \in Torn(traj, {"run"})
    /\ pred' \in {[i \in Instances |-> IF traj'[i] # traj[i] THEN Outdated(p[i]) ELSE p[i]] :
                    p \in Torn(pred, {"save"})}
    /\ preds' \in IF main = "merging" /\ Predicted THEN {preds, All("broken")} ELSE {preds}

(* KeyboardInterrupt in the main thread.  With a pool, the first cancels   *)
(* what has not started and the second leaves the wait for the rest, which *)
(* still runs to its end.                                                  *)
InterruptPool ==
    /\ conf.workers > 1 /\ UNCHANGED <<traj, pred, preds>>
    /\ \/ main = "working" /\ main' = "stopping" /\ job' = Cancel(job)
       \/ main \in {"stopping", "raising"} /\ main' = "raised" /\ UNCHANGED job

(* One worker: inside _run_instance it becomes _BreakLoop, after the       *)
(* environment is closed.                                                  *)
InterruptSingle ==
    /\ conf.workers = 1 /\ UNCHANGED main /\ CutShort
    /\ \E i \in Instances :
          \/ job[i] \in {"start", "run"} /\ Job(i, "closeExit")
          \/ job[i] \in {"close", "closeError", "save", "hook"} /\ Job(i, "break")

(* In should_skip, between instances and while merging it leaves main.     *)
Abandon == job' = [i \in Instances |-> IF job[i] \in Over THEN job[i] ELSE "cancelled"]

InterruptMain ==
    /\ \/ main = "working" /\ conf.workers = 1 /\ \A i \in running : job[i] = "check"
       \/ main = "merging"
    /\ main' = "raised" /\ Abandon /\ CutShort

Interrupt ==
    /\ interrupts < MaxInterrupts /\ interrupts' = interrupts + 1
    /\ InterruptPool \/ InterruptSingle \/ InterruptMain
    /\ UNCHANGED <<conf, attempt, hooked, patch, runs>>

(* The process is killed. *)
Kill ==
    /\ main \in {"working", "stopping", "raising", "merging"} \/ running # {}
    /\ main' = "killed" /\ Abandon /\ CutShort
    /\ UNCHANGED <<conf, attempt, hooked, patch, bounds>>

(* The batch is run again on the same output directory. *)
RunAgain ==
    /\ main \in {"ended", "raised", "killed"} /\ running = {}
    /\ \A i \in Instances : job[i] # "pending"
    /\ runs < MaxRuns /\ runs' = runs + 1
    /\ conf' \in Flags /\ main' = "working" /\ hooked' = 0
    /\ job' = All("pending") /\ attempt' = All(0)
    /\ interrupts' = 0
    /\ UNCHANGED files

-----------------------------------------------------------------------------
Main ==
    \/ \E i \in Instances : SeeBreak(i) \/ SeeError(i)
    \/ AllDone \/ Merge

Next ==
    \/ \E i \in Instances : Worker(i)
    \/ Main \/ Interrupt \/ Kill \/ RunAgain

(* The threads are scheduled, agents end their runs and environments close: *)
(* AgentLoop shows the former for the agents here.                          *)
Fairness ==
    /\ WF_vars(Main)
    /\ \A i \in Instances :
         /\ WF_vars(Worker(i))
         /\ WF_vars(AgentEnds(i) \/ AgentRaises(i))

Spec == Init /\ [][Next]_vars
FairSpec == Spec /\ Fairness

-----------------------------------------------------------------------------
(* The states of run_instance and of the files, and the loop over attempts *)
(* that never makes more than max_retries.                                 *)
TypeOK ==
    /\ conf \in Flags
    /\ main \in {"working", "stopping", "raising", "merging", "ended", "raised", "killed"}
    /\ job \in [Instances -> {"pending"} \cup Busy \cup Over \cup Raised]
    /\ attempt \in [Instances -> 0 .. MaxRetries]
    /\ hooked \in 0 .. N
    /\ traj \in [Instances -> {"none", "broken", "unfinished", "ended"}]
    /\ pred \in [Instances -> {"none", "broken", "current", "stale"}]
    /\ preds \in [Instances -> {"none", "broken", "current", "stale"}]
    /\ patch \in [Instances -> 0 .. N]
    /\ runs \in 1 .. MaxRuns /\ interrupts \in 0 .. MaxInterrupts

(* However attempts succeed and fail, a prediction is that of the finished *)
(* trajectory beside it or older: never of an attempt whose trajectory a   *)
(* later attempt has overwritten without finishing.  What is reported done *)
(* has its own prediction, and what is skipped has a finished trajectory.  *)
PredFits ==
    \A i \in Instances :
        /\ pred[i] = "current" \/ job[i] \in {"ok", "skipped"} => traj[i] = "ended"
        /\ job[i] = "ok" => pred[i] = "current"

(* What a run has completed is not touched again, by its own workers or by *)
(* any number of later runs, kills and interrupts, unless redo_existing.   *)
CompletedKept ==
    [][\A i \in Instances :
        conf.redo = "no" /\ pred[i] = "current"
        => pred'[i] = "current" /\ traj'[i] = "ended"]_vars

(* Once the batch stops nothing new is started; with one worker nothing is *)
(* even started after an exception that was not merely logged.             *)
StopsAtBreak ==
    /\ main \in {"stopping", "merging", "ended"} => \A i \in Instances : job[i] # "pending"
    /\ conf.workers = 1
       => \A i, j \in Instances :
            i < j /\ job[i] \in Raised \cup {"seen"} => job[j] \in {"pending", "cancelled"}

(* preds.json holds what the .pred files hold when run-batch ends, also    *)
(* when it was stopped with instances still running.                       *)
MergedAll == main = "ended" => running = {} /\ preds = pred

(* A run with one worker saves each patch under the name of the instance   *)
(* it solves, however attempts and environments failed before.  (With more *)
(* workers it does not: hooked is that of the last instance to start.)     *)
PatchOwn ==
    [][conf.workers = 1 => \A i \in Instances : patch'[i] \in {patch[i], i}]_vars

(* Every run of the batch comes to an end, whatever is interrupted.        *)
RunsEnd == []<>(main \in {"ended", "raised", "killed"} /\ running = {})

=============================================================================
