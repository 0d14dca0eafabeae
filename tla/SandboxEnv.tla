----------------------------- MODULE SandboxEnv -----------------------------
(***************************************************************************)
(* The life of one sandbox: SWEsbEnv of SWE-agent/sweagent/environment/    *)
(* swe_sbenv.py over SandboxDeployment of sandboxdev/swesandbox and        *)
(* LocalRuntime of SWE-ReX/src/swerex/runtime/sandbox.py, as one caller    *)
(* uses it (an attempt of _run_instance): from_config, start, the agent's  *)
(* calls, close, and the hard_reset the class offers.                      *)
(*                                                                         *)
(* A sandbox is a directory of its own on the host, root, and a bash       *)
(* chrooted into it, registered as the runtime's session "default".  The   *)
(* session is "open"; "broken" if start raised, its bash perhaps alive; or *)
(* "closed", and stays registered then.  communicate(check="raise") closes *)
(* the whole environment when a command fails, under whatever called it.   *)
(***************************************************************************)
EXTENDS Naturals

CONSTANTS CloneTries,     \* try_count of copy2
          ResetTries,     \* try_count of _reset_repository
          PatchTries,     \* max_num_tries of get_patch
          MaxUses,        \* bound on the agent's calls
          MaxHardResets   \* bound on the hard resets

ASSUME SandboxEnvAssumption ==
    {CloneTries, ResetTries, PatchTries, MaxUses, MaxHardResets} \subseteq Nat \ {0}

VARIABLES
    pc,       \* where the caller is
    then,     \* what follows a repository reset: the rest of start or pre_check
    root,     \* the host directory
    session,  \* the session "default" of the runtime
    tree,     \* the repository in the sandbox
    tries,    \* the counter of the retry loop that is running
    uses, hardResets,
    lapse     \* history: what went wrong in a way the code cannot undo

vars == <<pc, then, root, session, tree, tries, uses, hardResets, lapse>>
bounds == <<uses, hardResets>>

-----------------------------------------------------------------------------
Init ==
    /\ pc = "config" /\ then = "build"
    /\ root = "none" /\ session = "none" /\ tree = "none"
    /\ tries = 0 /\ uses = 0 /\ hardResets = 0 /\ lapse = "no"

(* An exception reaches the caller, whose finally closes the environment.  *)
Raise == pc' = "raised"

(* deployment.stop: rm -rf of the directory, whose result is not looked at *)
(* (a process the agent left behind may still write there); the close task *)
(* runs when asyncio.run ends.  Neither the runtime nor the session is     *)
(* forgotten.                                                              *)
RegisteredClosed(s) == IF s = "none" THEN "none" ELSE "closed"

Stop ==
    /\ \/ root' = "removed" /\ UNCHANGED lapse
       \/ root' = "leftover" /\ lapse' = "rm"
    /\ session' = RegisteredClosed(session) /\ tree' = "none"

Keep == UNCHANGED <<root, session, tree, lapse>>

(* A command of start itself, sent with check="raise" to run_in_session:   *)
(* only an open session runs it, and a failure leaves it open.             *)
Command(onSuccess) ==
    \/ session = "open" /\ onSuccess
    \/ Raise /\ UNCHANGED <<then, tree, tries>>

-----------------------------------------------------------------------------
(* from_config: create_unique_folder, then the constructor, which unpacks  *)
(* the tools into the folder and looks up the specification.  When it      *)
(* raises there is no object to close.                                     *)
FromConfig ==
    /\ pc = "config" /\ root' = "made"
    /\ \/ pc' = "start" /\ UNCHANGED lapse
       \/ pc' = "done" /\ lapse' = "constructor"
    /\ UNCHANGED <<then, session, tree, tries, bounds>>

(* The names create_session refuses: those of closed sessions too. *)
InUse(s) == s \in {"open", "broken"}
Registered(s) == s # "none"

(* _init_deployment: startup makes the mount points; create_session then   *)
(* refuses a name that is registered, registers the session, and starts it. *)
CreateSession ==
    /\ pc = "start" /\ root' = "made"
    /\ IF Registered(session)
       THEN Raise /\ UNCHANGED session
       ELSE \/ session' = "open" /\ pc' = "variables"
            \/ session' = "broken" /\ Raise
    /\ UNCHANGED <<then, tree, tries, bounds, lapse>>

(* communicate(check="raise"): a session that is not open, a timeout and a *)
(* syntax error raise; another exit code than 0 closes the environment     *)
(* first.                                                                  *)
Fails == \/ Keep
         \/ session = "open" /\ Stop

SetVariables ==
    /\ pc = "variables"
    /\ \/ session = "open" /\ pc' = "copy" /\ Keep
       \/ Fails /\ Raise
    /\ UNCHANGED <<then, tries, bounds>>

(* copy2: unpack the cached repository, or clone: the first commands once, *)
(* fetch and checkout with retries.                                        *)
CopyCached ==
    /\ pc = "copy"
    /\ \/ tree' = "clean" /\ pc' = "build"
       \/ Raise /\ UNCHANGED tree
    /\ UNCHANGED <<then, root, session, tries, bounds, lapse>>

CloneInit ==
    /\ pc = "copy"
    /\ Command(pc' = "fetch" /\ tree' = "empty" /\ tries' = 0 /\ UNCHANGED then)
    /\ UNCHANGED <<root, session, bounds, lapse>>

Fetch ==
    /\ pc = "fetch"
    /\ \/ /\ session = "open" /\ tree' = "checkedout"
          /\ pc' = "reset" /\ then' = "build" /\ tries' = 0
       \/ /\ tries' = tries + 1 /\ pc' = IF tries' = CloneTries THEN "raised" ELSE "fetch"
          /\ UNCHANGED <<then, tree>>
    /\ UNCHANGED <<root, session, bounds, lapse>>

(* _reset_repository: the tries, then the commit.                          *)
TriedOften(n) == n = ResetTries

GiveUpQuietly == then
GiveUp == "raised"

CountedNot(n) == n
Counted(n) == n + 1

ResetWorks ==
    /\ pc = "reset" /\ session = "open" /\ pc' = "commit"
    /\ tree' = "clean"
    /\ UNCHANGED <<then, root, session, tries, bounds, lapse>>

ResetFails ==
    /\ pc = "reset" /\ Fails
    /\ tries' = Counted(tries) /\ pc' = IF TriedOften(tries') THEN GiveUp ELSE "reset"
    /\ UNCHANGED <<then, bounds>>

Commit ==
    /\ pc = "commit"
    /\ \/ session = "open" /\ pc' = then /\ Keep
       \/ Fails /\ Raise
    /\ UNCHANGED <<then, tries, bounds>>

(* post_init: the commands that build and activate the virtual             *)
(* environment, install the tools and reset the shell.                     *)
PostInit ==
    /\ pc = "build"
    /\ Command(pc' = "ready" /\ UNCHANGED <<then, tree, tries>>)
    /\ UNCHANGED <<root, session, bounds, lapse>>

-----------------------------------------------------------------------------
(* pre_check: the solution and the tests are put into the repository and   *)
(* graded, where any exception is reward 0; then the repository is reset   *)
(* and so is the shell.                                                    *)
PreCheck ==
    /\ pc = "ready" /\ tree = "clean" /\ uses < MaxUses /\ uses' = uses + 1
    /\ \/ Raise /\ UNCHANGED <<then, tries>>
       \/ pc' = "reset" /\ then' = "shell" /\ tries' = 0
    /\ tree' = "solution"
    /\ UNCHANGED <<root, session, hardResets, lapse>>

ResetShell ==
    /\ pc = "shell"
    /\ Command(pc' = "ready" /\ UNCHANGED <<then, tree, tries>>)
    /\ UNCHANGED <<root, session, bounds, lapse>>

(* A command of the agent: whatever its exit code, the session stays.  The *)
(* caller catches what it raises, and may go on.                           *)
Use ==
    /\ pc = "ready" /\ uses < MaxUses /\ uses' = uses + 1
    /\ tree' \in {tree, "work"}
    /\ UNCHANGED <<pc, then, root, session, tries, hardResets, lapse>>

(* set_env_variables, which the agent calls in its setup.                  *)
UseOrRaise ==
    /\ pc = "ready" /\ uses < MaxUses /\ uses' = uses + 1
    /\ \/ Keep /\ pc' \in {"ready", "raised"}
       \/ Stop /\ Raise
    /\ UNCHANGED <<then, tries, hardResets>>

(* get_patch, with a retry after a pause.                                  *)
GetPatch ==
    /\ pc = "ready" /\ uses < MaxUses /\ uses' = uses + 1
    /\ pc' = "patch" /\ tries' = 0
    /\ UNCHANGED <<then, root, session, tree, hardResets, lapse>>

Patch ==
    /\ pc = "patch"
    /\ \/ pc' = "ready" /\ UNCHANGED tries
       \/ tries' = tries + 1 /\ pc' = IF tries' = PatchTries THEN "raised" ELSE "patch"
    /\ UNCHANGED <<then, root, session, tree, bounds, lapse>>

-----------------------------------------------------------------------------
(* close, by the caller.                                                   *)
CloseReady ==
    /\ pc \in {"ready", "raised"} /\ pc' = "done"
    /\ IF pc = "ready" THEN Stop ELSE Keep
    /\ UNCHANGED <<then, tries, bounds>>
Close ==
    /\ pc \in {"ready", "raised"} /\ pc' = "done"
    /\ Stop
    /\ UNCHANGED <<then, tries, bounds>>

(* hard_reset: close and start. *)
HardReset ==
    /\ pc = "ready" /\ pc' = "start"
    /\ hardResets < MaxHardResets /\ hardResets' = hardResets + 1
    /\ Stop
    /\ UNCHANGED <<then, tries, uses>>

(* SandboxDeployment.__del__ stops once more, if there was a runtime.       *)
Collect ==
    /\ pc = "done" /\ pc' = "collected"
    /\ IF lapse = "constructor" THEN Keep ELSE Stop
    /\ UNCHANGED <<then, tries, bounds>>

Next ==
    \/ FromConfig \/ CreateSession \/ SetVariables
    \/ CopyCached \/ CloneInit \/ Fetch \/ ResetWorks \/ ResetFails \/ Commit \/ PostInit
    \/ PreCheck \/ ResetShell \/ Use \/ UseOrRaise \/ GetPatch \/ Patch
    \/ Close \/ HardReset \/ Collect

(* Commands have timeouts, and the caller comes to its finally. *)
Spec == Init /\ [][Next]_vars /\ WF_vars(Next)

-----------------------------------------------------------------------------
(* The values of the state, and the bounds of the loops that retry.        *)
TypeOK ==
    /\ pc \in {"config", "start", "variables", "copy", "fetch", "reset", "commit",
               "build", "ready", "shell", "patch", "raised", "done", "collected"}
    /\ then \in {"build", "shell"}
    /\ root \in {"none", "made", "removed", "leftover"}
    /\ session \in {"none", "open", "broken", "closed"}
    /\ tree \in {"none", "empty", "checkedout", "clean", "work", "solution"}
    /\ tries \in Nat
    /\ pc = "fetch" => tries < CloneTries
    /\ pc = "reset" => tries < ResetTries
    /\ pc = "patch" => tries < PatchTries
    /\ uses \in 0 .. MaxUses /\ hardResets \in 0 .. MaxHardResets
    /\ lapse \in {"no", "rm", "constructor"}

(* However start and pre_check fail and retry, a sandbox the agent is given *)
(* has its directory, its session, and a repository at the base commit or  *)
(* with the agent's own work: never a half-cloned one, and never one with  *)
(* the solution that pre_check tried out.                                  *)
ReadyWhole ==
    pc \in {"ready", "patch"}
    => session = "open" /\ root = "made" /\ tree \in {"clean", "work"}

(* What communicate has closed under its caller stays closed: no retry and *)
(* no hard_reset brings back a session, so nothing runs in a directory     *)
(* that has been removed.  (hard_reset therefore always raises.)           *)
ClosedForGood ==
    [][session = "closed" => session' = "closed" /\ pc' \notin {"ready", "variables"}]_vars

(* When the caller is done, also after start failed half way or after a    *)
(* close under its feet, the directory and the bash are gone, unless the   *)
(* constructor raised or rm itself failed.                                 *)
NothingLeft ==
    pc \in {"done", "collected"} /\ lapse = "no" => root = "removed" /\ session \in {"none", "closed"}

(* Every attempt comes to its end: nested retries over an environment that *)
(* a failed command has closed do not go on for ever.                      *)
Finishes == <>(pc = "done")
=============================================================================
