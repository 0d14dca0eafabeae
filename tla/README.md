# SWE-MiniSandbox in TLA+

SWE-MiniSandbox runs software-engineering agents, for evaluation and for
reinforcement learning, without containers: every agent works in a directory of
the host that a bash is chrooted into, with a virtual environment and a
repository unpacked from archives that all workers of a machine share. This
directory holds TLA+ modules of that program, the TLC configurations that check
them on small instances, and proofs, checked by TLAPS, of the safety properties
for every value of the constants.

Paths are relative to the repository's root. `PROJECT.json` lists, for every
definition that models code, the lines it models; and the hazards of the code,
each with the properties aimed at it.

    tlc -config EnvCache.cfg MCEnvCache.tla     # model-check
    tlapm RunBatchProofs.tla                    # check proofs

## 1. The system

    run-batch ──── thread pool ────┬─ run_instance ─ hooks ─ .traj .pred .patch preds.json
    (SWE-agent/sweagent/run)       │        │
    SkyRL trainers ─ rollouts ─────┘        │ one attempt
    (SkyRL/skyrl-train;                     v
     checkpoints on disk)
                         SWEsbEnv ──────────────── DefaultAgent ─── model
                    (environment/swe_sbenv.py)   (agent/agent_sandbox.py,
                             │                    agent/sky_agent_sb.py)
                             v                         │ actions
                     SandboxDeployment                 v
                 (sandboxdev/swesandbox) ──── LocalRuntime, BashSession
                    │            │            (SWE-ReX runtime/sandbox.py)
                    v            v                     │
             shared archives   tar_extract_local    chrooted bash
             (venv, git, /tmp) + SizeCapacityLimiter

    clients ─ api.py ─ tables (futures, checkpoints) ─ engine.py ─ models
    (SkyRL/skyrl-tx/tx/tinker: a training service of its own)

| component | state | operations | hard because | correct when |
|---|---|---|---|---|
| Tar limiter: `SizeCapacityLimiter`, `tar_extract_local` (`sandboxdev/swesandbox/utils.py`) | MiB in use, tasks, a condition variable | acquire, release | threads, wake-ups, files larger than the budget | accounting exact, budget kept, no wake-up lost, nobody starved for ever |
| Environment cache: `build_env` (`sandbox_deployment.py`), `copy2` (`environment/repo.py`) | `venv.tar.gz` per image, a `.tar.gz` per instance, a shared creation directory, a temporary archive | look, remove, extract, create, install, pack | no lock: every look is stale when used; failures and kills while packing | a sandbox that goes on has a usable venv and an installed checkout |
| Tool copies: `copytree_via_tar`, `cached=True` | one archive under `/tmp` | look, pack, extract | several workers at a cold start | an archive at rest stays as it is; copies are whole but beside a writer, or after a packing that was cut off |
| Shell session: `BashSession` | a pseudo terminal, what is unread on it | run, interrupt | one stream carries outputs, prompts and exit codes; timeouts, late answers | a result belongs to its command; a good result proves the session in step |
| Agent loop: `DefaultAgent` | history, trajectory, counters, `info`, the `.traj` | setup, query, act, submit, autosubmit | a dozen exceptions with retries that call each other | ends, stays in its bounds, what it leaves says what happened |
| Batch: `RunBatch`, `merge_predictions`, the patch hook | files of every instance, the pool, flags | skip, retry, save, merge, break, interrupt, run again | thread pool, kills, re-runs | predictions fit trajectories; finished work is kept; stops when told |
| Sandbox lifecycle: `SWEsbEnv`, `SandboxDeployment`, `LocalRuntime` | the directory, the session "default", the repository | create, start, reset, pre-check, use, close, hard reset | failed commands close the environment under their caller, in nested retries | what an agent is given is whole; nothing is left behind |
| Rollouts and training loops: `swe_generator.py`, `RayPPOTrainer`, `RayPPOAsynchTrainer`, `RolloutSignalActor` | tries, environment and result of every rollout; the step, its signal, a prefetched batch; the weights the engines serve | start, wait for the signal, run, close, retry; prefetch, signal, collect, train, sync, evaluate | Ray tasks that hold slots, two steps in flight, retries whose variables outlive an attempt | an agent answers with the weights of its step; a reward belongs to the history it comes with; nothing stays open but what could not be closed; the training ends |
| Checkpoints: `save_checkpoints`, `load_checkpoints`, `cleanup_old_checkpoints` | folders of parts, the file that names the newest, exports; the place in the data | save part by part, clean up, resume in three modes, refresh the reference model | a crash between or within any two writes, several restarts, a batch taken ahead | what is named can be loaded; no batch is trained twice or left out; the run ends |
| Training service: `tx/tinker` (`api.py`, `engine.py`) | tables of requests and checkpoints; adapters, gradients and weights in memory | send, four queries, batches, single requests, complete | requests arrive between two queries; a batch, a request or the engine fails | a gradient counts once unless an update fails behind it, updates keep the order of the requests, everything is answered |
| Grading: `_calculate_reward` | test reports | apply tests, run, compare | failures look like wrong patches | not modelled |
| `InferenceEngineClient` | paused flag, partial completions | chat completion, pause, resume | abort races with submission | not modelled |

The rest (containers and the other runtimes of SWE-ReX, the other agents,
models, history processors, tools, hooks, data sets, the other run commands,
the other SkyRL libraries, SWE-smith, SWE-bench, R2E-Gym) is listed in `PROJECT.json`
with the reason it is left out.

Components meet in five places. The deployment calls the limiter for every
extraction, and the cache and the tool copies share the file model. The
lifecycle contains the cache as one step (the cache's module is the inside of
that step), and its commands run in the session. The agent loop uses a sandbox
through commands that may do anything a `BashSession` call may do; and a batch
uses agent loop and lifecycle as an attempt that starts, writes trajectories
and returns or raises. So does a rollout of the trainers; their loops appear
twice, in `RolloutSteps` with the rollouts of a step and without a crash, and in
`TrainerCheckpoints` with crashes and the disk, where the rollouts of a step are
one step. Each module therefore keeps its neighbours' interface
as nondeterminism at least as wide as what their modules allow, instead of one
product of all of them that TLC could not explore.

## 2. The modules

### CapacityLimiter, over CapacityBroker and Weights

`acquire` and `release` are a monitor, so a critical section is an action:
`Request` (the file's size is read and `acquire` called), `Admit` (a branch of
`acquire` finds its condition true), `Wait` (it does not, and gives up the
lock), `Release` (the `finally` clause, with both clamps and `notify_all`). A
file larger than the whole budget is `Oversize`: it waits for an empty budget
and *sets* the counter. `CapacityBroker` is the abstract specification: a set
of holders, each with its weight, entered only if it fits or is alone. The
refinement maps the threads that extract to holders.

### SharedFile, EnvCache, CopyTree

`SharedFile` is a file that several processes write with `tarfile.open(..., "w")`
without a lock: opening truncates, closing leaves the data of the last writer or
a mixture, a kill cuts it off, an exception while packing either leaves an
unreadable file or one that reads as complete although members are missing.

`EnvCache` follows one attempt after the other through `copy2` and `build_env`,
one action between two accesses to anything shared: `RepoRemove`, `RepoCheck`,
`RepoExtract`, `RepoClone`; `VenvForce`, `VenvRemove`, `VenvCheck`,
`VenvExtract`, `PipCheck`, `PipInstall`; `StartCreate` to `RemoveSource` for the
creation branch, in which the venv is built in a directory of the host, copied
through a temporary archive, installed into, packed and removed; `GitCheck`,
`EndGit`. `Fail`, `FailPacking` and `Kill` are the faults. A checkout is
"cloned" or "good" (installed), a venv "good" or "short". `conf` holds
`force_rebuild`, `delete_after_create` and `cache_git`.

`CopyTree` is `copytree_via_tar` with `cached=True`, the way the constructor
copies the tool bundles, with a tool directory that someone may edit meanwhile.
Packing may raise, or its worker die (`Cut`), which leaves what was written in
place, because the `finally` clause keeps a cached archive; anything else in the
call may end it too (`Fail`). `mixture` remembers what went into the archive, and
"torn" once a packing was cut off.

### BashSession

The stream that bash prints and the session reads is a sequence of marks
(output of a call, prompt, unique string, exit code); what the session types is
a sequence of lines that bash reads whenever it is at a prompt. `Run` types the
command, `SeeEnd`, `BodyTimeout`, `SeeStatus`, `StatusTimeout`, `SeePrompt` and
`PromptTimeout` are the three waits of `_run_normal` with both outcomes,
`SendIntr` to `InterruptFails` the loop of `interrupt`. Bash is modelled from
what the session relies on (external in the map): it reads a line at a prompt,
prints, returns to the prompt, or ignores a signal and runs for ever. The
session's own string that bash may print before `start` has set the prompt is a
prompt too many, one of the initial states.

### AgentLoop

`run` from `Setup` to "done" or "raised". A query leads to an action, a requery
or the end; an action is blocked, exits, executes (`Executed`) or times out
(`TimedOut`); a submission is read (`NoPatch`, `NoPatchFile`), graded
(`Ungraded`, `Grade`, `TestPatchFails`), and its files are read back
(`FilesUnreadable`). `exit` is the step that
`handle_error_with_autosubmission` builds: why the run ends, and the reward that
decides whether the patch is graded. The model, the sandbox and the clock answer
anything at any time. `conf` chooses between the two classes, which differ in
one constant, and `config.eval`.

### RunBatch

A pool of `num_workers` takes the instances in order; one worker is the main
thread itself. `run_instance` is `Start`, `Skip` or `DoNotSkip`; an attempt of
`_run_instance` is `NoEnvironment` or `Started`, then agent steps that write the
`.traj`, `AgentEnds` or `AgentRaises`, `Closed` (the `finally`), `Save` and
`Completed` (the patch hook, which keeps the problem statement in an attribute
of the one hook object that all workers share). The main thread is `SeeBreak`,
`SeeError`, `Finished`, `Cancel`, `AllDone`, `Merge`. `InterruptPool`,
`InterruptSingle` and `Kill` cut files short; `RunAgain` starts the batch over
them with other flags.

### SandboxEnv

One sandbox and its caller. `FromConfig`, `CreateSession`, `SetVariables`, the
repository (`CopyCached` or `CloneInit` and `Fetch`; `ResetWorks`, `ResetFails`,
`Commit`), `PostInit`; then `PreCheck`, `Use`, `UseOrRaise`, `GetPatch`/`Patch`,
`HardReset`, `Close` and `Collect` (`__del__`). `Fails` is
`communicate(check="raise")` with an exit code other than 0, which closes the
environment under whatever called it; `_reset_repository` catches that and
tries again.

### RolloutSteps

Three groups of rollouts, of this step, of the next one and of an evaluation. A
rollout is a Ray task: `Acquire` takes a slot; `StartSandbox` is
`monitor_cpu_with_children`, whose waiting loop ends only when the start
succeeds ("spin"); `CreateContainer` and `StartContainer` are the other
backend; `MakeAgent` waits for the signal of the rollout's step; `RunAgent` is the
agent with what it may leave behind. `Handled`, `Closed`, `Again` and `Return` are
the `except`, the `finally`, the `while` and what is returned, over the
variables that the attempts share. `Closed` has a second outcome for the prompts in
`Fragile`: `close` raises, the exception is swallowed, and the environment stays
open (`unclosed`). The driver is `Generate` (sets the signal,
takes the prefetched batch or queues a new one), `KeepSampling`, `Collected`
(which prefetches), `SyncWeights`, `EvalDone`, `NextStep`, `Finish` and `Fail`.
`cfg` chooses the trainer, the backend, the evaluations and the number of slots.

### TrainerCheckpoints

A model is the sequence of the batches it has been through, so that a batch
trained twice, or never, can be read off. `EpochStart`, `Fetch`, `KeepSampling`,
`Train` and `Export` are the loops; `SavePart` writes one part of a checkpoint
(policy, critic, data loader, trainer state, the file that names the newest, the
cleanup); `Start` is `load_checkpoints` in its three modes; `Crash` kills the
process anywhere, tearing what is being written. `lapses` records what has cost
a run its place in the data, or its disk the order of steps, so that the
properties can say "unless": among them that a run was started behind what is on
disk, and that a resumed run ended at a lower step than a folder on disk has
("early"). What
torchdata's loader does with a state that stands exactly at the end of an epoch
is left open (`Iterators`).

### TinkerEngine

`Send` is what the handlers of `api.py` do: check, insert a row, no more.
The engine's cycle is `FindBarriers`, `FindForwardBackward`, `FindSample`,
`FindOther`, four queries between which requests may arrive, then the two
batches, each with its `Complete`, and the other requests one by one
(`CreateModel`, `OptimStep`, `LoadWeights`, `SaveWeights`, `NotLoaded`), whose
outcomes are written together. Gradients are counts per request, weights the
sequence of the gradients they were updated with; a model's slot holds both what
it trains and the sampler checkpoint loaded last, as in the code, where
`nnx.split` shares the variables. A request may also fail half way: a
`CreateModel` after the model is registered leaves it loaded, perhaps without its
optimizer (`optimizers`), which `OptimStep`, `LoadWeights` and a save then miss; a
`LoadWeights` may have put in the weights; an `OptimStep` may have applied the
gradients that it does not get to reset (`SteppedAndFailed`), which `doubtful`
remembers. `Fault`s are a batch that fails after some of
its micro-batches, a request that fails, and `Crash`, after which the engine
starts again with empty memory and the tables of before.

## 3. What the runs check

| run | instance | distinct states | shows |
|---|---|---|---|
| `capacity_limiter` | 3 threads, budget 3, files of 0, 1, 2 and 5 | 2005 | `NoLostWakeup` (nobody waits for room that is there), `DrainServesAll` (when no new request comes, everybody is served), `ImplementsBroker` (within the budget, or one oversize file alone) |
| `env_cache` | 2 workers, 1 image, 2 instances, 3 attempts, 1 kill, 4 configurations, all faults | 527535 (with symmetry) | `UnusableVenvExplained`, `RepoFromCacheInstalled`: which races and faults can spoil a sandbox, and that nothing else can; `ForceRepairs`, `NothingLeftBehind`: an undisturbed attempt repairs and cleans |
| `copy_tree` | 3 workers, 2 copies each, 1 edit | 487638 | `AtRestForGood` (an archive nobody packs never changes, a cut one included), `EventuallySettled`, `ShortOnlyExplained` (whole but for a packing that was cut off; short copies only after that or beside a writer) |
| `bash_session` | 3 commands, 1 interrupt of 2 tries | 156104 | `InStep`, `OwnUnlessWarned`, `CodesInOrder`, `CallsEnd` |
| `agent_loop` | 4 steps, 3 timeouts in a row, 3 requeries | 4360 | `CallsBounded`, `SubmissionClean`, `RecordedUnlessCutShort`, `SavedAsEnded`, `Ends` |
| `run_batch` | 2 instances, 1 or 2 workers, 2 attempts, 2 runs, 1 interrupt and kills | 664667 | `PredFits`, `CompletedKept`, `MergedAll`, `RunsEnd` |
| `sandbox_env` | the tries of the code (3, 6, 2), 3 calls, 2 hard resets | 1094 | `ReadyWhole`, `NothingLeft`, `Finishes` |
| `rollout_steps` | 3 batches of 2 prompts, 2 attempts, 1 or 3 slots, 12 configurations with each, one prompt whose environments may raise when closed | 1236900 | `FreshWeights` (two steps in flight, yet no agent sees weights of another step), `SameAttempt`, `NoneLeftOpen` (what retries leave behind), `Ends` (and the three situations in which it does not) |
| `trainer_checkpoints` | 2 epochs of 2 batches, 3 starts in all modes, 5 trainers | 2648479 | `LatestComplete`, `RefusedOnlyTorn` (what a crash leaves on disk), `Consecutive`, `RefreshedByEpoch` (what a model has been through), `Completes` |
| `tinker_engine` | 2 models, 5 requests of 7 kinds, 1 fault or crash, 3 kinds of clients | 1496638 | `GradientsOnce`, `StepsInOrder`, `SampledAsNamed`, `CheckpointsSettle`, `AllAnswered` |

Each property's comment in its module says which behaviour it is about. Each
can be broken: next to a definition of the code stands a mutated form of it (a
dropped guard, a missing reset, an off-by-one), under which TLC finds the
property violated.

**Bounds.** Three threads are the least with which two waiters compete for what
a third releases; sizes 0, 1, 2, 5 under a budget of 3 give every comparison of
`acquire` both outcomes, and an oversize file. In the cache every race is
between one worker that looks and one that writes, so two workers show it; the
third attempt is the one that *finds* what the race left, and one kill leaves
every kind of torn file. The tool archive needs a third worker, to read while
two write. Three commands are one that goes wrong, one that reads its leftovers
and one that shows whether the session has recovered. In the agent loop the
limits only have to be large enough that each counter can be anywhere when
another reaches its end; the proofs remove them. Two instances are enough for
the hook they share and the order they are taken in, two runs for what a later
run does to the files of an earlier one. The sandbox's tries are those of the
code. In `rollout_steps` the third batch is the first one that is generated
after a prefetched one has been trained, two attempts give every variable an
older value to keep, one slot lets a single prefetched rollout hold all of them,
and three leave one for an evaluation beside a batch. The environments of one
prompt may raise when they are closed: rollouts share nothing but slots and the
signal, so the other one shows what happens beside it. In
`trainer_checkpoints` a second epoch is needed for the end of an epoch to matter,
and a third start for what a resumed run leaves behind; each trainer differs from
the plain one in what the others do not have. Five requests are a model, a
gradient, an update, a save and something that uses it, or two models that
share a batch; there is one adapter slot more than models, so that `CreateModel`
refuses only by a fault. Clients that do not wait send what concerns sampling or
what concerns saving and loading, which keeps the instance small enough; those that
wait send everything.

**Deadlock** is checked where the program should not stop (`capacity_limiter`,
`agent_loop`, which stutters explicitly at its end). The others stop when their
bounds are used up: the last attempt, copy, call or run is over, the caller of
the sandbox is done, or bash and session are both idle.

**Fairness.** `CapacityLimiter`: extractions end, and a thread whose condition
can be true gets the lock: strong fairness for admission would be more than
`threading.Condition` gives, which wakes all waiters in any order, so the
liveness property only speaks of a limiter with no new requests. `CopyTree`: a
copy that has begun takes its steps until it ends, whole, short or with an
exception; nothing is assumed of failures. `BashSession`: only the session's own
steps, each of which has a timeout; nothing is assumed of bash, whose command may
run for ever. `AgentLoop`, `SandboxEnv`: the run or the caller takes its next
step, because queries and commands have timeouts and the caller has a
`finally`. `RolloutSteps`: Ray runs a task whose resources are free, agents end
(`AgentLoop`), the driver goes on; a start that hangs is a state of its own.
`TrainerCheckpoints`: the process goes on and is started again after a crash,
as long as the bound on starts allows. `TinkerEngine`: the engine's loop goes
on, and after a crash is started again with the API (`api.py:57`); nothing is
assumed of the clients. `RunBatch`: each worker and the main thread go on;
nothing is assumed of interrupts, kills or of the user running it again.
`EnvCache` has safety properties only and no fairness.

### Disagreements between code and documentation that runs show

| run | what is written | what the code does |
|---|---|---|
| `own_exit_code` | `check` of `BashAction`: the exit code is the command's or `None` (`SWE-ReX/src/swerex/runtime/abstract.py:81`) | after a timeout, a later command can be given the exit code of an earlier one |
| `asynch_resume` | "Current position in dataset iteration (enables resuming from exact data position)" (`docs/checkpointing-logging/checkpointing.rst:21`) | the asynchronous trainer has taken the next batch before it saves the position, so a resumed run leaves that batch out |

Met while modelling, and not given runs of their own:

- "We need to ensure the venv is usable, so we check the venv"
  (`sandbox_deployment.py:500`): only the directory's existence is checked (531),
  and two workers that create the venv of one image at the same time can pack one
  with files missing; `UnusableVenvExplained` lists the ways.
- `step_limit` is "the maximum number of agent steps to run"
  (`docs/guide/cli/sweagent.md:90`), but is not tested after a command that timed
  out (`agent_sandbox.py:670`); `CallsBounded` states the bound that holds.
- The patch hook keeps one problem statement for all workers
  (`apply_patch.py:33`), so that a patch can be saved under another instance's
  name; `PatchOwn` is proved for a single worker.
- A run cut between the trajectory and the prediction leaves an instance that
  every later run skips and no merge finds (`run_batch.py:406`, against
  `batch_mode.md:212`).
- The look-ahead of the training service sees the table once per query
  (`engine.py:336`): a client that does not wait can have a gradient request
  carried out before the update it was sent after; `StepsInOrder` says when.
- With `eval_before_train` the asynchronous trainer's first evaluation waits for
  the signal of step 0, which nobody sends (`trainer.py:1346`; `EvalStarves`).
- A save for a model that the engine has lost stays pending for good and its name
  is taken (`engine.py:751`; `CheckpointsSettle`).
- `process_optim_step` applies the gradients before it drops them
  (`engine.py:706`, 709), and an exception between the two is answered as "failed"
  (937): the next `optim_step` applies them again. `GradientsOnce` and its theorem
  except what is on record as `doubtful`.
- A `create_model` that fails behind the registration (`engine.py:442`) leaves the
  model loaded without an optimizer or with one: gradients are accumulated for it,
  and without one its updates fail on a `KeyError`.
- A tool archive whose packing raised or was killed is never packed again
  (`utils.py:254`): later sandboxes get an error or fewer tools until someone
  removes the file. `AtRestForGood` and `ShortOnlyExplained` say so.
- An environment whose `close` raises stays open behind a rollout that has ended,
  for the exception is swallowed (`swe_generator.py:422`).
- `SizeCapacityLimiter`: the docstring of `tar_extract_local` (`utils.py:187`)
  speaks of a limit on the concurrent total, which an oversize file exceeds
  (`utils.py:147`); `BudgetRespected` states what holds, and is proved.
- `copytree_via_tar` "is equivalent to copytree" (`utils.py:209`): with
  `cached=True` it extracts an archive that is never refreshed.
- `force_rebuild` writes the repository archive even with `cache_git=False`
  (`sandbox_deployment.py:572`, options at 124).
- A cached venv skips `pip install` when a repository archive exists, whoever
  wrote it (`sandbox_deployment.py:520`); the guide says that every rollout
  installs its checkout.
- The retry for `FileExistsError` in `create_unique_folder` cannot fire: it
  creates with `exist_ok=True`.
- `communicate(check="ignore")` "does not extract the exit code", but the
  session is always asked with "silent".
- `_eat_following_output` reads one character.
- `agent_sandbox.py:96` calls itself "exactly the same as sky_agent_sb"; a run
  that ends at a limit is graded by the one and given 0 by the other
  (`sky_agent_sb.py:920`).
- `LocalRuntime.is_alive` is always true, so the branch of the autosubmission
  for a dead environment never runs.
- `hard_reset` says that it restarts the deployment (`swe_sbenv.py:146`); the
  session's name is still registered, so it always raises. It has no caller.
- The loop over attempts reports "All {max_retries} attempts failed"
  (`run_batch.py:403`) when the last one did.

Some hazards in `PROJECT.json` are described by the models rather than caught by a
property, because the code has them and a property that forbade them would not
hold. Their notes say so: an uninstalled checkout that a sandbox goes on with
(`sandbox_deployment.py:520`), a graded result that is lost when the files of its
patch cannot be read back (`agent_sandbox.py:996`), a `.pred` that is missing, cut or
old (`run_batch.py:406`, 432), the place in the data at the end of an epoch and with
dynamic sampling (`trainer.py:168`), the reference model of a resumed run
(`trainer.py:264`), a gradient sent again after a batch that failed half way, a slot
that a sample overwrites, and the row of a save whose model is lost (`engine.py:909`,
829, 751).

## 4. What is proved

Eight groups of theorems hold for every value of the constants under the named
assumptions of the modules (`LimiterAssumption`: finitely many threads, natural
sizes; the others: bounds are positive naturals).

- **CapacityLimiterProofs.** `TypeCorrect`, `AccountingCorrect`,
  `WakeupCorrect`, `BudgetCorrect`, `BrokerImplemented`. Accounting is
  inductive by itself, but the step that releases needs `Weight` of a set of
  threads to change by exactly the weight of the one that leaves; `Weight` is a
  cardinality, so that the lemmas `AddWeight` and its kin follow from the library's
  theorems on finite sets without induction over data. The wake-up invariant is
  strengthened by what is known of threads that contend: a thread waits only if
  its condition is false, and every release wakes all. The budget needs the
  accounting. The refinement maps `Admit` and `Release` to the broker's steps
  and everything else to stuttering.
- **AgentLoopProofs.** `TypeCorrect`, `CallsBoundedCorrect`,
  `SubmissionCleanCorrect`, `SavedAsEndedCorrect`, `RecordedCorrect`, from one
  invariant that says what is known in each phase: while the run goes on, the
  commands since the last one that did not time out are all timeouts, so
  nCalls <= StepLimit - 1 + timeouts; nothing is submitted; no tests are in the
  repository. `CallsBounded` alone is not inductive, because it says nothing of
  how many of the calls may still be followed by others.
- **RunBatchProofs.** `TypeCorrect`, `PredFitsCorrect`, `CompletedKeptCorrect`,
  `MergedAllCorrect`, `StopsAtBreakCorrect`, `PatchOwnCorrect`, for any number of instances,
  workers, attempts, runs and interrupts. The lemma `Cut` says once what a kill or
  an interrupt does to the files. `PredFits` needs `PredInv`: what is about to
  be saved has a finished trajectory, and what is worked on without
  `redo_existing` has no current prediction. `StopsAtBreak` needs that a single
  worker is never at two instances, and `PatchOwn`, a single worker's patches, that
  between the start of an attempt and its patch nobody else starts one.
- **SandboxProofs** (of `SandboxEnv`, and of the shell session, `BashSession`). For
  the life of a sandbox: `TypeCorrect`, `ReadyWholeCorrect`, `NothingLeftCorrect`,
  `ClosedForGoodCorrect`. The invariant says that the
  session can be closed under a caller that has not raised in one place only,
  the loop of `_reset_repository`, which alone catches what `communicate`
  raises. For its session: `SessionTypeCorrect`, `InStepCorrect`,
  `CodesInOrderCorrect`, `OwnUnlessWarnedCorrect`, for any number of commands,
  interrupts and tries of an interrupt. None of the three properties is
  inductive, because they speak of a call that is over, or of codes that are
  printed, and what a call finds depends on what was typed long before it. Each
  invariant therefore follows a mark from the line that makes it to the call that reads it.
  `StepInv` says what each wait of a session in step has still to come: one prompt,
  owed by bash or last in the stream; the unique string as the last that is
  printed; an exit code with one prompt behind it. `QueueInv` and `CodesInv` hold of every
  session, however far out of step: commands wait in the order of their calls, a line that
  asks for an exit code has a command before it whose code nobody has asked for
  (`Covered`), and a code that was printed is older than whatever bash can
  still print (`Printed`); a code is therefore never printed twice. `OwnInv` holds
  until a caller is warned, also where `start` left a prompt too many: the present
  call's command waits, runs, or has run and its output was collected or is in
  the stream, and whatever else is there is a prompt, nobody's output or the call's own.
  What a wait leaves of the stream is a sequence whose marks keep their order
  (`Thins`), also when the interrupt eats a character of it; that a wait stops at
  the first of its marks comes from the well-foundedness of the order of the numbers.
- **SharedFileProofs** (of `EnvCache`, and of `CopyTree` through INSTANCE).
  For the two caches: `TypeCorrect`, `UnusableVenvExplainedCorrect`,
  `RepoFromCacheInstalledCorrect`, `ForceRepairsCorrect`, `NothingLeftBehindCorrect`,
  for any number of workers, environments, instances, attempts and kills. Five
  lemmas say what opening, closing, abandoning and a death of the process make of a
  file, and `Frame` what a step leaves to the others. `FilesInv`: the writers of a file
  are workers that are packing it now. `AloneInv`: nobody is busy with the environment
  of a worker that is alone, and two that create one are on record in `overlap`. From
  there one invariant per property. `Creating` follows the creation of a venv from the
  shared directory through the archive in /tmp to the sandbox, for workers that
  nobody meets there (`Calm`); with it `Usable` and `Proper` say that a venv archive
  is good or unreadable, never short, but for the two exceptions. `Checkout` says
  the same of repositories; a worker that arrives at the repository archive with
  a bare clone has seen that archive, and without `force_rebuild` nobody removes one.
  `Rebuilding` and `Leaving` follow an undisturbed attempt and hold whatever files it
  starts from. For the tool archive: `CopiesTypeCorrect`, `AtRestForGoodCorrect`
  and `ShortOnlyExplainedCorrect`. A call packs only if it finds no file, so that one
  which nobody is packing is never touched again, whatever it holds; and as long as
  nobody edits the tools, all writers pack the same, so that an archive nobody is
  writing is whole unless one of the packings that went into it was cut off (`Unedited`). The bounds of `CopyTree` are a
  hypothesis of these three (`CopiesBounds`, the same as `CopyTreeAssumption`).
- **RolloutStepsProofs.** `TypeCorrect`, `FreshWeightsCorrect`,
  `SameAttemptCorrect`, `NoneLeftOpenCorrect`, for any prompts, batches, attempts
  and slots, and whichever environments raise when they are closed. `Sound` says of a
  single rollout which of its variables agree in which position, and that an
  environment which is open outside an attempt is one that raised. `Place` says of the driver which
  groups are under way and which step's weights are served: while it trains, the
  rollouts of the step are over and those of the next one have no signal
  (`Ahead`), which is why the sync meets no agent. `FreshWeights` alone is not
  inductive, because it does not say that a step is signalled only after the
  weights of the one before are synced.
- **TinkerEngineProofs.** `TypeCorrect`, `CheckpointsSettleCorrect`,
  `GradientsOnceCorrect`, `SampledAsNamedCorrect`, `StepsInOrderCorrect`, for any
  number of models, slots, requests and faults.
  `Cycle` says what a query's result is still worth later in the cycle: outcomes
  wait to be written only between a batch and its completion, and the gradient
  requests that were found are still pending when their batch runs. `OnceInv` says
  that a request is in the gradients of its own model alone, once, and has been
  handled; and that it is in one update of a model or a checkpoint at most, and in
  none together with the gradients, unless it is `doubtful`. `OptimStepCases` says what the
  three outcomes of an update leave of gradients and weights, `TurnMovesOneSlot` that
  an update or a load moves the weights of its own model only. `TableGrows`, `GradsGrow` and `WeightsMove`
  say once what every step but an update does to that. `CheckpointsSettle` follows
  from `Awaited`: for each pending row the save that made it has no outcome yet.
  `SampledAsNamed` needs that a checkpoint which a sample names is not written
  again. The attempt to prove it showed where it could be: a save that a crash
  has cost its answer is carried out once more, with other weights. `RepeatedInTime`
  is why no sample sees that: after a crash every such save is found by the queries
  of the first cycle that gets to work, and no model is loaded again before the
  single requests of that cycle, so that the repetition is over before a batch of
  samples meets the model; `OneName` is the query's promise that a batch names one
  checkpoint per model, without which two samples would share a slot.
  `StepsInOrder` needs the order from the query to the outcome: single requests
  are handled as they were sent (`OthersInOrder`), a barrier stays before the
  update it stands for while new requests arrive (`Barriers`), so that of a
  gradient and an update of one model the one sent first is done first
  (`InTurn`). `Updates` and `Since` say what a set of gradients and a set of
  updates come to, and two lemmas what one more of either changes
  (`MoreGradients`, `OneUpdateMore`); with them `Trained` is kept by every batch
  and every update. That a set of requests has a first one is the invariant
  `Ordered`: the library's induction theorems cannot be used, but the requests
  are added one by one, and the induction over behaviours does the same.
- **TrainerCheckpointsProofs.** `TypeCorrect`, `LatestCompleteCorrect`,
  `RefusedOnlyTornCorrect`, `ConsecutiveCorrect`, `RefreshedByEpochCorrect`, for
  any number of epochs and batches, any interval, any number of folders kept and
  any number of crashes and restarts. They rest on three invariants over the
  values of the variables. `OrderInv` is about the disk: from the step that the
  file names up to the highest folder no other checkpoint was due, and the next
  save lies beyond what the file names with none due in between; so the one folder
  that a crash can leave ahead of the file is at most an interval away
  (`RefusedOnlyTorn`), and the cleanup, which keeps the highest numbers, spares the
  one that is named (`LatestComplete`). The attempt to prove it showed that an
  earlier form of `LatestComplete` was false with `max_ckpts_to_keep` 1 and an
  interval of 2: a run that ends at a lower step than the folder of a crash has its last
  checkpoint removed by its own cleanup. That is the lapse "early" now, which the run
  covers. `PlaceInv` relates a model, in memory and in each folder, to the place
  of the data loader that goes with it: it has been through batches below that
  place, in order, and in the synchronous trainer through all of them. `FirstInv`
  counts, in a run that was not restarted, the steps, the batches of the epoch and
  the epochs past, from which the reference model and the exports follow. Torn and
  missing files are assumed to be distinct, and neither numbers nor sequences of
  numbers (`TrainerCheckpointsAssumption`).

**Only model-checked.** Liveness (`DrainServesAll`, `EventuallySettled`,
`CallsEnd`, `Ends`, `RunsEnd`, `Finishes`, `Completes`, `AllAnswered`): the prover
does not handle fairness and ENABLED. `OwnExitCode`, which the code violates, has
a run that shows how and no theorem. No recursive operator is used.

## 5. Not modelled

Within the modelled components: `safe_copytree` (never called), the commands
inside the sandbox (one step that works or fails), `copytree_via_tar`'s checks
of the destination (every caller passes an empty or fresh one), interactive
commands of `BashSession` and commands that bash rejects before they are typed,
file transfer and `interrupt_session` of `SWEsbEnv`, templates and time records
of the agent, progress display of the batch; tokenisation, rewards and the
mathematics of a training step, which the rollouts and the loops only pass on; for
the training service, sampling from the base model (it touches no state), an
external inference server, sessions, telemetry and the download of archives, and
the ranks and scaling that an adapter is configured with.

Outside: see section 1. Most of the repository's lines are vendored projects
(SWE-bench, SWE-smith, R2E-Gym, the engines and model code of SkyRL) or
tables, prompts, parsers and data conversion: constants per repository and
version, formats and third-party kernels have no protocol that a state machine
would explain, and are used by the modelled parts only through what is said above.

## 6. Plan

Done, in this order: limiter, file model, cache and copies, session, agent loop,
batch, lifecycle; rollouts with both training loops, checkpoints, training
service; proofs of limiter, cache and copies, agent loop, batch, lifecycle and session, rollouts,
checkpoints and training service.

Next:

1. `GenerationPause`: `InferenceEngineClient` with pause, abort, retry and
   resume; abstractly a completion is made of pieces that are never lost or
   repeated, and no piece is generated during a weight update.
2. `RetryAgent` with its reviewer, the shared cost counter of the models, and
   the grading, from test reports to a reward, as pure operators against a
   reference definition.
3. One abstract attempt that lifecycle, batch and rollout are shown to implement.
