---------------------------- MODULE RolloutSteps ----------------------------
(***************************************************************************)
(* Training steps and the rollouts they wait for: the loops of             *)
(* RayPPOTrainer.train and RayPPOAsynchTrainer.train in                    *)
(* SkyRL/skyrl-train/skyrl_train/trainer.py over init_and_run_sb,          *)
(* init_and_run_container and the agent loop of                            *)
(* SkyRL/skyrl-train/examples/swe_agent/swe_generator.py.                  *)
(*                                                                         *)
(* A step takes a batch of prompts; each prompt is a rollout, a Ray task   *)
(* that occupies a slot while it lives: it starts an environment, waits    *)
(* for the signal of its step if there is a signal actor, and runs an      *)
(* agent against the weights the engines serve, with retries.  The         *)
(* asynchronous trainer starts the rollouts of step n+1 while it trains on *)
(* those of step n, so that only their environments get ready.             *)
(*                                                                         *)
(* The loops wait for any rollout of a batch that raises; what would run   *)
(* after the driver failed is not looked at.                               *)
(***************************************************************************)
EXTENDS Naturals, FiniteSets

CONSTANTS Prompts,      \* the prompts of a batch
          Batches,      \* bound: the batches of the data loader
          MaxTries,     \* max_retries of init_and_run_sb and _container
          Fragile,      \* bound: the prompts whose environments may raise when closed
          SlotChoices   \* the numbers of Ray resources "sandbox" tried

ASSUME RolloutStepsAssumption ==
    /\ Prompts # {} /\ IsFiniteSet(Prompts)
    /\ Batches \in Nat /\ MaxTries \in Nat \ {0}
    /\ SlotChoices \subseteq Nat \ {0} /\ Fragile \subseteq Prompts

VARIABLES
    cfg,        \* the configuration of the experiment, never changed
    trainer,    \* where the training loop is
    step,       \* self.global_step
    batch,      \* batches taken from the data loader
    weights,    \* the step whose weights the inference engines serve
    signalled,  \* the steps whose event of the RolloutSignalActor is set
    prefetch,   \* _prefetch_step_id, 0 without a _prefetch_future
    rollout     \* the rollouts: of this step, of the next one, of an evaluation

vars == <<cfg, trainer, step, batch, weights, signalled, prefetch, rollout>>

Groups == {"train", "next", "eval"}
Histories == {"none", "short", "mute", "full"}
Configs == [asynch : BOOLEAN, docker : BOOLEAN, evals : {"never", "steps", "first too"},
            slots : SlotChoices]
EvalFirst == cfg.evals = "first too"

-----------------------------------------------------------------------------
(* A rollout: try counts the attempts, env is the one that bound the       *)
(* variable env (0: None), open has those whose environment is open and    *)
(* unclosed those whose environment raised when it was last closed, timed  *)
(* says that env_startup_time is bound, agent is the attempt that made the *)
(* last agent and hist its history ("none": no message, "short": at most   *)
(* two, "mute": more, but none of the assistant), result the attempt whose *)
(* result is kept (0: None).                                               *)
Fresh(pc) == [pc |-> pc, try |-> 0, env |-> 0, open |-> {}, unclosed |-> {}, timed |-> FALSE,
              agent |-> 0, hist |-> "none", result |-> 0]
Group(pc) == [p \in Prompts |-> Fresh(pc)]

Init ==
    /\ cfg \in Configs
    /\ trainer = IF EvalFirst THEN "eval" ELSE "start"
    /\ step = IF EvalFirst THEN 0 ELSE 1
    /\ batch = 0 /\ weights = 0 /\ signalled = {} /\ prefetch = 0
    /\ rollout = [g \in Groups |-> Group(IF g = "eval" /\ EvalFirst THEN "queued" ELSE "idle")]

(* global_step of the batch_metadata that the rollouts of a group got.     *)
StepOf(g) == IF g = "next" THEN step + 1 ELSE step

Alive == {"start", "boot", "wait", "run", "spin"}
InUse == {x \in Groups \X Prompts : rollout[x[1]][x[2]].pc \in Alive}

Becomes(g, p, S) == \E r \in S : rollout' = [rollout EXCEPT ![g][p] = r]
Goes(g, p, r) == Becomes(g, p, {r})
Outside == UNCHANGED <<cfg, trainer, step, batch, weights, signalled, prefetch>>

(* What the agent loop makes of (agent.history, reward, error): no output, *)
(* an exception, or token ids.                                             *)
Output(r) == CASE r.hist = "none" -> "nothing"
               [] r.hist \in {"short", "mute"} -> "raises"
               [] OTHER -> "ids"

(* An ended rollout has none of its variables left, a raised one nothing   *)
(* but the environments it may have left open.                             *)
Raised(r) == [r EXCEPT !.pc = "raised", !.try = 0, !.env = 0, !.timed = FALSE,
                       !.agent = 0, !.hist = "none", !.result = 0]
Return(r) == IF Output(r) = "raises" THEN Raised(r)
             ELSE [r EXCEPT !.pc = "done", !.try = 0, !.env = 0, !.timed = FALSE]

(* finally: close whatever env is bound.  What close raises is printed,    *)
(* and the environment may still be open.                                  *)
LeftOpen(p, r) == {r}
Closed(p, r) ==
    {[r EXCEPT !.open = @ \ {r.env}, !.unclosed = @ \ {r.env}]} \cup
    (IF p \in Fragile THEN {[r EXCEPT !.unclosed = @ \cup (r.open \cap {r.env})]} ELSE {})

(* while num_retries < max_retries.                                        *)
Again(r) == IF r.try < MaxTries THEN [r EXCEPT !.pc = "start", !.try = @ + 1] ELSE Return(r)

(* The handler of an attempt reads env_startup_time, which must be bound,  *)
(* and forgets the result.                                                 *)
HandledKeeping(p, r) == IF r.timed THEN {Again(c) : c \in Closed(p, r)}
                                   ELSE {Raised(c) : c \in Closed(p, r)}
Handled(p, r) == IF r.timed THEN {Again(c) : c \in Closed(p, [r EXCEPT !.result = 0])}
                            ELSE {Raised(c) : c \in Closed(p, r)}

-----------------------------------------------------------------------------
(* Ray starts a queued task when a slot is free.                           *)
Acquire(g, p) ==
    LET r == rollout[g][p] IN
    /\ r.pc = "queued" /\ Cardinality(InUse) < cfg.slots
    /\ Goes(g, p, [r EXCEPT !.pc = "start", !.try = 1]) /\ Outside

(* monitor_cpu_with_children starts the sandbox in a thread, and waits for *)
(* a flag that is only set when the start succeeds.  Before that, the      *)
(* output directory may not be writable.                                   *)
StartSandbox(g, p) ==
    LET r == rollout[g][p] IN
    /\ r.pc = "start" /\ ~cfg.docker
    /\ \/ Goes(g, p, [r EXCEPT !.pc = "wait", !.env = r.try, !.open = @ \cup {r.try},
                            !.timed = TRUE])
       \/ Goes(g, p, [r EXCEPT !.pc = "spin"])
       \/ Becomes(g, p, Handled(p, r))
    /\ Outside

(* A container is created and started by the rollout itself.               *)
CreateContainer(g, p) ==
    LET r == rollout[g][p] IN
    /\ r.pc = "start" /\ cfg.docker
    /\ \/ Goes(g, p, [r EXCEPT !.pc = "boot", !.env = r.try, !.open = @ \cup {r.try},
                            !.timed = TRUE])
       \/ Becomes(g, p, Handled(p, r))
    /\ Outside

StartContainer(g, p) ==
    LET r == rollout[g][p] IN
    /\ r.pc = "boot"
    /\ \/ Goes(g, p, [r EXCEPT !.pc = "wait"])
       \/ Becomes(g, p, Handled(p, r))
    /\ Outside

(* wait_for_step, if the actor exists; then the agent is made, or raises.  *)
SignalledNot(g) == TRUE
Signalled(g) == cfg.asynch => StepOf(g) \in signalled

MakeAgent(g, p) ==
    LET r == rollout[g][p] IN
    /\ r.pc = "wait" /\ Signalled(g)
    /\ \/ Goes(g, p, [r EXCEPT !.pc = "run", !.agent = r.try, !.hist = "none"])
       \/ Becomes(g, p, Handled(p, r))
    /\ Outside

(* agent.run returns a result, which counts if the history is longer than  *)
(* the two messages it starts from, or raises.                             *)
RunAgent(g, p) ==
    LET r == rollout[g][p] IN
    /\ r.pc = "run"
    /\ \E h \in Histories :
        LET ran == [r EXCEPT !.hist = h, !.result = r.try] IN
        \/ h \in {"mute", "full"} /\ Becomes(g, p, {Return(c) : c \in Closed(p, ran)})
        \/ h \in {"none", "short"} /\ Becomes(g, p, Handled(p, ran))
        \/ Becomes(g, p, Handled(p, [r EXCEPT !.hist = h]))
    /\ Outside

-----------------------------------------------------------------------------
(* The next batch of the data loader: its rollouts are there already, or   *)
(* start now.  The signal of the step is set first.                        *)
Prefetched == cfg.asynch /\ prefetch = step

SignalPrefetchedOnly == signalled' = IF Prefetched THEN signalled \cup {step} ELSE signalled
SignalStep == signalled' = IF cfg.asynch THEN signalled \cup {step} ELSE signalled

Generate ==
    /\ trainer = "start" /\ batch < Batches
    /\ batch' = batch + 1 /\ trainer' = "generate"
    /\ SignalStep
    /\ IF Prefetched
       THEN /\ prefetch' = 0
            /\ rollout' = [rollout EXCEPT !["train"] = rollout["next"], !["next"] = Group("idle")]
       ELSE /\ rollout' = [rollout EXCEPT !["train"] = Group("queued")]
            /\ UNCHANGED prefetch
    /\ UNCHANGED <<cfg, step, weights>>

AllIn(g, S) == \A p \in Prompts : rollout[g][p].pc \in S
SomeRaised(g) == \E p \in Prompts : rollout[g][p].pc = "raised"

(* gather, or ray.get of all; None outputs are filtered out; the number of *)
(* what remains must be that of the prompts (validate_generator_output).   *)
Kept(g) == {p \in Prompts : Output(rollout[g][p]) = "ids"}
Valid(g) == AllIn(g, {"done"}) /\ Cardinality(Kept(g)) = Cardinality(Prompts)
Invalid(g) == SomeRaised(g) \/ (AllIn(g, {"done"}) /\ ~Valid(g))

(* The outputs are the trainer's now, the tasks are over.  Dynamic         *)
(* sampling, if any, may want another batch for the step; otherwise the    *)
(* asynchronous trainer starts the rollouts of the next batch, if the data *)
(* loader has one, with the step number they will have.                    *)
KeepSampling ==
    /\ trainer = "generate" /\ Valid("train")
    /\ trainer' = "start" /\ rollout' = [rollout EXCEPT !["train"] = Group("idle")]
    /\ UNCHANGED <<cfg, step, batch, weights, signalled, prefetch>>

Collected ==
    /\ trainer = "generate" /\ Valid("train") /\ trainer' = "train"
    /\ IF cfg.asynch /\ batch < Batches
       THEN /\ prefetch' = step + 1
            /\ rollout' = [rollout EXCEPT !["train"] = Group("idle"), !["next"] = Group("queued")]
       ELSE /\ rollout' = [rollout EXCEPT !["train"] = Group("idle")]
            /\ UNCHANGED prefetch
    /\ UNCHANGED <<cfg, step, batch, weights, signalled>>

(* Training, then the sync of the weights with the engines.                *)
SyncWeights ==
    /\ trainer = "train" /\ weights' = step
    /\ trainer' = IF cfg.evals # "never" THEN "eval" ELSE "log"
    /\ rollout' = [rollout EXCEPT !["eval"] = Group(IF cfg.evals # "never" THEN "queued" ELSE "idle")]
    /\ UNCHANGED <<cfg, step, batch, signalled, prefetch>>

EvalDone ==
    /\ trainer = "eval" /\ Valid("eval") /\ trainer' = "log"
    /\ rollout' = [rollout EXCEPT !["eval"] = Group("idle")]
    /\ UNCHANGED <<cfg, step, batch, weights, signalled, prefetch>>

NextStep ==
    /\ trainer = "log" /\ step' = step + 1 /\ trainer' = "start"
    /\ UNCHANGED <<cfg, batch, weights, signalled, prefetch, rollout>>

Finish ==
    /\ trainer = "start" /\ batch = Batches /\ trainer' = "finished"
    /\ UNCHANGED <<cfg, step, batch, weights, signalled, prefetch, rollout>>

(* An exception of generate or evaluate ends the driver, and with it the   *)
(* tasks of the job.                                                       *)
Fail ==
    /\ \/ trainer = "generate" /\ Invalid("train")
       \/ trainer = "eval" /\ Invalid("eval")
    /\ trainer' = "failed" /\ rollout' = [g \in Groups |-> Group("idle")]
    /\ UNCHANGED <<cfg, step, batch, weights, signalled, prefetch>>

RolloutStep(g, p) ==
    \/ Acquire(g, p) \/ StartSandbox(g, p) \/ CreateContainer(g, p) \/ StartContainer(g, p)
    \/ MakeAgent(g, p) \/ RunAgent(g, p)

Over == trainer \in {"finished", "failed"}

Next ==
    \/ ~Over /\ \E g \in Groups, p \in Prompts : RolloutStep(g, p)
    \/ Generate \/ KeepSampling \/ Collected \/ SyncWeights \/ EvalDone \/ NextStep
    \/ Finish \/ Fail

(* Ray runs tasks that have their resources, agents end (AgentLoop).       *)
Spec == Init /\ [][Next]_vars /\ WF_vars(Next)

-----------------------------------------------------------------------------
(* The values of the state; a rollout makes no more attempts than allowed. *)
TypeOK ==
    /\ cfg \in Configs
    /\ trainer \in {"start", "generate", "train", "eval", "log", "finished", "failed"}
    /\ step \in 0 .. Batches + 1 /\ batch \in 0 .. Batches /\ weights \in 0 .. Batches
    /\ signalled \subseteq 1 .. Batches /\ prefetch \in {0, step, step + 1}
    /\ rollout \in [Groups -> [Prompts ->
        [pc : {"idle", "queued", "start", "boot", "wait", "run", "spin", "done", "raised"},
         try : 0 .. MaxTries, env : 0 .. MaxTries, open : SUBSET (1 .. MaxTries),
         unclosed : SUBSET (1 .. MaxTries), timed : BOOLEAN,
         agent : 0 .. MaxTries, hist : Histories, result : 0 .. MaxTries]]]

(* However far the prefetched rollouts get, every agent of step n answers  *)
(* with the weights of step n-1 from its first message to its last, and    *)
(* one of an evaluation with those of n: the sync never happens under a    *)
(* running agent, and no agent starts before it.                           *)
FreshWeights ==
    \A g \in Groups, p \in Prompts :
        rollout[g][p].pc = "run" => weights = IF g = "eval" THEN step ELSE StepOf(g) - 1

(* A rollout answers with the history of the last agent it made and the    *)
(* reward of the last result it kept: whatever attempts failed between,    *)
(* a reward is never paired with the history of another attempt.           *)
SameAttempt ==
    \A g \in Groups, p \in Prompts :
        LET r == rollout[g][p] IN r.pc = "done" /\ r.result # 0 => r.result = r.agent

(* A rollout that has ended, in whatever way, and one that goes into its   *)
(* next attempt, leaves no environment open of any of its attempts but     *)
(* those that raised when they were last closed.                           *)
NoneLeftOpen ==
    \A g \in Groups, p \in Prompts :
        LET r == rollout[g][p] IN r.pc \in {"done", "raised", "start"} => r.open \subseteq r.unclosed

(* The training ends, or fails, unless a sandbox does not start (its       *)
(* monitor spins for ever and keeps its slot), or an asynchronous          *)
(* evaluation cannot proceed: before the first step, as step 0 is never    *)
(* signalled, or because prefetched rollouts may hold all the slots.       *)
Spins == \E g \in Groups, p \in Prompts : rollout[g][p].pc = "spin"
EvalStarves == cfg.asynch /\ (EvalFirst \/ (cfg.evals # "never" /\ cfg.slots <= Cardinality(Prompts)))
Ends == EvalStarves \/ <>(Over \/ Spins)
=============================================================================
