------------------------- MODULE RolloutStepsProofs -------------------------
(***************************************************************************)
(* The safety properties of RolloutSteps for any number of prompts,        *)
(* batches, attempts and slots.                                            *)
(***************************************************************************)
EXTENDS RolloutSteps, TLAPS

Rollouts == [pc : {"idle", "queued", "start", "boot", "wait", "run", "spin", "done", "raised"},
             try : 0 .. MaxTries, env : 0 .. MaxTries, open : SUBSET (1 .. MaxTries),
             unclosed : SUBSET (1 .. MaxTries), timed : BOOLEAN,
             agent : 0 .. MaxTries, hist : Histories, result : 0 .. MaxTries]

(* What holds of each rollout by itself: no environment is open but the    *)
(* one of the attempt and those that raised when they were closed, and no  *)
(* result is kept beyond an attempt but the last.                          *)
Sound(r) ==
    /\ r \in Rollouts
    /\ r.open \ {r.env} \subseteq r.unclosed
    /\ r.pc \notin {"boot", "wait", "run"} => r.open \subseteq r.unclosed
    /\ r.pc # "done" => r.result = 0
    /\ r.pc \in Alive => r.try # 0
    /\ r.pc = "run" => r.agent = r.try
    /\ r.pc = "done" => r.result \in {0, r.agent}

(* What the trainer knows of the rollouts, of the weights and of the       *)
(* signals wherever it is: the rollouts of the next step wait for it.      *)
Place ==
    /\ trainer \in {"start", "generate", "train", "eval", "log", "finished", "failed"}
    /\ trainer = "start" => /\ weights + 1 = step /\ step <= batch + 1
                            /\ prefetch \in {0, step}
                            /\ AllIn("train", {"idle"}) /\ AllIn("eval", {"idle"})
    /\ trainer = "generate" => /\ weights + 1 = step /\ step <= batch /\ prefetch = 0
                               /\ AllIn("eval", {"idle"})
    /\ trainer = "train" => /\ weights + 1 = step /\ step <= batch /\ prefetch \in {0, step + 1}
                            /\ AllIn("train", {"idle"}) /\ AllIn("eval", {"idle"})
    /\ trainer = "eval" => /\ weights = step /\ step <= batch /\ prefetch \in {0, step + 1}
                           /\ AllIn("train", {"idle"})
    /\ trainer = "log" => /\ weights = step /\ step <= batch /\ prefetch \in {0, step + 1}
                          /\ AllIn("train", {"idle"}) /\ AllIn("eval", {"idle"})

Ahead ==
    /\ \A p \in Prompts : rollout["next"][p].pc # "run"
    /\ ~cfg.asynch => AllIn("next", {"idle"}) /\ prefetch = 0

StepsInv ==
    /\ TypeOK
    /\ \A g \in Groups, p \in Prompts : Sound(rollout[g][p])
    /\ signalled \subseteq 1 .. step
    /\ Place /\ Ahead /\ FreshWeights

-----------------------------------------------------------------------------
(* Attempts.                                                               *)
LEMMA MovedIsRollout ==
  ASSUME NEW r \in Rollouts, NEW try \in 0 .. MaxTries,
         NEW pc \in {"idle", "queued", "start", "boot", "wait", "run", "spin", "done", "raised"}
  PROVE  [r EXCEPT !.pc = pc, !.try = try] \in Rollouts
  BY DEF Rollouts

(* An agent that has run leaves a rollout.                                 *)
LEMMA RanIsRollout ==
  ASSUME NEW r \in Rollouts, NEW result \in 0 .. MaxTries, NEW hist \in Histories
  PROVE  [r EXCEPT !.hist = hist, !.result = result] \in Rollouts
  BY DEF Rollouts

(* What is open after a close: what was, but for the bound environment,    *)
(* and that one only if its close raised.                                  *)
LEMMA ClosedIsRollout ==
  ASSUME NEW p \in Prompts, NEW r \in Rollouts, r.open \ {r.env} \subseteq r.unclosed,
         NEW c \in Closed(p, r)
  PROVE  /\ c \in Rollouts /\ c.open \subseteq c.unclosed
         /\ c.pc = r.pc /\ c.try = r.try /\ c.agent = r.agent /\ c.hist = r.hist /\ c.result = r.result
  <1>0. r.open \in SUBSET (1 .. MaxTries) /\ r.unclosed \in SUBSET (1 .. MaxTries)
    BY DEF Rollouts
  <1>1. CASE c = [r EXCEPT !.open = r.open \ {r.env}, !.unclosed = r.unclosed \ {r.env}]
    <2>1. r.open \ {r.env} \in SUBSET (1 .. MaxTries) /\ r.unclosed \ {r.env} \in SUBSET (1 .. MaxTries)
      BY <1>0
    <2>2. c \in Rollouts
      BY <1>1, <2>1 DEF Rollouts
    <2>3. c.open = r.open \ {r.env} /\ c.unclosed = r.unclosed \ {r.env}
      BY <1>1 DEF Rollouts
    <2>4. c.pc = r.pc /\ c.try = r.try /\ c.agent = r.agent /\ c.hist = r.hist /\ c.result = r.result
      BY <1>1 DEF Rollouts
    <2>q. QED
      BY <2>2, <2>3, <2>4
  <1>2. CASE c = [r EXCEPT !.unclosed = r.unclosed \cup (r.open \cap {r.env})]
    <2>1. r.unclosed \cup (r.open \cap {r.env}) \in SUBSET (1 .. MaxTries)
      BY <1>0
    <2>2. c \in Rollouts
      BY <1>2, <2>1 DEF Rollouts
    <2>3. c.open = r.open /\ c.unclosed = r.unclosed \cup (r.open \cap {r.env})
      BY <1>2 DEF Rollouts
    <2>4. c.pc = r.pc /\ c.try = r.try /\ c.agent = r.agent /\ c.hist = r.hist /\ c.result = r.result
      BY <1>2 DEF Rollouts
    <2>q. QED
      BY <2>2, <2>3, <2>4
  <1>q. QED
    BY <1>1, <1>2 DEF Closed

(* A rollout that raises keeps nothing but what is open.                   *)
LEMMA RaisedIsSound ==
  ASSUME NEW r \in Rollouts, r.open \subseteq r.unclosed
  PROVE  Sound(Raised(r)) /\ Raised(r).pc = "raised"
  <1>1. 0 \in 0 .. MaxTries /\ "none" \in Histories
    BY RolloutStepsAssumption DEF Histories
  <1>2. Raised(r) \in Rollouts
    BY <1>1 DEF Raised, Rollouts
  <1>3. /\ Raised(r).pc = "raised" /\ Raised(r).open = r.open /\ Raised(r).unclosed = r.unclosed
        /\ Raised(r).result = 0
    BY DEF Raised, Rollouts
  <1>q. QED
    BY <1>2, <1>3 DEF Sound, Alive

(* Returning is sound for a closed environment and a result that is none   *)
(* or that of the last agent.                                              *)
LEMMA ReturnIsSound ==
  ASSUME NEW r \in Rollouts, r.open \subseteq r.unclosed, r.result \in {0, r.agent}
  PROVE  Sound(Return(r)) /\ Return(r).pc \in {"raised", "done"}
  <1>1. CASE Output(r) = "raises"
    BY <1>1, RaisedIsSound DEF Return
  <1>2. CASE Output(r) # "raises"
    <2>1. Return(r) = [r EXCEPT !.pc = "done", !.try = 0, !.env = 0, !.timed = FALSE]
      BY <1>2 DEF Return
    <2>2. 0 \in 0 .. MaxTries
      BY RolloutStepsAssumption
    <2>3. Return(r) \in Rollouts
      BY <2>1, <2>2 DEF Rollouts
    <2>4. /\ Return(r).pc = "done" /\ Return(r).open = r.open /\ Return(r).unclosed = r.unclosed
          /\ Return(r).result = r.result /\ Return(r).agent = r.agent
      BY <2>1 DEF Rollouts
    <2>5. Return(r).open \subseteq Return(r).unclosed /\ Return(r).result \in {0, Return(r).agent}
      BY <2>4
    <2>q. QED
      BY <2>3, <2>4, <2>5 DEF Sound, Alive
  <1>q. QED
    BY <1>1, <1>2

(* Another attempt, or the return after the last one, is sound once the    *)
(* environment is closed and the result forgotten.                         *)
LEMMA AgainIsSound ==
  ASSUME NEW r \in Rollouts, r.open \subseteq r.unclosed, r.result = 0
  PROVE  Sound(Again(r)) /\ Again(r).pc \in {"start", "raised", "done"}
  <1> USE RolloutStepsAssumption
  <1>1. ASSUME r.try < MaxTries PROVE Sound(Again(r)) /\ Again(r).pc = "start"
    <2>1. Again(r) = [r EXCEPT !.pc = "start", !.try = r.try + 1]
      BY <1>1 DEF Again
    <2>2. Again(r) \in Rollouts
      <3>1. r.try \in 0 .. MaxTries
        BY DEF Rollouts
      <3>2. r.try + 1 \in 0 .. MaxTries
        BY <1>1, <3>1
      <3>q. QED
        BY <2>1, <3>2 DEF Rollouts
    <2>3. /\ Again(r).pc = "start" /\ Again(r).open = r.open /\ Again(r).unclosed = r.unclosed
          /\ Again(r).result = r.result /\ Again(r).try = r.try + 1
      BY <2>1 DEF Rollouts
    <2>4. Again(r).try # 0
      BY <2>3 DEF Rollouts
    <2>q. QED
      BY <2>2, <2>3, <2>4 DEF Sound, Alive
  <1>2. ASSUME ~(r.try < MaxTries) PROVE Sound(Again(r)) /\ Again(r).pc \in {"raised", "done"}
    <2>1. Again(r) = Return(r)
      BY <1>2 DEF Again
    <2>q. QED
      BY <2>1, ReturnIsSound
  <1>q. QED
    BY <1>1, <1>2

(* The handler of a failed attempt closes and forgets, whatever it finds.  *)
LEMMA HandledIsSound ==
  ASSUME NEW p \in Prompts, NEW r \in Rollouts, r.open \ {r.env} \subseteq r.unclosed,
         NEW s \in Handled(p, r)
  PROVE  Sound(s) /\ s.pc \in {"start", "raised", "done"}
  <1> DEFINE f == [r EXCEPT !.result = 0]
  <1>1. f \in Rollouts /\ f.result = 0 /\ f.open = r.open /\ f.env = r.env /\ f.unclosed = r.unclosed
    BY RolloutStepsAssumption DEF Rollouts
  <1>2. CASE r.timed
    <2>1. PICK c \in Closed(p, f) : s = Again(c)
      BY <1>2 DEF Handled
    <2> HIDE DEF f
    <2>2. c \in Rollouts /\ c.open \subseteq c.unclosed /\ c.result = 0
      BY <1>1, ClosedIsRollout
    <2>q. QED
      BY <2>1, <2>2, AgainIsSound
  <1>3. CASE ~r.timed
    <2>1. PICK c \in Closed(p, r) : s = Raised(c)
      BY <1>3 DEF Handled
    <2>2. c \in Rollouts /\ c.open \subseteq c.unclosed
      BY ClosedIsRollout
    <2>q. QED
      BY <2>1, <2>2, RaisedIsSound
  <1>q. QED
    BY <1>2, <1>3

(* An environment that is made is the one of the attempt.                  *)
LEMMA OpenedIsSound ==
  ASSUME NEW r, Sound(r), r.pc = "start", NEW pc \in {"wait", "boot"}
  PROVE  LET o == [r EXCEPT !.pc = pc, !.env = r.try, !.open = r.open \cup {r.try}, !.timed = TRUE]
         IN  Sound(o) /\ o.pc = pc
  <1> DEFINE o == [r EXCEPT !.pc = pc, !.env = r.try, !.open = r.open \cup {r.try}, !.timed = TRUE]
  <1>1. /\ r \in Rollouts /\ r.try \in 1 .. MaxTries /\ r.open \in SUBSET (1 .. MaxTries)
        /\ r.open \subseteq r.unclosed /\ r.result = 0
    BY DEF Sound, Rollouts, Alive
  <1>2. r.try \in 0 .. MaxTries /\ r.open \cup {r.try} \in SUBSET (1 .. MaxTries)
    BY <1>1
  <1>3. o \in Rollouts
    BY <1>1, <1>2 DEF Rollouts
  <1>4. /\ o.pc = pc /\ o.env = r.try /\ o.open = r.open \cup {r.try} /\ o.unclosed = r.unclosed
        /\ o.result = r.result /\ o.try = r.try
    BY <1>1 DEF Rollouts
  <1> HIDE DEF o
  <1>5. Sound(o)
    BY <1>1, <1>3, <1>4 DEF Sound
  <1>q. QED
    BY <1>4, <1>5 DEF o

(* A rollout that has not begun is sound.                                  *)
LEMMA FreshIsSound ==
  ASSUME NEW pc \in {"idle", "queued"}
  PROVE  Sound(Fresh(pc)) /\ Fresh(pc).pc = pc
  BY RolloutStepsAssumption DEF Fresh, Sound, Rollouts, Alive, Histories

(* So is each of a group of them.                                          *)
LEMMA GroupIsSound ==
  ASSUME NEW pc \in {"idle", "queued"}, NEW p \in Prompts
  PROVE  Sound(Group(pc)[p]) /\ Group(pc)[p].pc = pc
  BY FreshIsSound DEF Group

(* A step of a rollout leaves it sound, and starts an agent only when its  *)
(* step is signalled.                                                      *)
LEMMA RolloutStepIsSound ==
  ASSUME NEW g \in Groups, NEW p \in Prompts, Sound(rollout[g][p]), RolloutStep(g, p)
  PROVE  \E r : /\ Sound(r) /\ rollout' = [rollout EXCEPT ![g][p] = r] /\ Outside
                /\ rollout[g][p].pc \in Alive \cup {"queued"}
                /\ r.pc = "run" => Signalled(g)
  <1> DEFINE r == rollout[g][p]
  <1> USE RolloutStepsAssumption
  <1>1. r \in Rollouts /\ Sound(r)
    BY DEF Sound
  <1>2. \A s \in Handled(p, r) : Sound(s) /\ s.pc # "run"
    BY <1>1, HandledIsSound DEF Sound
  <1>3. CASE Acquire(g, p)
    <2> DEFINE s == [r EXCEPT !.pc = "start", !.try = 1]
    <2>1. s \in Rollouts
      <3>1. 1 \in 0 .. MaxTries
        OBVIOUS
      <3>q. QED
        BY <1>1, <3>1, MovedIsRollout
    <2>2. /\ s.pc = "start" /\ s.try = 1 /\ s.env = r.env /\ s.result = r.result /\ r.pc = "queued"
          /\ s.open = r.open /\ s.unclosed = r.unclosed
      BY <1>1, <1>3 DEF Acquire, Rollouts
    <2>3. Sound(s)
      BY <1>1, <2>1, <2>2 DEF Sound
    <2>q. QED
      BY <1>3, <2>2, <2>3 DEF Acquire, Goes, Becomes
  <1>4. CASE StartSandbox(g, p)
    <2> DEFINE o == [r EXCEPT !.pc = "wait", !.env = r.try, !.open = r.open \cup {r.try}, !.timed = TRUE]
               s == [r EXCEPT !.pc = "spin"]
    <2>1. Sound(o) /\ o.pc = "wait"
      BY <1>1, <1>4, OpenedIsSound DEF StartSandbox
    <2>2. Sound(s) /\ s.pc = "spin"
      <3>1. s \in Rollouts
        BY <1>1 DEF Rollouts
      <3>2. /\ s.pc = "spin" /\ s.open = r.open /\ s.unclosed = r.unclosed /\ s.env = r.env
            /\ s.result = r.result /\ s.try = r.try /\ r.pc = "start"
        BY <1>1, <1>4 DEF StartSandbox, Rollouts
      <3>q. QED
        BY <1>1, <3>1, <3>2 DEF Sound, Alive
    <2>3. \/ rollout' = [rollout EXCEPT ![g][p] = o]
          \/ rollout' = [rollout EXCEPT ![g][p] = s]
          \/ Becomes(g, p, Handled(p, r))
      BY <1>4 DEF StartSandbox, Goes, Becomes
    <2>4. r.pc = "start" /\ Outside
      BY <1>4 DEF StartSandbox
    <2> HIDE DEF o, s
    <2>q. QED
      BY <1>2, <2>1, <2>2, <2>3, <2>4 DEF Becomes, Alive
  <1>5. CASE CreateContainer(g, p)
    <2> DEFINE o == [r EXCEPT !.pc = "boot", !.env = r.try, !.open = r.open \cup {r.try}, !.timed = TRUE]
    <2>1. Sound(o) /\ o.pc = "boot"
      BY <1>1, <1>5, OpenedIsSound DEF CreateContainer
    <2>2. rollout' = [rollout EXCEPT ![g][p] = o] \/ Becomes(g, p, Handled(p, r))
      BY <1>5 DEF CreateContainer, Goes, Becomes
    <2>3. r.pc = "start" /\ Outside
      BY <1>5 DEF CreateContainer
    <2> HIDE DEF o
    <2>q. QED
      BY <1>2, <2>1, <2>2, <2>3 DEF Becomes, Alive
  <1>6. CASE StartContainer(g, p)
    <2>0. PICK o : o = [r EXCEPT !.pc = "wait"]
      OBVIOUS
    <2>1. r.pc = "boot" /\ Outside
      BY <1>6 DEF StartContainer
    <2>2. /\ o \in Rollouts /\ o.pc = "wait" /\ o.env = r.env /\ o.open = r.open
          /\ o.unclosed = r.unclosed /\ o.result = r.result /\ o.try = r.try
      BY <1>1, <2>0 DEF Rollouts
    <2>3. Sound(o)
      BY <1>1, <2>1, <2>2 DEF Sound, Alive
    <2>4. rollout' = [rollout EXCEPT ![g][p] = o] \/ Becomes(g, p, Handled(p, r))
      BY <1>6, <2>0 DEF StartContainer, Goes, Becomes
    <2>q. QED
      BY <1>2, <2>1, <2>2, <2>3, <2>4 DEF Becomes, Alive
  <1>7. CASE MakeAgent(g, p)
    <2>0. PICK o : o = [r EXCEPT !.pc = "run", !.agent = r.try, !.hist = "none"]
      OBVIOUS
    <2>1. r.pc = "wait" /\ Outside /\ Signalled(g) /\ r.try \in 0 .. MaxTries /\ "none" \in Histories
      BY <1>1, <1>7 DEF MakeAgent, Rollouts, Histories
    <2>2. o \in Rollouts
      BY <1>1, <2>0, <2>1 DEF Rollouts
    <2>3. /\ o.pc = "run" /\ o.env = r.env /\ o.open = r.open /\ o.agent = r.try
          /\ o.unclosed = r.unclosed /\ o.result = r.result /\ o.try = r.try
      BY <1>1, <2>0 DEF Rollouts
    <2>4. Sound(o)
      BY <1>1, <2>1, <2>2, <2>3 DEF Sound, Alive
    <2>5. rollout' = [rollout EXCEPT ![g][p] = o] \/ Becomes(g, p, Handled(p, r))
      BY <1>7, <2>0 DEF MakeAgent, Goes, Becomes
    <2>q. QED
      BY <1>2, <2>1, <2>4, <2>5 DEF Becomes, Alive
  <1>8. CASE RunAgent(g, p)
    <2>1. PICK h \in Histories :
             LET ran == [r EXCEPT !.hist = h, !.result = r.try] IN
             \/ h \in {"mute", "full"} /\ Becomes(g, p, {Return(c) : c \in Closed(p, ran)})
             \/ h \in {"none", "short"} /\ Becomes(g, p, Handled(p, ran))
             \/ Becomes(g, p, Handled(p, [r EXCEPT !.hist = h]))
      BY <1>8 DEF RunAgent
    <2> DEFINE ran == [r EXCEPT !.hist = h, !.result = r.try]
               gone == [r EXCEPT !.hist = h]
    <2>0. r.pc = "run" /\ Outside /\ r.agent = r.try /\ r.try \in 0 .. MaxTries /\ r.result \in 0 .. MaxTries
      BY <1>1, <1>8 DEF RunAgent, Sound, Rollouts
    <2>2. ran \in Rollouts /\ gone \in Rollouts
      <3>1. ran \in Rollouts
        BY <1>1, <2>0, RanIsRollout
      <3>2. gone \in Rollouts
        BY <1>1 DEF Rollouts
      <3>q. QED
        BY <3>1, <3>2
    <2>3. /\ ran.result = ran.agent
          /\ ran.open \ {ran.env} \subseteq ran.unclosed /\ gone.open \ {gone.env} \subseteq gone.unclosed
      <3>1. /\ ran.result = r.try /\ ran.agent = r.agent /\ ran.open = r.open /\ ran.env = r.env
            /\ ran.unclosed = r.unclosed /\ gone.open = r.open /\ gone.env = r.env
            /\ gone.unclosed = r.unclosed
        BY <1>1 DEF Rollouts
      <3>q. QED
        BY <1>1, <2>0, <3>1 DEF Sound
    <2>4. \/ Becomes(g, p, {Return(c) : c \in Closed(p, ran)})
          \/ Becomes(g, p, Handled(p, ran)) \/ Becomes(g, p, Handled(p, gone))
      BY <2>1
    <2> HIDE DEF ran, gone
    <2>5. ASSUME NEW c \in Closed(p, ran) PROVE Sound(Return(c)) /\ Return(c).pc # "run"
      <3>1. c \in Rollouts /\ c.open \subseteq c.unclosed /\ c.result = c.agent
        BY <2>2, <2>3, ClosedIsRollout
      <3>q. QED
        BY <3>1, ReturnIsSound
    <2>6. \A s \in Handled(p, ran) \cup Handled(p, gone) : Sound(s) /\ s.pc # "run"
      BY <2>2, <2>3, HandledIsSound
    <2>q. QED
      BY <2>0, <2>4, <2>5, <2>6 DEF Becomes, Alive
  <1>q. QED
    BY <1>3, <1>4, <1>5, <1>6, <1>7, <1>8 DEF RolloutStep

-----------------------------------------------------------------------------
(* The invariant holds at the start, with or without a first evaluation.   *)
LEMMA StepsInit == Init => StepsInv
  <1> SUFFICES ASSUME Init PROVE StepsInv
    OBVIOUS
  <1> USE RolloutStepsAssumption
  <1>1. ASSUME NEW g \in Groups, NEW p \in Prompts
        PROVE  /\ Sound(rollout[g][p]) /\ rollout[g][p].pc \in {"idle", "queued"}
               /\ (g # "eval" \/ ~EvalFirst) => rollout[g][p].pc = "idle"
    BY GroupIsSound DEF Init
  <1>2. rollout \in [Groups -> [Prompts -> Rollouts]]
    BY <1>1 DEF Init, Sound, Group
  <1>3. TypeOK
    BY <1>2 DEF TypeOK, Init, Rollouts
  <1>4. Place
    BY <1>1 DEF Init, Place, AllIn, Groups
  <1>5. Ahead /\ FreshWeights
    BY <1>1 DEF Init, Ahead, FreshWeights, AllIn, Groups
  <1>q. QED
    BY <1>1, <1>3, <1>4, <1>5 DEF StepsInv, Init

(* What was started for the next step is what this one gets.               *)
LEMMA GenerateKeeps == StepsInv /\ Generate => StepsInv'
  <1> SUFFICES ASSUME StepsInv, Generate PROVE StepsInv'
    OBVIOUS
  <1> USE RolloutStepsAssumption
  <1>0. TypeOK /\ trainer = "start" /\ weights + 1 = step /\ step <= batch + 1
        /\ prefetch \in {0, step} /\ AllIn("eval", {"idle"}) /\ step \in Nat /\ batch \in Nat
    BY DEF StepsInv, Generate, Place, TypeOK
  <1>1. /\ batch' = batch + 1 /\ batch < Batches /\ trainer' = "generate" /\ weights' = weights /\ step' = step
        /\ cfg' = cfg /\ signalled' = IF cfg.asynch THEN signalled \cup {step} ELSE signalled
    BY DEF Generate, SignalStep
  <1>2. prefetch' = 0
    BY <1>0 DEF Generate, Prefetched, StepsInv, TypeOK, Ahead
  <1>3. ASSUME NEW p \in Prompts
        PROVE  /\ rollout'["eval"][p] = rollout["eval"][p] /\ rollout'["eval"][p].pc = "idle"
               /\ Sound(rollout'["train"][p]) /\ rollout'["train"][p].pc # "run"
               /\ Sound(rollout'["next"][p]) /\ rollout'["next"][p].pc # "run"
               /\ ~cfg.asynch => rollout'["next"][p].pc = "idle"
               /\ rollout' \in [Groups -> [Prompts -> Rollouts]]
    <2>0. rollout \in [Groups -> [Prompts -> Rollouts]]
      BY <1>0 DEF TypeOK, Rollouts
    <2>1. CASE Prefetched
      <3>1. rollout' = [rollout EXCEPT !["train"] = rollout["next"], !["next"] = Group("idle")]
        BY <2>1 DEF Generate
      <3>2. Group("idle") \in [Prompts -> Rollouts]
        BY GroupIsSound DEF Group, Sound
      <3>3. /\ rollout'["train"] = rollout["next"] /\ rollout'["next"] = Group("idle")
            /\ rollout'["eval"] = rollout["eval"] /\ rollout' \in [Groups -> [Prompts -> Rollouts]]
        BY <2>0, <3>1, <3>2 DEF Groups
      <3>q. QED
        BY <1>0, <3>3, GroupIsSound DEF StepsInv, Ahead, AllIn, Groups
    <2>2. CASE ~Prefetched
      <3>1. rollout' = [rollout EXCEPT !["train"] = Group("queued")]
        BY <2>2 DEF Generate
      <3>2. Group("queued") \in [Prompts -> Rollouts]
        BY GroupIsSound DEF Group, Sound
      <3>3. /\ rollout'["train"] = Group("queued") /\ rollout'["next"] = rollout["next"]
            /\ rollout'["eval"] = rollout["eval"] /\ rollout' \in [Groups -> [Prompts -> Rollouts]]
        BY <2>0, <3>1, <3>2 DEF Groups
      <3>q. QED
        BY <1>0, <3>3, GroupIsSound DEF StepsInv, Ahead, AllIn, Groups
    <2>q. QED
      BY <2>1, <2>2
  <1>4. \A g \in Groups, p \in Prompts : Sound(rollout'[g][p]) /\ rollout'[g][p].pc # "run"
    BY <1>3 DEF StepsInv, Groups
  <1>5. rollout' \in [Groups -> [Prompts -> Rollouts]]
    BY <1>3
  <1>6. TypeOK'
    BY <1>0, <1>1, <1>2, <1>5 DEF TypeOK, Rollouts
  <1>7. Place'
    <2>1. AllIn("eval", {"idle"})'
      BY <1>3 DEF AllIn
    <2>q. QED
      BY <1>0, <1>1, <1>2, <2>1 DEF Place
  <1>8. Ahead' /\ FreshWeights' /\ signalled' \subseteq 1 .. step'
    <2>1. Ahead'
      <3>1. \A p \in Prompts : rollout'["next"][p].pc # "run" /\ (~cfg.asynch => rollout'["next"][p].pc = "idle")
        BY <1>3
      <3>2. cfg' = cfg /\ prefetch' = 0
        BY <1>1, <1>2
      <3>q. QED
        BY <3>1, <3>2 DEF Ahead, AllIn
    <2>2. FreshWeights'
      BY <1>4 DEF FreshWeights
    <2>3. signalled' \subseteq 1 .. step'
      <3>1. step \in Nat /\ step # 0 /\ signalled \subseteq 1 .. step
        BY <1>0 DEF StepsInv, TypeOK
      <3>q. QED
        BY <1>1, <3>1
    <2>q. QED
      BY <2>1, <2>2, <2>3
  <1>q. QED
    BY <1>4, <1>6, <1>7, <1>8 DEF StepsInv

(* A step of one rollout: it starts no agent but of a step that is         *)
(* signalled, which that of the next batch is not.                         *)
LEMMA RolloutStepKeeps ==
  ASSUME StepsInv, ~Over, NEW g \in Groups, NEW p \in Prompts, RolloutStep(g, p)
  PROVE  StepsInv'
  <1> USE RolloutStepsAssumption
  <1>0. TypeOK /\ Sound(rollout[g][p])
    BY DEF StepsInv
  <1>1. PICK r : /\ Sound(r) /\ rollout' = [rollout EXCEPT ![g][p] = r] /\ Outside
                 /\ rollout[g][p].pc \in Alive \cup {"queued"}
                 /\ r.pc = "run" => Signalled(g)
    BY <1>0, RolloutStepIsSound
  <1>2. /\ rollout \in [Groups -> [Prompts -> Rollouts]] /\ r \in Rollouts
        /\ rollout' \in [Groups -> [Prompts -> Rollouts]]
        /\ rollout'[g][p] = r
        /\ \A h \in Groups, q \in Prompts : h # g \/ q # p => rollout'[h][q] = rollout[h][q]
    BY <1>0, <1>1 DEF TypeOK, Rollouts, Sound
  <1>3. \A h \in Groups, q \in Prompts : Sound(rollout'[h][q])
    BY <1>1, <1>2 DEF StepsInv
  <1>4. TypeOK' /\ signalled' \subseteq 1 .. step'
    BY <1>0, <1>1, <1>2 DEF TypeOK, Outside, Rollouts, StepsInv
  <1>5. ~AllIn(g, {"idle"})
    BY <1>1 DEF AllIn, Alive
  <1>6. ASSUME NEW h \in Groups, h # g, NEW S PROVE AllIn(h, S)' = AllIn(h, S)
    BY <1>2, <1>6 DEF AllIn
  <1>7. Place'
    BY <1>1, <1>5, <1>6 DEF StepsInv, Place, Outside, Groups
  <1>8. g = "next" => r.pc # "run"
    <2>1. g = "next" => cfg.asynch
      BY <1>5 DEF StepsInv, Ahead
    <2>2. step + 1 \notin signalled
      BY <1>0 DEF StepsInv, TypeOK
    <2>q. QED
      BY <1>1, <2>1, <2>2 DEF Signalled, StepOf
  <1>9. Ahead'
    BY <1>1, <1>2, <1>5, <1>6, <1>8 DEF StepsInv, Ahead, Outside, Groups
  <1>10. g = "next" \/ weights = IF g = "eval" THEN step ELSE StepOf(g) - 1
    BY <1>0, <1>5 DEF StepsInv, Place, Over, Groups, StepOf, TypeOK
  <1>11. FreshWeights'
    BY <1>1, <1>2, <1>8, <1>10 DEF StepsInv, FreshWeights, Outside, StepOf
  <1>q. QED
    BY <1>3, <1>4, <1>7, <1>9, <1>11 DEF StepsInv

(* Groups of rollouts that are put in place of others.                     *)
LEMMA RegroupedIsSound ==
  ASSUME StepsInv, NEW new \in {"idle", "queued"}, NEW h \in Groups
  PROVE  /\ [rollout EXCEPT ![h] = Group(new)] \in [Groups -> [Prompts -> Rollouts]]
         /\ \A g \in Groups, p \in Prompts :
               /\ Sound([rollout EXCEPT ![h] = Group(new)][g][p])
               /\ g = h => [rollout EXCEPT ![h] = Group(new)][g][p].pc = new
               /\ g # h => [rollout EXCEPT ![h] = Group(new)][g][p] = rollout[g][p]
  <1>1. rollout \in [Groups -> [Prompts -> Rollouts]]
    BY DEF StepsInv, TypeOK, Rollouts
  <1>2. Group(new) \in [Prompts -> Rollouts]
    BY GroupIsSound DEF Group, Sound
  <1>q. QED
    BY <1>1, <1>2, GroupIsSound DEF StepsInv

(* The end of a generation, which may queue the rollouts of the next step. *)
LEMMA CollectedKeeps == StepsInv /\ Collected => StepsInv'
  <1> SUFFICES ASSUME StepsInv, Collected PROVE StepsInv'
    OBVIOUS
  <1> USE RolloutStepsAssumption
  <1>1. /\ TypeOK /\ Ahead /\ FreshWeights /\ trainer' = "train"
        /\ UNCHANGED <<cfg, step, batch, weights, signalled>>
        /\ AllIn("eval", {"idle"}) /\ weights + 1 = step /\ step <= batch /\ prefetch = 0
    BY DEF StepsInv, Collected, Place
  <1> DEFINE on == cfg.asynch /\ batch < Batches
  <1>2. /\ prefetch' = IF on THEN step + 1 ELSE 0
        /\ rollout' = IF on THEN [rollout EXCEPT !["train"] = Group("idle"), !["next"] = Group("queued")]
                            ELSE [rollout EXCEPT !["train"] = Group("idle")]
    BY <1>1 DEF Collected
  <1>3. /\ rollout \in [Groups -> [Prompts -> Rollouts]]
        /\ Group("queued") \in [Prompts -> Rollouts] /\ Group("idle") \in [Prompts -> Rollouts]
    BY <1>1, GroupIsSound DEF Group, Sound, TypeOK, Rollouts
  <1>4. /\ rollout' \in [Groups -> [Prompts -> Rollouts]]
        /\ rollout'["train"] = Group("idle") /\ rollout'["eval"] = rollout["eval"]
        /\ rollout'["next"] = IF on THEN Group("queued") ELSE rollout["next"]
    <2>1. CASE on
      BY <1>2, <1>3, <2>1 DEF Groups
    <2>2. CASE ~on
      BY <1>2, <1>3, <2>2 DEF Groups
    <2>q. QED
      BY <2>1, <2>2
  <1>5. ASSUME NEW g \in Groups, NEW p \in Prompts
        PROVE  Sound(rollout'[g][p]) /\ rollout'[g][p].pc # "run"
    BY <1>1, <1>4, GroupIsSound DEF StepsInv, Ahead, AllIn, Groups
  <1>6. TypeOK'
    BY <1>1, <1>2, <1>4 DEF TypeOK, Rollouts
  <1>7. AllIn("train", {"idle"})' /\ AllIn("eval", {"idle"})'
    BY <1>1, <1>4, GroupIsSound DEF AllIn
  <1>8. Place'
    BY <1>1, <1>2, <1>7 DEF Place
  <1>9. Ahead'
    <2>1. ~cfg.asynch => ~on
      OBVIOUS
    <2>2. ~cfg.asynch => prefetch' = 0 /\ rollout'["next"] = rollout["next"]
      BY <1>2, <1>4, <2>1
    <2> HIDE DEF on
    <2>q. QED
      BY <1>1, <1>5, <2>2 DEF Ahead, AllIn, Groups
  <1>10. FreshWeights'
    BY <1>5 DEF FreshWeights
  <1>q. QED
    BY <1>1, <1>5, <1>6, <1>8, <1>9, <1>10 DEF StepsInv

(* No agent runs when the weights change, and none of the next step before *)
(* its signal.                                                             *)
LEMMA SyncWeightsKeeps == StepsInv /\ SyncWeights => StepsInv'
  <1> SUFFICES ASSUME StepsInv, SyncWeights PROVE StepsInv'
    OBVIOUS
  <1> USE RolloutStepsAssumption
  <1> DEFINE new == IF cfg.evals # "never" THEN "queued" ELSE "idle"
  <1>1. /\ TypeOK /\ Place /\ Ahead /\ trainer = "train" /\ weights' = step
        /\ trainer' = IF cfg.evals # "never" THEN "eval" ELSE "log"
        /\ UNCHANGED <<cfg, step, batch, signalled, prefetch>>
        /\ step <= batch /\ prefetch \in {0, step + 1}
        /\ rollout' = [rollout EXCEPT !["eval"] = Group(new)]
    BY DEF StepsInv, SyncWeights, Place
  <1>2. rollout \in [Groups -> [Prompts -> Rollouts]] /\ Group(new) \in [Prompts -> Rollouts]
    BY <1>1, GroupIsSound DEF Group, Sound, TypeOK, Rollouts
  <1>3. /\ rollout' \in [Groups -> [Prompts -> Rollouts]]
        /\ rollout'["train"] = rollout["train"] /\ rollout'["eval"] = Group(new)
        /\ rollout'["next"] = rollout["next"]
    BY <1>1, <1>2 DEF Groups
  <1>4. \A g \in Groups, p \in Prompts : Sound(rollout'[g][p]) /\ rollout'[g][p].pc # "run"
    BY <1>1, <1>3, GroupIsSound DEF StepsInv, Place, AllIn, Ahead, Groups
  <1>5. AllIn("train", {"idle"})' /\ (trainer' = "log" => AllIn("eval", {"idle"})')
    BY <1>1, <1>3, GroupIsSound DEF Place, AllIn
  <1>6. TypeOK'
    <2>1. step \in 0 .. Batches
      BY <1>1 DEF TypeOK
    <2>2. trainer' \in {"eval", "log"}
      BY <1>1
    <2>q. QED
      BY <1>1, <1>3, <2>1, <2>2 DEF TypeOK, Rollouts
  <1>7. Place'
    BY <1>1, <1>5 DEF Place
  <1>9. Ahead'
    BY <1>1, <1>3 DEF Ahead, AllIn
  <1>8. FreshWeights'
    BY <1>1, <1>4 DEF FreshWeights
  <1>q. QED
    BY <1>1, <1>4, <1>6, <1>7, <1>9, <1>8 DEF StepsInv

(* The end of an evaluation.                                               *)
LEMMA EvalDoneKeeps == StepsInv /\ EvalDone => StepsInv'
  <1> SUFFICES ASSUME StepsInv, EvalDone PROVE StepsInv'
    OBVIOUS
  <1> USE RolloutStepsAssumption
  <1>1. /\ TypeOK /\ Place /\ Ahead /\ FreshWeights /\ trainer = "eval" /\ trainer' = "log"
        /\ rollout' = [rollout EXCEPT !["eval"] = Group("idle")]
        /\ UNCHANGED <<cfg, step, batch, weights, signalled, prefetch>>
    BY DEF StepsInv, EvalDone
  <1>2. /\ rollout' \in [Groups -> [Prompts -> Rollouts]]
        /\ \A g \in Groups, p \in Prompts :
              /\ Sound(rollout'[g][p])
              /\ g = "eval" => rollout'[g][p].pc = "idle"
              /\ g # "eval" => rollout'[g][p] = rollout[g][p]
    BY <1>1, RegroupedIsSound DEF Groups
  <1>3. TypeOK'
    BY <1>1, <1>2 DEF TypeOK, Rollouts
  <1>4. AllIn("train", {"idle"})' /\ AllIn("eval", {"idle"})'
    BY <1>1, <1>2 DEF Place, AllIn, Groups
  <1>5. Place' /\ Ahead'
    BY <1>1, <1>2, <1>4 DEF Place, Ahead, AllIn, Groups
  <1>6. FreshWeights'
    BY <1>1, <1>2 DEF FreshWeights, StepOf
  <1>q. QED
    BY <1>1, <1>2, <1>3, <1>5, <1>6 DEF StepsInv

(* The next step begins when no agent is left of this one.                 *)
LEMMA NextStepKeeps == StepsInv /\ NextStep => StepsInv'
  <1> SUFFICES ASSUME StepsInv, NextStep PROVE StepsInv'
    OBVIOUS
  <1> USE RolloutStepsAssumption
  <1>1. /\ TypeOK /\ Place /\ Ahead /\ trainer = "log" /\ step' = step + 1 /\ trainer' = "start"
        /\ UNCHANGED <<cfg, batch, weights, signalled, prefetch, rollout>>
        /\ signalled \subseteq 1 .. step /\ step \in Nat /\ batch \in 0 .. Batches
        /\ weights = step /\ step <= batch /\ prefetch \in {0, step + 1}
        /\ AllIn("train", {"idle"}) /\ AllIn("eval", {"idle"})
    BY DEF StepsInv, NextStep, Place, TypeOK
  <1>2. \A g \in Groups, p \in Prompts : rollout[g][p].pc # "run"
    BY <1>1 DEF Ahead, AllIn, Groups
  <1>3. TypeOK' /\ Place' /\ Ahead'
    BY <1>1 DEF TypeOK, Place, Ahead, AllIn
  <1>4. FreshWeights' /\ signalled' \subseteq 1 .. step'
    BY <1>1, <1>2 DEF FreshWeights
  <1>q. QED
    BY <1>1, <1>3, <1>4 DEF StepsInv

(* Another batch for the same step: its rollouts are not there yet.        *)
LEMMA KeepSamplingKeeps == StepsInv /\ KeepSampling => StepsInv'
  <1> SUFFICES ASSUME StepsInv, KeepSampling PROVE StepsInv'
    OBVIOUS
  <1>1. /\ TypeOK /\ Place /\ Ahead /\ FreshWeights /\ trainer = "generate" /\ trainer' = "start"
        /\ rollout' = [rollout EXCEPT !["train"] = Group("idle")]
        /\ UNCHANGED <<cfg, step, batch, weights, signalled, prefetch>>
    BY DEF StepsInv, KeepSampling
  <1>2. /\ rollout' \in [Groups -> [Prompts -> Rollouts]]
        /\ \A g \in Groups, p \in Prompts :
              /\ Sound(rollout'[g][p])
              /\ g = "train" => rollout'[g][p].pc = "idle"
              /\ g # "train" => rollout'[g][p] = rollout[g][p]
    BY <1>1, RegroupedIsSound DEF Groups
  <1>3. TypeOK'
    BY <1>1, <1>2 DEF TypeOK, Rollouts
  <1>4. AllIn("train", {"idle"})' /\ AllIn("eval", {"idle"})'
    BY <1>1, <1>2 DEF Place, AllIn, Groups
  <1>5. Place'
    BY <1>1, <1>4 DEF Place, TypeOK
  <1>6. Ahead' /\ FreshWeights'
    BY <1>1, <1>2 DEF Ahead, AllIn, Groups, FreshWeights, StepOf
  <1>q. QED
    BY <1>1, <1>2, <1>3, <1>5, <1>6 DEF StepsInv

(* The tasks of a job whose driver fails end with it.                      *)
LEMMA FailKeeps == StepsInv /\ Fail => StepsInv'
  <1> SUFFICES ASSUME StepsInv, Fail PROVE StepsInv'
    OBVIOUS
  <1>1. /\ trainer' = "failed" /\ rollout' = [g \in Groups |-> Group("idle")]
        /\ UNCHANGED <<cfg, step, batch, weights, signalled, prefetch>>
    BY DEF Fail
  <1>2. \A g \in Groups, p \in Prompts : Sound(rollout'[g][p]) /\ rollout'[g][p].pc = "idle"
    BY <1>1, GroupIsSound
  <1>3. rollout' \in [Groups -> [Prompts -> Rollouts]]
    BY <1>1, GroupIsSound DEF Group, Sound
  <1>4. TypeOK'
    BY <1>1, <1>3 DEF StepsInv, TypeOK, Rollouts
  <1>5. Place' /\ FreshWeights'
    BY <1>1, <1>2 DEF Place, FreshWeights
  <1>6. Ahead'
    BY <1>1, <1>2 DEF StepsInv, Ahead, AllIn, Groups
  <1>q. QED
    BY <1>1, <1>2, <1>4, <1>5, <1>6 DEF StepsInv

(* The end of the training only moves the trainer.                         *)
LEMMA OtherStepsKeep == StepsInv /\ (Finish \/ UNCHANGED vars) => StepsInv'
  <1> SUFFICES ASSUME StepsInv, Finish \/ UNCHANGED vars PROVE StepsInv'
    OBVIOUS
  <1>1. UNCHANGED <<cfg, step, batch, weights, signalled, prefetch, rollout>>
    BY DEF Finish, vars
  <1>2. TypeOK' /\ FreshWeights' /\ Ahead'
    BY <1>1 DEF StepsInv, TypeOK, FreshWeights, StepOf, Ahead, AllIn, Finish, vars
  <1>3. Place'
    BY <1>1 DEF StepsInv, Place, Finish, vars, AllIn
  <1>q. QED
    BY <1>1, <1>2, <1>3 DEF StepsInv

(* The invariant holds in every state.                                     *)
LEMMA StepsInvariance == Spec => []StepsInv
  <1>1. StepsInv /\ [Next]_vars => StepsInv'
    BY RolloutStepKeeps, GenerateKeeps, CollectedKeeps, SyncWeightsKeeps, EvalDoneKeeps,
       NextStepKeeps, KeepSamplingKeeps, FailKeeps, OtherStepsKeep DEF Next
  <1>q. QED
    BY <1>1, StepsInit, PTL DEF Spec

-----------------------------------------------------------------------------
(* The values of the state, for any number of prompts: see TypeOK.         *)
THEOREM TypeCorrect == Spec => []TypeOK
  BY StepsInvariance, PTL DEF StepsInv

(* No agent of a step runs while the weights change, nor with others than  *)
(* those of the step before: see FreshWeights.                             *)
THEOREM FreshWeightsCorrect == Spec => []FreshWeights
  BY StepsInvariance, PTL DEF StepsInv

(* A reward belongs to the history it comes with: see SameAttempt.         *)
THEOREM SameAttemptCorrect == Spec => []SameAttempt
  <1>1. StepsInv => SameAttempt
    BY DEF StepsInv, Sound, SameAttempt
  <1>q. QED
    BY <1>1, StepsInvariance, PTL

(* Whatever attempts fail, no environment outlives them but one whose      *)
(* close raised: see NoneLeftOpen.                                         *)
THEOREM NoneLeftOpenCorrect == Spec => []NoneLeftOpen
  <1>1. StepsInv => NoneLeftOpen
    BY DEF StepsInv, Sound, NoneLeftOpen
  <1>q. QED
    BY <1>1, StepsInvariance, PTL
=============================================================================
