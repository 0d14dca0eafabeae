-------------------------- MODULE SharedFileProofs --------------------------
(***************************************************************************)
(* What the archives that workers share keep for any number of workers,    *)
(* environments, instances and failures: the two caches of EnvCache, and   *)
(* the tool archive of CopyTree.                                           *)
(***************************************************************************)
EXTENDS EnvCache, TLAPS

-----------------------------------------------------------------------------
(* A file has the writers that are packing it, and holds something only if *)
(* it is there.                                                            *)
Writes(w, e, step) == pc[w] = step /\ Env(w) = e
FilesInv ==
  /\ \A e \in Envs : /\ tmp[e].there \/ tmp[e] = Absent
                     /\ venv[e].there \/ venv[e] = Absent
                     /\ \A w \in tmp[e].writers : Writes(w, e, "tmp_packing")
                     /\ \A w \in venv[e].writers : Writes(w, e, "venv_packing")
  /\ \A i \in Instances : /\ git[i].there \/ git[i] = Absent
                          /\ \A w \in git[i].writers : pc[w] = "git_packing" /\ inst[w] = i

(* Nobody else is busy with the environment of a worker that is alone, and *)
(* two that create one are on record.                                      *)
AloneInv ==
  /\ \A w, v \in Workers : w # v /\ alone[w] /\ Busy(w) /\ Busy(v) => Env(w) # Env(v)
  /\ \A w, v \in Workers : w # v /\ {pc[w], pc[v]} \subseteq CreateSteps /\ Env(w) = Env(v)
                              => Env(w) \in overlap

(* What one writer has opened, or several have written that packed it well.*)
Opening(w) == [there |-> TRUE, writers |-> {w}, mixed |-> FALSE, data |-> "torn"]
Proper(f) == f = Absent \/ (f.there /\ f.data \in {"torn", "good"})

(* A worker that shares the creation directory with nobody finds there     *)
(* what it left, up to the end of its attempt.                             *)
Calm(w) == alone[w] \/ Env(w) \notin overlap
Created == {"tmp_rm", "install", "venv_pack", "venv_packing", "rmtree"}
Creating(w) ==
  Calm(w) =>
    /\ pc[w] = "creating" => src[Env(w)] # "absent"
    /\ pc[w] \in {"tmp_pack", "tmp_packing"} => src[Env(w)] = "finished"
    /\ pc[w] = "tmp_packing" => whole[w] /\ tmp[Env(w)] = Opening(w)
    /\ pc[w] = "tmp_extract" => tmp[Env(w)] = Holding("good")
    /\ pc[w] \in Created => private[w] = "good"
CreateInv == \A w \in Workers : Creating(w)

(* A usable venv, but for the two exceptions.                              *)
Spoilt(e) == e \in overlap \union failed
Usable(w) == pc[w] \in HasVenv /\ ~ Spoilt(Env(w)) => private[w] = "good"
VenvInv ==
  /\ \A e \in Envs : ~ Spoilt(e) => Proper(venv[e])
  /\ \A w \in Workers : Usable(w)

(* An installed checkout, where nothing is rebuilt.                        *)
Cloned == Positions \ ({"idle"} \union RepoSteps)
Checkout(w) ==
  /\ pc[w] # "repo_rm" /\ (pc[w] \in RepoSteps => ~ fromGit[w])
  /\ inst[w] \notin failed =>
       /\ pc[w] \in Cloned => repo[w] \in {"cloned", "good"} /\ (fromGit[w] => repo[w] = "good")
       /\ pc[w] \in {"venv_pack", "venv_packing", "rmtree", "git_packing"} => repo[w] = "good"
       /\ pc[w] = "git_check" => repo[w] = "good" \/ git[inst[w]].there
RepoInv ==
  ~ conf.force =>
    /\ \A i \in Instances \ failed : Proper(git[i])
    /\ \A w \in Workers : Checkout(w)

(* A worker that rebuilds alone finds its archives gone, then its own.     *)
Rebuilding(w) ==
  alone[w] =>
    /\ pc[w] \notin {"repo_extract", "venv_extract", "pip_check", "pip"}
    /\ pc[w] = "repo_check" => ~ git[inst[w]].there
    /\ pc[w] = "venv_check" => ~ venv[Env(w)].there
    /\ pc[w] \in Cloned => repo[w] \in {"cloned", "good"}
    /\ pc[w] \in {"venv_pack", "venv_packing", "rmtree", "git_check", "git_packing"} => repo[w] = "good"
    /\ pc[w] = "venv_packing" => venv[Env(w)] = Opening(w)
    /\ pc[w] \in {"rmtree", "git_check", "git_packing", "ready"} => venv[Env(w)] = Holding("good")
    /\ pc[w] = "git_packing" => git[inst[w]] = Opening(w)
    /\ pc[w] = "ready" => git[inst[w]] = Holding("good")
RebuildInv == conf.force /\ ~ conf.delete => \A w \in Workers : Rebuilding(w)

(* One that creates alone leaves nothing in /tmp.                          *)
Leaving(w) ==
  alone[w] =>
    /\ pc[w] \in {"pip_check", "pip"} => fromVenv[w]
    /\ pc[w] \in {"install", "venv_pack", "venv_packing", "rmtree"} => ~ tmp[Env(w)].there
    /\ pc[w] \in {"git_check", "git_packing", "ready"} /\ ~ fromVenv[w] =>
         src[Env(w)] = "absent" /\ ~ tmp[Env(w)].there
LeftInv == \A w \in Workers : Leaving(w)

-----------------------------------------------------------------------------
(* What opening, closing and a death of the process make of a file.        *)
Contents == {"cloned", "good"}

LEMMA OpenedIsFile ==
  ASSUME NEW C, NEW f \in FileStates(Workers, C), NEW w \in Workers
  PROVE  /\ Opened(f, w) \in FileStates(Workers, C)
         /\ Opened(f, w).there /\ Opened(f, w).writers = f.writers \union {w} /\ Proper(Opened(f, w))
         /\ f.writers = {} => Opened(f, w) = Opening(w)
  BY DEF Opened, FileStates, Opening, Proper

LEMMA ClosedIsFile ==
  ASSUME NEW C, NEW f \in FileStates(Workers, C), NEW w \in Workers,
         NEW content \in {"none", "torn", "short"} \union C, NEW g \in Closed(f, w, content)
  PROVE  /\ g \in FileStates(Workers, C)
         /\ g.writers \subseteq f.writers \ {w}
         /\ f.there \/ f = Absent => (g.there \/ g = Absent) /\ (f.there => g.there)
         /\ content = "good" /\ Proper(f) => Proper(g)
         /\ content = "good" /\ f = Opening(w) => g = Holding("good")
  <1>1. CASE w \notin f.writers
    <2>1. g = f
      BY <1>1 DEF Closed
    <2>q. QED
      BY <1>1, <2>1 DEF FileStates, Opening
  <1>2. CASE w \in f.writers /\ f.writers \ {w} # {}
    <2>1. g = [f EXCEPT !.writers = f.writers \ {w}]
      BY <1>2 DEF Closed
    <2>2. f # Absent /\ f # Opening(w)
      BY <1>2 DEF Absent, Opening
    <2>3. /\ g \in FileStates(Workers, C) /\ g.writers = f.writers \ {w}
          /\ g.there = f.there /\ g.data = f.data
      BY <2>1 DEF FileStates
    <2>q. QED
      BY <2>2, <2>3 DEF Proper
  <1>3. CASE w \in f.writers /\ f.writers \ {w} = {}
    <2>1. PICK d \in {content} \union (IF f.mixed THEN {"torn"} ELSE {}) : g = Holding(d)
      BY <1>3 DEF Closed
    <2>2. d \in {content, "torn"} /\ (f = Opening(w) => d = content)
      BY <2>1 DEF Opening
    <2>q. QED
      BY <1>3, <2>1, <2>2 DEF Holding, FileStates, Proper
  <1>q. QED
    BY <1>1, <1>2, <1>3

LEMMA KilledIsFile ==
  ASSUME NEW C, NEW f \in FileStates(Workers, C)
  PROVE  /\ Killed(f) \in FileStates(Workers, C) /\ Killed(f).writers = {}
         /\ f.there \/ f = Absent => Killed(f).there \/ Killed(f) = Absent
         /\ Proper(f) => Proper(Killed(f))
  BY DEF Killed, Holding, FileStates, Proper

LEMMA AbsentIsFile == ASSUME NEW C PROVE Absent \in FileStates(Workers, C) /\ Proper(Absent)
  BY DEF Absent, FileStates, Proper

-----------------------------------------------------------------------------
(* The values.                                                             *)
LEMMA TypeInit == Init => TypeOK
  <1> SUFFICES ASSUME Init PROVE TypeOK
    OBVIOUS
  <1>1. Holding("good") \in VenvFiles /\ Absent \in VenvFiles /\ Absent \in GitFiles
    BY DEF Holding, Absent, VenvFiles, GitFiles, FileStates
  <1>2. tmp \in [Envs -> VenvFiles] /\ venv \in [Envs -> VenvFiles] /\ git \in [Instances -> GitFiles]
    BY <1>1 DEF Init
  <1>q. QED
    BY <1>2, EnvCacheAssumption DEF Init, TypeOK, Positions

LEMMA TypeNext == TypeOK /\ [Next]_vars => TypeOK'
  <1> SUFFICES ASSUME TypeOK, [Next]_vars PROVE TypeOK'
    OBVIOUS
  <1> USE EnvCacheAssumption
  <1>1. ASSUME NEW w \in Workers, Begin(w) PROVE TypeOK'
    <2>1. /\ pc' \in [Workers -> Positions] /\ inst' \in [Workers -> Instances] /\ begun' \in 0 .. MaxAttempts
          /\ repo' \in [Workers -> {"none", "short", "cloned", "good"}]
          /\ private' \in [Workers -> {"none", "short", "good"}]
      BY <1>1 DEF TypeOK, Begin, Goto, Positions, RepoSteps
    <2>2. fromGit' \in [Workers -> BOOLEAN] /\ fromVenv' \in [Workers -> BOOLEAN] /\ whole' \in [Workers -> BOOLEAN]
      BY <1>1 DEF TypeOK, Begin
    <2>3. alone' \in [Workers -> BOOLEAN]
      BY <1>1, Zenon DEF TypeOK, Begin
    <2>4. UNCHANGED <<conf, src, tmp, venv, git, kills, overlap, failed>>
      BY <1>1 DEF Begin, files
    <2>q. QED
      BY <2>1, <2>2, <2>3, <2>4 DEF TypeOK
  <1>2. ASSUME NEW w \in Workers,
               \/ Finish(w) \/ RepoCheck(w) \/ RepoClone(w) \/ VenvForce(w) \/ VenvCheck(w)
               \/ PipCheck(w) \/ PipInstall(w) \/ StartCreate(w) \/ EndCreate(w) \/ Install(w)
               \/ RemoveSource(w)
        PROVE  TypeOK'
    <2>1. Env(w) \in Envs
      BY DEF TypeOK, Env
    <2>2. \A state \in {"none", "short", "cloned", "good"} : Installed(state) \in {"none", "short", "cloned", "good"}
      BY DEF Installed
    <2>3. UNCHANGED <<conf, inst, tmp, venv, git, begun, kills, alone, failed, fromVenv, whole>>
      BY <1>2 DEF Finish, RepoCheck, RepoClone, VenvForce, VenvCheck, PipCheck, PipInstall, StartCreate,
                  EndCreate, Install, RemoveSource, worker, files, rest, history
    <2>4. pc' \in [Workers -> Positions]
      BY <1>2 DEF TypeOK, Finish, RepoCheck, RepoClone, VenvForce, VenvCheck, PipCheck, PipInstall, StartCreate,
                  EndCreate, Install, RemoveSource, Goto, Positions, RepoSteps, ExtractSteps, CreateSteps
    <2>5. src' \in [Envs -> {"absent", "unfinished", "finished"}]
      BY <1>2, <2>1 DEF TypeOK, Finish, RepoCheck, RepoClone, VenvForce, VenvCheck, PipCheck, PipInstall,
                        StartCreate, EndCreate, Install, RemoveSource, files
    <2>6. repo' \in [Workers -> {"none", "short", "cloned", "good"}]
      BY <1>2, <2>2 DEF TypeOK, Finish, RepoCheck, RepoClone, VenvForce, VenvCheck, PipCheck, PipInstall,
                        StartCreate, EndCreate, Install, RemoveSource, worker
    <2>7. UNCHANGED <<private, fromGit>> /\ overlap' \subseteq Envs
      BY <1>2, <2>1 DEF TypeOK, Finish, RepoCheck, RepoClone, VenvForce, VenvCheck, PipCheck, PipInstall,
                        StartCreate, EndCreate, Install, RemoveSource, worker, rest, history
    <2>q. QED
      BY <2>3, <2>4, <2>5, <2>6, <2>7 DEF TypeOK
  <1>3. ASSUME NEW w \in Workers, RepoRemove(w) \/ GitCheck(w) \/ EndGit(w) PROVE TypeOK'
    <2>1. inst[w] \in Instances /\ git[inst[w]] \in GitFiles /\ repo[w] \in {"none", "short"} \union Contents
      BY DEF TypeOK, Contents
    <2>2. \A f \in Closed(git[inst[w]], w, repo[w]) : f \in GitFiles
      BY <2>1, ClosedIsFile DEF GitFiles, Contents
    <2>3. Absent \in GitFiles /\ Opened(git[inst[w]], w) \in GitFiles
      BY <2>1, OpenedIsFile, AbsentIsFile DEF GitFiles
    <2>4. git' \in [Instances -> GitFiles]
      BY <1>3, <2>1, <2>2, <2>3 DEF TypeOK, RepoRemove, GitCheck, EndGit
    <2>5. pc' \in [Workers -> Positions]
      BY <1>3 DEF TypeOK, RepoRemove, GitCheck, EndGit, Goto, Positions, RepoSteps
    <2>q. QED
      BY <1>3, <2>4, <2>5 DEF TypeOK, RepoRemove, GitCheck, EndGit, worker, rest, history
  <1>4. ASSUME NEW w \in Workers, VenvRemove(w) \/ StartVenv(w) \/ EndVenv(w) PROVE TypeOK'
    <2>1. Env(w) \in Envs /\ venv[Env(w)] \in VenvFiles /\ private[w] \in {"none", "short"} \union {"good"}
      BY DEF TypeOK, Env
    <2>2. \A f \in Closed(venv[Env(w)], w, private[w]) : f \in VenvFiles
      BY <2>1, ClosedIsFile DEF VenvFiles
    <2>3. Absent \in VenvFiles /\ Opened(venv[Env(w)], w) \in VenvFiles
      BY <2>1, OpenedIsFile, AbsentIsFile DEF VenvFiles
    <2>4. venv' \in [Envs -> VenvFiles]
      BY <1>4, <2>1, <2>2, <2>3 DEF TypeOK, VenvRemove, StartVenv, EndVenv
    <2>5. pc' \in [Workers -> Positions]
      BY <1>4 DEF TypeOK, VenvRemove, StartVenv, EndVenv, Goto, Positions, CreateSteps
    <2>q. QED
      BY <1>4, <2>4, <2>5 DEF TypeOK, VenvRemove, StartVenv, EndVenv, worker, rest, history
  <1>5. ASSUME NEW w \in Workers, StartTmp(w) \/ EndTmp(w) \/ ExtractTmp(w) \/ RemoveTmp(w) \/ Fail(w)
        PROVE  TypeOK'
    <2>1. Env(w) \in Envs /\ tmp[Env(w)] \in VenvFiles
      BY DEF TypeOK, Env
    <2>2. \A content \in {"good", "short"} : \A f \in Closed(tmp[Env(w)], w, content) : f \in VenvFiles
      BY <2>1, ClosedIsFile DEF VenvFiles
    <2>3. Absent \in VenvFiles /\ Opened(tmp[Env(w)], w) \in VenvFiles
      BY <2>1, OpenedIsFile, AbsentIsFile DEF VenvFiles
    <2>4. tmp' \in [Envs -> VenvFiles]
      BY <1>5, <2>1, <2>2, <2>3 DEF TypeOK, StartTmp, EndTmp, ExtractTmp, RemoveTmp, Fail, files
    <2>5. pc' \in [Workers -> Positions]
      BY <1>5 DEF TypeOK, StartTmp, EndTmp, ExtractTmp, RemoveTmp, Fail, Goto, Positions, CreateSteps
    <2>6. whole' \in [Workers -> BOOLEAN] /\ private' \in [Workers -> {"none", "short", "good"}]
      BY <1>5 DEF TypeOK, StartTmp, EndTmp, ExtractTmp, RemoveTmp, Fail, worker
    <2>q. QED
      BY <1>5, <2>4, <2>5, <2>6 DEF TypeOK, StartTmp, EndTmp, ExtractTmp, RemoveTmp, Fail, worker, files, rest, history
  <1>6. ASSUME NEW w \in Workers, RepoExtract(w) \/ VenvExtract(w) PROVE TypeOK'
    <2>1. Env(w) \in Envs /\ venv[Env(w)] \in VenvFiles /\ inst[w] \in Instances /\ git[inst[w]] \in GitFiles
      BY DEF TypeOK, Env
    <2>2. /\ Readable(venv[Env(w)]) => venv[Env(w)].data \in {"none", "short", "good"}
          /\ Readable(git[inst[w]]) => git[inst[w]].data \in {"none", "short", "cloned", "good"}
      BY <2>1 DEF VenvFiles, GitFiles, FileStates, Readable
    <2>3. pc' \in [Workers -> Positions]
      BY <1>6 DEF TypeOK, RepoExtract, VenvExtract, Goto, Positions, ExtractSteps
    <2>4. UNCHANGED <<conf, inst, src, tmp, venv, git, begun, kills, alone, overlap, failed, whole>>
      BY <1>6 DEF RepoExtract, VenvExtract, files, rest, history
    <2>5. /\ repo' \in [Workers -> {"none", "short", "cloned", "good"}]
          /\ private' \in [Workers -> {"none", "short", "good"}]
      BY <1>6, <2>2 DEF TypeOK, RepoExtract, VenvExtract
    <2>6. fromGit' \in [Workers -> BOOLEAN] /\ fromVenv' \in [Workers -> BOOLEAN]
      BY <1>6 DEF TypeOK, RepoExtract, VenvExtract
    <2>q. QED
      BY <2>3, <2>4, <2>5, <2>6 DEF TypeOK
  <1>7. ASSUME NEW w \in Workers, FailPacking(w) PROVE TypeOK'
    <2>1. Env(w) \in Envs /\ venv[Env(w)] \in VenvFiles /\ inst[w] \in Instances /\ git[inst[w]] \in GitFiles
      BY DEF TypeOK, Env
    <2>2. /\ \A f \in Abandoned(venv[Env(w)], w) : f \in VenvFiles
          /\ \A f \in Abandoned(git[inst[w]], w) : f \in GitFiles
      BY <2>1, ClosedIsFile DEF VenvFiles, GitFiles, Abandoned
    <2>q. QED
      BY <1>7, <2>1, <2>2 DEF TypeOK, FailPacking, Goto, Positions, worker
  <1>8. CASE Kill
    <2>1. /\ \A e \in Envs : Killed(tmp[e]) \in VenvFiles /\ Killed(venv[e]) \in VenvFiles
          /\ \A i \in Instances : Killed(git[i]) \in GitFiles
      BY KilledIsFile DEF TypeOK, VenvFiles, GitFiles
    <2>q. QED
      BY <1>8, <2>1 DEF TypeOK, Kill, Positions, worker, history
  <1>9. CASE UNCHANGED vars
    BY <1>9 DEF TypeOK, vars, worker, files, rest, history
  <1>q. QED
    BY <1>1, <1>2, <1>3, <1>4, <1>5, <1>6, <1>7, <1>8, <1>9 DEF Next, Step

THEOREM TypeCorrect == Spec => []TypeOK
  BY TypeInit, TypeNext, PTL DEF Spec

-----------------------------------------------------------------------------
(* A step of an attempt, and what it leaves alone.                         *)
Attempt(v) == Step(v) \/ Finish(v) \/ Fail(v) \/ FailPacking(v)
Frame(v) ==
  /\ UNCHANGED <<conf, inst, alone>> /\ overlap \subseteq overlap' /\ failed \subseteq failed' /\ Busy(v)
  /\ \A w \in Workers \ {v} :
       /\ pc'[w] = pc[w] /\ repo'[w] = repo[w] /\ private'[w] = private[w]
       /\ fromGit'[w] = fromGit[w] /\ fromVenv'[w] = fromVenv[w] /\ whole'[w] = whole[w]
  /\ \A e \in Envs \ {Env(v)} : src'[e] = src[e] /\ tmp'[e] = tmp[e] /\ venv'[e] = venv[e]
  /\ \A i \in Instances \ {inst[v]} : git'[i] = git[i]
  /\ pc[v] \in CreateSteps \/ UNCHANGED <<src, tmp>>

LEMMA StepFrame == ASSUME TypeOK, NEW v \in Workers, Attempt(v) PROVE Frame(v)
  <1>1. CASE \/ RepoRemove(v) \/ RepoCheck(v) \/ RepoExtract(v) \/ RepoClone(v)
             \/ VenvForce(v) \/ VenvRemove(v) \/ VenvCheck(v) \/ VenvExtract(v)
             \/ PipCheck(v) \/ PipInstall(v)
    BY <1>1 DEF Frame, TypeOK, Busy, RepoRemove, RepoCheck, RepoExtract, RepoClone, VenvForce, VenvRemove,
                VenvCheck, VenvExtract, PipCheck, PipInstall, Goto, worker, files, rest, history
  <1>2. CASE StartCreate(v) \/ EndCreate(v) \/ StartTmp(v) \/ EndTmp(v) \/ ExtractTmp(v) \/ RemoveTmp(v)
    BY <1>2 DEF Frame, TypeOK, Busy, StartCreate, EndCreate, StartTmp, EndTmp, ExtractTmp, RemoveTmp,
                CreateSteps, Goto, worker, files, rest, history
  <1>3. CASE Install(v) \/ StartVenv(v) \/ EndVenv(v) \/ RemoveSource(v) \/ GitCheck(v) \/ EndGit(v) \/ Finish(v)
    BY <1>3 DEF Frame, TypeOK, Busy, Install, StartVenv, EndVenv, RemoveSource, GitCheck, EndGit, Finish,
                CreateSteps, Goto, worker, files, rest, history
  <1>4. CASE Fail(v) \/ FailPacking(v)
    BY <1>4 DEF Frame, TypeOK, Busy, Fail, FailPacking, CreateSteps, Goto, worker, rest, history
  <1>q. QED
    BY <1>1, <1>2, <1>3, <1>4 DEF Attempt, Step

(* A file gets and keeps the writer that packs it.                         *)
LEMMA TmpStep ==
  ASSUME TypeOK, FilesInv, NEW v \in Workers, Attempt(v)
  PROVE  /\ tmp'[Env(v)].there \/ tmp'[Env(v)] = Absent
         /\ tmp'[Env(v)].writers \subseteq tmp[Env(v)].writers \union {v}
         /\ v \in tmp'[Env(v)].writers => pc'[v] = "tmp_packing"
  <1> DEFINE f == tmp[Env(v)]
             g == tmp'[Env(v)]
  <1>1. Env(v) \in Envs /\ f \in VenvFiles /\ pc \in [Workers -> Positions] /\ tmp \in [Envs -> VenvFiles]
    BY EnvCacheAssumption DEF TypeOK, Env
  <1>2. (f.there \/ f = Absent) /\ (v \in f.writers => pc[v] = "tmp_packing")
    BY <1>1 DEF FilesInv, Writes
  <1>3. CASE g = f /\ pc[v] # "tmp_packing"
    BY <1>2, <1>3
  <1>4. CASE g = Absent
    BY <1>4 DEF Absent
  <1>5. CASE StartTmp(v)
    <2>1. CASE src[Env(v)] = "absent"
      BY <1>3, <1>5, <2>1 DEF StartTmp, Goto
    <2>2. CASE src[Env(v)] # "absent"
      <3>1. g = Opened(f, v) /\ pc'[v] = "tmp_packing"
        BY <1>1, <1>5, <2>2 DEF StartTmp, Goto
      <3>2. g.there /\ g.writers = f.writers \union {v}
        BY <1>1, <3>1, OpenedIsFile DEF VenvFiles
      <3>q. QED
        BY <3>1, <3>2
    <2>q. QED
      BY <2>1, <2>2
  <1>6. CASE EndTmp(v)
    <2>1. PICK content \in {"good", "short"} : g \in Closed(f, v, content)
      BY <1>1, <1>6 DEF EndTmp
    <2>2. g.writers \subseteq f.writers \ {v} /\ (g.there \/ g = Absent)
      BY <1>1, <1>2, <2>1, ClosedIsFile DEF VenvFiles
    <2>q. QED
      BY <2>2
  <1>7. CASE ExtractTmp(v) \/ RemoveTmp(v) \/ Fail(v)
    <2>1. g = Absent \/ (g = f /\ pc[v] # "tmp_packing")
      BY <1>1, <1>7 DEF ExtractTmp, RemoveTmp, Fail, Goto, files
    <2>q. QED
      BY <1>3, <1>4, <2>1
  <1>8. CASE \/ RepoRemove(v) \/ RepoCheck(v) \/ RepoExtract(v) \/ RepoClone(v)
             \/ VenvForce(v) \/ VenvRemove(v) \/ VenvCheck(v) \/ VenvExtract(v)
             \/ PipCheck(v) \/ PipInstall(v) \/ StartCreate(v) \/ EndCreate(v) \/ Install(v)
             \/ StartVenv(v) \/ EndVenv(v) \/ RemoveSource(v) \/ GitCheck(v) \/ EndGit(v) \/ Finish(v)
             \/ FailPacking(v)
    <2>1. tmp' = tmp /\ pc[v] # "tmp_packing"
      BY <1>8 DEF RepoRemove, RepoCheck, RepoExtract, RepoClone, VenvForce, VenvRemove, VenvCheck, VenvExtract,
                  PipCheck, PipInstall, StartCreate, EndCreate, Install, StartVenv, EndVenv, RemoveSource,
                  GitCheck, EndGit, Finish, FailPacking, Goto, files
    <2>q. QED
      BY <1>3, <2>1
  <1>q. QED
    BY <1>5, <1>6, <1>7, <1>8 DEF Attempt, Step

LEMMA VenvStep ==
  ASSUME TypeOK, FilesInv, NEW v \in Workers, Attempt(v)
  PROVE  /\ venv'[Env(v)].there \/ venv'[Env(v)] = Absent
         /\ venv'[Env(v)].writers \subseteq venv[Env(v)].writers \union {v}
         /\ v \in venv'[Env(v)].writers => pc'[v] = "venv_packing"
  <1> DEFINE f == venv[Env(v)]
             g == venv'[Env(v)]
  <1>1. Env(v) \in Envs /\ f \in VenvFiles /\ pc \in [Workers -> Positions] /\ venv \in [Envs -> VenvFiles]
    BY EnvCacheAssumption DEF TypeOK, Env
  <1>2. (f.there \/ f = Absent) /\ (v \in f.writers => pc[v] = "venv_packing")
    BY <1>1 DEF FilesInv, Writes
  <1>3. CASE StartVenv(v)
    <2>1. g = Opened(f, v) /\ pc'[v] = "venv_packing"
      BY <1>1, <1>3 DEF StartVenv, Goto
    <2>2. g.there /\ g.writers = f.writers \union {v}
      BY <1>1, <2>1, OpenedIsFile DEF VenvFiles
    <2>q. QED
      BY <2>1, <2>2
  <1>4. ASSUME NEW content \in {"none", "torn", "short", "good"}, g \in Closed(f, v, content)
        PROVE  g.writers \subseteq f.writers \ {v} /\ (g.there \/ g = Absent)
    BY <1>1, <1>2, <1>4, ClosedIsFile DEF VenvFiles
  <1>5. CASE EndVenv(v) \/ (FailPacking(v) /\ pc[v] = "venv_packing")
    <2>1. \E content \in {"none", "torn", "short", "good"} : g \in Closed(f, v, content)
      BY <1>1, <1>5 DEF EndVenv, FailPacking, Goto, Abandoned, TypeOK
    <2>q. QED
      BY <1>4, <2>1
  <1>6. CASE VenvRemove(v)
    BY <1>1, <1>6 DEF VenvRemove, Absent
  <1>7. CASE \/ RepoRemove(v) \/ RepoCheck(v) \/ RepoExtract(v) \/ RepoClone(v)
             \/ VenvForce(v) \/ VenvCheck(v) \/ VenvExtract(v) \/ PipCheck(v) \/ PipInstall(v)
             \/ StartCreate(v) \/ EndCreate(v) \/ StartTmp(v) \/ EndTmp(v) \/ ExtractTmp(v) \/ RemoveTmp(v)
             \/ Install(v) \/ RemoveSource(v) \/ GitCheck(v) \/ EndGit(v) \/ Finish(v) \/ Fail(v)
             \/ (FailPacking(v) /\ pc[v] # "venv_packing")
    <2>1. venv' = venv /\ pc[v] # "venv_packing"
      BY <1>7 DEF RepoRemove, RepoCheck, RepoExtract, RepoClone, VenvForce, VenvCheck, VenvExtract,
                  PipCheck, PipInstall, StartCreate, EndCreate, StartTmp, EndTmp, ExtractTmp, RemoveTmp,
                  Install, RemoveSource, GitCheck, EndGit, Finish, Fail, FailPacking, Goto, files
    <2>q. QED
      BY <1>2, <2>1
  <1>q. QED
    BY <1>3, <1>5, <1>6, <1>7 DEF Attempt, Step

LEMMA GitStep ==
  ASSUME TypeOK, FilesInv, NEW v \in Workers, Attempt(v)
  PROVE  /\ git'[inst[v]].there \/ git'[inst[v]] = Absent
         /\ git[inst[v]].there /\ pc[v] # "repo_rm" => git'[inst[v]].there
         /\ git'[inst[v]].writers \subseteq git[inst[v]].writers \union {v}
         /\ v \in git'[inst[v]].writers => pc'[v] = "git_packing"
  <1> DEFINE f == git[inst[v]]
             g == git'[inst[v]]
  <1>1. inst[v] \in Instances /\ f \in GitFiles /\ pc \in [Workers -> Positions] /\ git \in [Instances -> GitFiles]
    BY DEF TypeOK
  <1>2. (f.there \/ f = Absent) /\ (v \in f.writers => pc[v] = "git_packing")
    BY <1>1 DEF FilesInv
  <1>3. CASE GitCheck(v) /\ GitWanted(inst[v])
    <2>1. g = Opened(f, v) /\ pc'[v] = "git_packing"
      BY <1>1, <1>3 DEF GitCheck, Goto
    <2>2. g.there /\ g.writers = f.writers \union {v}
      BY <1>1, <2>1, OpenedIsFile DEF GitFiles
    <2>q. QED
      BY <2>1, <2>2
  <1>4. ASSUME NEW content \in {"none", "torn", "short", "cloned", "good"}, g \in Closed(f, v, content)
        PROVE  g.writers \subseteq f.writers \ {v} /\ (g.there \/ g = Absent) /\ (f.there => g.there)
    BY <1>1, <1>2, <1>4, ClosedIsFile DEF GitFiles
  <1>5. CASE EndGit(v) \/ (FailPacking(v) /\ pc[v] = "git_packing")
    <2>1. \E content \in {"none", "torn", "short", "cloned", "good"} : g \in Closed(f, v, content)
      BY <1>1, <1>5 DEF EndGit, FailPacking, Goto, Abandoned, TypeOK
    <2>q. QED
      BY <1>4, <2>1
  <1>6. CASE RepoRemove(v)
    BY <1>1, <1>6 DEF RepoRemove, Absent, Goto
  <1>7. CASE \/ RepoCheck(v) \/ RepoExtract(v) \/ RepoClone(v)
             \/ VenvForce(v) \/ VenvRemove(v) \/ VenvCheck(v) \/ VenvExtract(v) \/ PipCheck(v) \/ PipInstall(v)
             \/ StartCreate(v) \/ EndCreate(v) \/ StartTmp(v) \/ EndTmp(v) \/ ExtractTmp(v) \/ RemoveTmp(v)
             \/ Install(v) \/ StartVenv(v) \/ EndVenv(v) \/ RemoveSource(v) \/ Finish(v) \/ Fail(v)
             \/ (GitCheck(v) /\ ~ GitWanted(inst[v])) \/ (FailPacking(v) /\ pc[v] # "git_packing")
    <2>1. git' = git /\ pc[v] # "git_packing"
      BY <1>7 DEF RepoCheck, RepoExtract, RepoClone, VenvForce, VenvRemove, VenvCheck, VenvExtract,
                  PipCheck, PipInstall, StartCreate, EndCreate, StartTmp, EndTmp, ExtractTmp, RemoveTmp,
                  Install, StartVenv, EndVenv, RemoveSource, Finish, Fail, GitCheck, FailPacking, Goto, files
    <2>q. QED
      BY <1>2, <2>1
  <1>q. QED
    BY <1>3, <1>5, <1>6, <1>7 DEF Attempt, Step

(* What a new attempt changes: only its own worker's variables.            *)
Entry(v) ==
  /\ UNCHANGED <<conf, src, tmp, venv, git, overlap, failed>> /\ pc[v] = "idle"
  /\ pc'[v] = IF conf.force /\ git[inst'[v]].there THEN "repo_rm" ELSE "repo_check"
  /\ inst'[v] \in Instances
  /\ alone'[v] => \A w \in Workers \ {v} : Busy(w) => Env(w) # EnvOf[inst'[v]]
  /\ \A w \in Workers \ {v} :
       /\ pc'[w] = pc[w] /\ inst'[w] = inst[w] /\ repo'[w] = repo[w] /\ private'[w] = private[w]
       /\ fromGit'[w] = fromGit[w] /\ fromVenv'[w] = fromVenv[w] /\ whole'[w] = whole[w]
       /\ alone'[w] => alone[w] /\ (Busy(w) => Env(w) # EnvOf[inst'[v]])

LEMMA BeginEntry == ASSUME TypeOK, NEW v \in Workers, Begin(v) PROVE Entry(v)
  <1>1. PICK i \in Instances :
          /\ Goto(v, "idle", IF conf.force /\ git[i].there THEN "repo_rm" ELSE "repo_check")
          /\ inst' = [inst EXCEPT ![v] = i]
          /\ alone' = [w \in Workers |->
                         IF w = v THEN {u \in Workers \ {v} : Busy(u) /\ Env(u) = EnvOf[i]} = {}
                         ELSE alone[w] /\ w \notin {u \in Workers \ {v} : Busy(u) /\ Env(u) = EnvOf[i]}]
    BY DEF Begin
  <1>2. inst'[v] = i /\ \A w \in Workers \ {v} : inst'[w] = inst[w]
    BY <1>1 DEF TypeOK
  <1>3. /\ pc[v] = "idle" /\ \A w \in Workers \ {v} : pc'[w] = pc[w]
        /\ pc'[v] = IF conf.force /\ git[i].there THEN "repo_rm" ELSE "repo_check"
    BY <1>1 DEF TypeOK, Goto
  <1>4. /\ alone'[v] => \A w \in Workers \ {v} : Busy(w) => Env(w) # EnvOf[i]
        /\ \A w \in Workers \ {v} : alone'[w] => alone[w] /\ (Busy(w) => Env(w) # EnvOf[i])
    <2> DEFINE others == {u \in Workers \ {v} : Busy(u) /\ Env(u) = EnvOf[i]}
    <2>1. alone'[v] <=> others = {}
      BY <1>1
    <2>2. \A w \in Workers \ {v} : alone'[w] <=> alone[w] /\ w \notin others
      BY <1>1
    <2>q. QED
      BY <2>1, <2>2
  <1>5. \A w \in Workers \ {v} :
          /\ repo'[w] = repo[w] /\ private'[w] = private[w]
          /\ fromGit'[w] = fromGit[w] /\ fromVenv'[w] = fromVenv[w] /\ whole'[w] = whole[w]
    BY DEF Begin, TypeOK
  <1>6. UNCHANGED <<conf, src, tmp, venv, git, overlap, failed>>
    BY DEF Begin, files
  <1>q. QED
    BY <1>1, <1>2, <1>3, <1>4, <1>5, <1>6 DEF Entry

(* Whatever happens, the writers of a file are those that pack it.         *)
LEMMA FilesNext == TypeOK /\ FilesInv /\ [Next]_vars => FilesInv'
  <1> SUFFICES ASSUME TypeOK, FilesInv, [Next]_vars PROVE FilesInv'
    OBVIOUS
  <1>0. tmp \in [Envs -> VenvFiles] /\ venv \in [Envs -> VenvFiles] /\ git \in [Instances -> GitFiles]
    BY DEF TypeOK
  <1>1. ASSUME NEW v \in Workers, Attempt(v) PROVE FilesInv'
    <2>1. Frame(v) /\ inst' = inst
      BY <1>1, StepFrame DEF Frame
    <2>2. \A w \in Workers : Env(w)' = Env(w)
      BY <2>1 DEF Env
    <2>3. ASSUME NEW e \in Envs
          PROVE  /\ tmp'[e].there \/ tmp'[e] = Absent
                 /\ venv'[e].there \/ venv'[e] = Absent
                 /\ \A w \in tmp'[e].writers : Writes(w, e, "tmp_packing")'
                 /\ \A w \in venv'[e].writers : Writes(w, e, "venv_packing")'
      <3>0. tmp[e].writers \subseteq Workers /\ venv[e].writers \subseteq Workers
        BY <1>0 DEF VenvFiles, FileStates
      <3>1. CASE e = Env(v)
        <4>1. /\ tmp'[e].there \/ tmp'[e] = Absent
              /\ venv'[e].there \/ venv'[e] = Absent
              /\ tmp'[e].writers \subseteq tmp[e].writers \union {v}
              /\ venv'[e].writers \subseteq venv[e].writers \union {v}
              /\ v \in tmp'[e].writers => pc'[v] = "tmp_packing"
              /\ v \in venv'[e].writers => pc'[v] = "venv_packing"
          BY <1>1, <3>1, TmpStep, VenvStep
        <4>2. \A w \in Workers \ {v} : pc'[w] = pc[w]
          BY <2>1 DEF Frame
        <4>q. QED
          BY <2>2, <3>0, <3>1, <4>1, <4>2 DEF FilesInv, Writes
      <3>2. CASE e # Env(v)
        <4>1. tmp'[e] = tmp[e] /\ venv'[e] = venv[e] /\ \A w \in Workers \ {v} : pc'[w] = pc[w]
          BY <2>1, <3>2 DEF Frame
        <4>q. QED
          BY <2>2, <3>0, <3>2, <4>1 DEF FilesInv, Writes
      <3>q. QED
        BY <3>1, <3>2
    <2>4. ASSUME NEW i \in Instances
          PROVE  /\ git'[i].there \/ git'[i] = Absent
                 /\ \A w \in git'[i].writers : pc'[w] = "git_packing" /\ inst'[w] = i
      <3>0. git[i].writers \subseteq Workers
        BY <1>0 DEF GitFiles, FileStates
      <3>1. CASE i = inst[v]
        <4>1. /\ git'[i].there \/ git'[i] = Absent
              /\ git'[i].writers \subseteq git[i].writers \union {v}
              /\ v \in git'[i].writers => pc'[v] = "git_packing"
          BY <1>1, <3>1, GitStep
        <4>2. \A w \in Workers \ {v} : pc'[w] = pc[w]
          BY <2>1 DEF Frame
        <4>q. QED
          BY <2>1, <3>0, <3>1, <4>1, <4>2 DEF FilesInv
      <3>2. CASE i # inst[v]
        <4>1. git'[i] = git[i] /\ \A w \in Workers \ {v} : pc'[w] = pc[w]
          BY <2>1, <3>2 DEF Frame
        <4>q. QED
          BY <2>1, <3>0, <3>2, <4>1 DEF FilesInv
      <3>q. QED
        BY <3>1, <3>2
    <2>q. QED
      BY <2>3, <2>4 DEF FilesInv
  <1>2. ASSUME NEW v \in Workers, Begin(v) PROVE FilesInv'
    <2>1. Entry(v)
      BY <1>2, BeginEntry
    <2>2. \A w \in Workers : pc[w] # "idle" => pc'[w] = pc[w] /\ inst'[w] = inst[w] /\ Env(w)' = Env(w)
      BY <2>1 DEF Entry, Env
    <2>3. /\ \A e \in Envs : tmp[e].writers \subseteq Workers /\ venv[e].writers \subseteq Workers
          /\ \A i \in Instances : git[i].writers \subseteq Workers
      BY <1>0 DEF VenvFiles, GitFiles, FileStates
    <2>q. QED
      BY <2>1, <2>2, <2>3 DEF FilesInv, Writes, Entry
  <1>3. CASE Kill
    <2>1. \A e \in Envs : /\ tmp'[e].writers = {} /\ (tmp'[e].there \/ tmp'[e] = Absent)
                          /\ venv'[e].writers = {} /\ (venv'[e].there \/ venv'[e] = Absent)
      BY <1>0, <1>3, KilledIsFile DEF Kill, FilesInv, VenvFiles
    <2>2. \A i \in Instances : git'[i].writers = {} /\ (git'[i].there \/ git'[i] = Absent)
      BY <1>0, <1>3, KilledIsFile DEF Kill, FilesInv, GitFiles
    <2>q. QED
      BY <2>1, <2>2 DEF FilesInv
  <1>4. CASE UNCHANGED vars
    BY <1>4 DEF FilesInv, Writes, Env, vars, worker, files
  <1>q. QED
    BY <1>1, <1>2, <1>3, <1>4 DEF Next, Attempt

(* Two that create one environment have met at the test for its archive.   *)
LEMMA AloneNext == TypeOK /\ AloneInv /\ [Next]_vars => AloneInv'
  <1> SUFFICES ASSUME TypeOK, AloneInv, [Next]_vars PROVE AloneInv'
    OBVIOUS
  <1>1. ASSUME NEW v \in Workers, Attempt(v) PROVE AloneInv'
    <2>1. Frame(v)
      BY <1>1, StepFrame
    <2>2. \A w \in Workers : /\ Env(w)' = Env(w) /\ alone'[w] = alone[w]
                             /\ Busy(w)' => Busy(w)
                             /\ w # v => pc'[w] = pc[w]
      BY <2>1 DEF Frame, Env, Busy
    <2>3. pc'[v] \in CreateSteps =>
            \/ pc[v] \in CreateSteps
            \/ Creators(Env(v)) # {} => Env(v) \in overlap'
      <3>1. CASE VenvCheck(v)
        BY <3>1 DEF VenvCheck, Goto, CreateSteps, TypeOK
      <3>2. CASE ~VenvCheck(v)
        <4>1. pc'[v] \in CreateSteps => pc[v] \in CreateSteps
          BY <1>1, <3>2 DEF Attempt, Step, RepoRemove, RepoCheck, RepoExtract, RepoClone, VenvForce, VenvRemove,
             VenvExtract, PipCheck, PipInstall, StartCreate, EndCreate, StartTmp, EndTmp, ExtractTmp, RemoveTmp,
             Install, StartVenv, EndVenv, RemoveSource, GitCheck, EndGit, Finish, Fail, FailPacking, Goto,
             CreateSteps, TypeOK
        <4>q. QED
          BY <4>1
      <3>q. QED
        BY <3>1, <3>2
    <2>4. ASSUME NEW w \in Workers \ {v}, pc[w] \in CreateSteps, Env(w) = Env(v), pc'[v] \in CreateSteps
          PROVE  Env(v) \in overlap'
      <3>1. w \in Creators(Env(v))
        BY <2>4 DEF Creators
      <3>2. overlap \subseteq overlap'
        BY <2>1 DEF Frame
      <3>q. QED
        BY <2>3, <2>4, <3>1, <3>2 DEF AloneInv
    <2>5. \A w, u \in Workers : w # u /\ alone'[w] /\ Busy(w)' /\ Busy(u)' => Env(w)' # Env(u)'
      BY <2>2 DEF AloneInv
    <2>6. \A w, u \in Workers : w # u /\ {pc'[w], pc'[u]} \subseteq CreateSteps /\ Env(w)' = Env(u)'
                                  => Env(w)' \in overlap'
      BY <2>1, <2>2, <2>4 DEF AloneInv, Frame
    <2>q. QED
      BY <2>5, <2>6 DEF AloneInv
  <1>2. ASSUME NEW v \in Workers, Begin(v) PROVE AloneInv'
    <2>1. Entry(v)
      BY <1>2, BeginEntry
    <2>2. /\ \A w \in Workers \ {v} : /\ Env(w)' = Env(w) /\ pc'[w] = pc[w] /\ Busy(w)' = Busy(w)
                                      /\ alone'[w] => alone[w] /\ (Busy(w) => Env(w) # Env(v)')
          /\ alone'[v] => \A w \in Workers \ {v} : Busy(w) => Env(w) # Env(v)'
          /\ pc'[v] \notin CreateSteps /\ overlap' = overlap
      BY <2>1 DEF Entry, Env, Busy, CreateSteps
    <2>3. \A w, u \in Workers : w # u /\ alone'[w] /\ Busy(w)' /\ Busy(u)' => Env(w)' # Env(u)'
      BY <2>2 DEF AloneInv
    <2>4. \A w, u \in Workers : w # u /\ {pc'[w], pc'[u]} \subseteq CreateSteps /\ Env(w)' = Env(u)'
                                  => Env(w)' \in overlap'
      BY <2>2 DEF AloneInv
    <2>q. QED
      BY <2>3, <2>4 DEF AloneInv
  <1>3. CASE Kill
    BY <1>3 DEF Kill, AloneInv, Busy, CreateSteps
  <1>4. CASE UNCHANGED vars
    BY <1>4 DEF AloneInv, Env, Busy, vars, worker, rest, history
  <1>q. QED
    BY <1>1, <1>2, <1>3, <1>4 DEF Next, Attempt

-----------------------------------------------------------------------------
(* What a worker keeps while others take a step.                           *)
LEMMA CalmSole ==
  ASSUME AloneInv, NEW w \in Workers, NEW v \in Workers, w # v, Calm(w), pc[w] \in CreateSteps,
         Env(w) = Env(v)
  PROVE  pc[v] \notin CreateSteps
  BY DEF AloneInv, Calm, Busy, CreateSteps

LEMMA OthersCalm ==
  ASSUME TypeOK, AloneInv, NEW v \in Workers, Attempt(v) \/ Begin(v), NEW w \in Workers \ {v}, Calm(w)'
  PROVE  /\ Calm(w) /\ Env(w)' = Env(w) /\ pc'[w] = pc[w] /\ private'[w] = private[w] /\ whole'[w] = whole[w]
         /\ pc[w] \in CreateSteps => src'[Env(w)] = src[Env(w)] /\ tmp'[Env(w)] = tmp[Env(w)]
  <1>0. Env(w) \in Envs
    BY EnvCacheAssumption DEF TypeOK, Env
  <1>1. CASE Attempt(v)
    <2>1. Frame(v) /\ inst' = inst /\ alone' = alone /\ overlap \subseteq overlap'
      BY <1>1, StepFrame DEF Frame
    <2>2. Calm(w) /\ Env(w)' = Env(w)
      BY <2>1 DEF Calm, Env
    <2>3. pc[w] \in CreateSteps => src'[Env(w)] = src[Env(w)] /\ tmp'[Env(w)] = tmp[Env(w)]
      <3>1. CASE Env(w) = Env(v)
        BY <2>1, <2>2, <3>1, CalmSole DEF Frame
      <3>2. CASE Env(w) # Env(v)
        BY <1>0, <2>1, <3>2 DEF Frame
      <3>q. QED
        BY <3>1, <3>2
    <2>q. QED
      BY <2>1, <2>2, <2>3 DEF Frame
  <1>2. CASE Begin(v)
    <2>1. Entry(v)
      BY <1>2, BeginEntry
    <2>2. inst'[w] = inst[w] /\ (alone'[w] => alone[w]) /\ UNCHANGED <<overlap, src, tmp>>
      BY <2>1 DEF Entry
    <2>q. QED
      BY <2>1, <2>2 DEF Entry, Calm, Env
  <1>q. QED
    BY <1>1, <1>2

(* A worker that is alone keeps all of its files.                          *)
LEMMA OthersAlone ==
  ASSUME TypeOK, AloneInv, NEW v \in Workers, Attempt(v) \/ Begin(v), NEW w \in Workers \ {v}, alone'[w],
         pc[w] # "idle"
  PROVE  /\ alone[w] /\ inst'[w] = inst[w] /\ Env(w)' = Env(w) /\ pc'[w] = pc[w]
         /\ repo'[w] = repo[w] /\ private'[w] = private[w] /\ fromVenv'[w] = fromVenv[w]
         /\ src'[Env(w)] = src[Env(w)] /\ tmp'[Env(w)] = tmp[Env(w)] /\ venv'[Env(w)] = venv[Env(w)]
         /\ git'[inst[w]] = git[inst[w]]
  <1>0. Env(w) \in Envs /\ inst[w] \in Instances
    BY EnvCacheAssumption DEF TypeOK, Env
  <1>1. CASE Attempt(v)
    <2>1. Frame(v) /\ inst' = inst /\ alone' = alone /\ Busy(v)
      BY <1>1, StepFrame DEF Frame
    <2>2. Env(w) # Env(v) /\ Env(w)' = Env(w)
      BY <2>1 DEF AloneInv, Env, Busy
    <2>3. inst[w] # inst[v]
      BY <2>2 DEF Env
    <2>q. QED
      BY <1>0, <2>1, <2>2, <2>3 DEF Frame
  <1>2. CASE Begin(v)
    BY <1>2, BeginEntry DEF Entry, Env
  <1>q. QED
    BY <1>1, <1>2

(* The creation directory and the archive in /tmp, step by step.           *)
LEMMA CreateNext == TypeOK /\ FilesInv /\ AloneInv /\ CreateInv /\ [Next]_vars => CreateInv'
  <1> SUFFICES ASSUME TypeOK, FilesInv, AloneInv, CreateInv, [Next]_vars PROVE CreateInv'
    OBVIOUS
  <1>1. ASSUME NEW v \in Workers, Attempt(v) \/ Begin(v), NEW w \in Workers \ {v} PROVE Creating(w)'
    <2>1. CASE Calm(w)'
      <3>1. /\ Calm(w) /\ Env(w)' = Env(w) /\ pc'[w] = pc[w] /\ private'[w] = private[w] /\ whole'[w] = whole[w]
            /\ pc[w] \in CreateSteps => src'[Env(w)] = src[Env(w)] /\ tmp'[Env(w)] = tmp[Env(w)]
        BY <1>1, <2>1, OthersCalm
      <3>2. Creating(w)
        BY DEF CreateInv
      <3>q. QED
        BY <3>1, <3>2 DEF Creating, CreateSteps
    <2>2. CASE ~Calm(w)'
      BY <2>2 DEF Creating
    <2>q. QED
      BY <2>1, <2>2
  <1>2. ASSUME NEW v \in Workers, Attempt(v) PROVE Creating(v)'
    <2> SUFFICES ASSUME Calm(v)'
                 PROVE  /\ pc'[v] = "creating" => src'[Env(v)] # "absent"
                        /\ pc'[v] \in {"tmp_pack", "tmp_packing"} => src'[Env(v)] = "finished"
                        /\ pc'[v] = "tmp_packing" => whole'[v] /\ tmp'[Env(v)] = Opening(v)
                        /\ pc'[v] = "tmp_extract" => tmp'[Env(v)] = Holding("good")
                        /\ pc'[v] \in Created => private'[v] = "good"
      <3>1. Env(v)' = Env(v)
        BY <1>2, StepFrame DEF Frame, Env
      <3>q. QED
        BY <3>1 DEF Creating
    <2>1. Calm(v) /\ Creating(v) /\ inst' = inst
      <3>1. inst' = inst /\ alone' = alone /\ overlap \subseteq overlap'
        BY <1>2, StepFrame DEF Frame
      <3>q. QED
        BY <3>1 DEF Calm, Env, CreateInv
    <2>2. /\ Env(v) \in Envs /\ tmp[Env(v)] \in VenvFiles /\ src \in [Envs -> {"absent", "unfinished", "finished"}]
          /\ tmp \in [Envs -> VenvFiles] /\ pc \in [Workers -> Positions] /\ whole \in [Workers -> BOOLEAN]
          /\ private \in [Workers -> {"none", "short", "good"}]
      BY EnvCacheAssumption DEF TypeOK, Env
    <2>3. CASE StartCreate(v)
      BY <2>2, <2>3 DEF StartCreate, Goto, Created
    <2>4. CASE EndCreate(v)
      BY <2>1, <2>2, <2>4 DEF EndCreate, Goto, Created, Creating
    <2>5. CASE StartTmp(v)
      <3>1. src[Env(v)] = "finished" /\ pc[v] = "tmp_pack" /\ pc[v] \in CreateSteps
        BY <2>1, <2>5 DEF StartTmp, Goto, Creating, CreateSteps
      <3>2. /\ pc'[v] = "tmp_packing" /\ tmp'[Env(v)] = Opened(tmp[Env(v)], v) /\ whole'[v] /\ src' = src
        BY <2>2, <2>5, <3>1 DEF StartTmp, Goto
      <3>3. tmp[Env(v)].writers = {}
        <4> SUFFICES ASSUME NEW u \in tmp[Env(v)].writers PROVE FALSE
          OBVIOUS
        <4>1. u \in Workers /\ pc[u] = "tmp_packing" /\ Env(u) = Env(v)
          BY <2>2 DEF FilesInv, Writes, VenvFiles, FileStates
        <4>2. u # v /\ pc[u] \in CreateSteps /\ Env(v) = Env(u)
          BY <3>1, <4>1 DEF CreateSteps
        <4>q. QED
          BY <2>1, <3>1, <4>1, <4>2, CalmSole
      <3>4. tmp'[Env(v)] = Opening(v)
        <4>1. tmp[Env(v)] \in FileStates(Workers, {"good"})
          BY <2>2 DEF VenvFiles
        <4>2. Opened(tmp[Env(v)], v) = Opening(v)
          BY <3>3, <4>1, OpenedIsFile
        <4>q. QED
          BY <3>2, <4>2
      <3>q. QED
        BY <3>1, <3>2, <3>4 DEF Created
    <2>6. CASE EndTmp(v)
      <3>1. whole[v] /\ src[Env(v)] = "finished" /\ tmp[Env(v)] = Opening(v) /\ pc'[v] = "tmp_extract"
        BY <2>1, <2>2, <2>6 DEF EndTmp, Goto, Creating
      <3>2. tmp'[Env(v)] \in Closed(tmp[Env(v)], v, "good")
        BY <2>2, <2>6, <3>1 DEF EndTmp
      <3>3. tmp'[Env(v)] = Holding("good")
        BY <2>2, <3>1, <3>2, ClosedIsFile DEF VenvFiles
      <3>q. QED
        BY <3>1, <3>3 DEF Created
    <2>7. CASE ExtractTmp(v)
      <3>1. pc[v] = "tmp_extract" /\ tmp[Env(v)] = Holding("good")
        BY <2>1, <2>7 DEF ExtractTmp, Goto, Creating
      <3>2. pc'[v] = "idle" \/ (pc'[v] = "tmp_rm" /\ private'[v] = "good")
        BY <2>2, <2>7, <3>1 DEF ExtractTmp, Goto, Holding
      <3>q. QED
        BY <3>2 DEF Created
    <2>8. CASE RemoveTmp(v) \/ Install(v) \/ StartVenv(v) \/ EndVenv(v)
      <3>1. pc[v] \in Created /\ pc'[v] \in Created /\ private' = private
        BY <2>2, <2>8 DEF RemoveTmp, Install, StartVenv, EndVenv, Goto, Created, worker
      <3>q. QED
        BY <2>1, <3>1 DEF Creating, Created
    <2>9. CASE \/ RepoRemove(v) \/ RepoCheck(v) \/ RepoExtract(v) \/ RepoClone(v)
               \/ VenvForce(v) \/ VenvRemove(v) \/ VenvCheck(v) \/ VenvExtract(v)
               \/ PipCheck(v) \/ PipInstall(v) \/ RemoveSource(v) \/ GitCheck(v) \/ EndGit(v)
               \/ Finish(v) \/ Fail(v) \/ FailPacking(v)
      <3>1. pc'[v] \notin {"creating", "tmp_pack", "tmp_packing", "tmp_extract"} \union Created
        BY <2>2, <2>9 DEF RepoRemove, RepoCheck, RepoExtract, RepoClone, VenvForce, VenvRemove, VenvCheck,
                          VenvExtract, PipCheck, PipInstall, RemoveSource, GitCheck, EndGit, Finish, Fail,
                          FailPacking, Goto, Created
      <3>q. QED
        BY <3>1
    <2>q. QED
      BY <1>2, <2>3, <2>4, <2>5, <2>6, <2>7, <2>8, <2>9 DEF Attempt, Step
  <1>3. ASSUME NEW v \in Workers, Begin(v) PROVE Creating(v)'
    <2>1. pc'[v] \in {"repo_rm", "repo_check"}
      BY <1>3, BeginEntry DEF Entry
    <2>q. QED
      BY <2>1 DEF Creating, Created
  <1>4. CASE Kill
    BY <1>4 DEF Kill, CreateInv, Creating, Created
  <1>5. CASE UNCHANGED vars
    BY <1>5 DEF CreateInv, Creating, Calm, Env, vars, worker, files, rest, history
  <1>6. ASSUME NEW v \in Workers, Attempt(v) \/ Begin(v) PROVE CreateInv'
    BY <1>1, <1>2, <1>3, <1>6 DEF CreateInv
  <1>q. QED
    BY <1>4, <1>5, <1>6 DEF Next, Attempt

(* The archive of an environment is packed well, but for the exceptions.   *)
LEMMA VenvProper ==
  ASSUME TypeOK, NEW v \in Workers, Attempt(v), Usable(v), Proper(venv[Env(v)]), ~ Spoilt(Env(v))'
  PROVE  Proper(venv'[Env(v)])
  <1>1. /\ Env(v) \in Envs /\ venv[Env(v)] \in FileStates(Workers, {"good"})
        /\ pc \in [Workers -> Positions] /\ venv \in [Envs -> VenvFiles]
    BY EnvCacheAssumption DEF TypeOK, Env, VenvFiles
  <1>2. Env(v) \notin failed' \union overlap' /\ ~ Spoilt(Env(v))
    <2>1. inst' = inst /\ overlap \subseteq overlap' /\ failed \subseteq failed'
      BY StepFrame DEF Frame
    <2>q. QED
      BY <2>1 DEF Spoilt, Env
  <1>3. CASE StartVenv(v)
    <2>1. venv'[Env(v)] = Opened(venv[Env(v)], v)
      BY <1>1, <1>3 DEF StartVenv
    <2>2. Proper(Opened(venv[Env(v)], v))
      BY <1>1, OpenedIsFile
    <2>q. QED
      BY <2>1, <2>2
  <1>4. CASE EndVenv(v)
    <2>1. private[v] = "good"
      BY <1>2, <1>4 DEF EndVenv, Goto, Usable, HasVenv
    <2>2. PICK g \in Closed(venv[Env(v)], v, "good") : venv'[Env(v)] = g
      BY <1>1, <1>4, <2>1 DEF EndVenv
    <2>3. Proper(g)
      BY <1>1, <2>2, ClosedIsFile
    <2>q. QED
      BY <2>2, <2>3
  <1>5. CASE VenvRemove(v)
    <2>1. venv'[Env(v)] = Absent
      BY <1>1, <1>5 DEF VenvRemove
    <2>q. QED
      BY <2>1, AbsentIsFile
  <1>6. CASE FailPacking(v)
    BY <1>2, <1>6 DEF FailPacking
  <1>7. CASE \/ RepoRemove(v) \/ RepoCheck(v) \/ RepoExtract(v) \/ RepoClone(v)
             \/ VenvForce(v) \/ VenvCheck(v) \/ VenvExtract(v) \/ PipCheck(v) \/ PipInstall(v)
             \/ StartCreate(v) \/ EndCreate(v) \/ StartTmp(v) \/ EndTmp(v) \/ ExtractTmp(v) \/ RemoveTmp(v)
             \/ Install(v) \/ RemoveSource(v) \/ GitCheck(v) \/ EndGit(v) \/ Finish(v) \/ Fail(v)
    <2>1. venv' = venv
      BY <1>7 DEF RepoRemove, RepoCheck, RepoExtract, RepoClone, VenvForce, VenvCheck, VenvExtract,
                  PipCheck, PipInstall, StartCreate, EndCreate, StartTmp, EndTmp, ExtractTmp, RemoveTmp,
                  Install, RemoveSource, GitCheck, EndGit, Finish, Fail, files
    <2>q. QED
      BY <2>1
  <1>q. QED
    BY <1>3, <1>4, <1>5, <1>6, <1>7 DEF Attempt, Step

(* A venv is usable when it was created undisturbed, and when it was       *)
(* extracted from a proper archive.                                        *)
LEMMA VenvUsable ==
  ASSUME TypeOK, NEW v \in Workers, Attempt(v), Usable(v), Proper(venv[Env(v)]) \/ Spoilt(Env(v)),
         Creating(v)'
  PROVE  Usable(v)'
  <1> SUFFICES ASSUME pc'[v] \in HasVenv, ~ Spoilt(Env(v))' PROVE private'[v] = "good"
    BY DEF Usable
  <1>1. /\ Env(v) \in Envs /\ pc \in [Workers -> Positions]
        /\ private \in [Workers -> {"none", "short", "good"}]
    BY EnvCacheAssumption DEF TypeOK, Env
  <1>2. ~ Spoilt(Env(v)) /\ Calm(v)'
    <2>1. inst' = inst /\ overlap \subseteq overlap' /\ failed \subseteq failed'
      BY StepFrame DEF Frame
    <2>q. QED
      BY <2>1 DEF Spoilt, Env, Calm
  <1>3. CASE pc'[v] \in Created
    BY <1>2, <1>3 DEF Creating
  <1>4. CASE VenvExtract(v)
    <2>1. Readable(venv[Env(v)]) /\ private'[v] = venv[Env(v)].data
      BY <1>1, <1>4 DEF VenvExtract, Goto, HasVenv
    <2>2. venv[Env(v)].data = "good"
      BY <1>2, <2>1 DEF Proper, Readable, Absent
    <2>q. QED
      BY <2>1, <2>2
  <1>5. CASE pc[v] \in HasVenv /\ private' = private
    BY <1>2, <1>5 DEF Usable
  <1>6. CASE pc'[v] \notin Created /\ ~ VenvExtract(v)
    <2>1. pc[v] \in HasVenv /\ private' = private
      BY <1>1, <1>6 DEF Attempt, Step, RepoRemove, RepoCheck, RepoExtract, RepoClone, VenvForce, VenvRemove,
         VenvCheck, PipCheck, PipInstall, StartCreate, EndCreate, StartTmp, EndTmp, ExtractTmp, RemoveTmp,
         Install, StartVenv, EndVenv, RemoveSource, GitCheck, EndGit, Finish, Fail, FailPacking, Goto,
         worker, HasVenv, Created
    <2>q. QED
      BY <1>5, <2>1
  <1>q. QED
    BY <1>3, <1>4, <1>6

(* So both stay, whoever takes a step.                                     *)
LEMMA VenvNext == TypeOK /\ VenvInv /\ CreateInv' /\ [Next]_vars => VenvInv'
  <1> SUFFICES ASSUME TypeOK, VenvInv, CreateInv', [Next]_vars PROVE VenvInv'
    OBVIOUS
  <1>1. ASSUME NEW v \in Workers, Attempt(v) PROVE VenvInv'
    <2>1. Frame(v) /\ Creating(v)' /\ Usable(v) /\ Env(v) \in Envs
      BY <1>1, StepFrame, EnvCacheAssumption DEF CreateInv, VenvInv, TypeOK, Env
    <2>2. \A e \in Envs : Spoilt(e) => Spoilt(e)'
      BY <2>1 DEF Frame, Spoilt
    <2>3. ASSUME NEW e \in Envs, ~ Spoilt(e)' PROVE Proper(venv'[e])
      <3>1. Proper(venv[e])
        BY <2>2, <2>3 DEF VenvInv
      <3>2. CASE e = Env(v)
        <4>1. ~ Spoilt(Env(v))'
          BY <2>1, <2>3, <3>2 DEF Spoilt, Env, Frame
        <4>q. QED
          BY <1>1, <2>1, <3>1, <3>2, <4>1, VenvProper
      <3>3. CASE e # Env(v)
        BY <2>1, <3>1, <3>3 DEF Frame
      <3>q. QED
        BY <3>2, <3>3
    <2>4. \A w \in Workers \ {v} : Usable(w)'
      <3>1. \A w \in Workers \ {v} : Usable(w) /\ Env(w)' = Env(w) /\ Env(w) \in Envs
        BY <2>1, EnvCacheAssumption DEF Frame, Env, VenvInv, TypeOK
      <3>q. QED
        BY <2>1, <2>2, <3>1 DEF Usable, Frame, Spoilt
    <2>5. Usable(v)'
      <3>1. Proper(venv[Env(v)]) \/ Spoilt(Env(v))
        BY <2>1 DEF VenvInv
      <3>q. QED
        BY <1>1, <2>1, <3>1, VenvUsable
    <2>6. \A e \in Envs : Spoilt(e)' \/ Proper(venv'[e])
      BY <2>3
    <2>q. QED
      BY <2>4, <2>5, <2>6 DEF VenvInv, Proper, Absent
  <1>2. ASSUME NEW v \in Workers, Begin(v) PROVE VenvInv'
    <2>1. Entry(v)
      BY <1>2, BeginEntry
    <2>2. \A w \in Workers \ {v} : Usable(w)'
      BY <2>1 DEF VenvInv, Entry, Usable, Env, Spoilt
    <2>3. Usable(v)'
      BY <2>1 DEF Entry, Usable, HasVenv
    <2>q. QED
      BY <2>1, <2>2, <2>3 DEF VenvInv, Entry, Spoilt, Proper
  <1>3. CASE Kill
    <2>1. \A e \in Envs : Proper(venv[e]) => Proper(venv'[e])
      <3>1. \A e \in Envs : venv[e] \in FileStates(Workers, {"good"}) /\ venv'[e] = Killed(venv[e])
        BY <1>3 DEF Kill, TypeOK, VenvFiles
      <3>q. QED
        BY <3>1, KilledIsFile
    <2>2. overlap' = overlap /\ failed' = failed /\ \A w \in Workers : pc'[w] = "idle"
      BY <1>3 DEF Kill, history
    <2>q. QED
      BY <2>1, <2>2 DEF VenvInv, Spoilt, Usable, HasVenv, Proper
  <1>4. CASE UNCHANGED vars
    BY <1>4 DEF VenvInv, Spoilt, Usable, Env, Proper, vars, worker, files, rest, history
  <1>q. QED
    BY <1>1, <1>2, <1>3, <1>4 DEF Next, Attempt

(* Nobody packs a bare clone, and what an extraction finds is installed.   *)
LEMMA GitProper ==
  ASSUME TypeOK, NEW v \in Workers, Attempt(v), Checkout(v), Proper(git[inst[v]]), inst[v] \notin failed'
  PROVE  Proper(git'[inst[v]])
  <1>1. /\ inst[v] \in Instances /\ git[inst[v]] \in FileStates(Workers, {"cloned", "good"})
        /\ pc \in [Workers -> Positions] /\ git \in [Instances -> GitFiles]
    BY DEF TypeOK, GitFiles
  <1>2. inst[v] \notin failed
    BY StepFrame DEF Frame
  <1>3. CASE GitCheck(v) /\ GitWanted(inst[v])
    <2>1. git'[inst[v]] = Opened(git[inst[v]], v)
      BY <1>1, <1>3 DEF GitCheck
    <2>2. Proper(Opened(git[inst[v]], v))
      BY <1>1, OpenedIsFile
    <2>q. QED
      BY <2>1, <2>2
  <1>4. CASE EndGit(v)
    <2>1. repo[v] = "good"
      BY <1>2, <1>4 DEF EndGit, Goto, Checkout
    <2>2. PICK g \in Closed(git[inst[v]], v, "good") : git'[inst[v]] = g
      BY <1>1, <1>4, <2>1 DEF EndGit
    <2>3. Proper(g)
      BY <1>1, <2>2, ClosedIsFile
    <2>q. QED
      BY <2>2, <2>3
  <1>5. CASE RepoRemove(v)
    <2>1. git'[inst[v]] = Absent
      BY <1>1, <1>5 DEF RepoRemove
    <2>q. QED
      BY <2>1, AbsentIsFile
  <1>6. CASE \/ RepoCheck(v) \/ RepoExtract(v) \/ RepoClone(v)
             \/ VenvForce(v) \/ VenvRemove(v) \/ VenvCheck(v) \/ VenvExtract(v) \/ PipCheck(v) \/ PipInstall(v)
             \/ StartCreate(v) \/ EndCreate(v) \/ StartTmp(v) \/ EndTmp(v) \/ ExtractTmp(v) \/ RemoveTmp(v)
             \/ Install(v) \/ StartVenv(v) \/ EndVenv(v) \/ RemoveSource(v) \/ Finish(v) \/ Fail(v)
             \/ (GitCheck(v) /\ ~ GitWanted(inst[v])) \/ FailPacking(v)
    <2>1. git' = git
      BY <1>6 DEF RepoCheck, RepoExtract, RepoClone, VenvForce, VenvRemove, VenvCheck, VenvExtract, PipCheck,
                  PipInstall, StartCreate, EndCreate, StartTmp, EndTmp, ExtractTmp, RemoveTmp, Install,
                  StartVenv, EndVenv, RemoveSource, Finish, Fail, GitCheck, FailPacking, files
    <2>q. QED
      BY <2>1
  <1>q. QED
    BY <1>3, <1>4, <1>5, <1>6 DEF Attempt, Step

LEMMA CheckoutStep ==
  ASSUME TypeOK, ~ conf.force, NEW v \in Workers, Attempt(v), Checkout(v),
         Proper(git[inst[v]]) \/ inst[v] \in failed
  PROVE  Checkout(v)'
  <1>1. /\ inst[v] \in Instances /\ pc \in [Workers -> Positions] /\ git \in [Instances -> GitFiles]
        /\ repo \in [Workers -> {"none", "short", "cloned", "good"}] /\ fromGit \in [Workers -> BOOLEAN]
    BY DEF TypeOK
  <1>2. inst' = inst /\ failed \subseteq failed'
    BY StepFrame DEF Frame
  <1>3. CASE RepoCheck(v) \/ RepoRemove(v)
    BY <1>1, <1>2, <1>3 DEF RepoCheck, RepoRemove, Goto, Checkout, Cloned, RepoSteps, worker
  <1>4. CASE RepoExtract(v)
    <2>1. /\ pc[v] = "repo_extract" /\ (pc'[v] = "idle" \/ (pc'[v] = "venv_force" /\ Readable(git[inst[v]])))
          /\ Readable(git[inst[v]]) => repo'[v] = git[inst[v]].data
      BY <1>1, <1>4 DEF RepoExtract, Goto
    <2>2. Readable(git[inst[v]]) /\ Proper(git[inst[v]]) => git[inst[v]].data = "good"
      BY DEF Proper, Readable, Absent
    <2>q. QED
      BY <1>2, <2>1, <2>2 DEF Checkout, Cloned, RepoSteps
  <1>5. CASE RepoClone(v)
    BY <1>1, <1>2, <1>5 DEF RepoClone, Goto, Checkout, Cloned, RepoSteps
  <1>6. CASE PipCheck(v) \/ PipInstall(v) \/ Install(v) \/ RemoveSource(v) \/ GitCheck(v)
    <2>1. /\ pc[v] \in Cloned /\ pc'[v] \notin RepoSteps /\ fromGit' = fromGit
          /\ pc'[v] \in {"venv_pack", "venv_packing", "rmtree", "git_packing"} =>
               repo'[v] = Installed(repo[v]) \/ pc[v] \in {"rmtree", "git_check"}
          /\ pc'[v] = "git_check" => repo'[v] = Installed(repo[v]) \/ pc[v] = "rmtree" \/ git'[inst[v]].there
          /\ repo'[v] \in {repo[v], Installed(repo[v])}
          /\ pc[v] = "git_check" => pc'[v] = "ready" \/ (pc'[v] = "git_packing" /\ ~ git[inst[v]].there)
          /\ pc[v] \in {"rmtree", "git_check"} => repo' = repo
      BY <1>1, <1>6 DEF PipCheck, PipInstall, Install, RemoveSource, GitCheck, GitWanted, Goto, Cloned,
                        Positions, RepoSteps, ExtractSteps, CreateSteps, worker, files
    <2>2. \A state \in {"cloned", "good"} : Installed(state) = "good"
      BY DEF Installed
    <2>q. QED
      BY <1>2, <2>1, <2>2 DEF Checkout, RepoSteps
  <1>7. CASE Finish(v) \/ Fail(v) \/ FailPacking(v)
    BY <1>1, <1>7 DEF Finish, Fail, FailPacking, Goto, Checkout, Cloned, RepoSteps
  <1>8. CASE \/ VenvForce(v) \/ VenvRemove(v) \/ VenvCheck(v) \/ VenvExtract(v)
             \/ StartCreate(v) \/ EndCreate(v) \/ StartTmp(v) \/ EndTmp(v) \/ ExtractTmp(v) \/ RemoveTmp(v)
             \/ StartVenv(v) \/ EndVenv(v) \/ EndGit(v)
    <2>1. /\ pc[v] \in Cloned /\ pc'[v] \notin RepoSteps \union {"git_check", "git_packing"}
          /\ repo' = repo /\ fromGit' = fromGit
          /\ pc'[v] \in {"venv_pack", "venv_packing", "rmtree"} => pc[v] \in {"venv_pack", "venv_packing"}
      BY <1>1, <1>8 DEF VenvForce, VenvRemove, VenvCheck, VenvExtract, StartCreate, EndCreate, StartTmp, EndTmp,
                        ExtractTmp, RemoveTmp, StartVenv, EndVenv, EndGit, Goto, Cloned, Positions, RepoSteps,
                        ExtractSteps, CreateSteps, worker
    <2>q. QED
      BY <1>2, <2>1 DEF Checkout, RepoSteps
  <1>q. QED
    BY <1>3, <1>4, <1>5, <1>6, <1>7, <1>8 DEF Attempt, Step

(* So both stay, and no archive that somebody has seen goes away again.    *)
LEMMA RepoNext == TypeOK /\ FilesInv /\ RepoInv /\ [Next]_vars => RepoInv'
  <1> SUFFICES ASSUME TypeOK, FilesInv, RepoInv, [Next]_vars, ~ conf'.force
               PROVE  /\ \A i \in Instances \ failed' : Proper(git'[i])
                      /\ \A w \in Workers : Checkout(w)'
    BY DEF RepoInv, Proper, Absent
  <1>0. conf' = conf
    <2>1. ASSUME NEW v \in Workers, Attempt(v) PROVE conf' = conf
      BY <2>1, StepFrame DEF Frame
    <2>2. ASSUME NEW v \in Workers, Begin(v) PROVE conf' = conf
      BY <2>2 DEF Begin
    <2>q. QED
      BY <2>1, <2>2 DEF Next, Attempt, Kill, vars, rest
  <1> USE <1>0
  <1>a. ~ conf.force /\ (\A i \in Instances \ failed : Proper(git[i])) /\ \A w \in Workers : Checkout(w)
    BY DEF RepoInv
  <1>1. ASSUME NEW v \in Workers, Attempt(v)
        PROVE  (\A i \in Instances \ failed' : Proper(git'[i])) /\ \A w \in Workers : Checkout(w)'
    <2>1. /\ Frame(v) /\ inst' = inst /\ failed \subseteq failed' /\ inst \in [Workers -> Instances]
          /\ pc[v] # "repo_rm"
      BY <1>1, <1>a, StepFrame DEF Frame, Checkout, TypeOK
    <2>2. \A i \in Instances \ failed' : Proper(git'[i])
      <3>1. CASE inst[v] \notin failed'
        <4>1. Proper(git'[inst[v]])
          BY <1>1, <1>a, <2>1, <3>1, GitProper
        <4>q. QED
          BY <1>a, <2>1, <4>1 DEF Frame
      <3>2. CASE inst[v] \in failed'
        BY <1>a, <2>1, <3>2 DEF Frame
      <3>q. QED
        BY <3>1, <3>2
    <2>3. Checkout(v)'
      <3>1. Proper(git[inst[v]]) \/ inst[v] \in failed
        BY <1>a, <2>1
      <3>q. QED
        BY <1>1, <1>a, <3>1, CheckoutStep
    <2>4. ASSUME NEW w \in Workers \ {v} PROVE Checkout(w)'
      <3>1. git[inst[w]].there => git'[inst[w]].there
        <4>1. CASE inst[w] = inst[v]
          BY <1>1, <2>1, <4>1, GitStep
        <4>2. CASE inst[w] # inst[v]
          BY <2>1, <4>2 DEF Frame
        <4>q. QED
          BY <4>1, <4>2
      <3>2. /\ pc'[w] = pc[w] /\ repo'[w] = repo[w] /\ fromGit'[w] = fromGit[w] /\ Checkout(w)
        BY <1>a, <2>1 DEF Frame
      <3>q. QED
        BY <2>1, <3>1, <3>2 DEF Checkout
    <2>q. QED
      BY <2>2, <2>3, <2>4
  <1>2. ASSUME NEW v \in Workers, Begin(v)
        PROVE  (\A i \in Instances \ failed' : Proper(git'[i])) /\ \A w \in Workers : Checkout(w)'
    <2>1. Entry(v) /\ ~ fromGit'[v]
      BY <1>2, BeginEntry DEF Begin, TypeOK
    <2>2. \A i \in Instances \ failed' : Proper(git'[i])
      BY <1>a, <2>1 DEF Entry
    <2>3. Checkout(v)'
      BY <1>a, <2>1 DEF Entry, Checkout, Cloned, RepoSteps
    <2>4. \A w \in Workers \ {v} : Checkout(w)'
      BY <1>a, <2>1 DEF Entry, Checkout
    <2>q. QED
      BY <2>2, <2>3, <2>4
  <1>3. CASE Kill
    <2>1. \A i \in Instances : Proper(git[i]) => Proper(git'[i])
      <3>1. \A i \in Instances : git[i] \in FileStates(Workers, {"cloned", "good"}) /\ git'[i] = Killed(git[i])
        BY <1>3 DEF Kill, TypeOK, GitFiles
      <3>q. QED
        BY <3>1, KilledIsFile
    <2>2. failed' = failed /\ \A w \in Workers : pc'[w] = "idle"
      BY <1>3 DEF Kill, history
    <2>q. QED
      BY <1>a, <2>1, <2>2 DEF Checkout, Cloned, RepoSteps
  <1>4. CASE UNCHANGED vars
    BY <1>4, <1>a DEF Checkout, vars, worker, files, rest, history
  <1>q. QED
    BY <1>1, <1>2, <1>3, <1>4 DEF Next, Attempt

-----------------------------------------------------------------------------
(* Nobody else packs an archive of a worker that is alone.                 *)
LEMMA SoleWriter ==
  ASSUME TypeOK, FilesInv, AloneInv, NEW v \in Workers, alone[v], Busy(v)
  PROVE  /\ pc[v] # "venv_packing" => venv[Env(v)].writers = {}
         /\ pc[v] # "git_packing" => git[inst[v]].writers = {}
  <1>1. /\ Env(v) \in Envs /\ inst[v] \in Instances /\ venv[Env(v)] \in VenvFiles
        /\ git[inst[v]] \in GitFiles
    BY EnvCacheAssumption DEF TypeOK, Env
  <1>2. \A w \in Workers \ {v} : Busy(w) => Env(w) # Env(v)
    BY DEF AloneInv
  <1>3. ASSUME NEW w \in venv[Env(v)].writers PROVE w = v /\ pc[v] = "venv_packing"
    <2>1. w \in Workers /\ pc[w] = "venv_packing" /\ Env(w) = Env(v)
      BY <1>1 DEF FilesInv, Writes, VenvFiles, FileStates
    <2>q. QED
      BY <1>2, <2>1 DEF Busy
  <1>4. ASSUME NEW w \in git[inst[v]].writers PROVE w = v /\ pc[v] = "git_packing"
    <2>1. w \in Workers /\ pc[w] = "git_packing" /\ inst[w] = inst[v]
      BY <1>1 DEF FilesInv, GitFiles, FileStates
    <2>q. QED
      BY <1>2, <2>1 DEF Busy, Env
  <1>q. QED
    BY <1>3, <1>4

(* The worker that rebuilds alone removes what it finds, and packs anew.   *)
LEMMA RebuildStep ==
  ASSUME TypeOK, FilesInv, AloneInv, CreateInv, conf.force, ~ conf.delete,
         NEW v \in Workers, Attempt(v), Rebuilding(v), alone[v]
  PROVE  Rebuilding(v)'
  <1>1. /\ inst[v] \in Instances /\ Env(v) \in Envs /\ venv[Env(v)] \in FileStates(Workers, {"good"})
        /\ git[inst[v]] \in FileStates(Workers, {"cloned", "good"})
        /\ pc \in [Workers -> Positions] /\ git \in [Instances -> GitFiles]
        /\ venv \in [Envs -> VenvFiles] /\ repo \in [Workers -> {"none", "short", "cloned", "good"}]
    BY EnvCacheAssumption DEF TypeOK, Env, VenvFiles, GitFiles
  <1>2. Busy(v) /\ Env(v)' = Env(v) /\ inst' = inst
    BY StepFrame DEF Frame, Env
  <1>3. CASE RepoRemove(v) \/ RepoCheck(v)
    BY <1>1, <1>2, <1>3 DEF Rebuilding, RepoRemove, RepoCheck, Goto, Absent, Cloned, RepoSteps
  <1>4. CASE VenvForce(v) \/ VenvRemove(v) \/ VenvCheck(v) \/ RepoClone(v)
    <2>1. \/ pc'[v] = "idle"
          \/ /\ pc'[v] \in {"venv_rm", "venv_check", "create", "venv_force"}
             /\ pc'[v] = "venv_check" => ~ venv'[Env(v)].there
             /\ repo'[v] \in {"cloned", "good"}
      BY <1>1, <1>4 DEF Rebuilding, VenvForce, VenvRemove, VenvCheck, RepoClone, Goto, Absent, Cloned,
                        RepoSteps, worker, files
    <2>q. QED
      BY <1>2, <2>1 DEF Rebuilding, Cloned, RepoSteps
  <1>5. CASE StartCreate(v) \/ EndCreate(v) \/ StartTmp(v) \/ EndTmp(v) \/ ExtractTmp(v) \/ RemoveTmp(v)
    <2>1. pc'[v] \in {"idle", "creating", "tmp_pack", "tmp_packing", "tmp_extract", "tmp_rm", "install"}
          /\ repo' = repo /\ pc[v] \in Cloned
      BY <1>1, <1>5 DEF StartCreate, EndCreate, StartTmp, EndTmp, ExtractTmp, RemoveTmp, Goto, worker,
                        Cloned, RepoSteps, Positions, CreateSteps
    <2>q. QED
      BY <1>2, <2>1 DEF Rebuilding, Cloned, RepoSteps
  <1>6. CASE Install(v)
    <2>1. pc'[v] = "venv_pack" /\ repo'[v] = "good"
      BY <1>1, <1>6 DEF Rebuilding, Install, Installed, Goto, Cloned, Positions, CreateSteps, RepoSteps
    <2>q. QED
      BY <1>2, <2>1 DEF Rebuilding, Cloned
  <1>7. CASE StartVenv(v)
    <2>1. pc'[v] = "venv_packing" /\ repo'[v] = "good" /\ venv'[Env(v)] = Opened(venv[Env(v)], v)
      BY <1>1, <1>7 DEF Rebuilding, StartVenv, Goto, worker
    <2>2. venv[Env(v)].writers = {}
      BY <1>2, <1>7, SoleWriter DEF StartVenv, Goto
    <2>3. Opened(venv[Env(v)], v) = Opening(v)
      <3>1. venv[Env(v)] \in FileStates(Workers, {"good"})
        BY <1>1
      <3>q. QED
        BY <2>2, <3>1, OpenedIsFile
    <2>q. QED
      BY <1>2, <2>1, <2>3 DEF Rebuilding, Cloned, Opening
  <1>8. CASE EndVenv(v)
    <2>1. /\ pc'[v] = "rmtree" /\ repo'[v] = "good" /\ venv[Env(v)] = Opening(v)
          /\ pc[v] = "venv_packing"
      BY <1>1, <1>8 DEF Rebuilding, EndVenv, Goto, worker
    <2>2. private[v] = "good"
      BY <2>1 DEF CreateInv, Creating, Calm, Created
    <2>3. PICK g \in Closed(venv[Env(v)], v, "good") : venv'[Env(v)] = g
      BY <1>1, <1>8, <2>2 DEF EndVenv
    <2>4. g = Holding("good")
      BY <1>1, <2>1, <2>3, ClosedIsFile
    <2>q. QED
      BY <1>2, <2>1, <2>3, <2>4 DEF Rebuilding, Cloned
  <1>9. CASE RemoveSource(v)
    <2>1. pc'[v] = "git_check" /\ repo'[v] = "good" /\ venv'[Env(v)] = Holding("good")
      BY <1>1, <1>9 DEF Rebuilding, RemoveSource, Goto, worker
    <2>q. QED
      BY <1>2, <2>1 DEF Rebuilding
  <1>10. CASE GitCheck(v)
    <2>1. /\ pc'[v] = "git_packing" /\ repo'[v] = "good" /\ venv'[Env(v)] = Holding("good")
          /\ git'[inst[v]] = Opened(git[inst[v]], v)
      BY <1>1, <1>10 DEF Rebuilding, GitCheck, GitWanted, Goto, worker
    <2>2. git[inst[v]].writers = {}
      BY <1>2, <1>10, SoleWriter DEF GitCheck, Goto
    <2>3. Opened(git[inst[v]], v) = Opening(v)
      <3>1. git[inst[v]] \in FileStates(Workers, {"cloned", "good"})
        BY <1>1
      <3>q. QED
        BY <2>2, <3>1, OpenedIsFile
    <2>q. QED
      BY <1>2, <2>1, <2>3 DEF Rebuilding
  <1>11. CASE EndGit(v)
    <2>1. /\ pc'[v] = "ready" /\ repo'[v] = "good" /\ venv'[Env(v)] = Holding("good")
          /\ git[inst[v]] = Opening(v) /\ repo[v] = "good"
      BY <1>1, <1>11 DEF Rebuilding, EndGit, Goto, worker
    <2>2. PICK g \in Closed(git[inst[v]], v, "good") : git'[inst[v]] = g
      BY <1>1, <1>11, <2>1 DEF EndGit
    <2>3. g = Holding("good")
      BY <1>1, <2>1, <2>2, ClosedIsFile
    <2>q. QED
      BY <1>2, <2>1, <2>2, <2>3 DEF Rebuilding
  <1>12. CASE Finish(v) \/ Fail(v) \/ FailPacking(v)
    BY <1>1, <1>12 DEF Finish, Fail, FailPacking, Goto, Rebuilding, Cloned
  <1>13. CASE RepoExtract(v) \/ VenvExtract(v) \/ PipCheck(v) \/ PipInstall(v)
    BY <1>13 DEF RepoExtract, VenvExtract, PipCheck, PipInstall, Goto, Rebuilding
  <1>q. QED
    BY <1>3, <1>4, <1>5, <1>6, <1>7, <1>8, <1>9, <1>10, <1>11, <1>12, <1>13 DEF Attempt, Step

LEMMA RebuildNext ==
  TypeOK /\ FilesInv /\ AloneInv /\ CreateInv /\ RebuildInv /\ [Next]_vars => RebuildInv'
  <1> SUFFICES ASSUME TypeOK, FilesInv, AloneInv, CreateInv, RebuildInv, [Next]_vars,
                      conf'.force, ~ conf'.delete
               PROVE  \A w \in Workers : Rebuilding(w)'
    BY DEF RebuildInv
  <1>0. conf' = conf
    <2>1. ASSUME NEW v \in Workers, Attempt(v) PROVE conf' = conf
      BY <2>1, StepFrame DEF Frame
    <2>2. ASSUME NEW v \in Workers, Begin(v) PROVE conf' = conf
      BY <2>2 DEF Begin
    <2>q. QED
      BY <2>1, <2>2 DEF Next, Attempt, Kill, vars, rest
  <1>a. conf.force /\ ~ conf.delete /\ \A w \in Workers : Rebuilding(w)
    BY <1>0 DEF RebuildInv
  <1>1. ASSUME NEW v \in Workers, Attempt(v) \/ Begin(v), NEW w \in Workers \ {v} PROVE Rebuilding(w)'
    <2>1. pc'[w] = pc[w]
      BY <1>1, StepFrame, BeginEntry DEF Frame, Entry
    <2>2. CASE alone'[w] /\ pc[w] # "idle"
      <3>1. /\ alone[w] /\ inst'[w] = inst[w] /\ Env(w)' = Env(w) /\ repo'[w] = repo[w]
            /\ venv'[Env(w)] = venv[Env(w)] /\ git'[inst[w]] = git[inst[w]]
        BY <1>1, <2>2, OthersAlone
      <3>q. QED
        BY <1>a, <2>1, <3>1 DEF Rebuilding
    <2>3. CASE ~ alone'[w] \/ pc[w] = "idle"
      BY <2>1, <2>3 DEF Rebuilding, Cloned
    <2>q. QED
      BY <2>2, <2>3
  <1>2. ASSUME NEW v \in Workers, Attempt(v) PROVE Rebuilding(v)'
    <2>1. CASE alone[v]
      BY <1>a, <1>2, <2>1, RebuildStep
    <2>2. CASE ~ alone[v]
      BY <1>2, <2>2, StepFrame DEF Frame, Rebuilding
    <2>q. QED
      BY <2>1, <2>2
  <1>3. ASSUME NEW v \in Workers, Begin(v) PROVE Rebuilding(v)'
    <2>1. Entry(v)
      BY <1>3, BeginEntry
    <2>q. QED
      BY <1>a, <2>1 DEF Entry, Rebuilding, Cloned, RepoSteps
  <1>4. CASE Kill
    BY <1>4 DEF Kill, Rebuilding, Cloned
  <1>5. CASE UNCHANGED vars
    BY <1>a, <1>5 DEF Rebuilding, Env, vars, worker, files, rest, history
  <1>q. QED
    BY <1>1, <1>2, <1>3, <1>4, <1>5 DEF Next, Attempt

(* The worker that creates alone removes the archive in /tmp before it     *)
(* packs anything, and the directory after that.                           *)
LEMMA LeftStep ==
  ASSUME TypeOK, NEW v \in Workers, Attempt(v), Leaving(v), alone[v]
  PROVE  Leaving(v)'
  <1>1. /\ Env(v) \in Envs /\ pc \in [Workers -> Positions] /\ fromVenv \in [Workers -> BOOLEAN]
        /\ tmp \in [Envs -> VenvFiles] /\ src \in [Envs -> {"absent", "unfinished", "finished"}]
    BY EnvCacheAssumption DEF TypeOK, Env
  <1>2. Env(v)' = Env(v)
    BY StepFrame DEF Frame, Env
  <1>3. CASE VenvExtract(v) \/ PipCheck(v) \/ PipInstall(v)
    <2>1. pc'[v] \in {"idle", "pip_check", "pip", "git_check"} /\ fromVenv'[v]
      BY <1>1, <1>3 DEF VenvExtract, PipCheck, PipInstall, Goto, worker, Leaving
    <2>q. QED
      BY <2>1 DEF Leaving
  <1>4. CASE RemoveTmp(v)
    <2>1. pc'[v] = "install" /\ tmp'[Env(v)] = Absent
      BY <1>1, <1>4 DEF RemoveTmp, Goto
    <2>q. QED
      BY <1>2, <2>1 DEF Leaving, Absent
  <1>5. CASE Install(v) \/ StartVenv(v) \/ EndVenv(v) \/ RemoveSource(v)
    <2>1. /\ pc[v] \in {"install", "venv_pack", "venv_packing", "rmtree"} /\ tmp' = tmp
          /\ pc'[v] \in {"venv_pack", "venv_packing", "rmtree", "git_check"}
          /\ pc'[v] = "git_check" => src'[Env(v)] = "absent"
      BY <1>1, <1>5 DEF Install, StartVenv, EndVenv, RemoveSource, Goto, files
    <2>q. QED
      BY <1>2, <2>1 DEF Leaving
  <1>6. CASE GitCheck(v) \/ EndGit(v)
    <2>1. /\ pc[v] \in {"git_check", "git_packing"} /\ pc'[v] \in {"git_packing", "ready"}
          /\ UNCHANGED <<src, tmp, fromVenv>>
      BY <1>1, <1>6 DEF GitCheck, EndGit, Goto, worker
    <2>q. QED
      BY <1>2, <2>1 DEF Leaving
  <1>7. CASE \/ RepoRemove(v) \/ RepoCheck(v) \/ RepoExtract(v) \/ RepoClone(v)
             \/ VenvForce(v) \/ VenvRemove(v) \/ VenvCheck(v)
             \/ StartCreate(v) \/ EndCreate(v) \/ StartTmp(v) \/ EndTmp(v) \/ ExtractTmp(v)
             \/ Finish(v) \/ Fail(v) \/ FailPacking(v)
    <2>1. pc'[v] \notin {"pip_check", "pip", "install", "venv_pack", "venv_packing", "rmtree",
                         "git_check", "git_packing", "ready"}
      BY <1>1, <1>7 DEF RepoRemove, RepoCheck, RepoExtract, RepoClone, VenvForce, VenvRemove, VenvCheck,
                        StartCreate, EndCreate, StartTmp, EndTmp, ExtractTmp, Finish, Fail, FailPacking, Goto
    <2>q. QED
      BY <2>1 DEF Leaving
  <1>q. QED
    BY <1>3, <1>4, <1>5, <1>6, <1>7 DEF Attempt, Step

LEMMA LeftNext == TypeOK /\ AloneInv /\ LeftInv /\ [Next]_vars => LeftInv'
  <1> SUFFICES ASSUME TypeOK, AloneInv, LeftInv, [Next]_vars PROVE LeftInv'
    OBVIOUS
  <1>1. ASSUME NEW v \in Workers, Attempt(v) \/ Begin(v), NEW w \in Workers \ {v} PROVE Leaving(w)'
    <2>1. pc'[w] = pc[w]
      BY <1>1, StepFrame, BeginEntry DEF Frame, Entry
    <2>2. CASE alone'[w] /\ pc[w] # "idle"
      <3>1. /\ alone[w] /\ Env(w)' = Env(w) /\ fromVenv'[w] = fromVenv[w]
            /\ src'[Env(w)] = src[Env(w)] /\ tmp'[Env(w)] = tmp[Env(w)]
        BY <1>1, <2>2, OthersAlone
      <3>q. QED
        BY <2>1, <3>1 DEF LeftInv, Leaving
    <2>3. CASE ~ alone'[w] \/ pc[w] = "idle"
      BY <2>1, <2>3 DEF Leaving
    <2>q. QED
      BY <2>2, <2>3
  <1>2. ASSUME NEW v \in Workers, Attempt(v) PROVE Leaving(v)'
    <2>1. CASE alone[v]
      BY <1>2, <2>1, LeftStep DEF LeftInv
    <2>2. CASE ~ alone[v]
      BY <1>2, <2>2, StepFrame DEF Frame, Leaving
    <2>q. QED
      BY <2>1, <2>2
  <1>3. ASSUME NEW v \in Workers, Begin(v) PROVE Leaving(v)'
    <2>1. Entry(v)
      BY <1>3, BeginEntry
    <2>q. QED
      BY <2>1 DEF Entry, Leaving
  <1>4. CASE Kill
    BY <1>4 DEF Kill, LeftInv, Leaving
  <1>5. CASE UNCHANGED vars
    BY <1>5 DEF LeftInv, Leaving, Env, vars, worker, files, rest, history
  <1>6. ASSUME NEW v \in Workers, Attempt(v) \/ Begin(v) PROVE LeftInv'
    BY <1>1, <1>2, <1>3, <1>6 DEF LeftInv
  <1>q. QED
    BY <1>4, <1>5, <1>6 DEF Next, Attempt

-----------------------------------------------------------------------------
(* What holds in every state.                                              *)
CacheInv == /\ TypeOK /\ FilesInv /\ AloneInv /\ CreateInv
            /\ VenvInv /\ RepoInv /\ RebuildInv /\ LeftInv

LEMMA CacheInit == Init => CacheInv
  <1> SUFFICES ASSUME Init PROVE CacheInv
    OBVIOUS
  <1>1. TypeOK
    BY TypeInit
  <1>2. /\ \A w \in Workers : pc[w] = "idle" /\ ~ alone[w]
        /\ \A e \in Envs : tmp[e] = Absent /\ venv[e] \in {Absent, Holding("good")}
        /\ \A i \in Instances : git[i] = Absent
    BY DEF Init
  <1>3. FilesInv
    <2>1. \A f \in {Absent, Holding("good")} : (f.there \/ f = Absent) /\ f.writers = {}
      BY DEF Absent, Holding
    <2>2. \A e \in Envs : tmp[e] \in {Absent, Holding("good")} /\ venv[e] \in {Absent, Holding("good")}
      BY <1>2
    <2>q. QED
      BY <1>2, <2>1, <2>2 DEF FilesInv
  <1>4. AloneInv /\ CreateInv /\ RebuildInv /\ LeftInv
    BY <1>2 DEF AloneInv, Busy, CreateSteps, CreateInv, Creating, Created, RebuildInv, Rebuilding, LeftInv, Leaving
  <1>5. \A f \in {Absent, Holding("good")} : Proper(f)
    BY DEF Proper, Absent, Holding
  <1>6. VenvInv /\ RepoInv
    BY <1>2, <1>5 DEF VenvInv, Usable, HasVenv, RepoInv, Checkout, Cloned, RepoSteps
  <1>q. QED
    BY <1>1, <1>3, <1>4, <1>6 DEF CacheInv

LEMMA CacheInvariance == Spec => []CacheInv
  <1>1. CacheInv /\ [Next]_vars => CacheInv'
    <2> SUFFICES ASSUME CacheInv, [Next]_vars PROVE CacheInv'
      OBVIOUS
    <2>1. TypeOK' /\ FilesInv' /\ AloneInv' /\ CreateInv'
      BY TypeNext, FilesNext, AloneNext, CreateNext DEF CacheInv
    <2>2. VenvInv' /\ RepoInv' /\ RebuildInv' /\ LeftInv'
      BY <2>1, VenvNext, RepoNext, RebuildNext, LeftNext DEF CacheInv
    <2>q. QED
      BY <2>1, <2>2 DEF CacheInv
  <1>q. QED
    BY <1>1, CacheInit, PTL DEF Spec

(* Whatever is killed, fails or meets a writer: see UnusableVenvExplained. *)
THEOREM UnusableVenvExplainedCorrect == Spec => []UnusableVenvExplained
  <1>1. CacheInv => UnusableVenvExplained
    BY DEF CacheInv, VenvInv, Usable, Spoilt, UnusableVenvExplained
  <1>q. QED
    BY <1>1, CacheInvariance, PTL

(* However the rollouts of an instance interleave: see                     *)
(* RepoFromCacheInstalled.                                                 *)
THEOREM RepoFromCacheInstalledCorrect == Spec => []RepoFromCacheInstalled
  <1>1. CacheInv => RepoFromCacheInstalled
    BY DEF CacheInv, TypeOK, RepoInv, Checkout, Cloned, RepoFromCacheInstalled
  <1>q. QED
    BY <1>1, CacheInvariance, PTL

(* Whatever earlier attempts left behind: see ForceRepairs.                *)
THEOREM ForceRepairsCorrect == Spec => []ForceRepairs
  <1>1. CacheInv => ForceRepairs
    BY DEF CacheInv, RebuildInv, Rebuilding, ForceRepairs
  <1>q. QED
    BY <1>1, CacheInvariance, PTL

(* Whatever earlier attempts left behind: see NothingLeftBehind.           *)
THEOREM NothingLeftBehindCorrect == Spec => []NothingLeftBehind
  <1>1. CacheInv => NothingLeftBehind
    BY DEF CacheInv, LeftInv, Leaving, NothingLeftBehind
  <1>q. QED
    BY <1>1, CacheInvariance, PTL

-----------------------------------------------------------------------------
(* The tool archive of CopyTree, with variables and bounds of its own.     *)
CONSTANTS Versions, MaxCopies, MaxEdits
VARIABLES at, copies, dst, tools, edits, packed, mixture, tar

Copies == INSTANCE CopyTree WITH pc <- at, src <- tools

CopiesBounds ==
  Versions \intersect {"none", "torn", "short"} = {} /\ MaxCopies \in Nat /\ MaxEdits \in Nat

(* A file that is not there holds nothing, and every later call finds one  *)
(* that is.  Before the first edit everybody packs the same tools, and the *)
(* last writer leaves them whole, unless some packing was cut off.         *)
Unedited ==
  /\ \A w \in Workers : packed[w] = tools
  /\ tar.writers # {} => mixture \ {"torn"} = {tools}
  /\ tar.there /\ tar.writers = {} => tar.data = tools \/ "torn" \in mixture
CopiesInv ==
  /\ Copies!TypeOK
  /\ tar.there \/ tar = Absent
  /\ \A w \in Workers : at[w] \in {"packing", "unpack", "extract"} => tar.there
  /\ edits = 0 => Unedited

(* The two caches and the tool archive are files of the same kind.         *)
LEMMA SameFiles ==
  /\ Copies!Absent = Absent
  /\ \A C : Copies!FileStates(Workers, C) = FileStates(Workers, C)
  /\ \A d : Copies!Holding(d) = Holding(d)
  /\ \A f, w : Copies!Opened(f, w) = Opened(f, w)
  /\ \A f, w, d : Copies!Closed(f, w, d) = Closed(f, w, d)
  BY DEF Copies!Absent, Absent, Copies!FileStates, FileStates, Copies!Holding, Holding,
         Copies!Opened, Opened, Copies!Closed, Closed

(* A writer that leaves, with its packing done or cut off: what it packed  *)
(* counts if it was the last one.                                          *)
LEMMA WriterLeaves ==
  ASSUME CopiesInv, tar.there, NEW w \in Workers, NEW mingled \in BOOLEAN,
         NEW d \in {"torn", "short"} \union Versions,
         NEW g \in Closed([tar EXCEPT !.mixed = mingled], w, d)
  PROVE  /\ g \in FileStates(Workers, Versions) /\ g.there
         /\ g.writers \subseteq tar.writers
         /\ g.writers = {} /\ tar.writers = {} => g.data = tar.data
         /\ g.writers = {} /\ tar.writers # {} => g.data = d \/ mingled
  <1> DEFINE file == [tar EXCEPT !.mixed = mingled]
  <1>1. tar \in FileStates(Workers, Versions)
    BY SameFiles DEF CopiesInv, Copies!TypeOK
  <1>2. /\ file \in FileStates(Workers, Versions) /\ file.there
        /\ file.writers = tar.writers /\ file.data = tar.data /\ file.mixed = mingled
    BY <1>1 DEF FileStates
  <1>3. g \in Closed(file, w, d)
    OBVIOUS
  <1> HIDE DEF file
  <1>4. /\ g \in FileStates(Workers, Versions) /\ g.there
        /\ g.writers \subseteq file.writers \ {w}
    BY <1>2, <1>3, ClosedIsFile
  <1>5. CASE w \notin file.writers
    <2>1. g = file
      BY <1>3, <1>5 DEF Closed
    <2>q. QED
      BY <1>2, <1>4, <2>1
  <1>6. CASE w \in file.writers /\ file.writers \ {w} # {}
    BY <1>2, <1>3, <1>4, <1>6 DEF Closed, FileStates
  <1>7. CASE w \in file.writers /\ file.writers \ {w} = {}
    <2>1. PICK e \in {d} \union (IF file.mixed THEN {"torn"} ELSE {}) : g = Holding(e)
      BY <1>3, <1>7 DEF Closed
    <2>q. QED
      BY <1>2, <1>4, <1>7, <2>1 DEF Holding
  <1>q. QED
    BY <1>2, <1>4, <1>5, <1>6, <1>7

(* Writers that pack the same tools complete each other.                   *)
LEMMA PackedTogether ==
  ASSUME CopiesBounds, CopiesInv, NEW w \in Workers, Copies!EndPack(w)
  PROVE  /\ tar' \in FileStates(Workers, Versions) /\ tar'.there
         /\ tar'.writers \subseteq tar.writers
         /\ edits = 0 /\ tar'.writers = {} => tar'.data = tools \/ "torn" \in mixture
  <1> DEFINE mingled == tar.mixed /\ mixture # {tools}
             own == IF packed[w] = tools THEN tools ELSE "short"
  <1>1. tar.there /\ tools \in Versions /\ mixture \subseteq Versions \union {"torn"}
    BY DEF CopiesInv, Copies!TypeOK, Copies!EndPack, Copies!Goto
  <1>2. PICK d \in IF mingled THEN mixture \union {"short"} ELSE {own} :
             tar' \in Closed([tar EXCEPT !.mixed = mingled], w, d)
    BY SameFiles DEF Copies!EndPack
  <1>3. mingled \in BOOLEAN
    <2>1. tar \in FileStates(Workers, Versions)
      BY SameFiles DEF CopiesInv, Copies!TypeOK
    <2>2. tar.mixed \in BOOLEAN
      BY <2>1 DEF FileStates
    <2>q. QED
      BY <2>2
  <1>4. d \in {"torn", "short"} \union Versions
    BY <1>1, <1>2
  <1>5. edits = 0 /\ tar.writers # {} /\ "torn" \notin mixture => ~ mingled /\ d = tools
    BY <1>2 DEF CopiesInv, Unedited
  <1> HIDE DEF mingled, own
  <1>6. /\ tar' \in FileStates(Workers, Versions) /\ tar'.there
        /\ tar'.writers \subseteq tar.writers
        /\ tar'.writers = {} /\ tar.writers = {} => tar'.data = tar.data
        /\ tar'.writers = {} /\ tar.writers # {} => tar'.data = d \/ mingled
    <2>1. PICK g : g = tar'
      OBVIOUS
    <2>q. QED
      BY <1>1, <1>2, <1>3, <1>4, <2>1, WriterLeaves
  <1>7. edits = 0 /\ tar.writers = {} => tar.data = tools \/ "torn" \in mixture
    BY <1>1 DEF CopiesInv, Unedited
  <1>q. QED
    BY <1>5, <1>6, <1>7

(* What a packing that raised, or whose worker died, leaves.               *)
LEMMA CutKeepsFile ==
  ASSUME CopiesBounds, CopiesInv, NEW w \in Workers, Copies!Cut(w)
  PROVE  /\ tar' \in FileStates(Workers, Versions) /\ tar'.there
         /\ tar'.writers \subseteq tar.writers
  <1>1. tar.there /\ mixture \subseteq Versions \union {"torn"}
    BY DEF CopiesInv, Copies!TypeOK, Copies!Cut, Copies!Goto
  <1>2. PICK d \in {"torn", "short"} \union mixture : tar' \in Closed(tar, w, d)
    BY SameFiles DEF Copies!Cut
  <1>3. tar.mixed \in BOOLEAN /\ tar = [tar EXCEPT !.mixed = tar.mixed]
    <2>1. tar \in FileStates(Workers, Versions)
      BY SameFiles DEF CopiesInv, Copies!TypeOK
    <2>q. QED
      BY <2>1 DEF FileStates
  <1>4. PICK g : g = tar'
    OBVIOUS
  <1>5. g \in Closed([tar EXCEPT !.mixed = tar.mixed], w, d)
    BY <1>2, <1>3, <1>4
  <1>q. QED
    BY <1>1, <1>3, <1>4, <1>5, WriterLeaves

(* The archive stays a file, and unedited tools stay whole.                *)
LEMMA CopiesNext ==
  ASSUME CopiesBounds
  PROVE  CopiesInv /\ [Copies!Next]_Copies!vars => CopiesInv'
  <1> SUFFICES ASSUME CopiesInv, [Copies!Next]_Copies!vars PROVE CopiesInv'
    OBVIOUS
  <1>0. Copies!TypeOK /\ edits \in Nat
    BY DEF CopiesInv, Copies!TypeOK, CopiesBounds
  <1>1. ASSUME NEW w \in Workers, Copies!Begin(w) PROVE CopiesInv'
    <2>1. Copies!TypeOK'
      BY <1>0, <1>1 DEF Copies!TypeOK, Copies!Begin, Copies!Goto, Copies!Positions, CopiesBounds
    <2>2. edits = 0 => Unedited'
      BY <1>0, <1>1 DEF CopiesInv, Unedited, Copies!TypeOK, Copies!Begin, Copies!Goto
    <2>3. \A v \in Workers : at'[v] \in {"packing", "unpack", "extract"} => at[v] = at'[v] \/ tar.there
      BY <1>0, <1>1 DEF Copies!TypeOK, Copies!Begin, Copies!Goto
    <2>q. QED
      BY <1>1, <2>1, <2>2, <2>3 DEF CopiesInv, Copies!Begin
  <1>2. ASSUME NEW w \in Workers, Copies!Create(w) PROVE CopiesInv'
    <2>0. tar' = Opened(tar, w) /\ tar \in FileStates(Workers, Versions)
      BY <1>0, <1>2, SameFiles DEF Copies!Create, Copies!TypeOK
    <2>1. tar' \in FileStates(Workers, Versions) /\ tar'.there /\ w \in tar'.writers
      BY <2>0, OpenedIsFile
    <2>2. Copies!TypeOK'
      <3>1. packed' \in [Workers -> Versions] /\ mixture' \in SUBSET (Versions \union {"torn"})
        BY <1>0, <1>2 DEF Copies!Create, Copies!TypeOK
      <3>2. at' \in [Workers -> Copies!Positions]
        BY <1>0, <1>2 DEF Copies!Create, Copies!TypeOK, Copies!Goto, Copies!Positions
      <3>q. QED
        BY <1>0, <1>2, <2>1, <3>1, <3>2, SameFiles DEF Copies!TypeOK, Copies!Create
    <2>3. edits = 0 => Unedited'
      <3> SUFFICES ASSUME edits = 0 PROVE Unedited'
        OBVIOUS
      <3>1. tools \in Versions /\ "torn" \notin Versions
        BY <1>0 DEF Copies!TypeOK, CopiesBounds
      <3>2. mixture' \ {"torn"} = {tools}
        BY <1>2, <3>1 DEF CopiesInv, Unedited, Copies!Create
      <3>q. QED
        BY <1>0, <1>2, <2>1, <3>2 DEF CopiesInv, Unedited, Copies!TypeOK, Copies!Create
    <2>q. QED
      BY <1>0, <1>2, <2>1, <2>2, <2>3 DEF CopiesInv, Copies!TypeOK, Copies!Create, Copies!Goto
  <1>3. ASSUME NEW w \in Workers, Copies!EndPack(w) PROVE CopiesInv'
    <2>1. /\ tar' \in FileStates(Workers, Versions) /\ tar'.there
          /\ tar'.writers \subseteq tar.writers
          /\ edits = 0 /\ tar'.writers = {} => tar'.data = tools \/ "torn" \in mixture
      BY <1>3, PackedTogether
    <2>2. Copies!TypeOK'
      BY <1>0, <1>3, <2>1, SameFiles DEF Copies!TypeOK, Copies!EndPack, Copies!Goto, Copies!Positions
    <2>3. edits = 0 => Unedited'
      BY <1>0, <1>3, <2>1 DEF CopiesInv, Unedited, Copies!TypeOK, Copies!EndPack, Copies!Goto
    <2>q. QED
      BY <1>3, <2>1, <2>2, <2>3 DEF CopiesInv, Copies!EndPack
  <1>4. ASSUME NEW w \in Workers, Copies!Extract(w) \/ Copies!Done(w) \/ Copies!Fail(w) PROVE CopiesInv'
    <2>1. Copies!TypeOK'
      BY <1>0, <1>4 DEF Copies!TypeOK, Copies!Extract, Copies!Done, Copies!Fail, Copies!Goto, Copies!Positions
    <2>2. edits = 0 => Unedited'
      BY <1>0, <1>4 DEF CopiesInv, Unedited, Copies!TypeOK, Copies!Extract, Copies!Done, Copies!Fail, Copies!Goto
    <2>3. \A v \in Workers : at'[v] \in {"packing", "unpack", "extract"} => at[v] = at'[v]
      BY <1>0, <1>4 DEF Copies!TypeOK, Copies!Extract, Copies!Done, Copies!Fail, Copies!Goto
    <2>q. QED
      BY <1>4, <2>1, <2>2, <2>3 DEF CopiesInv, Copies!Extract, Copies!Done, Copies!Fail
  <1>5. ASSUME NEW w \in Workers, Copies!Cut(w) PROVE CopiesInv'
    <2>1. tar' \in FileStates(Workers, Versions) /\ tar'.there /\ tar'.writers \subseteq tar.writers
      BY <1>5, CutKeepsFile
    <2>2. Copies!TypeOK'
      BY <1>0, <1>5, <2>1, SameFiles DEF Copies!TypeOK, Copies!Cut, Copies!Goto, Copies!Positions
    <2>3. edits = 0 => Unedited'
      BY <1>0, <1>5, <2>1 DEF CopiesInv, Unedited, Copies!TypeOK, Copies!Cut, Copies!Goto
    <2>q. QED
      BY <1>5, <2>1, <2>2, <2>3 DEF CopiesInv, Copies!Cut
  <1>6. CASE Copies!Edit
    <2>1. edits' # 0 /\ Copies!TypeOK'
      BY <1>0, <1>6 DEF Copies!TypeOK, Copies!Edit, CopiesBounds
    <2>q. QED
      BY <1>6, <2>1 DEF CopiesInv, Copies!Edit
  <1>7. CASE UNCHANGED Copies!vars
    BY <1>7 DEF CopiesInv, Unedited, Copies!TypeOK, Copies!vars
  <1>q. QED
    BY <1>1, <1>2, <1>3, <1>4, <1>5, <1>6, <1>7 DEF Copies!Next, Copies!Step

(* The invariant holds in every state.                                     *)
LEMMA CopiesInvariance == ASSUME CopiesBounds PROVE Copies!Spec => []CopiesInv
  <1>1. Copies!Init => CopiesInv
    <2>1. Absent \in FileStates(Workers, Versions) /\ ~ Absent.there /\ Absent.writers = {}
      BY DEF Absent, FileStates
    <2>q. QED
      BY <2>1, SameFiles DEF CopiesBounds, CopiesInv, Unedited, Copies!Init, Copies!TypeOK, Copies!Positions
  <1>2. CopiesInv /\ [Copies!Next]_Copies!vars => CopiesInv'
    BY CopiesNext
  <1>q. QED
    BY <1>1, <1>2, PTL DEF Copies!Spec

(* The values of the calls and of the archive: see CopyTree's TypeOK.      *)
THEOREM CopiesTypeCorrect == ASSUME CopiesBounds PROVE Copies!Spec => []Copies!TypeOK
  <1>1. CopiesInv => Copies!TypeOK
    BY DEF CopiesInv
  <1>q. QED
    BY <1>1, CopiesInvariance, PTL

(* However many calls come later, none of them opens an archive that       *)
(* nobody is packing, whole or cut off: see AtRestForGood.                 *)
THEOREM AtRestForGoodCorrect == ASSUME CopiesBounds PROVE Copies!Spec => Copies!AtRestForGood
  <1>1. CopiesInv /\ [Copies!Next]_Copies!vars
          => [Copies!AtRest => Copies!AtRest' /\ tar' = tar]_Copies!vars
    <2> SUFFICES ASSUME CopiesInv, [Copies!Next]_Copies!vars, Copies!AtRest
                 PROVE  Copies!AtRest' /\ tar' = tar
      OBVIOUS
    <2>1. ASSUME NEW w \in Workers, Copies!Begin(w) PROVE Copies!AtRest' /\ tar' = tar
      BY <2>1 DEF CopiesInv, Copies!TypeOK, Copies!Begin, Copies!Goto, Copies!AtRest
    <2>2. ASSUME NEW w \in Workers, Copies!Step(w) PROVE Copies!AtRest' /\ tar' = tar
      BY <2>2 DEF CopiesInv, Copies!TypeOK, Copies!Step, Copies!Create, Copies!EndPack, Copies!Extract,
                  Copies!Done, Copies!Goto, Copies!AtRest
    <2>3. ASSUME NEW w \in Workers, Copies!Cut(w) \/ Copies!Fail(w) PROVE Copies!AtRest' /\ tar' = tar
      BY <2>3 DEF CopiesInv, Copies!TypeOK, Copies!Cut, Copies!Fail, Copies!Goto, Copies!AtRest
    <2>4. CASE Copies!Edit \/ UNCHANGED Copies!vars
      BY <2>4 DEF Copies!Edit, Copies!vars, Copies!AtRest
    <2>q. QED
      BY <2>1, <2>2, <2>3, <2>4 DEF Copies!Next
  <1>q. QED
    BY <1>1, CopiesInvariance, PTL DEF Copies!Spec, Copies!AtRestForGood

(* Tools are missing only after an archive that another worker was still   *)
(* writing, or one whose packing was cut off: see ShortOnlyExplained.      *)
THEOREM ShortOnlyExplainedCorrect ==
  ASSUME CopiesBounds PROVE Copies!Spec => Copies!ShortOnlyExplained
  <1>1. CopiesInv /\ [Copies!Next]_Copies!vars
          => [\A w \in Workers : edits = 0 /\ dst'[w] = "short" /\ dst[w] # "short"
                                   => tar.writers # {} \/ Copies!CutOff]_Copies!vars
    <2> SUFFICES ASSUME CopiesInv, Copies!Next, NEW w \in Workers, edits = 0, dst'[w] = "short",
                        dst[w] # "short", tar.writers = {}, "torn" \notin mixture
                 PROVE  FALSE
      BY DEF Copies!vars, Copies!CutOff
    <2>1. CASE Copies!Extract(w)
      <3>1. tar.data \in Versions
        BY <2>1 DEF CopiesInv, Unedited, Copies!TypeOK, Copies!Extract
      <3>q. QED
        BY <2>1, <3>1 DEF CopiesBounds, CopiesInv, Copies!TypeOK, Copies!Extract
    <2>2. CASE Copies!Begin(w)
      BY <2>2 DEF CopiesInv, Copies!TypeOK, Copies!Begin
    <2>3. ASSUME NEW v \in Workers, Copies!Begin(v) \/ Copies!Extract(v), v # w PROVE FALSE
      BY <2>3 DEF CopiesInv, Copies!TypeOK, Copies!Begin, Copies!Extract
    <2>4. ASSUME NEW v \in Workers, Copies!Create(v) \/ Copies!EndPack(v) \/ Copies!Done(v) PROVE FALSE
      BY <2>4 DEF Copies!Create, Copies!EndPack, Copies!Done
    <2>5. ASSUME NEW v \in Workers, Copies!Cut(v) \/ Copies!Fail(v) PROVE FALSE
      BY <2>5 DEF Copies!Cut, Copies!Fail
    <2>6. CASE Copies!Edit
      BY <2>6 DEF Copies!Edit
    <2>q. QED
      BY <2>1, <2>2, <2>3, <2>4, <2>5, <2>6 DEF Copies!Next, Copies!Step
  <1>q. QED
    BY <1>1, CopiesInvariance, PTL DEF Copies!Spec, Copies!ShortOnlyExplained
=============================================================================
