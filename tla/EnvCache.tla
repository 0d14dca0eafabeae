------------------------------ MODULE EnvCache ------------------------------
(***************************************************************************)
(* The two caches behind SandboxDeployment.build_env and                   *)
(* GithubRepoRetryConfig.copy2: one venv archive per environment, shared   *)
(* by the instances of an image, and one repository archive per instance,  *)
(* shared by its rollouts.  Worker threads test for, remove, extract and   *)
(* write the archives in place; nothing locks them.                        *)
(*                                                                         *)
(* An attempt is one call of env.start(): repository first, then the venv, *)
(* then the repository archive.  It ends "ready", or with an exception     *)
(* that closes the environment.                                            *)
(***************************************************************************)
EXTENDS Integers, FiniteSets, SharedFile

CONSTANTS
  Workers,            \* worker threads of the batch run
  Envs,               \* git_id / version / image_name
  Instances,          \* instance ids
  EnvOf,              \* the environment of an instance
  Configs,            \* deployment configurations a batch may run with
  Faults,             \* subset of {"op", "pack", "kill"}
  MaxAttempts,        \* bound: attempts begun in all
  MaxKills            \* bound: deaths of the process

ASSUME EnvCacheAssumption ==
  /\ EnvOf \in [Instances -> Envs]
  /\ Envs \intersect Instances = {}
  /\ Configs \subseteq [force : BOOLEAN, delete : BOOLEAN, cacheGit : BOOLEAN]
  /\ Faults \subseteq {"op", "pack", "kill"}
  /\ MaxAttempts \in Nat /\ MaxKills \in Nat

VARIABLES
  conf,       \* force_rebuild, delete_after_create and cache_git of the batch
  pc,         \* where each worker is in env.start()
  inst,       \* the instance it prepares
  repo,       \* its private checkout: "none", "short", "cloned" or "good" (installed)
  fromGit,    \* the checkout came out of the repository archive
  private,    \* its private venv: "none", "short" or "good"
  fromVenv,   \* the venv came out of the venv archive
  src,        \* shared host directory where a venv is first created
  tmp,        \* copytree_via_tar's archive of that directory
  whole,      \* src was a finished venv when the worker began to pack it
  venv,       \* the venv archives
  git,        \* the repository archives
  begun,      \* attempts begun
  kills,
  (* History, read by the properties only. *)
  alone,      \* no other worker was busy with the environment of the attempt
  overlap,    \* environments two workers were creating at the same time
  failed      \* environments and instances whose packing once raised

history == <<alone, overlap, failed>>
worker == <<inst, repo, fromGit, private, fromVenv, whole>>
files == <<src, tmp, venv, git>>
rest == <<conf, begun, kills, history>>
vars == <<pc, worker, files, rest>>

RepoSteps == {"repo_rm", "repo_check", "repo_extract", "repo_clone"}
ExtractSteps == {"venv_extract", "pip_check", "pip"}
CreateSteps == {"create", "creating", "tmp_pack", "tmp_packing", "tmp_extract",
                "tmp_rm", "install", "venv_pack", "venv_packing", "rmtree"}

\* The batch starts from empty caches, or over environments packed earlier.
Init ==
  /\ conf \in Configs
  /\ pc = [w \in Workers |-> "idle"]
  /\ \E i \in Instances : inst = [w \in Workers |-> i]
  /\ repo = [w \in Workers |-> "none"]
  /\ fromGit = [w \in Workers |-> FALSE]
  /\ private = [w \in Workers |-> "none"]
  /\ fromVenv = [w \in Workers |-> FALSE]
  /\ whole = [w \in Workers |-> FALSE]
  /\ src = [e \in Envs |-> "absent"]
  /\ tmp = [e \in Envs |-> Absent]
  /\ venv \in [Envs -> {Absent, Holding("good")}]
  /\ git = [i \in Instances |-> Absent]
  /\ begun = 0
  /\ kills = 0
  /\ alone = [w \in Workers |-> FALSE]
  /\ overlap = {}
  /\ failed = {}

Env(w) == EnvOf[inst[w]]

Busy(w) == pc[w] # "idle"

Goto(w, from, to) == pc[w] = from /\ pc' = [pc EXCEPT ![w] = to]

-----------------------------------------------------------------------------
(* Starting, ending and failing an attempt. *)

\* A new deployment has an empty root directory.  copy2 then looks for the
\* repository archive only to remove it, if the caches are to be rebuilt.
Begin(w) ==
  /\ begun < MaxAttempts
  /\ begun' = begun + 1
  /\ \E i \in Instances :
       /\ Goto(w, "idle", IF conf.force /\ git[i].there THEN "repo_rm" ELSE "repo_check")
       /\ inst' = [inst EXCEPT ![w] = i]
       /\ LET others == {v \in Workers \ {w} : Busy(v) /\ Env(v) = EnvOf[i]}
          IN  alone' = [v \in Workers |-> IF v = w THEN others = {}
                                          ELSE alone[v] /\ v \notin others]
  /\ repo' = [repo EXCEPT ![w] = "none"]
  /\ private' = [private EXCEPT ![w] = "none"]
  /\ fromGit' = [fromGit EXCEPT ![w] = FALSE]
  /\ fromVenv' = [fromVenv EXCEPT ![w] = FALSE]
  /\ whole' = [whole EXCEPT ![w] = FALSE]
  /\ UNCHANGED <<conf, files, kills, overlap, failed>>

\* The agent is done with the environment; stop() removes the root directory.
Finish(w) ==
  /\ Goto(w, "ready", "idle")
  /\ UNCHANGED <<worker, files, rest>>

\* A command of the sandbox, a clone or an extraction fails.  Inside
\* copytree_via_tar the finally clause removes the temporary archive.
Fail(w) ==
  /\ "op" \in Faults
  /\ pc[w] \in {"repo_extract", "repo_clone", "venv_extract", "pip", "creating",
                "tmp_packing", "tmp_extract", "install"}
  /\ pc' = [pc EXCEPT ![w] = "idle"]
  /\ tmp' = IF pc[w] \in {"tmp_packing", "tmp_extract"}
            THEN [tmp EXCEPT ![Env(w)] = Absent] ELSE tmp
  /\ UNCHANGED <<worker, src, venv, git, rest>>

\* An exception while one of the two archives is being packed.
FailPacking(w) ==
  /\ "pack" \in Faults
  /\ \/ /\ Goto(w, "venv_packing", "idle")
        /\ \E f \in Abandoned(venv[Env(w)], w) : venv' = [venv EXCEPT ![Env(w)] = f]
        /\ failed' = failed \union {Env(w)}
        /\ UNCHANGED git
     \/ /\ Goto(w, "git_packing", "idle")
        /\ \E f \in Abandoned(git[inst[w]], w) : git' = [git EXCEPT ![inst[w]] = f]
        /\ failed' = failed \union {inst[w]}
        /\ UNCHANGED venv
  /\ UNCHANGED <<conf, worker, src, tmp, begun, kills, alone, overlap>>

\* The process is killed; what it wrote stays on disk.
Kill ==
  /\ "kill" \in Faults
  /\ kills < MaxKills
  /\ kills' = kills + 1
  /\ pc' = [w \in Workers |-> "idle"]
  /\ tmp' = [e \in Envs |-> Killed(tmp[e])]
  /\ venv' = [e \in Envs |-> Killed(venv[e])]
  /\ git' = [i \in Instances |-> Killed(git[i])]
  /\ UNCHANGED <<conf, worker, src, begun, history>>

-----------------------------------------------------------------------------
(* The repository: GithubRepoRetryConfig.copy2. *)

\* os.remove raises when another worker has removed the archive since the test.
RepoRemove(w) ==
  LET i == inst[w]
  IN  /\ Goto(w, "repo_rm", IF git[i].there THEN "repo_check" ELSE "idle")
      /\ git' = [git EXCEPT ![i] = Absent]
      /\ UNCHANGED <<worker, src, tmp, venv, rest>>

RepoCheck(w) ==
  /\ Goto(w, "repo_check", IF git[inst[w]].there THEN "repo_extract" ELSE "repo_clone")
  /\ UNCHANGED <<worker, files, rest>>

RepoExtract(w) ==
  LET f == git[inst[w]]
  IN  /\ Goto(w, "repo_extract", IF Readable(f) THEN "venv_force" ELSE "idle")
      /\ repo' = [repo EXCEPT ![w] = IF Readable(f) THEN f.data ELSE @]
      /\ fromGit' = [fromGit EXCEPT ![w] = TRUE]
      /\ UNCHANGED <<inst, private, fromVenv, whole, files, rest>>

\* A fresh clone (three tries) has no build products and no egg-info yet.
RepoClone(w) ==
  /\ Goto(w, "repo_clone", "venv_force")
  /\ repo' = [repo EXCEPT ![w] = "cloned"]
  /\ UNCHANGED <<inst, private, fromGit, fromVenv, whole, files, rest>>

-----------------------------------------------------------------------------
(* The venv: the extraction branch of build_env. *)

\* Mutant of VenvForce: force_rebuild only concerns the repository.
VenvForceIgnored(w) ==
  /\ Goto(w, "venv_force", "venv_check")
  /\ UNCHANGED <<worker, files, rest>>

VenvForce(w) ==
  /\ Goto(w, "venv_force", IF conf.force /\ venv[Env(w)].there THEN "venv_rm" ELSE "venv_check")
  /\ UNCHANGED <<worker, files, rest>>

VenvRemove(w) ==
  LET e == Env(w)
  IN  /\ Goto(w, "venv_rm", IF venv[e].there THEN "venv_check" ELSE "idle")
      /\ venv' = [venv EXCEPT ![e] = Absent]
      /\ UNCHANGED <<worker, src, tmp, git, rest>>

Creators(e) == {w \in Workers : pc[w] \in CreateSteps /\ Env(w) = e}

VenvCheck(w) ==
  /\ Goto(w, "venv_check", IF venv[Env(w)].there THEN "venv_extract" ELSE "create")
  /\ overlap' = IF ~ venv[Env(w)].there /\ Creators(Env(w)) # {}
                THEN overlap \union {Env(w)} ELSE overlap
  /\ UNCHANGED <<conf, worker, files, begun, kills, alone, failed>>

\* Mutant of VenvExtract: what could be extracted before the error is used.
VenvExtractAnyway(w) ==
  LET f == venv[Env(w)]
  IN  /\ Goto(w, "venv_extract", "pip_check")
      /\ private' = [private EXCEPT ![w] = IF Readable(f) THEN f.data ELSE "short"]
      /\ fromVenv' = [fromVenv EXCEPT ![w] = TRUE]
      /\ UNCHANGED <<inst, repo, fromGit, whole, files, rest>>

\* The assertion after the extraction only asks that the directory exists.
VenvExtract(w) ==
  LET f == venv[Env(w)]
  IN  /\ Goto(w, "venv_extract", IF Readable(f) THEN "pip_check" ELSE "idle")
      /\ private' = [private EXCEPT ![w] = IF Readable(f) THEN f.data ELSE @]
      /\ fromVenv' = [fromVenv EXCEPT ![w] = TRUE]
      /\ UNCHANGED <<inst, repo, fromGit, whole, files, rest>>

\* The checkout is installed only if no repository archive exists by now.
PipCheck(w) ==
  /\ Goto(w, "pip_check", IF git[inst[w]].there THEN "git_check" ELSE "pip")
  /\ UNCHANGED <<worker, files, rest>>

Installed(state) == IF state = "cloned" THEN "good" ELSE state

PipInstall(w) ==
  /\ Goto(w, "pip", "git_check")
  /\ repo' = [repo EXCEPT ![w] = Installed(@)]
  /\ UNCHANGED <<inst, private, fromGit, fromVenv, whole, files, rest>>

-----------------------------------------------------------------------------
(* The venv: the creation branch of build_env. *)

\* python -m venv works in the shared host directory, over what is there: in a
\* finished venv it rewrites some files in place, which a packer may meet.
StartCreate(w) ==
  /\ Goto(w, "create", "creating")
  /\ \E state \in {"unfinished", src[Env(w)]} \ {"absent"} :
       src' = [src EXCEPT ![Env(w)] = state]
  /\ UNCHANGED <<worker, tmp, venv, git, rest>>

\* If another worker's rmtree took the directory away, part of it is missing.
EndCreate(w) ==
  LET e == Env(w)
  IN  /\ Goto(w, "creating", "tmp_pack")
      /\ src' = [src EXCEPT ![e] = IF @ = "absent" THEN "unfinished" ELSE "finished"]
      /\ UNCHANGED <<worker, tmp, venv, git, rest>>

\* copytree_via_tar(source_env_dir, env_dir_venv, cached=False): a missing
\* source raises before the temporary archive is touched.
StartTmp(w) ==
  LET e == Env(w)
  IN  /\ Goto(w, "tmp_pack", IF src[e] = "absent" THEN "idle" ELSE "tmp_packing")
      /\ tmp' = IF src[e] = "absent" THEN tmp ELSE [tmp EXCEPT ![e] = Opened(@, w)]
      /\ whole' = [whole EXCEPT ![w] = src[e] = "finished"]
      /\ UNCHANGED <<inst, repo, fromGit, private, fromVenv, src, venv, git, rest>>

\* The archive holds the venv if the directory was complete all along.
EndTmp(w) ==
  LET e == Env(w)
      content == IF whole[w] /\ src[e] = "finished" THEN "good" ELSE "short"
  IN  /\ Goto(w, "tmp_packing", "tmp_extract")
      /\ \E f \in Closed(tmp[e], w, content) : tmp' = [tmp EXCEPT ![e] = f]
      /\ UNCHANGED <<worker, src, venv, git, rest>>

\* The temporary archive is not compressed: one that is still being written
\* reads as an error or, cut between two members, as a shorter archive.
ExtractTmp(w) ==
  LET e == Env(w)
      f == tmp[e]
  IN  \/ /\ f.there
         /\ Goto(w, "tmp_extract", "tmp_rm")
         /\ private' = [private EXCEPT ![w] = IF f.data = "good" THEN "good" ELSE "short"]
         /\ UNCHANGED <<inst, repo, fromGit, fromVenv, whole, files, rest>>
      \/ /\ ~ Readable(f)
         /\ Goto(w, "tmp_extract", "idle")
         /\ tmp' = [tmp EXCEPT ![e] = Absent]
         /\ UNCHANGED <<worker, src, venv, git, rest>>

\* Mutant of RemoveTmp: the temporary archive is kept, as with cached=True.
RemoveTmpKept(w) ==
  /\ Goto(w, "tmp_rm", "install")
  /\ UNCHANGED <<worker, files, rest>>

RemoveTmp(w) ==
  /\ Goto(w, "tmp_rm", "install")
  /\ tmp' = [tmp EXCEPT ![Env(w)] = Absent]
  /\ UNCHANGED <<worker, src, venv, git, rest>>

\* PATH, install_env and _pre_install_commands in the sandbox.
Install(w) ==
  /\ Goto(w, "install", IF conf.delete THEN "rmtree" ELSE "venv_pack")
  /\ repo' = [repo EXCEPT ![w] = Installed(@)]
  /\ UNCHANGED <<inst, private, fromGit, fromVenv, whole, files, rest>>

StartVenv(w) ==
  /\ Goto(w, "venv_pack", "venv_packing")
  /\ venv' = [venv EXCEPT ![Env(w)] = Opened(@, w)]
  /\ UNCHANGED <<worker, src, tmp, git, rest>>

EndVenv(w) ==
  LET e == Env(w)
  IN  /\ Goto(w, "venv_packing", "rmtree")
      /\ \E f \in Closed(venv[e], w, private[w]) : venv' = [venv EXCEPT ![e] = f]
      /\ UNCHANGED <<worker, src, tmp, git, rest>>

RemoveSource(w) ==
  /\ Goto(w, "rmtree", "git_check")
  /\ src' = [src EXCEPT ![Env(w)] = "absent"]
  /\ UNCHANGED <<worker, tmp, venv, git, rest>>

-----------------------------------------------------------------------------
(* The repository archive, at the end of build_env. *)

\* Mutant of GitWanted: no test that the archive is missing.
GitWantedAlways(i) == (~ conf.delete /\ conf.cacheGit) \/ conf.force

GitWanted(i) == (~ git[i].there /\ ~ conf.delete /\ conf.cacheGit) \/ conf.force

GitCheck(w) ==
  /\ Goto(w, "git_check", IF GitWanted(inst[w]) THEN "git_packing" ELSE "ready")
  /\ git' = IF GitWanted(inst[w]) THEN [git EXCEPT ![inst[w]] = Opened(@, w)] ELSE git
  /\ UNCHANGED <<worker, src, tmp, venv, rest>>

EndGit(w) ==
  LET i == inst[w]
  IN  /\ Goto(w, "git_packing", "ready")
      /\ \E f \in Closed(git[i], w, repo[w]) : git' = [git EXCEPT ![i] = f]
      /\ UNCHANGED <<worker, src, tmp, venv, rest>>

-----------------------------------------------------------------------------

Step(w) ==
  \/ RepoRemove(w) \/ RepoCheck(w) \/ RepoExtract(w) \/ RepoClone(w)
  \/ VenvForce(w) \/ VenvRemove(w) \/ VenvCheck(w) \/ VenvExtract(w)
  \/ PipCheck(w) \/ PipInstall(w)
  \/ StartCreate(w) \/ EndCreate(w) \/ StartTmp(w) \/ EndTmp(w)
  \/ ExtractTmp(w) \/ RemoveTmp(w) \/ Install(w)
  \/ StartVenv(w) \/ EndVenv(w) \/ RemoveSource(w)
  \/ GitCheck(w) \/ EndGit(w)

Next ==
  \/ \E w \in Workers : Begin(w) \/ Step(w) \/ Finish(w) \/ Fail(w) \/ FailPacking(w)
  \/ Kill

Spec == Init /\ [][Next]_vars

-----------------------------------------------------------------------------
(* The values of the attempts, of the directories and of the archives. *)
Positions == {"idle", "venv_force", "venv_rm", "venv_check", "git_check", "git_packing", "ready"}
             \union RepoSteps \union ExtractSteps \union CreateSteps
VenvFiles == FileStates(Workers, {"good"})
GitFiles == FileStates(Workers, {"cloned", "good"})

TypeOK ==
  /\ conf \in Configs
  /\ pc \in [Workers -> Positions] /\ inst \in [Workers -> Instances]
  /\ repo \in [Workers -> {"none", "short", "cloned", "good"}]
  /\ private \in [Workers -> {"none", "short", "good"}]
  /\ {fromGit, fromVenv, whole, alone} \subseteq [Workers -> BOOLEAN]
  /\ src \in [Envs -> {"absent", "unfinished", "finished"}]
  /\ tmp \in [Envs -> VenvFiles] /\ venv \in [Envs -> VenvFiles]
  /\ git \in [Instances -> GitFiles]
  /\ begun \in 0 .. MaxAttempts /\ kills \in 0 .. MaxKills
  /\ overlap \subseteq Envs /\ failed \subseteq Envs \union Instances

-----------------------------------------------------------------------------
(* Properties. *)

HasVenv == {"pip_check", "pip", "tmp_rm", "install", "venv_pack", "venv_packing",
            "rmtree", "git_check", "git_packing", "ready"}

\* Only two things make a sandbox go on with an unusable venv: two workers that
\* created it at the same time, and an exception while it was packed.  Kills,
\* failing commands and readers that meet a writer never do.
UnusableVenvExplained ==
  \A w \in Workers :
    pc[w] \in HasVenv /\ private[w] # "good" => Env(w) \in overlap \union failed

\* Nobody packs a bare clone, however the rollouts of an instance interleave:
\* a checkout that came out of the repository archive is an installed one.
RepoFromCacheInstalled ==
  \A w \in Workers :
    fromGit[w] /\ pc[w] \notin {"idle"} \union RepoSteps
               /\ ~ conf.force /\ inst[w] \notin failed
      => repo[w] = "good"

\* An attempt that rebuilds undisturbed leaves both archives whole, whatever
\* killed and failed attempts before it left behind.
ForceRepairs ==
  conf.force /\ ~ conf.delete =>
    \A w \in Workers :
      pc[w] = "ready" /\ alone[w]
        => venv[Env(w)] = Holding("good") /\ git[inst[w]] = Holding("good")

\* An undisturbed attempt that creates a venv and succeeds cleans up what
\* failed or killed attempts before it left in the shared creation directory
\* and in /tmp.
NothingLeftBehind ==
  \A w \in Workers :
    pc[w] = "ready" /\ ~ fromVenv[w] /\ alone[w]
      => src[Env(w)] = "absent" /\ ~ tmp[Env(w)].there
=============================================================================
