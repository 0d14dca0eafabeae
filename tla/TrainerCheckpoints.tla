------------------------- MODULE TrainerCheckpoints -------------------------
(***************************************************************************)
(* Checkpoints of the trainers of SkyRL/skyrl-train/skyrl_train/trainer.py *)
(* and utils/trainer_utils.py: the loop of train over epochs and batches,  *)
(* save_checkpoints, the cleanup of old ones, load_checkpoints, exports    *)
(* and the reference model, with crashes between any two steps of a save   *)
(* and in the middle of one.                                               *)
(*                                                                         *)
(* Batches are numbered in the order in which the data loader gives them,  *)
(* over all epochs.  A model is the sequence of the batches it has been    *)
(* through: that it has been through batch 3 twice, or never, can be read  *)
(* off.  The data loader (StatefulDataLoader of torchdata) is external.    *)
(***************************************************************************)
EXTENDS Integers, Sequences, FiniteSetsExt

CONSTANTS PerEpoch,     \* len(self.train_dataloader)
          Epochs,       \* cfg.trainer.epochs
          Configs,      \* the configurations tried: the trainer, how many batches
                        \* a step may sample (max_sample_batches, 1: it is not
                        \* dynamic), update_ref_every_epoch, ckpt_interval, max_ckpts_to_keep
                        \* and pause_step
          Modes,        \* the resume modes a restart may use
          MaxStarts,    \* bound on the starts of the process
          Missing, Torn \* a file that is not there, or was being written

ASSUME TrainerCheckpointsAssumption ==
    /\ {PerEpoch, Epochs, MaxStarts} \subseteq Nat \ {0}
    /\ Configs \subseteq [asynch : BOOLEAN, samples : Nat \ {0}, refresh : BOOLEAN,
                          interval : Nat \ {0}, keep : Int \ {0},
                          pause : Int]
    /\ Modes \subseteq {"none", "latest", "from_path"}
    /\ Missing # Torn /\ {Missing, Torn} \cap (Int \cup Seq(Int)) = {}

VARIABLES
    cfg,      \* the configuration, the same for every start
    pc,       \* where the process is; "down" when it does not run
    todo,     \* the parts of the checkpoint that remain to be saved
    step,     \* self.global_step
    epoch,    \* the epoch of the loop
    iters,    \* the index of the batch in this epoch of this process
    loader,   \* the data loader
    ahead,    \* the batch taken in advance (asynchronous trainer), 0: none
    batch,    \* the batch of the iteration
    held,     \* batches collected by dynamic sampling, not trained on yet
    model,    \* the batches the policy has been through; the critic's too
    ref,      \* those of the reference model
    folders,  \* the checkpoint folders on disk
    latest,   \* latest_ckpt_global_step.txt: 0 when it does not exist
    exports,  \* the steps whose export of the policy is on disk
    starts,
    lapses    \* history: what has cost the run its place in the data

disk == <<folders, latest, exports>>
memory == <<step, epoch, iters, loader, ahead, batch, held, model, ref>>
vars == <<cfg, pc, todo, memory, disk, starts, lapses>>

LatestFirst == <<"latest", "policy", "critic", "data", "state", "cleanup">>
Parts == <<"policy", "critic", "data", "state", "latest", "cleanup">>
NoFolder == [policy |-> Missing, critic |-> Missing, data |-> Missing, state |-> Missing]

-----------------------------------------------------------------------------
(* The data loader: its epoch, how many batches it has given of it, and    *)
(* whether it has come to its end; "loaded" until an iteration starts from *)
(* a state that was loaded.                                                *)
NewLoader == [ep |-> 0, pos |-> 0, fin |-> FALSE, loaded |-> FALSE]
Restarted(l) == [ep |-> l.ep + 1, pos |-> 0, fin |-> FALSE, loaded |-> FALSE]
Resumed(l) == [l EXCEPT !.loaded = FALSE]
AtBoundary(l) == l.pos = PerEpoch /\ ~l.fin

(* iter: from the start of the next epoch, or where a loaded state was.    *)
(* What a loaded state goes on with that has given all its batches without *)
(* having come to its end, nothing or the next epoch, is not taken for     *)
(* granted.                                                                *)
IteratorsAnew(l) == {Restarted(l)}
Iterators(l) ==
    IF ~l.loaded \/ l.fin THEN {Restarted(l)}
    ELSE IF AtBoundary(l) THEN {Resumed(l), Restarted(l)}
    ELSE {Resumed(l)}

(* next: the loader afterwards, and the batch or 0.                        *)
Taken(l) == IF l.pos < PerEpoch THEN [l EXCEPT !.pos = @ + 1] ELSE [l EXCEPT !.fin = TRUE]
Given(l) == IF l.pos < PerEpoch THEN (l.ep - 1) * PerEpoch + l.pos + 1 ELSE 0

-----------------------------------------------------------------------------
Init ==
    /\ cfg \in Configs
    /\ pc = "down" /\ todo = <<>>
    /\ step = 0 /\ epoch = 0 /\ iters = 0 /\ loader = NewLoader /\ ahead = 0 /\ batch = 0
    /\ held = <<>> /\ model = <<>> /\ ref = <<>>
    /\ folders = [n \in {} |-> NoFolder] /\ latest = 0 /\ exports = {}
    /\ starts = 0 /\ lapses = {}

Newest == CHOOSE n \in DOMAIN folders : \A m \in DOMAIN folders : m <= n

(* validate_consistency_for_latest_checkpoint: the newest folder may be    *)
(* one interval ahead of the file, as a crash leaves it.                   *)
AheadAtAll(n) == DOMAIN folders # {} /\ Newest > n
TooFarAhead(n) == DOMAIN folders # {} /\ Newest - n > cfg.interval

(* load_checkpoints from folder n.  Its trainer state must be readable and *)
(* its models must load; a data loader that cannot be restored starts from *)
(* the beginning.  The reference model is built anew.                      *)
Loads(n) ==
    {folders[n].state, folders[n].policy, folders[n].critic} \cap {Missing, Torn} = {}

EpochAfter(n) == (n + 1) \div PerEpoch
EpochOf(n) == n \div PerEpoch

LoadFrom(n, why) ==
    LET d == folders[n].data IN
    IF Loads(n)
    THEN /\ pc' = "epoch" /\ model' = folders[n].policy
         /\ step' = n + 1 /\ epoch' = EpochOf(n)
         /\ loader' = IF d \in {Missing, Torn} THEN NewLoader ELSE [d EXCEPT !.loaded = TRUE]
         /\ lapses' = lapses \cup why \cup (IF d \in {Missing, Torn} THEN {"data"} ELSE {})
                             \cup (IF d \notin {Missing, Torn} /\ AtBoundary(d)
                                   THEN {"boundary"} ELSE {})
    ELSE /\ pc' = "stuck" /\ UNCHANGED <<model, step, epoch, loader>>
         /\ lapses' = lapses \cup why

FromScratch(why) ==
    /\ pc' = "epoch" /\ model' = <<>> /\ step' = 1 /\ epoch' = 0 /\ loader' = NewLoader
    /\ lapses' = lapses \cup why

(* A start of the process, which decides where to resume from; to go back  *)
(* behind what is on disk is a lapse of the user's, and so is to name a    *)
(* folder whose save was not finished: it may hold parts of two saves.     *)
(* A start that raises an error is one that did not happen, unless it is   *)
(* that of mode "latest", where the next one does the same.                *)
BehindDisk(n) == IF DOMAIN folders # {} /\ Newest > n THEN {"behind"} ELSE {}
Unfinished(n) == IF latest # Torn /\ n > latest THEN {"unfinished"} ELSE {}

Start ==
    /\ pc = "down" /\ starts < MaxStarts /\ starts' = starts + 1
    /\ \/ "none" \in Modes /\ FromScratch(BehindDisk(0))
       \/ /\ "latest" \in Modes
          /\ IF latest = 0 THEN FromScratch({})
             ELSE IF latest = Torn \/ TooFarAhead(latest) \/ latest \notin DOMAIN folders
             THEN pc' = "stuck" /\ UNCHANGED <<model, step, epoch, loader, lapses>>
             ELSE LoadFrom(latest, {})
       \/ /\ "from_path" \in Modes
          /\ \E n \in DOMAIN folders : Loads(n) /\ LoadFrom(n, BehindDisk(n) \cup Unfinished(n))
    /\ UNCHANGED <<cfg, todo, iters, ahead, batch, held, ref, disk>>

-----------------------------------------------------------------------------
(* for epoch ...: for ... in the data loader, or in with_next of it, which *)
(* keeps one batch ahead.                                                  *)
EpochStart ==
    /\ pc = "epoch"
    /\ IF epoch < Epochs
       THEN \E l \in Iterators(loader) :
                /\ pc' = "fetch" /\ iters' = 0
                /\ loader' = IF cfg.asynch THEN Taken(l) ELSE l
                /\ ahead' = IF cfg.asynch THEN Given(l) ELSE 0
                /\ UNCHANGED lapses
       ELSE /\ pc' = "end" /\ UNCHANGED <<iters, loader, ahead>>
            /\ lapses' = lapses \cup (IF held # <<>> THEN {"dropped"} ELSE {})
                                \cup (IF BehindDisk(step) # {} THEN {"early"} ELSE {})
    /\ UNCHANGED <<cfg, todo, step, epoch, batch, held, model, ref, disk, starts>>

(* Past pause_step the loop of an epoch breaks, with the batch in hand.    *)
Paused == ~cfg.asynch /\ cfg.pause > 0 /\ step > cfg.pause

Fetch ==
    /\ pc = "fetch"
    /\ LET b == IF cfg.asynch THEN ahead ELSE Given(loader) IN
       /\ loader' = IF cfg.asynch /\ b = 0 THEN loader ELSE Taken(loader)
       /\ ahead' = IF cfg.asynch /\ b # 0 THEN Given(loader) ELSE 0
       /\ batch' = b
       /\ \/ /\ b # 0 /\ ~Paused
             /\ pc' = "train" /\ iters' = iters + 1
             /\ UNCHANGED <<epoch, lapses>>
          \/ /\ b # 0 /\ Paused
             /\ pc' = "epoch" /\ epoch' = epoch + 1 /\ lapses' = lapses \cup {"paused"}
             /\ UNCHANGED iters
          \/ /\ b = 0 /\ pc' = "epoch" /\ epoch' = epoch + 1
             /\ UNCHANGED <<iters, lapses>>
    /\ UNCHANGED <<cfg, todo, step, held, model, ref, disk, starts>>

(* Generation and, unless dynamic sampling wants more batches for the      *)
(* step, training; then a checkpoint if its interval says so.  If it wants *)
(* more than it may have an error is raised, which is a Crash.             *)
KeepSampling ==
    /\ pc = "train" /\ Len(held) + 1 < cfg.samples /\ pc' = "fetch"
    /\ held' = Append(held, batch)
    /\ UNCHANGED <<cfg, todo, step, epoch, iters, loader, ahead, batch, model, ref,
                   disk, starts, lapses>>

Train ==
    /\ pc = "train" /\ model' = Append(model \o held, batch) /\ held' = <<>>
    /\ IF step % cfg.interval = 0 THEN pc' = "save" /\ todo' = Parts
                                  ELSE pc' = "export" /\ UNCHANGED todo
    /\ UNCHANGED <<cfg, step, epoch, iters, loader, ahead, batch, ref, disk, starts, lapses>>

(* save_checkpoints, part by part.                                         *)
Folder(n) == IF n \in DOMAIN folders THEN folders[n] ELSE NoFolder
Written(n, f) == [m \in DOMAIN folders \cup {n} |-> IF m = n THEN f ELSE folders[m]]

(* cleanup_old_checkpoints: the folders with the highest steps stay.       *)
KeptHighest(k) == {n \in DOMAIN folders : Cardinality({m \in DOMAIN folders : m > n}) < k}
Kept(k) == IF k < 0 THEN DOMAIN folders ELSE KeptHighest(k)

Write(part, value) ==
    folders' = Written(step, [Folder(step) EXCEPT ![part] = value])

(* A bound: the state of the data loader fails to be saved in one folder.  *)
OthersSaved == \A n \in DOMAIN folders : folders[n].data # Torn

SavePart ==
    /\ pc = "save" /\ todo' = Tail(todo)
    /\ CASE Head(todo) \in {"policy", "critic"} -> Write(Head(todo), model) /\ UNCHANGED latest
         [] Head(todo) = "data" -> /\ \/ Write("data", [loader EXCEPT !.loaded = FALSE])
                                      \/ OthersSaved /\ Write("data", Torn)
                                   /\ UNCHANGED latest
         [] Head(todo) = "state" -> Write("state", step) /\ UNCHANGED latest
         [] Head(todo) = "latest" -> latest' = step /\ UNCHANGED folders
         [] Head(todo) = "cleanup" -> /\ folders' = [n \in Kept(cfg.keep) |-> folders[n]]
                                      /\ UNCHANGED latest
    /\ pc' = IF todo' # <<>> THEN "save" ELSE IF epoch < Epochs THEN "export" ELSE "last"
    /\ UNCHANGED <<cfg, memory, exports, starts, lapses>>

(* save_models, here at every step; then, at the last batch of an epoch    *)
(* but the last, update_ref_with_policy, which saves to the same directory *)
(* and removes it.                                                         *)
RefreshEveryEpoch == cfg.refresh /\ iters = PerEpoch
RefreshDue == cfg.refresh /\ iters = PerEpoch /\ epoch # Epochs - 1

Export ==
    /\ pc = "export" /\ pc' = "fetch"
    /\ exports' = IF RefreshDue THEN exports \ {step} ELSE exports \cup {step}
    /\ ref' = IF RefreshDue THEN model ELSE ref
    /\ step' = step + 1
    /\ UNCHANGED <<cfg, todo, epoch, iters, loader, ahead, batch, held, model,
                   folders, latest, starts, lapses>>

(* After the loops: the final checkpoint, under the step after the last,   *)
(* and the final export.                                                   *)
End ==
    /\ pc = "end" /\ pc' = "save" /\ todo' = Parts
    /\ UNCHANGED <<cfg, memory, disk, starts, lapses>>

LastExport ==
    /\ pc = "last" /\ pc' = "done" /\ exports' = exports \cup {step}
    /\ UNCHANGED <<cfg, todo, memory, folders, latest, starts, lapses>>

-----------------------------------------------------------------------------
(* The process dies; a file that is being written may be torn, and so is   *)
(* the file with the latest step, which is opened for writing first.  A    *)
(* cleanup that is cut short has removed the older folders and some of the *)
(* files of one: what counts is whether the rest can still be loaded.      *)
HalfRemoved ==
    \E n \in DOMAIN folders \ Kept(cfg.keep), gone \in {{"data"}, DOMAIN NoFolder} :
        folders' = [m \in {m \in DOMAIN folders : m >= n} |->
                       IF m # n THEN folders[m]
                       ELSE [f \in DOMAIN NoFolder |-> IF f \in gone THEN Missing
                                                      ELSE folders[n][f]]]

Tears ==
    IF pc = "save" /\ Head(todo) \in {"policy", "critic", "data", "state"}
    THEN Write(Head(todo), Torn) /\ UNCHANGED latest
    ELSE /\ pc = "save"
         /\ \/ Head(todo) = "latest" /\ latest' = Torn /\ UNCHANGED folders
            \/ Head(todo) = "cleanup" /\ HalfRemoved /\ UNCHANGED latest

Exit ==
    /\ pc' = "down" /\ todo' = <<>>
    /\ step' = 0 /\ epoch' = 0 /\ iters' = 0 /\ loader' = NewLoader /\ ahead' = 0 /\ batch' = 0
    /\ held' = <<>> /\ model' = <<>> /\ ref' = <<>>
    /\ UNCHANGED <<cfg, exports, starts, lapses>>

Crash ==
    /\ pc \notin {"down", "stuck", "done"} /\ starts < MaxStarts
    /\ Tears \/ UNCHANGED <<folders, latest>>
    /\ Exit

(* A finished run may be started again.                                    *)
Leave ==
    /\ pc = "done" /\ starts < MaxStarts
    /\ UNCHANGED <<folders, latest>> /\ Exit

Work == Start \/ EpochStart \/ Fetch \/ KeepSampling \/ Train \/ SavePart \/ Export \/ End \/ LastExport
Next == Work \/ Crash \/ Leave

(* The process goes on, and is started again.                              *)
Spec == Init /\ [][Next]_vars /\ WF_vars(Work)

-----------------------------------------------------------------------------
InAll == Epochs * PerEpoch

(* A restart may take fewer steps than the run before, because it samples  *)
(* more, skips a batch or loses an epoch at its boundary, and save at its  *)
(* end below a folder that a crash has left: the cleanup and the check of  *)
(* the newest folder then go by the wrong one.                             *)
InStepOrder == lapses \cap {"behind", "unfinished", "early"} = {}

(* Whenever a crash comes, the folder that the file names has all of a     *)
(* checkpoint, policy and critic of the same batches, and the cleanup has  *)
(* not taken it, unless a run was started behind what was on disk or from  *)
(* a folder that was not finished, or ended early.                         *)
LatestComplete ==
    InStepOrder /\ latest \in Nat \ {0}
    => latest \in DOMAIN folders /\ Loads(latest)
       /\ folders[latest].policy = folders[latest].critic

(* A restart in mode "latest" refuses the folder only if a crash tore the  *)
(* file that names the checkpoint: the incomplete folder that any other    *)
(* crash leaves behind never counts as inconsistent.                       *)
RefusedOnlyTorn == InStepOrder /\ pc = "stuck" => latest = Torn

(* Through every crash and restart the policy has been through the batches *)
(* in their order and none twice, what was trained after the checkpoint    *)
(* being trained again from it; the synchronous trainer has left none out. *)
Consecutive ==
    lapses \cap {"data", "paused", "behind", "unfinished", "early", "dropped"} = {}
    => /\ \A i, j \in DOMAIN model : i < j => model[i] < model[j]
       /\ ~cfg.asynch => \A i \in DOMAIN model : model[i] = i

(* The checkpoint has the place in the data to go on from, so that no      *)
(* batch is left out; but the asynchronous trainer, which takes a batch    *)
(* ahead, saves a place behind it (docs/checkpointing-logging).            *)
ResumesExactly == lapses = {} => \A i \in DOMAIN model : model[i] = i

(* In a run that has not been restarted the reference model is the policy  *)
(* of the end of the last epoch, and of all steps an export of the policy  *)
(* is on disk but of those of a refresh, which has removed what save_models *)
(* wrote.  A restart begins with the reference model of the first start.   *)
RefreshedByEpoch ==
    cfg.refresh /\ starts = 1 /\ cfg.samples = 1 /\ pc = "fetch"
    => LET past == Min({Len(model) \div PerEpoch, Epochs - 1})
       IN  /\ ref = SubSeq(model, 1, past * PerEpoch)
           /\ exports = (1 .. step - 1) \ {e * PerEpoch : e \in 1 .. past}

(* Whatever crashes come, the run ends, or a torn file stops it; and       *)
(* unless something has cost it its place in the data, the synchronous     *)
(* trainer has then been through all batches of all epochs.  With dynamic  *)
(* sampling the epoch to resume in is counted by steps, which are fewer    *)
(* than the batches.                                                       *)
Completes ==
    <>[](\/ pc = "stuck"
         \/ /\ pc = "done"
            /\ lapses = {} /\ ~cfg.asynch /\ cfg.samples = 1 => Len(model) = InAll)
=============================================================================
