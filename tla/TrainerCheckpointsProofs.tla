---------------------- MODULE TrainerCheckpointsProofs ----------------------
(***************************************************************************)
(* Proofs about TrainerCheckpoints, for every number of epochs and batches,*)
(* every configuration, every resume mode and any number of restarts.      *)
(***************************************************************************)
EXTENDS TrainerCheckpoints, SequenceTheorems, FiniteSetTheorems, TLAPS

-----------------------------------------------------------------------------
(* The values of the variables.  While a save goes on, what remains of it  *)
(* is the end of Parts; the steps of folders have a highest one.           *)
Loaders == [ep : Nat, pos : 0 .. PerEpoch, fin : BOOLEAN, loaded : BOOLEAN]
Batches == Seq(Int)
NoFile == {Missing, Torn}
Kinds == [policy |-> Batches \cup NoFile, critic |-> Batches \cup NoFile,
          data |-> Loaders \cup NoFile, state |-> Nat \cup NoFile]
Folders == [policy : Kinds.policy, critic : Kinds.critic, data : Kinds.data, state : Kinds.state]
Rest(k) ==
    CASE k = 1 -> Parts
      [] k = 2 -> <<"critic", "data", "state", "latest", "cleanup">>
      [] k = 3 -> <<"data", "state", "latest", "cleanup">>
      [] k = 4 -> <<"state", "latest", "cleanup">>
      [] k = 5 -> <<"latest", "cleanup">>
      [] k = 6 -> <<"cleanup">>
      [] k = 7 -> <<>>
Running == {"epoch", "fetch", "train", "export", "end", "save", "last", "done"}

Steps == DOMAIN folders
HasNewest == Steps = {} \/ \E n \in Steps : \A m \in Steps : m <= n

Values ==
    /\ cfg \in Configs /\ pc \in {"down", "stuck"} \cup Running
    /\ IF pc = "save" THEN \E k \in 1 .. 6 : todo = Rest(k) ELSE todo = <<>>
    /\ step \in Nat /\ epoch \in Nat /\ iters \in Nat /\ starts \in Nat
    /\ pc \in Running => step > 0
    /\ loader \in Loaders /\ ahead \in Int /\ batch \in Int
    /\ held \in Batches /\ model \in Batches /\ ref \in Batches
    /\ pc \in {"down", "stuck"} => model = <<>> /\ held = <<>> /\ ahead = 0
    /\ Steps \subseteq Nat \ {0} /\ \A n \in Steps : folders[n] \in Folders
    /\ HasNewest
    /\ latest \in Nat \cup {Torn}

-----------------------------------------------------------------------------
(* No step from a up to b, b left out, at which a checkpoint is due.       *)
NoneDue(a, b) == \A q \in a .. b - 1 : q % cfg.interval # 0

(* What the file names is complete, and what lies beyond it is at most the *)
(* folder that the next save is due to write.                              *)
Complete(n) == Loads(n) /\ folders[n].policy = folders[n].critic
FileNames ==
    latest \in Nat =>
        /\ latest # 0 => latest \in Steps /\ Complete(latest)
        /\ \A m \in Steps : NoneDue(latest + 1, m)

(* The step n that may be saved next, seen from the folders on disk: if it *)
(* is only to come, the folders may be ahead of it.                        *)
Above(n) ==
    IF latest = Torn THEN \A m \in Steps : m < n
                     ELSE latest < n /\ NoneDue(latest + 1, n)
NextSave(n) == Above(n) /\ \A m \in Steps : NoneDue(n, m)

(* The parts of the checkpoint that have been written.                     *)
Saved(k) ==
    LET f == Folder(step) IN
    /\ k > 1 => f.policy = model
    /\ k > 2 => f.critic = model
    /\ k > 3 => f.data \in {[loader EXCEPT !.loaded = FALSE], Torn}
    /\ k > 4 => f.state = step
    /\ k > 1 => step \in Steps
    /\ k <= 5 => IF latest = Torn
                 THEN /\ \A m \in Steps : m <= step
                      /\ k <= 4 => f.state = Missing
                 ELSE Above(step)
    /\ k > 5 => latest = step

Ordered ==
    /\ FileNames
    /\ pc \in {"epoch", "fetch", "train"} => NextSave(step)
    /\ pc = "export" => NextSave(step + 1)
    /\ pc = "end" => Above(step)
    /\ pc \in {"end", "save", "last", "done"} => \A m \in Steps : m <= step
    /\ \A k \in 1 .. 6 : pc = "save" /\ todo = Rest(k) => Saved(k)
    /\ pc \in {"last", "done"} => latest = step
    /\ pc = "stuck" => latest = Torn

OrderInv == Values /\ (InStepOrder => Ordered)

-----------------------------------------------------------------------------
(* How many batches the loader has given in all, and what a model has been *)
(* through by then.                                                        *)
GivenBy(l) == (l.ep - 1) * PerEpoch + l.pos
Settled(l) == l.ep > 0 /\ (l.fin => l.pos = PerEpoch)
Increasing(m) == \A i, j \in DOMAIN m : i < j => m[i] < m[j]
Through(m, l) ==
    /\ Settled(l)
    /\ IF cfg.asynch THEN Increasing(m) /\ \A i \in DOMAIN m : m[i] <= GivenBy(l)
                     ELSE Len(m) = GivenBy(l) /\ \A i \in DOMAIN m : m[i] = i

Fits(n) == Loads(n) /\ folders[n].data \notin NoFile => Through(folders[n].policy, folders[n].data)

InPlace == lapses \cap {"data", "paused", "behind", "unfinished", "early", "dropped"} = {}
Seen == model \o held

Placed ==
    /\ latest \in Nat \ {0} => Fits(latest)
    /\ latest = Torn => \A n \in Steps : (\A m \in Steps : m <= n) => Fits(n)
    /\ pc = "epoch" => IF loader = NewLoader THEN epoch = 0 /\ model = <<>> /\ held = <<>>
                       ELSE Through(Seen, loader) /\ (loader.loaded \/ loader.fin)
    /\ pc \in {"fetch", "export", "end", "save", "last", "done"} => Through(Seen, loader)
    /\ pc = "train" => Through(Append(Seen, batch), loader)
    /\ pc \in {"fetch", "train", "export", "save"} /\ epoch < Epochs /\ cfg.asynch =>
          IF ahead = 0 THEN loader.fin
          ELSE /\ ahead <= GivenBy(loader)
               /\ \A i \in DOMAIN Seen : Seen[i] < ahead
               /\ pc = "train" => batch < ahead
    /\ pc \in {"fetch", "train", "export"} => epoch < Epochs
    /\ pc = "end" => epoch >= Epochs
    /\ pc \in {"export", "end", "save", "last", "done"} => held = <<>>

PlaceInv == OrderInv /\ (InPlace => Placed)

-----------------------------------------------------------------------------
(* The loader stays a loader.                                              *)
LEMMA LoaderValues ==
    ASSUME NEW l \in Loaders
    PROVE  /\ NewLoader \in Loaders /\ Taken(l) \in Loaders /\ Given(l) \in Int
           /\ [l EXCEPT !.loaded = TRUE] \in Loaders /\ [l EXCEPT !.loaded = FALSE] \in Loaders
           /\ Iterators(l) \subseteq Loaders
<1>1. PerEpoch \in Nat \ {0}
  BY TrainerCheckpointsAssumption
<1>2. NewLoader \in Loaders
  BY <1>1 DEF NewLoader, Loaders
<1>3. Taken(l) \in Loaders
  <2>1. CASE l.pos < PerEpoch
    <3>1. l.pos + 1 \in 0 .. PerEpoch
      BY <1>1, <2>1 DEF Loaders
    <3> QED
      BY <2>1, <3>1 DEF Taken, Loaders
  <2>2. CASE ~(l.pos < PerEpoch)
    BY <2>2 DEF Taken, Loaders
  <2> QED
    BY <2>1, <2>2
<1>6. Given(l) \in Int
  <2>1. l.ep \in Nat /\ l.pos \in Int
    BY <1>1 DEF Loaders
  <2>2. (l.ep - 1) * PerEpoch \in Int
    BY <1>1, <2>1
  <2> QED
    BY <2>1, <2>2 DEF Given
<1>4. [l EXCEPT !.loaded = TRUE] \in Loaders /\ [l EXCEPT !.loaded = FALSE] \in Loaders
  BY DEF Loaders
<1>5. Iterators(l) \subseteq Loaders
  <2>1. Restarted(l) \in Loaders
    BY <1>1 DEF Restarted, Loaders
  <2>2. Resumed(l) \in Loaders
    BY <1>4 DEF Resumed
  <2> QED
    BY <2>1, <2>2 DEF Iterators
<1> QED
  BY <1>2, <1>3, <1>4, <1>5, <1>6

(* A save takes one part after the other.                                  *)
LEMMA Remaining ==
    /\ Rest(1) = Parts /\ Rest(7) = <<>>
    /\ \A k \in 1 .. 6 : Head(Rest(k)) = Parts[k] /\ Tail(Rest(k)) = Rest(k + 1)
    /\ \A k \in 1 .. 6 : Rest(k) # <<>>
    /\ \A j, k \in 1 .. 6 : Rest(j) = Rest(k) => j = k
<1>1. Rest(1) = Parts /\ Rest(7) = <<>>
  BY DEF Rest
<1>2. \A k \in 1 .. 6 : Head(Rest(k)) = Parts[k] /\ Tail(Rest(k)) = Rest(k + 1)
  BY DEF Rest, Parts
<1>3. \A k \in 1 .. 6 : Rest(k) # <<>>
  BY DEF Rest, Parts
<1>4. \A j, k \in 1 .. 6 : Rest(j) = Rest(k) => j = k
  BY DEF Rest, Parts
<1> QED
  BY <1>1, <1>2, <1>3, <1>4

(* A file of a folder may be written anew, or torn.                        *)
LEMMA Updates ==
    ASSUME NEW f \in Folders, NEW part \in DOMAIN NoFolder, NEW value \in Kinds[part]
    PROVE  [f EXCEPT ![part] = value] \in Folders
<1>1. part \in {"policy", "critic", "data", "state"}
  BY DEF NoFolder
<1>2. CASE part = "policy"
  BY <1>2 DEF Folders, Kinds
<1>3. CASE part = "critic"
  BY <1>3 DEF Folders, Kinds
<1>4. CASE part = "data"
  BY <1>4 DEF Folders, Kinds
<1>5. CASE part = "state"
  BY <1>5 DEF Folders, Kinds
<1> QED
  BY <1>1, <1>2, <1>3, <1>4, <1>5

(* A folder that is not on disk yet is written with the other parts        *)
(* missing; the other folders stay.                                        *)
LEMMA Writing ==
    ASSUME Values, step > 0, NEW part \in DOMAIN NoFolder, NEW value, Write(part, value),
           value \in Kinds[part]
    PROVE  /\ Steps' = Steps \cup {step} /\ Steps' \subseteq Nat \ {0}
           /\ \A m \in Steps \ {step} : folders'[m] = folders[m]
           /\ Folder(step) \in Folders
           /\ folders'[step] = [Folder(step) EXCEPT ![part] = value]
           /\ \A n \in Steps' : folders'[n] \in Folders
           /\ HasNewest'
<1>1. NoFolder \in Folders
  BY DEF NoFolder, Folders, Kinds, NoFile
<1>2. Folder(step) \in Folders
  BY <1>1 DEF Folder, Values, Steps
<1>3. /\ Steps' = Steps \cup {step}
      /\ \A m \in Steps \ {step} : folders'[m] = folders[m]
      /\ folders'[step] = [Folder(step) EXCEPT ![part] = value]
  BY DEF Write, Written, Steps
<1>4. Steps' \subseteq Nat \ {0} /\ \A n \in Steps' : folders'[n] \in Folders
  <2>1. step \in Nat \ {0} /\ Steps \subseteq Nat \ {0} /\ \A n \in Steps : folders[n] \in Folders
    BY DEF Values
  <2>2. folders'[step] \in Folders
    BY <1>2, <1>3, Updates
  <2>3. ASSUME NEW n \in Steps'
        PROVE  folders'[n] \in Folders
    BY <1>3, <2>1, <2>2
  <2> QED
    BY <1>3, <2>1, <2>3
<1>5. HasNewest'
  <2>1. CASE Steps = {}
    BY <2>1, <1>3 DEF HasNewest, Values
  <2>2. CASE Steps # {}
    <3>1. PICK n \in Steps : \A m \in Steps : m <= n
      BY <2>2 DEF Values, HasNewest
    <3>2. n \in Nat /\ step \in Nat
      BY <3>1 DEF Values
    <3> DEFINE top == IF n < step THEN step ELSE n
    <3>3. top \in Steps' /\ \A m \in Steps' : m <= top
      BY <3>1, <3>2, <1>3 DEF Values
    <3> QED
      BY <3>3 DEF HasNewest
  <2> QED
    BY <2>1, <2>2
<1> QED
  BY <1>2, <1>3, <1>4, <1>5

(* What save_checkpoints does to the disk, part by part.                   *)
LEMMA Saving ==
    ASSUME Values, pc = "save", NEW k \in 1 .. 6, todo = Rest(k), SavePart
    PROVE  /\ todo' = Rest(k + 1)
           /\ pc' = IF k < 6 THEN "save" ELSE IF epoch < Epochs THEN "export" ELSE "last"
           /\ k = 1 => Write("policy", model)
           /\ k = 2 => Write("critic", model)
           /\ k = 3 => Write("data", [loader EXCEPT !.loaded = FALSE]) \/ Write("data", Torn)
           /\ k = 4 => Write("state", step)
           /\ latest' = IF k = 5 THEN step ELSE latest
           /\ k = 5 => folders' = folders
           /\ k = 6 => folders' = [n \in Kept(cfg.keep) |-> folders[n]]
           /\ UNCHANGED <<cfg, memory, starts, lapses>>
<1>1. Head(todo) = Parts[k] /\ todo' = Rest(k + 1)
  BY Remaining DEF SavePart
<1>2. todo' # <<>> <=> k < 6
  <2>1. CASE k < 6
    <3>1. k + 1 \in 1 .. 6
      BY <2>1
    <3> QED
      BY <1>1, <2>1, <3>1, Remaining
  <2>2. CASE k = 6
    BY <1>1, <2>2, Remaining
  <2> QED
    BY <2>1, <2>2
<1>3. UNCHANGED <<cfg, memory, starts, lapses>>
  BY DEF SavePart
<1>4. /\ Parts[1] = "policy" /\ Parts[2] = "critic" /\ Parts[3] = "data"
      /\ Parts[4] = "state" /\ Parts[5] = "latest" /\ Parts[6] = "cleanup"
  BY DEF Parts
<1>5. CASE k = 1
  BY <1>1, <1>2, <1>3, <1>4, <1>5 DEF SavePart
<1>6. CASE k = 2
  BY <1>1, <1>2, <1>3, <1>4, <1>6 DEF SavePart
<1>7. CASE k = 3
  BY <1>1, <1>2, <1>3, <1>4, <1>7 DEF SavePart
<1>8. CASE k = 4
  BY <1>1, <1>2, <1>3, <1>4, <1>8 DEF SavePart
<1>9. CASE k = 5
  BY <1>1, <1>2, <1>3, <1>4, <1>9 DEF SavePart
<1>10. CASE k = 6
  BY <1>1, <1>2, <1>3, <1>4, <1>10 DEF SavePart
<1> QED
  BY <1>5, <1>6, <1>7, <1>8, <1>9, <1>10

(* The first four parts are files of the folder of this step.              *)
LEMMA SavingFolder ==
    ASSUME Values, pc = "save", NEW k \in 1 .. 4, todo = Rest(k), SavePart
    PROVE  /\ Steps' = Steps \cup {step} /\ Steps' \subseteq Nat \ {0}
           /\ \A m \in Steps \ {step} : folders'[m] = folders[m]
           /\ \A n \in Steps' : folders'[n] \in Folders
           /\ HasNewest'
           /\ Folder(step) \in Folders
           /\ k = 1 => folders'[step] = [Folder(step) EXCEPT !["policy"] = model]
           /\ k = 2 => folders'[step] = [Folder(step) EXCEPT !["critic"] = model]
           /\ k = 3 => \/ folders'[step] = [Folder(step) EXCEPT !["data"] = [loader EXCEPT !.loaded = FALSE]]
                       \/ folders'[step] = [Folder(step) EXCEPT !["data"] = Torn]
           /\ k = 4 => folders'[step] = [Folder(step) EXCEPT !["state"] = step]
<1>1. step > 0 /\ model \in Batches /\ step \in Nat /\ loader \in Loaders
  BY DEF Values, Running
<1>2. /\ model \in Kinds["policy"] /\ model \in Kinds["critic"]
      /\ [loader EXCEPT !.loaded = FALSE] \in Kinds["data"] /\ Torn \in Kinds["data"]
      /\ step \in Kinds["state"]
  BY <1>1, LoaderValues DEF Kinds, NoFile
<1>3. k \in 1 .. 6 /\ DOMAIN NoFolder = {"policy", "critic", "data", "state"}
  BY DEF NoFolder
<1>4. CASE k = 1
  <2>1. Write("policy", model)
    BY <1>3, <1>4, Saving
  <2> QED
    BY <1>1, <1>2, <1>3, <1>4, <2>1, Writing
<1>5. CASE k = 2
  <2>1. Write("critic", model)
    BY <1>3, <1>5, Saving
  <2> QED
    BY <1>1, <1>2, <1>3, <1>5, <2>1, Writing
<1>6. CASE k = 3
  <2>1. PICK d \in {[loader EXCEPT !.loaded = FALSE], Torn} : Write("data", d)
    BY <1>3, <1>6, Saving
  <2>2. d \in Kinds["data"] /\ "data" \in DOMAIN NoFolder
    BY <1>2, <1>3
  <2>3. folders'[step] = [Folder(step) EXCEPT !["data"] = d]
    BY <1>1, <2>1, <2>2, Writing
  <2>4. /\ Steps' = Steps \cup {step} /\ Steps' \subseteq Nat \ {0}
        /\ \A m \in Steps \ {step} : folders'[m] = folders[m]
        /\ \A n \in Steps' : folders'[n] \in Folders
        /\ HasNewest'
        /\ Folder(step) \in Folders
    BY <1>1, <2>1, <2>2, Writing
  <2>5. \/ folders'[step] = [Folder(step) EXCEPT !["data"] = [loader EXCEPT !.loaded = FALSE]]
        \/ folders'[step] = [Folder(step) EXCEPT !["data"] = Torn]
    BY <2>1, <2>3
  <2> QED
    BY <1>6, <2>4, <2>5
<1>7. CASE k = 4
  <2>1. Write("state", step)
    BY <1>3, <1>7, Saving
  <2> QED
    BY <1>1, <1>2, <1>3, <1>7, <2>1, Writing
<1> QED
  BY <1>4, <1>5, <1>6, <1>7

(* What a crash in the middle of it does.                                  *)
LEMMA Tearing ==
    ASSUME Values, Tears
    PROVE  /\ pc = "save"
           /\ \A k \in 1 .. 6 : todo = Rest(k) =>
                 /\ k <= 4 => Write(Parts[k], Torn)
                 /\ latest' = IF k = 5 THEN Torn ELSE latest
                 /\ k = 5 => folders' = folders
                 /\ k = 6 => HalfRemoved
<1>1. /\ Parts[1] = "policy" /\ Parts[2] = "critic" /\ Parts[3] = "data"
      /\ Parts[4] = "state" /\ Parts[5] = "latest" /\ Parts[6] = "cleanup"
  BY DEF Parts
<1>2. pc = "save"
  BY DEF Tears
<1>3. ASSUME NEW k \in 1 .. 6, todo = Rest(k)
      PROVE  /\ k <= 4 => Write(Parts[k], Torn)
             /\ latest' = IF k = 5 THEN Torn ELSE latest
             /\ k = 5 => folders' = folders
             /\ k = 6 => HalfRemoved
  <2>1. Head(todo) = Parts[k]
    BY <1>3, Remaining
  <2>2. CASE k <= 4
    <3>1. Parts[k] \in {"policy", "critic", "data", "state"}
      BY <1>1, <2>2
    <3> QED
      BY <2>1, <2>2, <3>1 DEF Tears
  <2>3. CASE k = 5
    BY <1>1, <2>1, <2>3 DEF Tears
  <2>4. CASE k = 6
    BY <1>1, <2>1, <2>4 DEF Tears
  <2> QED
    BY <2>2, <2>3, <2>4
<1> QED
  BY <1>2, <1>3

(* cleanup_old_checkpoints never removes the folder of the highest step.   *)
LEMMA NewestKept ==
    ASSUME Values
    PROVE  /\ Kept(cfg.keep) \subseteq Steps
           /\ \A n \in Steps : (\A m \in Steps : m <= n) => n \in Kept(cfg.keep)
<1>1. cfg.keep \in Int \ {0}
  BY TrainerCheckpointsAssumption DEF Values
<1>2. Kept(cfg.keep) \subseteq Steps
  BY DEF Kept, KeptHighest, Steps
<1>3. ASSUME NEW n \in Steps, \A m \in Steps : m <= n
      PROVE  n \in Kept(cfg.keep)
  <2>1. Steps \subseteq Nat
    BY DEF Values
  <2>2. {m \in DOMAIN folders : m > n} = {}
    BY <1>3, <2>1 DEF Steps
  <2>3. Cardinality({m \in DOMAIN folders : m > n}) = 0
    BY <2>2, FS_EmptySet
  <2> QED
    BY <1>1, <1>3, <2>3 DEF Kept, KeptHighest, Steps
<1> QED
  BY <1>2, <1>3

(* Removing older folders, or part of one, leaves the newest ones.         *)
LEMMA Cleaning ==
    ASSUME Values,
           \/ folders' = [n \in Kept(cfg.keep) |-> folders[n]]
           \/ HalfRemoved
    PROVE  /\ Steps' \subseteq Steps
           /\ \A n \in Steps' : folders'[n] \in Folders
           /\ \A n \in Steps : (\A m \in Steps : m <= n) => n \in Steps' /\ folders'[n] = folders[n]
           /\ HasNewest'
<1>1. Steps \subseteq Nat /\ \A n \in Steps : folders[n] \in Folders
  BY DEF Values
<1>2. /\ Steps' \subseteq Steps
      /\ \A n \in Steps' : folders'[n] \in Folders
      /\ \A n \in Steps : (\A m \in Steps : m <= n) => n \in Steps' /\ folders'[n] = folders[n]
  <2>1. CASE folders' = [n \in Kept(cfg.keep) |-> folders[n]]
    BY <1>1, <2>1, NewestKept DEF Steps
  <2>2. CASE HalfRemoved
    <3>1. PICK n \in Steps \ Kept(cfg.keep) : \E gone \in {{"data"}, DOMAIN NoFolder} :
              folders' = [m \in {m \in Steps : m >= n} |->
                             IF m # n THEN folders[m]
                             ELSE [f \in DOMAIN NoFolder |-> IF f \in gone THEN Missing
                                                             ELSE folders[n][f]]]
      BY <2>2 DEF HalfRemoved, Steps
    <3>2. PICK gone \in {{"data"}, DOMAIN NoFolder} :
              folders' = [m \in {m \in Steps : m >= n} |->
                             IF m # n THEN folders[m]
                             ELSE [f \in DOMAIN NoFolder |-> IF f \in gone THEN Missing
                                                             ELSE folders[n][f]]]
      BY <3>1
    <3>3. Steps' = {m \in Steps : m >= n}
      BY <3>2 DEF Steps
    <3>4. n \in Nat /\ folders[n] \in Folders
      BY <1>1
    <3>5. [f \in DOMAIN NoFolder |-> IF f \in gone THEN Missing ELSE folders[n][f]] \in Folders
      BY <3>4 DEF NoFolder, Folders, Kinds, NoFile
    <3>6. \A m \in Steps' : folders'[m] \in Folders
      BY <1>1, <3>2, <3>3, <3>5
    <3>7. ASSUME NEW t \in Steps, \A m \in Steps : m <= t
          PROVE  t \in Steps' /\ folders'[t] = folders[t]
      <4>1. t # n
        BY <3>7, NewestKept
      <4>2. t >= n /\ t \in {m \in Steps : m >= n}
        BY <3>7, <1>1
      <4> QED
        BY <3>2, <3>3, <4>1, <4>2
    <3> QED
      BY <3>3, <3>6, <3>7
  <2> QED
    BY <2>1, <2>2
<1>3. HasNewest'
  BY <1>2 DEF HasNewest, Values
<1> QED
  BY <1>2, <1>3

-----------------------------------------------------------------------------
(* The initial values are values.                                          *)
LEMMA ValuesInit == Init => Values
<1> SUFFICES ASSUME Init PROVE Values
  OBVIOUS
<1>1. Steps = {}
  BY DEF Init, Steps
<1>2. NewLoader \in Loaders
  BY TrainerCheckpointsAssumption DEF NewLoader, Loaders
<1>3. <<>> \in Batches
  BY DEF Batches
<1> QED
  BY <1>1, <1>2, <1>3 DEF Init, Values, HasNewest, Running

(* What a start that goes on from folder n takes from it.                  *)
LEMMA Loading ==
    ASSUME Values, NEW n \in Steps, NEW why, LoadFrom(n, why), Loads(n)
    PROVE  /\ pc' = "epoch" /\ step' = n + 1 /\ epoch' \in Nat
           /\ model' = folders[n].policy /\ model' \in Batches
           /\ loader' \in Loaders
           /\ IF folders[n].data \in NoFile
              THEN "data" \in lapses'
              ELSE loader' = [folders[n].data EXCEPT !.loaded = TRUE]
           /\ lapses \subseteq lapses' /\ why \subseteq lapses'
<1>1. n \in Nat /\ PerEpoch \in Nat \ {0} /\ folders[n] \in Folders
  BY TrainerCheckpointsAssumption DEF Values
<1>2. n \div PerEpoch \in Nat
  BY <1>1
<1>3. folders[n].policy \in Batches
  BY <1>1 DEF Loads, Folders, Kinds, NoFile
<1>4. loader' \in Loaders
  <2>1. CASE folders[n].data \in NoFile
    <3>1. loader' = NewLoader
      BY <2>1 DEF LoadFrom, NoFile
    <3> QED
      BY <1>1, <3>1 DEF NewLoader, Loaders
  <2>2. CASE folders[n].data \notin NoFile
    <3>1. folders[n].data \in Loaders
      BY <1>1, <2>2 DEF Folders, Kinds
    <3> QED
      BY <2>2, <3>1, LoaderValues DEF LoadFrom, NoFile
  <2> QED
    BY <2>1, <2>2
<1> QED
  BY <1>1, <1>2, <1>3, <1>4 DEF LoadFrom, EpochOf, NoFile

(* The variables that only a step of the process itself changes.           *)
LEMMA StartValues == Values /\ Start => Values'
<1> SUFFICES ASSUME Values, Start PROVE Values'
  OBVIOUS
<1>1. UNCHANGED <<cfg, todo, iters, ahead, batch, held, ref, folders, latest>> /\ pc = "down"
  BY DEF Start, disk
<1>2. starts \in Nat /\ starts' = starts + 1
  BY DEF Start, Values
<1>3. \/ pc' = "stuck" /\ UNCHANGED <<model, step, epoch, loader>>
      \/ /\ pc' = "epoch" /\ step' \in Nat \ {0} /\ epoch' \in Nat
         /\ model' \in Batches /\ loader' \in Loaders
  <2>1. ASSUME NEW why, FromScratch(why)
        PROVE  /\ pc' = "epoch" /\ step' \in Nat \ {0} /\ epoch' \in Nat
               /\ model' \in Batches /\ loader' \in Loaders
    BY <2>1, TrainerCheckpointsAssumption DEF FromScratch, Batches, NewLoader, Loaders
  <2>2. ASSUME NEW n \in Steps, NEW why, LoadFrom(n, why)
        PROVE  \/ pc' = "stuck" /\ UNCHANGED <<model, step, epoch, loader>>
               \/ /\ pc' = "epoch" /\ step' \in Nat \ {0} /\ epoch' \in Nat
                  /\ model' \in Batches /\ loader' \in Loaders
    <3>1. n \in Nat
      BY DEF Values
    <3>2. CASE Loads(n)
      BY <2>2, <3>1, <3>2, Loading
    <3>3. CASE ~Loads(n)
      BY <2>2, <3>3 DEF LoadFrom
    <3> QED
      BY <3>2, <3>3
  <2> QED
    BY <2>1, <2>2 DEF Start, Steps
<1>4. Steps' = Steps /\ HasNewest'
  BY <1>1 DEF Steps, HasNewest, Values
<1> QED
  BY <1>1, <1>2, <1>3, <1>4 DEF Values, Running

(* So does every other step of the process.                                *)
LEMMA WorkValues == Values /\ Work => Values'
<1> SUFFICES ASSUME Values, Work PROVE Values'
  OBVIOUS
<1>1. CASE Start
  BY <1>1, StartValues
<1>2. ASSUME UNCHANGED folders
      PROVE  UNCHANGED Steps /\ HasNewest'
  BY <1>2 DEF Steps, HasNewest, Values
<1>3. CASE EpochStart
  <2>1. UNCHANGED <<cfg, todo, step, epoch, batch, held, model, ref, folders, latest, starts>> /\ pc = "epoch"
    BY <1>3 DEF EpochStart, disk
  <2>2. pc' \in {"fetch", "end"} /\ iters' \in Nat /\ loader' \in Loaders /\ ahead' \in Int
    <3>1. loader \in Loaders /\ iters \in Nat /\ ahead \in Int
      BY DEF Values
    <3>2. CASE epoch < Epochs
      <4>1. PICK l \in Iterators(loader) :
                /\ pc' = "fetch" /\ iters' = 0
                /\ loader' = IF cfg.asynch THEN Taken(l) ELSE l
                /\ ahead' = IF cfg.asynch THEN Given(l) ELSE 0
        BY <1>3, <3>2 DEF EpochStart
      <4>2. l \in Loaders /\ Taken(l) \in Loaders /\ Given(l) \in Int
        BY <3>1, LoaderValues
      <4> QED
        BY <4>1, <4>2
    <3>3. CASE ~(epoch < Epochs)
      BY <1>3, <3>1, <3>3 DEF EpochStart
    <3> QED
      BY <3>2, <3>3
  <2> QED
    BY <1>2, <2>1, <2>2 DEF Values, Running
<1>4. CASE Fetch
  <2>1. UNCHANGED <<cfg, todo, step, held, model, ref, folders, latest, starts>> /\ pc = "fetch"
    BY <1>4 DEF Fetch, disk
  <2>2. /\ pc' \in {"train", "epoch"} /\ iters' \in Nat /\ epoch' \in Nat
        /\ loader' \in Loaders /\ ahead' \in Int /\ batch' \in Int
    <3>1. loader \in Loaders /\ iters \in Nat /\ epoch \in Nat /\ ahead \in Int
      BY DEF Values
    <3>2. Taken(loader) \in Loaders /\ Given(loader) \in Int
      BY <3>1, LoaderValues
    <3> QED
      BY <1>4, <3>1, <3>2 DEF Fetch
  <2> QED
    BY <1>2, <2>1, <2>2 DEF Values, Running
<1>5. CASE KeepSampling
  <2>1. UNCHANGED <<cfg, todo, step, epoch, iters, loader, ahead, batch, model, ref, folders, latest, starts>>
        /\ pc = "train" /\ pc' = "fetch" /\ held' = Append(held, batch)
    BY <1>5 DEF KeepSampling, disk
  <2>2. held' \in Batches
    BY <2>1 DEF Values, Batches
  <2> QED
    BY <1>2, <2>1, <2>2 DEF Values, Running
<1>6. CASE Train
  <2>1. UNCHANGED <<cfg, step, epoch, iters, loader, ahead, batch, ref, folders, latest, starts>>
        /\ pc = "train" /\ model' = Append(model \o held, batch) /\ held' = <<>>
    BY <1>6 DEF Train, disk
  <2>2. model' \in Batches /\ held' \in Batches
    BY <2>1 DEF Values, Batches
  <2>3. /\ pc' \in {"save", "export"}
        /\ IF pc' = "save" THEN \E k \in 1 .. 6 : todo' = Rest(k) ELSE todo' = <<>>
    <3>1. todo = <<>>
      BY <2>1 DEF Values
    <3>2. \/ pc' = "save" /\ todo' = Rest(1)
          \/ pc' = "export" /\ todo' = todo
      BY <1>6, Remaining DEF Train
    <3> QED
      BY <3>1, <3>2
  <2> QED
    BY <1>2, <2>1, <2>2, <2>3 DEF Values, Running
<1>7. CASE SavePart
  <2>1. PICK k \in 1 .. 6 : pc = "save" /\ todo = Rest(k)
    BY <1>7 DEF SavePart, Values
  <2>2. /\ todo' = Rest(k + 1)
        /\ pc' = IF k < 6 THEN "save" ELSE IF epoch < Epochs THEN "export" ELSE "last"
        /\ latest' = IF k = 5 THEN step ELSE latest
        /\ UNCHANGED <<cfg, step, epoch, iters, loader, ahead, batch, held, model, ref, starts>>
    BY <1>7, <2>1, Saving DEF memory
  <2>3. IF pc' = "save" THEN \E j \in 1 .. 6 : todo' = Rest(j) ELSE todo' = <<>>
    <3>1. CASE k < 6
      <4>1. k + 1 \in 1 .. 6
        BY <3>1
      <4> QED
        BY <2>2, <3>1, <4>1
    <3>2. CASE k = 6
      BY <2>2, <3>2, Remaining
    <3> QED
      BY <3>1, <3>2
  <2>4. Steps' \subseteq Nat \ {0} /\ (\A n \in Steps' : folders'[n] \in Folders) /\ HasNewest'
    <3>1. CASE k <= 4
      BY <1>7, <2>1, <3>1, SavingFolder
    <3>2. CASE k = 5
      BY <1>2, <1>7, <2>1, <3>2, Saving DEF Values
    <3>3. CASE k = 6
      <4>1. folders' = [n \in Kept(cfg.keep) |-> folders[n]]
        BY <1>7, <2>1, <3>3, Saving
      <4> QED
        BY <4>1, Cleaning DEF Values
    <3> QED
      BY <2>1, <3>1, <3>2, <3>3
  <2> QED
    BY <2>1, <2>2, <2>3, <2>4 DEF Values, Running
<1>8. CASE Export
  <2>1. /\ UNCHANGED <<cfg, todo, epoch, iters, loader, ahead, batch, held, model, folders, latest, starts>>
        /\ pc = "export" /\ pc' = "fetch" /\ step' = step + 1 /\ ref' \in {model, ref}
    BY <1>8 DEF Export
  <2>2. todo' = <<>> /\ ref' \in Batches /\ step' \in Nat \ {0}
    BY <2>1 DEF Values
  <2>3. UNCHANGED <<cfg, epoch, iters, loader, ahead, batch, held, model, folders, latest, starts>>
        /\ pc' = "fetch"
    BY <2>1
  <2>4. pc' \in {"down", "stuck"} \cup Running
    BY <2>3 DEF Running
  <2>5. /\ pc' \in {"down", "stuck"} => model' = <<>> /\ held' = <<>> /\ ahead' = 0
        /\ IF pc' = "save" THEN \E k \in 1 .. 6 : todo' = Rest(k) ELSE todo' = <<>>
    BY <2>2, <2>3
  <2>6. (Steps \subseteq Nat \ {0} /\ \A n \in Steps : folders[n] \in Folders)' /\ HasNewest'
    BY <1>2, <2>3 DEF Values
  <2> QED
    BY <2>2, <2>3, <2>4, <2>5, <2>6 DEF Values
<1>9. CASE End
  <2>1. /\ UNCHANGED <<cfg, step, epoch, iters, loader, ahead, batch, held, model, ref, folders, latest, starts>>
        /\ pc = "end" /\ pc' = "save" /\ todo' = Rest(1)
    BY <1>9, Remaining DEF End, disk, memory
  <2>2. \E k \in 1 .. 6 : todo' = Rest(k)
    BY <2>1
  <2> QED
    BY <1>2, <2>1, <2>2 DEF Values, Running
<1>10. CASE LastExport
  <2>1. /\ UNCHANGED <<cfg, todo, step, epoch, iters, loader, ahead, batch, held, model, ref, folders, latest, starts>>
        /\ pc = "last" /\ pc' = "done"
    BY <1>10 DEF LastExport, memory
  <2> QED
    BY <1>2, <2>1 DEF Values, Running
<1> QED
  BY <1>1, <1>3, <1>4, <1>5, <1>6, <1>7, <1>8, <1>9, <1>10 DEF Work

(* So does a crash, in the middle of a save too.                           *)
LEMMA ExitValues == Values /\ (Crash \/ Leave) => Values'
<1> SUFFICES ASSUME Values, Crash \/ Leave PROVE Values'
  OBVIOUS
<1>1. /\ pc' = "down" /\ todo' = <<>> /\ step' = 0 /\ epoch' = 0 /\ iters' = 0
      /\ loader' = NewLoader /\ ahead' = 0 /\ batch' = 0
      /\ held' = <<>> /\ model' = <<>> /\ ref' = <<>> /\ UNCHANGED <<cfg, starts>>
  BY DEF Crash, Leave, Exit
<1>2. NewLoader \in Loaders /\ <<>> \in Batches
  <2>1. loader \in Loaders
    BY DEF Values
  <2>2. NewLoader \in Loaders
    BY <2>1, LoaderValues
  <2>3. <<>> \in Batches
    BY DEF Batches
  <2> QED
    BY <2>2, <2>3
<1>3. /\ Steps' \subseteq Nat \ {0} /\ (\A n \in Steps' : folders'[n] \in Folders) /\ HasNewest'
      /\ latest' \in Nat \cup {Torn}
  <2>1. CASE UNCHANGED <<folders, latest>>
    BY <2>1 DEF Values, Steps, HasNewest
  <2>2. CASE Tears
    <3>1. PICK k \in 1 .. 6 : pc = "save" /\ todo = Rest(k)
      BY <2>2, Tearing DEF Values
    <3>2. latest' \in Nat \cup {Torn}
      BY <2>2, <3>1, Tearing DEF Values
    <3>3. CASE k <= 4
      <4>1. step > 0 /\ Write(Parts[k], Torn)
        BY <2>2, <3>1, <3>3, Tearing DEF Values, Running
      <4>2. Parts[k] \in DOMAIN NoFolder
        BY <3>3 DEF Parts, NoFolder
      <4>3. Torn \in Kinds[Parts[k]]
        BY <4>2 DEF Kinds, NoFile, NoFolder
      <4> QED
        BY <3>2, <4>1, <4>2, <4>3, Writing
    <3>4. CASE k = 5
      BY <2>2, <3>1, <3>2, <3>4, Tearing DEF Values, Steps, HasNewest
    <3>5. CASE k = 6
      <4>1. HalfRemoved
        BY <2>2, <3>1, <3>5, Tearing
      <4> QED
        BY <3>2, <4>1, Cleaning DEF Values
    <3> QED
      BY <3>3, <3>4, <3>5
  <2> QED
    BY <2>1, <2>2 DEF Crash, Leave
<1> QED
  BY <1>1, <1>2, <1>3 DEF Values, Running

(* The variables have their values.                                        *)
THEOREM TypeCorrect == Spec => []Values
<1>1. Values /\ [Next]_vars => Values'
  <2> SUFFICES ASSUME Values, [Next]_vars PROVE Values'
    OBVIOUS
  <2>1. CASE UNCHANGED vars
    BY <2>1 DEF vars, disk, memory, Values, Steps, HasNewest
  <2> QED
    BY <2>1, WorkValues, ExitValues DEF Next
<1> QED
  BY <1>1, ValuesInit, PTL DEF Spec

-----------------------------------------------------------------------------
(* Quotient and remainder.                                                 *)
LEMMA DivisionOf ==
    ASSUME NEW k \in Nat \ {0}, NEW x \in Nat
    PROVE  x % k \in 0 .. k - 1 /\ x = k * (x \div k) + (x % k) /\ x \div k \in Nat
OBVIOUS

(* Among as many steps in a row as the interval has, a checkpoint is due.  *)
LEMMA DueInInterval ==
    ASSUME NEW k \in Nat \ {0}, NEW x \in Nat
    PROVE  \E q \in x + 1 .. x + k : q % k = 0
<1>1. x % k \in 0 .. k - 1 /\ x = k * (x \div k) + (x % k) /\ x \div k \in Nat
  BY DivisionOf
<1> DEFINE m == x \div k + 1
<1>2. m \in Nat /\ k * m \in Nat /\ k * m = k * (x \div k) + k
  BY <1>1
<1> HIDE DEF m
<1>3. k * m \in x + 1 .. x + k
  BY <1>1, <1>2
<1>4. (k * m) % k = 0
  <2> DEFINE y == k * m
             d == y \div k
             r == y % k
  <2>3. y \in Nat
    BY <1>2
  <2> HIDE DEF y
  <2>4. d \in Int /\ r \in 0 .. k - 1 /\ y = k * d + r
    BY <2>3, DivisionOf
  <2> HIDE DEF d, r
  <2>1. d \in Int /\ r \in 0 .. k - 1 /\ k * m = k * d + r
    BY <2>4 DEF y
  <2>2. k * (m - d) = r /\ m - d \in Int
    BY <1>2, <2>1
  <2>6. m - d = 0
    <3>1. CASE m - d >= 1
      <4>1. k * (m - d) >= k
        BY <2>2, <3>1
      <4> QED
        BY <2>1, <2>2, <4>1
    <3>2. CASE m - d <= -1
      <4>1. k * (m - d) <= -k
        BY <2>2, <3>2
      <4> QED
        BY <2>1, <2>2, <4>1
    <3> QED
      BY <2>2, <3>1, <3>2
  <2>5. r = 0
    BY <2>2, <2>6
  <2> QED
    BY <2>5 DEF r, y
<1> QED
  BY <1>3, <1>4

(* The newest folder is what its name says.                                *)
LEMMA NewestFolder ==
    ASSUME Values, Steps # {}
    PROVE  Newest \in Steps /\ \A m \in Steps : m <= Newest
BY DEF Values, HasNewest, Newest, Steps

(* What has cost a run its place is never forgotten.                       *)
LEMMA LapsesStay == [Next]_vars => lapses \subseteq lapses'
<1> SUFFICES ASSUME [Next]_vars PROVE lapses \subseteq lapses'
  OBVIOUS
<1>1. CASE Start
  BY <1>1 DEF Start, FromScratch, LoadFrom
<1>2. CASE EpochStart
  BY <1>2 DEF EpochStart
<1>3. CASE Fetch
  BY <1>3 DEF Fetch
<1>4. CASE KeepSampling \/ Train \/ SavePart \/ Export \/ End \/ LastExport
  BY <1>4 DEF KeepSampling, Train, SavePart, Export, End, LastExport
<1>5. CASE Crash \/ Leave
  BY <1>5 DEF Crash, Leave, Exit
<1> QED
  BY <1>1, <1>2, <1>3, <1>4, <1>5 DEF Next, Work, vars

(* A start from a folder that is no lapse is from the one that the file    *)
(* names, or from the newest if a crash has torn the file.                 *)
LEMMA StartFrom ==
    ASSUME Values, FileNames, InStepOrder', NEW n \in Steps, Loads(n),
           LoadFrom(n, BehindDisk(n) \cup Unfinished(n))
    PROVE  (\A m \in Steps : m <= n) /\ (latest = Torn \/ latest = n)
<1>1. Steps \subseteq Nat \ {0} /\ latest \in Nat \cup {Torn} /\ Torn \notin Nat
  BY TrainerCheckpointsAssumption DEF Values
<1>2. BehindDisk(n) \cup Unfinished(n) \subseteq lapses'
  BY Loading
<1>3. \A m \in Steps : m <= n
  <2>1. Newest \in Steps /\ \A m \in Steps : m <= Newest
    BY NewestFolder
  <2>2. ~(Newest > n)
    BY <1>2 DEF InStepOrder, BehindDisk, Steps
  <2> QED
    BY <1>1, <2>1, <2>2
<1>4. latest = Torn \/ n <= latest
  BY <1>1, <1>2 DEF InStepOrder, Unfinished
<1>5. ASSUME latest \in Nat
      PROVE  latest = n
  BY <1>1, <1>3, <1>4, <1>5 DEF FileNames
<1> QED
  BY <1>1, <1>3, <1>5

(* A start that is no lapse goes on right after what the file names.       *)
LEMMA StartOrdered ==
    ASSUME Values, Ordered, Start, InStepOrder'
    PROVE  Ordered'
<1>1. UNCHANGED <<cfg, todo, folders, latest>> /\ pc = "down"
  BY DEF Start, disk
<1>2. Steps \subseteq Nat \ {0} /\ cfg.interval \in Nat \ {0} /\ latest \in Nat \cup {Torn} /\ Torn \notin Nat
  BY TrainerCheckpointsAssumption DEF Values
<1>3. FileNames
  BY DEF Ordered
<1>4. FileNames'
  BY <1>1, <1>3 DEF FileNames, Complete, Loads, NoneDue, Steps
<1>5. ASSUME NEW n \in Nat, NextSave(n), step' = n
      PROVE  NextSave(step)'
  BY <1>1, <1>5 DEF NextSave, Above, NoneDue, Steps
<1>6. ASSUME NEW n \in Nat, ~(Steps # {} /\ Newest > n)
      PROVE  \A m \in Steps : m <= n
  <2>1. CASE Steps = {}
    BY <2>1
  <2>2. CASE Steps # {}
    <3>1. Newest \in Steps /\ \A m \in Steps : m <= Newest
      BY <2>2, NewestFolder
    <3>2. Newest \in Nat /\ Newest <= n
      BY <1>2, <1>6, <2>2, <3>1
    <3> QED
      BY <1>2, <3>1, <3>2
  <2> QED
    BY <2>1, <2>2
<1>7. ASSUME latest \in Nat
      PROVE  NextSave(latest + 1)
  BY <1>2, <1>3, <1>7 DEF FileNames, NextSave, Above, NoneDue
<1>8. \/ pc' = "epoch" /\ NextSave(step)'
      \/ pc' = "stuck" /\ latest = Torn
  <2>1. CASE FromScratch(BehindDisk(0))
    <3>1. "behind" \notin BehindDisk(0)
      BY <2>1 DEF FromScratch, InStepOrder
    <3>2. Steps = {}
      BY <1>2, <1>6, <3>1 DEF BehindDisk, Steps
    <3>3. latest \in Nat => latest = 0
      BY <1>3, <3>2 DEF FileNames
    <3>4. NextSave(1)
      BY <1>2, <3>2, <3>3 DEF NextSave, Above, NoneDue
    <3> QED
      BY <1>5, <2>1, <3>4 DEF FromScratch
  <2>2. CASE latest = 0 /\ FromScratch({})
    <3>1. NextSave(1)
      BY <1>7, <2>2
    <3> QED
      BY <1>5, <2>2, <3>1 DEF FromScratch
  <2>3. CASE latest # 0 /\ ( \/ pc' = "stuck" /\ (latest = Torn \/ TooFarAhead(latest) \/ latest \notin Steps)
                             \/ ~(latest = Torn \/ TooFarAhead(latest) \/ latest \notin Steps)
                                /\ LoadFrom(latest, {}))
    <3>1. CASE latest = Torn
      BY <2>3, <3>1
    <3>2. CASE latest # Torn
      <4>1. latest \in Nat /\ latest \in Steps /\ Loads(latest)
        BY <1>2, <1>3, <2>3, <3>2 DEF FileNames, Complete
      <4>2. ~TooFarAhead(latest)
        <5> SUFFICES ASSUME TooFarAhead(latest) PROVE FALSE
          OBVIOUS
        <5>1. Newest \in Steps /\ Newest - latest > cfg.interval
          BY <4>1, NewestFolder DEF TooFarAhead, Steps
        <5>2. NoneDue(latest + 1, Newest)
          BY <1>3, <4>1, <5>1 DEF FileNames
        <5>3. PICK q \in latest + 1 .. latest + cfg.interval : q % cfg.interval = 0
          BY <1>2, <4>1, DueInInterval
        <5>4. q \in latest + 1 .. Newest - 1
          BY <1>2, <4>1, <5>1, <5>3
        <5> QED
          BY <5>2, <5>3, <5>4 DEF NoneDue
      <4>3. pc' = "epoch" /\ step' = latest + 1
        BY <2>3, <3>2, <4>1, <4>2, Loading
      <4> QED
        BY <1>5, <1>7, <4>1, <4>3
    <3> QED
      BY <3>1, <3>2
  <2>4. ASSUME NEW n \in Steps, Loads(n), LoadFrom(n, BehindDisk(n) \cup Unfinished(n))
        PROVE  pc' = "epoch" /\ NextSave(step)'
    <3>1. pc' = "epoch" /\ step' = n + 1 /\ BehindDisk(n) \cup Unfinished(n) \subseteq lapses'
      BY <2>4, Loading
    <3>2. (\A m \in Steps : m <= n) /\ (latest = Torn \/ latest = n)
      BY <1>3, <2>4, StartFrom
    <3>3. NextSave(n + 1)
      <4>1. CASE latest = Torn
        BY <1>2, <3>2, <4>1 DEF NextSave, Above, NoneDue
      <4>2. CASE latest = n
        BY <1>2, <1>7, <4>2
      <4> QED
        BY <3>2, <4>1, <4>2
    <3> QED
      BY <1>2, <1>5, <3>1, <3>3
  <2> QED
    BY <2>1, <2>2, <2>3, <2>4 DEF Start, Steps
<1> QED
  BY <1>1, <1>4, <1>8 DEF Ordered

(* The steps of the loop, between one save and the next.                   *)
LEMMA LoopOrdered ==
    ASSUME Values, Ordered, InStepOrder', 
           EpochStart \/ Fetch \/ KeepSampling \/ Train \/ Export \/ End \/ LastExport
    PROVE  Ordered'
<1>1. UNCHANGED <<cfg, folders, latest>> /\ pc # "save"
  BY DEF EpochStart, Fetch, KeepSampling, Train, Export, End, LastExport, disk, memory
<1>2. /\ Steps \subseteq Nat \ {0} /\ cfg.interval \in Nat \ {0} /\ step \in Nat
      /\ latest \in Nat \cup {Torn} /\ Torn \notin Nat
  BY TrainerCheckpointsAssumption DEF Values
<1>3. FileNames' /\ Steps' = Steps
  BY <1>1 DEF Ordered, FileNames, Complete, Loads, NoneDue, Steps
<1>4. ASSUME step' = step
      PROVE  /\ NextSave(step) => NextSave(step)'
             /\ Above(step) => Above(step)'
  BY <1>1, <1>4 DEF NextSave, Above, NoneDue, Steps
<1>5. CASE EpochStart
  <2>1. pc = "epoch" /\ step' = step /\ NextSave(step)
    BY <1>5 DEF EpochStart, Ordered
  <2>2. CASE epoch < Epochs
    BY <1>3, <1>4, <1>5, <2>1, <2>2 DEF EpochStart, Ordered
  <2>3. CASE ~(epoch < Epochs)
    <3>1. pc' = "end" /\ BehindDisk(step) \subseteq {}
      BY <1>5, <2>3 DEF EpochStart, InStepOrder
    <3>2. \A m \in Steps : m <= step
      <4>1. CASE Steps = {}
        BY <4>1
      <4>2. CASE Steps # {}
        <5>1. Newest \in Steps /\ \A m \in Steps : m <= Newest
          BY <4>2, NewestFolder
        <5>2. ~(Newest > step)
          BY <3>1, <4>2 DEF BehindDisk, Steps
        <5>3. Newest <= step
          BY <1>2, <5>1, <5>2
        <5> QED
          BY <1>2, <5>1, <5>3
      <4> QED
        BY <4>1, <4>2
    <3>3. Above(step)
      BY <2>1 DEF NextSave
    <3> QED
      BY <1>3, <1>4, <2>1, <3>1, <3>2, <3>3 DEF Ordered
  <2> QED
    BY <2>2, <2>3
<1>6. CASE Fetch
  <2>1. pc = "fetch" /\ step' = step /\ NextSave(step) /\ pc' \in {"train", "epoch"}
    BY <1>6 DEF Fetch, Ordered
  <2> QED
    BY <1>3, <1>4, <2>1 DEF Ordered
<1>7. CASE KeepSampling
  <2>1. pc = "train" /\ step' = step /\ NextSave(step) /\ pc' = "fetch"
    BY <1>7 DEF KeepSampling, Ordered
  <2> QED
    BY <1>3, <1>4, <2>1 DEF Ordered
<1>8. CASE Train
  <2>1. pc = "train" /\ step' = step /\ NextSave(step)
    BY <1>8 DEF Train, Ordered
  <2>2. CASE step % cfg.interval = 0
    <3>1. pc' = "save" /\ todo' = Rest(1)
      BY <1>8, <2>2, Remaining DEF Train
    <3>2. \A m \in Steps : m <= step
      <4> SUFFICES ASSUME NEW m \in Steps, m > step PROVE FALSE
        BY <1>2
      <4>1. step \in step .. m - 1
        BY <1>2
      <4> QED
        BY <2>1, <2>2, <4>1 DEF NextSave, NoneDue
    <3>3. Above(step)
      BY <2>1 DEF NextSave
    <3>4. Saved(1)'
      <4>1. latest = Torn => step \notin Steps
        BY <1>2, <3>3 DEF Above
      <4>2. latest = Torn => Folder(step)' = NoFolder
        BY <1>3, <2>1, <4>1 DEF Folder, Steps
      <4>3. NoFolder.state = Missing
        BY DEF NoFolder
      <4> QED
        BY <1>1, <1>3, <1>4, <2>1, <3>2, <3>3, <4>2, <4>3 DEF Saved
    <3>5. ASSUME NEW k \in 1 .. 6, todo' = Rest(k)
          PROVE  k = 1
      <4>1. Rest(k) = Rest(1) /\ 1 \in 1 .. 6
        BY <3>1, <3>5
      <4> QED
        BY <4>1, Remaining
    <3> QED
      BY <1>3, <2>1, <3>1, <3>2, <3>4, <3>5 DEF Ordered
  <2>3. CASE step % cfg.interval # 0
    <3>1. pc' = "export"
      BY <1>8, <2>3 DEF Train
    <3>2. NextSave(step + 1)
      BY <1>2, <2>1, <2>3 DEF NextSave, Above, NoneDue
    <3>3. NextSave(step + 1)'
      BY <1>1, <2>1, <3>2 DEF NextSave, Above, NoneDue, Steps
    <3> QED
      BY <1>3, <3>1, <3>3 DEF Ordered
  <2> QED
    BY <2>2, <2>3
<1>9. CASE Export
  <2>1. pc = "export" /\ step' = step + 1 /\ NextSave(step + 1) /\ pc' = "fetch"
    BY <1>9 DEF Export, Ordered
  <2>2. NextSave(step)'
    BY <1>1, <2>1 DEF NextSave, Above, NoneDue, Steps
  <2> QED
    BY <1>3, <2>1, <2>2 DEF Ordered
<1>10. CASE End
  <2>1. pc = "end" /\ step' = step /\ Above(step) /\ (\A m \in Steps : m <= step) /\ pc' = "save" /\ todo' = Rest(1)
    BY <1>10, Remaining DEF End, Ordered, memory
  <2>2. Saved(1)'
    <3>1. latest = Torn => step \notin Steps
      BY <1>2, <2>1 DEF Above
    <3>2. latest = Torn => Folder(step)' = NoFolder
      BY <1>3, <2>1, <3>1 DEF Folder, Steps
    <3>3. NoFolder.state = Missing
      BY DEF NoFolder
    <3> QED
      BY <1>1, <1>3, <1>4, <2>1, <3>2, <3>3 DEF Saved
  <2>3. \A k \in 1 .. 6 : todo' = Rest(k) => k = 1
    BY <2>1, Remaining
  <2> QED
    BY <1>3, <2>1, <2>2, <2>3 DEF Ordered
<1>11. CASE LastExport
  <2>1. pc = "last" /\ pc' = "done" /\ step' = step /\ latest = step /\ \A m \in Steps : m <= step
    BY <1>11 DEF LastExport, memory, Ordered
  <2> QED
    BY <1>1, <1>3, <2>1 DEF Ordered
<1> QED
  BY <1>5, <1>6, <1>7, <1>8, <1>9, <1>10, <1>11

(* A save writes the folder first, then the file, then removes folders.    *)
LEMMA SaveOrdered ==
    ASSUME Values, Values', Ordered, SavePart
    PROVE  Ordered'
<1>1. PICK k \in 1 .. 6 : pc = "save" /\ todo = Rest(k)
  BY DEF SavePart, Values
<1>2. /\ todo' = Rest(k + 1)
      /\ pc' = IF k < 6 THEN "save" ELSE IF epoch < Epochs THEN "export" ELSE "last"
      /\ latest' = IF k = 5 THEN step ELSE latest
      /\ UNCHANGED <<cfg, step, loader, model>>
  BY <1>1, Saving DEF memory
<1>3. Saved(k) /\ FileNames /\ \A m \in Steps : m <= step
  BY <1>1 DEF Ordered
<1>4. /\ Steps \subseteq Nat \ {0} /\ cfg.interval \in Nat \ {0} /\ step \in Nat
      /\ latest \in Nat \cup {Torn} /\ Torn \notin Nat /\ model \notin NoFile /\ step \notin NoFile
  <2>1. step \in Nat /\ model \in Seq(Int)
    BY DEF Values, Batches
  <2>2. NoFile \cap (Int \cup Seq(Int)) = {} /\ Torn \notin Int
    BY TrainerCheckpointsAssumption DEF NoFile
  <2>3. model \notin NoFile /\ step \notin NoFile
    BY <2>1, <2>2
  <2>4. cfg.interval \in Nat \ {0}
    BY TrainerCheckpointsAssumption DEF Values
  <2> QED
    BY <2>1, <2>2, <2>3, <2>4 DEF Values
<1>5. ASSUME k < 6, FileNames', Saved(k + 1)', \A m \in Steps' : m <= step'
      PROVE  Ordered'
  <2>1. pc' = "save"
    BY <1>2, <1>5
  <2>2. ASSUME NEW j \in 1 .. 6, todo' = Rest(j)
        PROVE  j = k + 1
    <3>1. k + 1 \in 1 .. 6
      BY <1>5
    <3> QED
      BY <1>2, <2>2, <3>1, Remaining
  <2> QED
    BY <1>5, <2>1, <2>2 DEF Ordered
<1>6. CASE k <= 4
  <2>1. k \in 1 .. 4
    BY <1>6
  <2>2. /\ Steps' = Steps \cup {step}
        /\ \A m \in Steps \ {step} : folders'[m] = folders[m]
        /\ Folder(step) \in Folders
        /\ k = 1 => folders'[step] = [Folder(step) EXCEPT !["policy"] = model]
        /\ k = 2 => folders'[step] = [Folder(step) EXCEPT !["critic"] = model]
        /\ k = 3 => \/ folders'[step] = [Folder(step) EXCEPT !["data"] = [loader EXCEPT !.loaded = FALSE]]
                    \/ folders'[step] = [Folder(step) EXCEPT !["data"] = Torn]
        /\ k = 4 => folders'[step] = [Folder(step) EXCEPT !["state"] = step]
    BY <1>1, <2>1, SavingFolder
  <2>3. latest' = latest
    BY <1>2, <1>6
  <2>4. latest # Torn => Above(step)
    BY <1>3, <1>6 DEF Saved
  <2>5. FileNames'
    <3> SUFFICES ASSUME latest \in Nat PROVE FileNames'
      BY <2>3 DEF FileNames
    <3>1. latest < step /\ NoneDue(latest + 1, step)
      BY <1>4, <2>4 DEF Above
    <3>2. latest # 0 => latest \in Steps' /\ folders'[latest] = folders[latest] /\ Complete(latest)
      BY <1>3, <1>4, <2>2, <3>1 DEF FileNames
    <3>3. latest # 0 => Complete(latest)'
      BY <2>3, <3>2 DEF Complete, Loads
    <3>4. \A m \in Steps' : NoneDue(latest + 1, m)
      BY <1>3, <2>2, <3>1 DEF FileNames
    <3>5. \A m \in Steps' : NoneDue(latest + 1, m)'
      BY <1>2, <2>3, <3>4 DEF NoneDue
    <3> QED
      BY <2>3, <3>2, <3>3, <3>5 DEF FileNames
  <2>6. \A m \in Steps' : m <= step
    BY <1>3, <1>4, <2>2
  <2>7. step \in Steps' /\ Folder(step)' = folders'[step]
    BY <1>2, <2>2 DEF Folder, Steps
  <2>8. latest # Torn /\ Above(step) => Above(step)'
    BY <1>2, <2>3, <1>4 DEF Above, NoneDue
  <2> DEFINE f == Folder(step)
             g == folders'[step]
  <2>9. /\ k = 1 => g.policy = model /\ g.state = f.state
        /\ k = 2 => g.policy = f.policy /\ g.critic = model /\ g.state = f.state
        /\ k = 3 => /\ g.policy = f.policy /\ g.critic = f.critic /\ g.state = f.state
                    /\ g.data \in {[loader EXCEPT !.loaded = FALSE], Torn}
        /\ k = 4 => /\ g.policy = f.policy /\ g.critic = f.critic /\ g.data = f.data
                    /\ g.state = step
    BY <2>2 DEF Folders
  <2>10. Saved(k + 1)'
    <3> HIDE DEF f, g
    <3>1. /\ g.policy = model
          /\ k + 1 > 2 => g.critic = model
          /\ k + 1 > 3 => g.data \in {[loader EXCEPT !.loaded = FALSE], Torn}
          /\ k + 1 > 4 => g.state = step
      BY <1>3, <2>1, <2>9 DEF Saved, f
    <3>2. latest = Torn /\ k + 1 <= 4 => g.state = Missing
      BY <1>3, <2>1, <2>9 DEF Saved, f
    <3>3. latest # Torn => Above(step)'
      BY <2>4, <2>8
    <3> QED
      BY <1>2, <1>4, <2>1, <2>3, <2>6, <2>7, <3>1, <3>2, <3>3 DEF Saved, g
  <2> QED
    BY <1>2, <1>5, <1>6, <2>5, <2>6, <2>10
<1>7. CASE k = 5
  <2>1. UNCHANGED <<folders, Steps>> /\ latest' = step
    BY <1>1, <1>2, <1>7, Saving DEF Steps
  <2>2. step \in Steps /\ folders[step] = Folder(step) /\ Complete(step)
    BY <1>3, <1>4, <1>7 DEF Saved, Folder, Complete, Loads, Steps, NoFile
  <2>3. FileNames'
    <3>1. Complete(latest)'
      BY <2>1, <2>2 DEF Complete, Loads
    <3>2. \A m \in Steps' : NoneDue(latest + 1, m)'
      BY <1>3, <1>4, <2>1 DEF NoneDue
    <3> QED
      BY <2>1, <2>2, <3>1, <3>2 DEF FileNames
  <2>4. Saved(k + 1)'
    BY <1>2, <1>3, <1>7, <2>1 DEF Saved, Folder
  <2> QED
    BY <1>2, <1>3, <1>5, <1>7, <2>1, <2>3, <2>4
<1>8. CASE k = 6
  <2>1. latest = step /\ latest' = step /\ folders' = [n \in Kept(cfg.keep) |-> folders[n]] /\ latest # 0
    BY <1>1, <1>2, <1>3, <1>8, Saving DEF Saved, Values, Running
  <2>2. latest \in Steps /\ Complete(latest)
    BY <1>3, <1>4, <2>1 DEF FileNames
  <2>3. Steps' \subseteq Steps /\ latest \in Steps' /\ folders'[latest] = folders[latest]
    BY <1>3, <2>1, <2>2, Cleaning
  <2>4. \A m \in Steps' : m <= step
    BY <1>3, <2>3
  <2>5. \A m \in Steps' : NoneDue(step + 1, m)' /\ NoneDue(latest + 1, m)'
    BY <1>2, <1>4, <2>1, <2>3, <2>4 DEF NoneDue
  <2>6. FileNames'
    <3>1. Complete(latest)'
      BY <2>1, <2>2, <2>3 DEF Complete, Loads
    <3> QED
      BY <2>1, <2>3, <2>5, <3>1 DEF FileNames
  <2>7. NextSave(step + 1)'
    <3>1. Above(step + 1)'
      BY <1>2, <1>4, <2>1 DEF Above, NoneDue
    <3> QED
      BY <1>2, <2>5, <3>1 DEF NextSave
  <2>8. pc' \in {"export", "last"}
    BY <1>2, <1>8
  <2> QED
    BY <1>2, <2>1, <2>4, <2>6, <2>7, <2>8 DEF Ordered
<1> QED
  BY <1>1, <1>6, <1>7, <1>8

(* A crash leaves what the file names as it was, or tears the file.        *)
LEMMA ExitOrdered ==
    ASSUME Values, Ordered, Crash \/ Leave
    PROVE  Ordered'
<1>1. pc' = "down" /\ cfg' = cfg
  BY DEF Crash, Leave, Exit
<1>2. /\ Steps \subseteq Nat \ {0} /\ step \in Nat
      /\ latest \in Nat \cup {Torn} /\ Torn \notin Nat
  BY TrainerCheckpointsAssumption DEF Values
<1>3. FileNames
  BY DEF Ordered
<1>4. FileNames'
  <2>1. CASE UNCHANGED <<folders, latest>>
    BY <1>1, <1>3, <2>1 DEF FileNames, Complete, Loads, NoneDue, Steps
  <2>2. CASE Tears
    <3>1. PICK k \in 1 .. 6 : pc = "save" /\ todo = Rest(k)
      BY <2>2, Tearing DEF Values
    <3>2. Saved(k) /\ \A m \in Steps : m <= step
      BY <3>1 DEF Ordered
    <3>3. CASE k <= 4
      <4>1. step > 0 /\ Write(Parts[k], Torn) /\ latest' = latest
        BY <2>2, <3>1, <3>3, Tearing DEF Values, Running
      <4>2. Parts[k] \in DOMAIN NoFolder
        BY <3>3 DEF Parts, NoFolder
      <4>3. Torn \in Kinds[Parts[k]]
        BY <4>2 DEF Kinds, NoFile, NoFolder
      <4>4. Steps' = Steps \cup {step} /\ \A m \in Steps \ {step} : folders'[m] = folders[m]
        BY <4>1, <4>2, <4>3, Writing
      <4> SUFFICES ASSUME latest \in Nat PROVE FileNames'
        BY <4>1 DEF FileNames
      <4>5. latest < step /\ NoneDue(latest + 1, step)
        BY <1>2, <3>2, <3>3 DEF Saved, Above
      <4>6. latest # 0 => latest \in Steps' /\ folders'[latest] = folders[latest] /\ Complete(latest)
        BY <1>2, <1>3, <4>4, <4>5 DEF FileNames
      <4>7. latest # 0 => Complete(latest)'
        BY <4>1, <4>6 DEF Complete, Loads
      <4>8. \A m \in Steps' : NoneDue(latest + 1, m)
        BY <1>3, <4>4, <4>5 DEF FileNames
      <4>9. \A m \in Steps' : NoneDue(latest + 1, m)'
        BY <1>1, <4>1, <4>8 DEF NoneDue
      <4> QED
        BY <4>1, <4>6, <4>7, <4>9 DEF FileNames
    <3>4. CASE k = 5
      <4>1. latest' = Torn
        BY <2>2, <3>1, <3>4, Tearing
      <4> QED
        BY <1>2, <4>1 DEF FileNames
    <3>5. CASE k = 6
      <4>1. HalfRemoved /\ latest' = latest /\ latest = step /\ latest # 0
        BY <2>2, <3>1, <3>2, <3>5, Tearing DEF Saved, Values, Running
      <4>2. latest \in Steps /\ Complete(latest)
        BY <1>2, <1>3, <4>1 DEF FileNames
      <4>3. Steps' \subseteq Steps /\ latest \in Steps' /\ folders'[latest] = folders[latest]
        BY <3>2, <4>1, <4>2, Cleaning
      <4>4. Complete(latest)'
        BY <4>1, <4>2, <4>3 DEF Complete, Loads
      <4>5. \A m \in Steps' : NoneDue(latest + 1, m)'
        BY <1>2, <3>2, <4>1, <4>3 DEF NoneDue
      <4> QED
        BY <4>1, <4>3, <4>4, <4>5 DEF FileNames
    <3> QED
      BY <3>3, <3>4, <3>5
  <2> QED
    BY <2>1, <2>2 DEF Crash, Leave
<1> QED
  BY <1>1, <1>4 DEF Ordered

-----------------------------------------------------------------------------
(* What orders the steps on disk holds before the first start.             *)
LEMMA OrderInit == Init => OrderInv
<1> SUFFICES ASSUME Init PROVE OrderInv
  OBVIOUS
<1>1. latest = 0 /\ Steps = {} /\ pc = "down"
  BY DEF Init, Steps
<1>2. FileNames
  BY <1>1 DEF FileNames
<1> QED
  BY <1>1, <1>2, ValuesInit DEF OrderInv, Ordered

(* No step disturbs it.                                                    *)
LEMMA OrderStep == OrderInv /\ [Next]_vars => OrderInv'
<1> SUFFICES ASSUME OrderInv, [Next]_vars PROVE OrderInv'
  OBVIOUS
<1>1. Values /\ (InStepOrder => Ordered)
  BY DEF OrderInv
<1>2. Values'
  <2>1. CASE UNCHANGED vars
    BY <1>1, <2>1 DEF vars, disk, memory, Values, Steps, HasNewest
  <2> QED
    BY <1>1, <2>1, WorkValues, ExitValues DEF Next
<1>3. ASSUME InStepOrder'
      PROVE  Ordered'
  <2>1. Ordered
    BY <1>1, <1>3, LapsesStay DEF InStepOrder
  <2>2. CASE Start
    BY <1>1, <1>3, <2>1, <2>2, StartOrdered
  <2>3. CASE EpochStart \/ Fetch \/ KeepSampling \/ Train \/ Export \/ End \/ LastExport
    BY <1>1, <1>3, <2>1, <2>3, LoopOrdered
  <2>4. CASE SavePart
    BY <1>1, <1>2, <2>1, <2>4, SaveOrdered
  <2>5. CASE Crash \/ Leave
    BY <1>1, <2>1, <2>5, ExitOrdered
  <2>6. CASE UNCHANGED vars
    BY <2>1, <2>6 DEF vars, disk, memory, Ordered, FileNames, Complete, Loads, NoneDue,
                      NextSave, Above, Saved, Folder, Steps
  <2> QED
    BY <2>2, <2>3, <2>4, <2>5, <2>6 DEF Next, Work
<1> QED
  BY <1>2, <1>3 DEF OrderInv

(* Whenever a crash comes, the checkpoint that the file names is complete  *)
(* and has not been cleaned up.                                            *)
THEOREM LatestCompleteCorrect == Spec => []LatestComplete
<1>1. OrderInv => LatestComplete
  BY DEF OrderInv, Ordered, FileNames, Complete, LatestComplete, Steps
<1> QED
  BY <1>1, OrderInit, OrderStep, PTL DEF Spec

(* A restart in mode "latest" refuses only a torn file.                    *)
THEOREM RefusedOnlyTornCorrect == Spec => []RefusedOnlyTorn
<1>1. OrderInv => RefusedOnlyTorn
  BY DEF OrderInv, Ordered, RefusedOnlyTorn
<1> QED
  BY <1>1, OrderInit, OrderStep, PTL DEF Spec

-----------------------------------------------------------------------------
(* A batch more, and those there were.                                     *)
LEMMA Appended ==
    ASSUME NEW m \in Batches, NEW b \in Int
    PROVE  /\ Append(m, b) \in Batches /\ Len(m) \in Nat /\ DOMAIN m = 1 .. Len(m)
           /\ Len(Append(m, b)) = Len(m) + 1
           /\ DOMAIN Append(m, b) = 1 .. Len(m) + 1
           /\ \A i \in 1 .. Len(m) : Append(m, b)[i] = m[i] /\ m[i] \in Int
           /\ Append(m, b)[Len(m) + 1] = b
<1>1. m \in Seq(Int)
  BY DEF Batches
<1>2. /\ Append(m, b) \in Seq(Int) /\ Len(Append(m, b)) = Len(m) + 1
      /\ \A i \in 1 .. Len(m) : Append(m, b)[i] = m[i]
      /\ Append(m, b)[Len(m) + 1] = b
  BY <1>1, AppendProperties
<1>3. Len(m) \in Nat /\ DOMAIN m = 1 .. Len(m) /\ \A i \in 1 .. Len(m) : m[i] \in Int
  BY <1>1
<1>4. DOMAIN Append(m, b) = 1 .. Len(m) + 1
  BY <1>2
<1> QED
  BY <1>1, <1>2, <1>3, <1>4 DEF Batches

(* Training or sampling more takes the batch among those seen.             *)
LEMMA SeenBatches ==
    ASSUME Values
    PROVE  /\ Seen \in Batches /\ Append(Seen, batch) \in Batches
           /\ held = <<>> => Seen = model
           /\ \A i \in DOMAIN model : i \in DOMAIN Seen /\ Seen[i] = model[i]
           /\ Len(model) <= Len(Seen)
<1>1. model \in Seq(Int) /\ held \in Seq(Int) /\ batch \in Int
  BY DEF Values, Batches
<1>2. /\ Seen \in Seq(Int) /\ Len(Seen) = Len(model) + Len(held)
      /\ \A i \in 1 .. Len(model) + Len(held) :
             Seen[i] = IF i <= Len(model) THEN model[i] ELSE held[i - Len(model)]
  BY <1>1, ConcatProperties DEF Seen
<1>3. held = <<>> => Seen = model
  BY <1>1, ConcatEmptySeq DEF Seen
<1>4. DOMAIN model = 1 .. Len(model) /\ DOMAIN Seen = 1 .. Len(Seen) /\ Len(model) \in Nat /\ Len(held) \in Nat
  BY <1>1, <1>2
<1> QED
  BY <1>1, <1>2, <1>3, <1>4, Appended DEF Batches

(* A batch that is kept or trained on comes after those seen before.       *)
LEMMA SeenGrows ==
    ASSUME Values, KeepSampling \/ Train
    PROVE  Seen' = Append(Seen, batch)
<1>1. model \in Seq(Int) /\ held \in Seq(Int) /\ batch \in Int
  BY DEF Values, Batches
<1>2. CASE KeepSampling
  <2>1. model' = model /\ held' = Append(held, batch)
    BY <1>2 DEF KeepSampling
  <2>2. /\ Append(held, batch) = held \o <<batch>>
        /\ model \o held \in Seq(Int) /\ <<batch>> \in Seq(Int)
        /\ Append(model \o held, batch) = (model \o held) \o <<batch>>
    BY <1>1, AppendIsConcat, ConcatProperties
  <2>3. (model \o held) \o <<batch>> = model \o (held \o <<batch>>)
    BY <1>1, <2>2, ConcatAssociative
  <2> QED
    BY <2>1, <2>2, <2>3 DEF Seen
<1>3. CASE Train
  <2>1. model' = Append(Seen, batch) /\ held' = <<>>
    BY <1>3 DEF Train, Seen
  <2>2. model' \in Seq(Int)
    BY <2>1, SeenBatches DEF Batches
  <2> QED
    BY <2>1, <2>2, ConcatEmptySeq DEF Seen
<1> QED
  BY <1>2, <1>3

(* The next batch is the one after those given, if there is one in the     *)
(* epoch.                                                                  *)
LEMMA NextGiven ==
    ASSUME NEW l \in Loaders, Settled(l)
    PROVE  /\ Settled(Taken(l)) /\ GivenBy(l) \in Nat /\ GivenBy(Taken(l)) \in Nat
           /\ IF Given(l) = 0 THEN Taken(l).fin /\ GivenBy(Taken(l)) = GivenBy(l)
              ELSE Given(l) = GivenBy(l) + 1 /\ GivenBy(Taken(l)) = GivenBy(l) + 1
<1>1. PerEpoch \in Nat \ {0} /\ l.ep \in Nat \ {0} /\ l.pos \in 0 .. PerEpoch /\ l.fin \in BOOLEAN
  BY TrainerCheckpointsAssumption DEF Loaders, Settled
<1>2. (l.ep - 1) * PerEpoch \in Nat
  BY <1>1
<1> DEFINE before == (l.ep - 1) * PerEpoch
<1>3. GivenBy(l) = before + l.pos /\ GivenBy(l) \in Nat
  BY <1>1, <1>2 DEF GivenBy
<1>4. CASE l.pos < PerEpoch
  <2>1. Taken(l) = [l EXCEPT !.pos = @ + 1] /\ Given(l) = before + l.pos + 1
    BY <1>4 DEF Taken, Given
  <2>2. Taken(l).ep = l.ep /\ Taken(l).pos = l.pos + 1 /\ Taken(l).fin = l.fin
    BY <2>1 DEF Loaders
  <2>3. GivenBy(Taken(l)) = before + (l.pos + 1)
    BY <2>2 DEF GivenBy
  <2>4. ~l.fin
    BY <1>1, <1>4 DEF Settled
  <2> QED
    BY <1>1, <1>2, <1>3, <2>1, <2>2, <2>3, <2>4 DEF Settled
<1>5. CASE l.pos = PerEpoch
  <2>1. Taken(l) = [l EXCEPT !.fin = TRUE] /\ Given(l) = 0
    BY <1>1, <1>5 DEF Taken, Given
  <2>2. Taken(l).ep = l.ep /\ Taken(l).pos = l.pos /\ Taken(l).fin
    BY <2>1 DEF Loaders
  <2> QED
    BY <1>1, <1>3, <1>5, <2>1, <2>2 DEF Settled, GivenBy
<1> QED
  BY <1>1, <1>4, <1>5

(* An iterator goes on where the loader stands.                            *)
LEMMA IteratorGiven ==
    ASSUME NEW l \in Loaders, Settled(l), l.loaded \/ l.fin, NEW i \in Iterators(l)
    PROVE  i \in Loaders /\ Settled(i) /\ GivenBy(i) = GivenBy(l)
<1>1. PerEpoch \in Nat \ {0} /\ l.ep \in Nat \ {0} /\ l.pos \in 0 .. PerEpoch /\ l.fin \in BOOLEAN
  BY TrainerCheckpointsAssumption DEF Loaders, Settled
<1>2. CASE i = Restarted(l) /\ l.pos = PerEpoch
  <2>1. i.ep = l.ep + 1 /\ i.pos = 0 /\ ~i.fin
    BY <1>2 DEF Restarted
  <2>2. GivenBy(i) = l.ep * PerEpoch
    BY <1>1, <2>1 DEF GivenBy
  <2>3. (l.ep - 1) * PerEpoch + PerEpoch = l.ep * PerEpoch
    BY <1>1
  <2>4. GivenBy(l) = (l.ep - 1) * PerEpoch + PerEpoch
    BY <1>2 DEF GivenBy
  <2>5. i \in Loaders
    BY LoaderValues
  <2> QED
    BY <2>1, <2>2, <2>3, <2>4, <2>5, <1>1 DEF Settled
<1>3. CASE i = Resumed(l)
  <2>1. i.ep = l.ep /\ i.pos = l.pos /\ i.fin = l.fin
    BY <1>3 DEF Resumed, Loaders
  <2> QED
    BY <1>1, <2>1, LoaderValues DEF GivenBy, Settled
<1> QED
  BY <1>2, <1>3 DEF Iterators, AtBoundary, Settled

(* The first iterator of a run has given nothing.                          *)
LEMMA FirstIterator ==
    ASSUME NEW i \in Iterators(NewLoader)
    PROVE  i \in Loaders /\ Settled(i) /\ GivenBy(i) = 0
<1>1. PerEpoch \in Nat \ {0}
  BY TrainerCheckpointsAssumption
<1>2. i = [ep |-> 1, pos |-> 0, fin |-> FALSE, loaded |-> FALSE]
  BY DEF Iterators, NewLoader, Restarted
<1> QED
  BY <1>1, <1>2 DEF GivenBy, Settled, Loaders

(* A model that goes through one batch more.                               *)
LEMMA Extended ==
    ASSUME Values, NEW m \in Batches, NEW b \in Int, NEW l, NEW n, Settled(n), Through(m, l),
           GivenBy(l) \in Int, GivenBy(n) \in Int,
           IF cfg.asynch
           THEN GivenBy(l) <= GivenBy(n) /\ b <= GivenBy(n) /\ \A i \in DOMAIN m : m[i] < b
           ELSE b = GivenBy(l) + 1 /\ GivenBy(n) = b
    PROVE  Through(Append(m, b), n)
<1> DEFINE a == Append(m, b)
<1>1. /\ Len(m) \in Nat /\ DOMAIN m = 1 .. Len(m) /\ Len(a) = Len(m) + 1 /\ DOMAIN a = 1 .. Len(m) + 1
      /\ \A i \in 1 .. Len(m) : a[i] = m[i] /\ m[i] \in Int
      /\ a[Len(m) + 1] = b
  BY Appended
<1> HIDE DEF a
<1>2. \A i \in DOMAIN a : i = Len(m) + 1 \/ i \in DOMAIN m
  BY <1>1
<1>3. CASE cfg.asynch
  <2>1. Increasing(m) /\ \A i \in DOMAIN m : m[i] <= GivenBy(l)
    BY <1>3 DEF Through
  <2>2. \A i \in DOMAIN a : a[i] <= GivenBy(n)
    BY <1>1, <1>2, <1>3, <2>1
  <2>3. ASSUME NEW i \in DOMAIN a, NEW j \in DOMAIN a, i < j
        PROVE  a[i] < a[j]
    <3>1. i \in DOMAIN m
      BY <1>1, <2>3
    <3>2. CASE j \in DOMAIN m
      BY <1>1, <2>1, <2>3, <3>1, <3>2 DEF Increasing
    <3>3. CASE j = Len(m) + 1
      BY <1>1, <1>3, <3>1, <3>3
    <3> QED
      BY <1>2, <3>2, <3>3
  <2>4. Increasing(a)
    BY <2>3 DEF Increasing
  <2> QED
    BY <1>3, <2>2, <2>4 DEF Through, a
<1>4. CASE ~cfg.asynch
  <2>1. Len(m) = GivenBy(l) /\ \A i \in DOMAIN m : m[i] = i
    BY <1>4 DEF Through
  <2>2. Len(a) = GivenBy(n) /\ \A i \in DOMAIN a : a[i] = i
    BY <1>1, <1>2, <1>4, <2>1
  <2> QED
    BY <1>4, <2>2 DEF Through, a
<1> QED
  BY <1>3, <1>4

(* A loader that has given as much, or more to the asynchronous trainer.   *)
LEMMA Onward ==
    ASSUME Values, NEW m \in Batches, NEW l, NEW n, Settled(n), Through(m, l),
           GivenBy(l) \in Int, GivenBy(n) \in Int,
           IF cfg.asynch THEN GivenBy(l) <= GivenBy(n) ELSE GivenBy(l) = GivenBy(n)
    PROVE  Through(m, n)
<1>1. DOMAIN m = 1 .. Len(m) /\ \A i \in 1 .. Len(m) : m[i] \in Int
  BY DEF Batches
<1> QED
  BY <1>1 DEF Through

(* A start that has its place in the data.                                 *)
LEMMA StartPlaced ==
    ASSUME Values, Ordered, Placed, Start, InPlace'
    PROVE  Placed'
<1>1. UNCHANGED <<cfg, folders, latest, held>> /\ pc = "down" /\ held = <<>> /\ Steps' = Steps
  BY DEF Start, Values, disk, Steps
<1>2. InStepOrder' /\ FileNames
  BY DEF InPlace, InStepOrder, Ordered
<1>3. Torn \notin Nat /\ latest \in Nat \cup {Torn}
  BY TrainerCheckpointsAssumption DEF Values
<1>4. ASSUME NEW why, FromScratch(why)
      PROVE  /\ pc' = "epoch" /\ epoch' = 0 /\ loader' = NewLoader /\ model' = <<>>
  BY <1>4 DEF FromScratch
<1>5. ASSUME NEW n \in Steps, NEW why, LoadFrom(n, why), Loads(n), Fits(n)
      PROVE  /\ pc' = "epoch" /\ loader' # NewLoader /\ loader'.loaded /\ Through(model', loader')
  <2>1. folders[n].data \notin NoFile /\ loader' = [folders[n].data EXCEPT !.loaded = TRUE]
        /\ model' = folders[n].policy /\ pc' = "epoch" /\ model' \in Batches
    BY <1>5, Loading DEF InPlace
  <2>2. folders[n].data \in Loaders
    BY <2>1 DEF Values, Folders, Kinds
  <2>3. /\ loader'.ep = folders[n].data.ep /\ loader'.pos = folders[n].data.pos
        /\ loader'.fin = folders[n].data.fin /\ loader'.loaded
    BY <2>1, <2>2 DEF Loaders
  <2>4. Through(model', folders[n].data)
    BY <1>5, <2>1 DEF Fits
  <2>5. Through(model', loader')
    BY <2>3, <2>4 DEF Through, Settled, GivenBy
  <2> QED
    BY <2>1, <2>3, <2>5 DEF NewLoader
<1>6. \/ pc' = "stuck"
      \/ pc' = "epoch" /\ epoch' = 0 /\ loader' = NewLoader /\ model' = <<>>
      \/ pc' = "epoch" /\ loader' # NewLoader /\ loader'.loaded /\ Through(model', loader')
  <2>1. CASE \E why \in {BehindDisk(0), {}} : FromScratch(why)
    BY <1>4, <2>1
  <2>2. CASE latest # 0 /\ latest # Torn /\ latest \in Steps /\ LoadFrom(latest, {})
    <3>1. Loads(latest) /\ Fits(latest)
      BY <1>2, <1>3, <2>2 DEF FileNames, Complete, Placed
    <3> QED
      BY <1>5, <2>2, <3>1
  <2>3. ASSUME NEW n \in Steps, Loads(n), LoadFrom(n, BehindDisk(n) \cup Unfinished(n))
        PROVE  pc' = "epoch" /\ loader' # NewLoader /\ loader'.loaded /\ Through(model', loader')
    <3>1. (\A m \in Steps : m <= n) /\ (latest = Torn \/ latest = n)
      BY <1>2, <2>3, StartFrom
    <3>2. Fits(n)
      BY <1>3, <3>1 DEF Placed, Values
    <3> QED
      BY <1>5, <2>3, <3>2
  <2>4. CASE pc' = "stuck"
    BY <2>4
  <2> QED
    BY <2>1, <2>2, <2>3, <2>4 DEF Start, Steps
<1>7. (latest \in Nat \ {0} => Fits(latest))' /\ (latest = Torn => \A n \in Steps : (\A m \in Steps : m <= n) => Fits(n))'
  BY <1>1 DEF Placed, Fits, Loads, Through
<1>8. Through(model', loader') => Through(Seen, loader)'
  <2>1. held' = <<>>
    BY <1>1
  <2>2. ASSUME model' \in Batches
        PROVE  Seen' = model'
    BY <2>1, <2>2, ConcatEmptySeq DEF Seen, Batches
  <2>3. model' \in Batches
    BY StartValues DEF Values
  <2> QED
    BY <1>1, <2>2, <2>3 DEF Through
<1> QED
  BY <1>1, <1>6, <1>7, <1>8 DEF Placed

(* The steps of the loop.                                                  *)
LEMMA LoopPlaced ==
    ASSUME Values, Values', Placed, InPlace',
           EpochStart \/ Fetch \/ KeepSampling \/ Train \/ Export \/ End \/ LastExport
    PROVE  Placed'
<1>1. UNCHANGED <<cfg, folders, latest, Steps>>
  BY DEF EpochStart, Fetch, KeepSampling, Train, Export, End, LastExport, disk, memory, Steps
<1>2. /\ (latest \in Nat \ {0} => Fits(latest))'
      /\ (latest = Torn => \A n \in Steps : (\A m \in Steps : m <= n) => Fits(n))'
  BY <1>1 DEF Placed, Fits, Loads, Through
<1>3. Seen \in Batches /\ loader \in Loaders /\ loader' \in Loaders /\ batch \in Int /\ ahead \in Int
  BY SeenBatches DEF Values
<1>4. \A i \in DOMAIN Seen : Seen[i] \in Int
  BY <1>3, Appended DEF Batches
<1>5. ASSUME NEW m, NEW l
      PROVE  Through(m, l)' <=> Through(m', l')
  BY <1>1 DEF Through
<1>6. CASE EpochStart
  <2>1. pc = "epoch" /\ UNCHANGED <<epoch, held, model, Seen>>
    BY <1>6 DEF EpochStart, Seen
  <2>2. CASE epoch < Epochs
    <3>1. PICK l \in Iterators(loader) :
              /\ pc' = "fetch"
              /\ loader' = IF cfg.asynch THEN Taken(l) ELSE l
              /\ ahead' = IF cfg.asynch THEN Given(l) ELSE 0
      BY <1>6, <2>2 DEF EpochStart
    <3>2. l \in Loaders /\ Settled(l) /\ GivenBy(l) \in Int /\ Through(Seen, l)
      <4>1. CASE loader = NewLoader
        <5>1. model = <<>> /\ held = <<>>
          BY <2>1, <4>1 DEF Placed
        <5>2. Seen = <<>>
          BY <5>1, SeenBatches
        <5>3. l \in Loaders /\ Settled(l) /\ GivenBy(l) = 0
          BY <3>1, <4>1, FirstIterator
        <5> QED
          BY <5>2, <5>3 DEF Through, Increasing
      <4>2. CASE loader # NewLoader
        <5>1. Through(Seen, loader) /\ (loader.loaded \/ loader.fin)
          BY <2>1, <4>2 DEF Placed
        <5>2. Settled(loader)
          BY <5>1 DEF Through
        <5>3. l \in Loaders /\ Settled(l) /\ GivenBy(l) = GivenBy(loader)
          BY <1>3, <3>1, <5>1, <5>2, IteratorGiven
        <5> QED
          BY <1>3, <5>1, <5>2, <5>3, NextGiven DEF Through
      <4> QED
        BY <4>1, <4>2
    <3>3. CASE cfg.asynch
      <4>1. loader' = Taken(l) /\ ahead' = Given(l)
        BY <3>1, <3>3
      <4>2. /\ Settled(Taken(l)) /\ GivenBy(Taken(l)) \in Int
            /\ IF Given(l) = 0 THEN Taken(l).fin /\ GivenBy(Taken(l)) = GivenBy(l)
               ELSE Given(l) = GivenBy(l) + 1 /\ GivenBy(Taken(l)) = GivenBy(l) + 1
        BY <3>2, NextGiven
      <4>3. Through(Seen, Taken(l))
        BY <1>3, <3>2, <3>3, <4>2, Onward
      <4>4. \A i \in DOMAIN Seen : Seen[i] <= GivenBy(l)
        BY <3>2, <3>3 DEF Through
      <4>5. IF ahead' = 0 THEN loader'.fin
            ELSE ahead' <= GivenBy(loader') /\ \A i \in DOMAIN Seen : Seen[i] < ahead'
        BY <1>4, <3>2, <4>1, <4>2, <4>4
      <4>6. Through(Seen, loader)'
        BY <1>5, <2>1, <4>1, <4>3
      <4> QED
        BY <1>2, <2>1, <2>2, <3>1, <4>5, <4>6 DEF Placed, GivenBy
    <3>4. CASE ~cfg.asynch
      <4>1. Through(Seen, loader)'
        BY <1>5, <2>1, <3>1, <3>2, <3>4
      <4> QED
        BY <1>1, <1>2, <2>1, <2>2, <3>1, <3>4, <4>1 DEF Placed
    <3> QED
      BY <3>3, <3>4
  <2>3. CASE ~(epoch < Epochs)
    <3>1. pc' = "end" /\ loader' = loader /\ held = <<>>
      BY <1>6, <2>3 DEF EpochStart, InPlace
    <3>2. Epochs > 0
      BY TrainerCheckpointsAssumption
    <3>3. Through(Seen, loader)
      BY <2>1, <2>3, <3>2 DEF Placed
    <3>4. Through(Seen, loader)'
      BY <1>5, <2>1, <3>1, <3>3
    <3>5. epoch' >= Epochs
      BY <2>1, <2>3, TrainerCheckpointsAssumption DEF Values
    <3> QED
      BY <1>2, <2>1, <3>1, <3>4, <3>5 DEF Placed
  <2> QED
    BY <2>2, <2>3
<1>7. CASE Fetch
  <2> DEFINE b == IF cfg.asynch THEN ahead ELSE Given(loader)
  <2>1. /\ pc = "fetch" /\ UNCHANGED <<held, model, Seen>> /\ epoch < Epochs
        /\ Through(Seen, loader) /\ Settled(loader)
    BY <1>7 DEF Fetch, Placed, Through, Seen
  <2>2. /\ loader' = IF cfg.asynch /\ b = 0 THEN loader ELSE Taken(loader)
        /\ ahead' = IF cfg.asynch /\ b # 0 THEN Given(loader) ELSE 0
        /\ batch' = b
        /\ IF b # 0 THEN pc' = "train" /\ epoch' = epoch ELSE pc' = "epoch"
    BY <1>7 DEF Fetch, InPlace
  <2>3. /\ Settled(Taken(loader)) /\ GivenBy(loader) \in Int /\ GivenBy(Taken(loader)) \in Int
        /\ IF Given(loader) = 0 THEN Taken(loader).fin /\ GivenBy(Taken(loader)) = GivenBy(loader)
           ELSE Given(loader) = GivenBy(loader) + 1 /\ GivenBy(Taken(loader)) = GivenBy(loader) + 1
    BY <1>3, <2>1, NextGiven
  <2>4. b \in Int
    BY <1>3, LoaderValues
  <2>5. cfg.asynch => IF ahead = 0 THEN loader.fin
                      ELSE ahead <= GivenBy(loader) /\ \A i \in DOMAIN Seen : Seen[i] < ahead
    BY <2>1 DEF Placed
  <2>6. CASE b = 0
    <3>1. Settled(loader') /\ loader'.fin /\ GivenBy(loader') = GivenBy(loader)
      BY <2>1, <2>2, <2>3, <2>5, <2>6
    <3>2. Through(Seen, loader') /\ loader' # NewLoader
      BY <1>3, <2>1, <2>3, <3>1, Onward DEF Settled, NewLoader
    <3>3. Through(Seen, loader)'
      BY <1>5, <2>1, <3>2
    <3> QED
      BY <1>2, <2>2, <2>6, <3>1, <3>2, <3>3 DEF Placed
  <2>7. CASE b # 0
    <3>1. loader' = Taken(loader) /\ pc' = "train" /\ epoch' = epoch /\ batch' = b
      BY <2>2, <2>7
    <3>2. Through(Append(Seen, b), loader')
      <4>1. CASE cfg.asynch
        <5>1. b <= GivenBy(loader) /\ \A i \in DOMAIN Seen : Seen[i] < b
          BY <2>5, <2>7, <4>1
        <5> HIDE DEF b
        <5>2. GivenBy(loader) <= GivenBy(loader') /\ b <= GivenBy(loader') /\ GivenBy(loader') \in Int
          BY <2>3, <2>4, <3>1, <5>1
        <5> QED
          BY <1>3, <2>1, <2>3, <2>4, <3>1, <4>1, <5>1, <5>2, Extended
      <4>2. CASE ~cfg.asynch
        <5>1. b = GivenBy(loader) + 1 /\ GivenBy(loader') = b
          BY <2>3, <2>7, <3>1, <4>2
        <5> HIDE DEF b
        <5> QED
          BY <1>3, <2>1, <2>3, <2>4, <3>1, <4>2, <5>1, Extended
      <4> QED
        BY <4>1, <4>2
    <3>3. Through(Append(Seen, batch), loader)'
      BY <1>5, <2>1, <3>1, <3>2
    <3>4. ASSUME cfg.asynch, ahead' # 0
          PROVE  ahead' <= GivenBy(loader') /\ (\A i \in DOMAIN Seen : Seen[i] < ahead') /\ batch' < ahead'
      <4>1. ahead' = GivenBy(loader) + 1 /\ GivenBy(loader') = ahead' /\ b = ahead /\ ahead # 0
        BY <2>2, <2>3, <2>7, <3>1, <3>4
      <4>2. ahead <= GivenBy(loader) /\ \A i \in DOMAIN Seen : Seen[i] < ahead
        BY <2>5, <3>4, <4>1
      <4> QED
        BY <1>3, <1>4, <2>3, <3>1, <4>1, <4>2
    <3>5. ASSUME cfg.asynch, ahead' = 0
          PROVE  loader'.fin
      BY <2>2, <2>3, <2>7, <3>1, <3>5
    <3> QED
      BY <1>1, <1>2, <2>1, <3>1, <3>3, <3>4, <3>5 DEF Placed, GivenBy
  <2> QED
    BY <2>6, <2>7
<1>8. CASE KeepSampling \/ Train
  <2>1. /\ pc = "train" /\ UNCHANGED <<epoch, loader, ahead>> /\ epoch < Epochs
        /\ pc' \in {"fetch", "save", "export"} /\ (pc' # "fetch" => held' = <<>>)
        /\ Through(Append(Seen, batch), loader)
    BY <1>8 DEF KeepSampling, Train, Placed
  <2>2. Seen' = Append(Seen, batch)
    BY <1>8, SeenGrows
  <2>3. Through(Seen, loader)'
    BY <1>5, <2>1, <2>2
  <2>4. cfg.asynch => IF ahead = 0 THEN loader.fin
                      ELSE ahead <= GivenBy(loader) /\ (\A i \in DOMAIN Seen : Seen[i] < ahead) /\ batch < ahead
    BY <2>1 DEF Placed
  <2>5. cfg.asynch /\ ahead # 0 => \A i \in DOMAIN Seen' : Seen'[i] < ahead
    <3> SUFFICES ASSUME cfg.asynch, ahead # 0, NEW i \in DOMAIN Seen' PROVE Seen'[i] < ahead
      OBVIOUS
    <3>1. (\A j \in DOMAIN Seen : Seen[j] < ahead) /\ batch < ahead
      BY <2>4
    <3>2. /\ DOMAIN Seen = 1 .. Len(Seen) /\ Len(Seen) \in Nat /\ DOMAIN Seen' = 1 .. Len(Seen) + 1
          /\ \A j \in 1 .. Len(Seen) : Seen'[j] = Seen[j]
          /\ Seen'[Len(Seen) + 1] = batch
      BY <1>3, <2>2, Appended
    <3>3. i = Len(Seen) + 1 \/ i \in DOMAIN Seen
      BY <3>2
    <3> QED
      BY <3>1, <3>2, <3>3
  <2> QED
    BY <1>1, <1>2, <2>1, <2>3, <2>4, <2>5 DEF Placed, GivenBy
<1>9. CASE Export \/ End \/ LastExport
  <2>1. /\ UNCHANGED <<epoch, loader, ahead, held, model, Seen>> /\ held = <<>>
        /\ Through(Seen, loader)
        /\ \/ pc = "export" /\ pc' = "fetch"
           \/ pc = "end" /\ pc' = "save"
           \/ pc = "last" /\ pc' = "done"
    BY <1>9 DEF Export, End, LastExport, memory, Placed, Seen
  <2>2. Through(Seen, loader)'
    BY <1>5, <2>1
  <2>3. pc = "export" => epoch < Epochs
    BY DEF Placed
  <2>4. pc = "end" => ~(epoch < Epochs)
    BY TrainerCheckpointsAssumption DEF Placed, Values
  <2> QED
    BY <1>1, <1>2, <2>1, <2>2, <2>3, <2>4 DEF Placed, GivenBy
<1> QED
  BY <1>6, <1>7, <1>8, <1>9

(* What is saved is the model and the place that it has been trained to.   *)
LEMMA SavedFits ==
    ASSUME Values, Placed, pc = "save", Saved(5)
    PROVE  Fits(step)
<1>1. held = <<>> /\ Through(Seen, loader) /\ loader \in Loaders
  BY DEF Placed, Values
<1>2. Seen = model
  BY <1>1, SeenBatches
<1>3. /\ step \in Steps /\ folders[step].policy = model
      /\ folders[step].data \in {[loader EXCEPT !.loaded = FALSE], Torn}
  BY DEF Saved, Folder, Steps
<1>4. CASE folders[step].data = Torn
  BY <1>4 DEF Fits, NoFile
<1>5. CASE folders[step].data = [loader EXCEPT !.loaded = FALSE]
  <2> DEFINE d == [loader EXCEPT !.loaded = FALSE]
  <2>1. d.ep = loader.ep /\ d.pos = loader.pos /\ d.fin = loader.fin
    BY <1>1 DEF Loaders
  <2> HIDE DEF d
  <2>2. Through(model, d)
    BY <1>1, <1>2, <2>1 DEF Through, Settled, GivenBy
  <2> QED
    BY <1>3, <1>5, <2>2 DEF Fits, d
<1> QED
  BY <1>3, <1>4, <1>5

(* The steps of a save.                                                    *)
LEMMA SavePlaced ==
    ASSUME Values, Values', Ordered, Ordered', Placed, SavePart
    PROVE  Placed'
<1>1. PICK k \in 1 .. 6 : pc = "save" /\ todo = Rest(k)
  BY DEF SavePart, Values
<1>2. /\ pc' = IF k < 6 THEN "save" ELSE IF epoch < Epochs THEN "export" ELSE "last"
      /\ latest' = IF k = 5 THEN step ELSE latest
      /\ UNCHANGED <<cfg, step, epoch, loader, ahead, held, model, Seen>>
  BY <1>1, Saving DEF memory, Seen
<1>3. Saved(k) /\ \A m \in Steps : m <= step
  BY <1>1 DEF Ordered
<1>4. /\ Steps \subseteq Nat \ {0} /\ step \in Nat \ {0}
      /\ latest \in Nat \cup {Torn} /\ Torn \notin Nat
  <2>1. step \in Nat /\ step > 0
    BY <1>1 DEF Values, Running
  <2>2. Torn \notin Nat
    BY TrainerCheckpointsAssumption
  <2> QED
    BY <2>1, <2>2 DEF Values
<1>5. held = <<>> /\ Through(Seen, loader)
  BY <1>1 DEF Placed
<1>6. Through(Seen, loader)'
  BY <1>2, <1>5 DEF Through
<1>7. ASSUME (latest \in Nat \ {0} => Fits(latest))',
             (latest = Torn => \A n \in Steps : (\A m \in Steps : m <= n) => Fits(n))'
      PROVE  Placed'
  <2>1. pc' \in {"save", "export", "last"} /\ (pc' = "export" => epoch < Epochs)
    BY <1>2
  <2> QED
    BY <1>1, <1>2, <1>5, <1>6, <1>7, <2>1 DEF Placed, GivenBy
<1>8. CASE k <= 4
  <2>1. k \in 1 .. 4
    BY <1>8
  <2>2. Steps' = Steps \cup {step} /\ \A m \in Steps \ {step} : folders'[m] = folders[m]
    BY <1>1, <2>1, SavingFolder
  <2>3. latest' = latest
    BY <1>2, <1>8
  <2>4. (latest \in Nat \ {0} => Fits(latest))'
    <3> SUFFICES ASSUME latest \in Nat \ {0} PROVE Fits(latest)'
      BY <2>3
    <3>1. latest < step /\ latest \in Steps /\ Fits(latest)
      BY <1>3, <1>4, <2>1 DEF Saved, Above, Ordered, FileNames, Placed
    <3>2. folders'[latest] = folders[latest]
      BY <1>4, <2>2, <3>1
    <3>3. Fits(latest) => (Fits(latest))'
      BY <1>2, <2>3, <3>1, <3>2 DEF Fits, Loads, Through
    <3> QED
      BY <3>1, <3>3
  <2>5. ASSUME latest = Torn, NEW n \in Steps', \A m \in Steps' : m <= n
        PROVE  Fits(n)'
    <3>1. n = step
      BY <1>3, <1>4, <2>2, <2>5
    <3>2. step \in Steps' /\ Folder(step)' = folders'[step]
      BY <1>2, <2>2 DEF Folder, Steps
    <3>3. Saved(k + 1)'
      <4>1. k + 1 \in 1 .. 6 /\ todo' = Rest(k + 1) /\ pc' = "save"
        BY <1>1, <1>2, <2>1, Saving
      <4> QED
        BY <4>1 DEF Ordered
    <3>4. CASE k <= 3
      <4>1. folders'[step].state = Missing
        BY <1>2, <2>1, <2>3, <2>5, <3>2, <3>3, <3>4 DEF Saved
      <4> QED
        BY <3>1, <4>1 DEF Fits, Loads
    <3>5. CASE k = 4
      <4>1. Saved(5)'
        BY <3>3, <3>5
      <4>2. /\ folders'[step].policy = model
            /\ folders'[step].data \in {[loader EXCEPT !.loaded = FALSE], Torn}
        BY <1>2, <3>2, <4>1 DEF Saved
      <4>3. Seen = model /\ loader \in Loaders
        BY <1>5, SeenBatches DEF Values
      <4>4. folders'[step].data \notin NoFile => Through(model, folders'[step].data)
        <5> DEFINE d == [loader EXCEPT !.loaded = FALSE]
        <5>1. d.ep = loader.ep /\ d.pos = loader.pos /\ d.fin = loader.fin
          BY <4>3 DEF Loaders
        <5>2. folders'[step].data = Torn \/ folders'[step].data = d
          BY <4>2
        <5> HIDE DEF d
        <5>3. Through(model, d)
          BY <1>5, <4>3, <5>1 DEF Through, Settled, GivenBy
        <5> QED
          BY <5>2, <5>3 DEF NoFile
      <4> QED
        BY <1>2, <3>1, <4>2, <4>4 DEF Fits, Through
    <3> QED
      BY <2>1, <3>4, <3>5
  <2> QED
    BY <1>7, <2>3, <2>4, <2>5
<1>9. CASE k = 5
  <2>1. folders' = folders /\ latest' = step /\ Steps' = Steps
    BY <1>1, <1>2, <1>9, Saving DEF Steps
  <2>2. Saved(5) /\ step \in Steps
    BY <1>3, <1>9 DEF Saved
  <2>3. Fits(step)
    BY <1>1, <2>2, SavedFits
  <2>4. Fits(latest)'
    BY <1>2, <2>1, <2>3 DEF Fits, Loads, Through
  <2> QED
    BY <1>4, <1>7, <2>1, <2>4
<1>10. CASE k = 6
  <2>1. latest = step /\ latest' = step /\ folders' = [n \in Kept(cfg.keep) |-> folders[n]]
    BY <1>1, <1>2, <1>3, <1>10, Saving DEF Saved
  <2>2. latest \in Steps /\ Fits(latest)
    BY <1>4, <2>1 DEF Ordered, FileNames, Placed
  <2>3. folders'[latest] = folders[latest]
    BY <1>3, <2>1, <2>2, Cleaning
  <2>4. Fits(latest)'
    BY <1>2, <2>1, <2>2, <2>3 DEF Fits, Loads, Through
  <2> QED
    BY <1>4, <1>7, <2>1, <2>4
<1> QED
  BY <1>1, <1>8, <1>9, <1>10

(* A crash leaves a checkpoint with its place in the data.                 *)
LEMMA ExitPlaced ==
    ASSUME Values, Ordered, Placed, Crash \/ Leave
    PROVE  Placed'
<1>1. pc' = "down" /\ cfg' = cfg
  BY DEF Crash, Leave, Exit
<1>2. /\ Steps \subseteq Nat \ {0} /\ step \in Nat
      /\ latest \in Nat \cup {Torn} /\ Torn \notin Nat
  BY TrainerCheckpointsAssumption DEF Values
<1>3. ASSUME (latest \in Nat \ {0} => Fits(latest))',
             (latest = Torn => \A n \in Steps : (\A m \in Steps : m <= n) => Fits(n))'
      PROVE  Placed'
  BY <1>1, <1>3 DEF Placed
<1>4. CASE UNCHANGED <<folders, latest>>
  <2>1. /\ (latest \in Nat \ {0} => Fits(latest))'
        /\ (latest = Torn => \A n \in Steps : (\A m \in Steps : m <= n) => Fits(n))'
    BY <1>1, <1>4 DEF Placed, Fits, Loads, Through, Steps
  <2> QED
    BY <1>3, <2>1
<1>5. CASE Tears
  <2>1. PICK k \in 1 .. 6 : pc = "save" /\ todo = Rest(k)
    BY <1>5, Tearing DEF Values
  <2>2. Saved(k) /\ \A m \in Steps : m <= step
    BY <2>1 DEF Ordered
  <2>3. CASE k <= 4
    <3>1. step > 0 /\ Write(Parts[k], Torn) /\ latest' = latest
      BY <1>5, <2>1, <2>3, Tearing DEF Values, Running
    <3>2. Parts[k] \in DOMAIN NoFolder /\ DOMAIN NoFolder = {"policy", "critic", "data", "state"}
      BY <2>3 DEF Parts, NoFolder
    <3>3. Torn \in Kinds[Parts[k]]
      BY <3>2 DEF Kinds, NoFile
    <3>4. /\ Steps' = Steps \cup {step} /\ \A m \in Steps \ {step} : folders'[m] = folders[m]
          /\ folders'[step] = [Folder(step) EXCEPT ![Parts[k]] = Torn]
          /\ Folder(step) \in Folders
      BY <3>1, <3>2, <3>3, Writing
    <3>5. (latest \in Nat \ {0} => Fits(latest))'
      <4> SUFFICES ASSUME latest \in Nat \ {0} PROVE Fits(latest)'
        BY <3>1
      <4>1. latest < step /\ latest \in Steps /\ Fits(latest)
        BY <1>2, <2>2, <2>3 DEF Saved, Above, Ordered, FileNames, Placed
      <4>2. folders'[latest] = folders[latest]
        BY <1>2, <3>4, <4>1
      <4> QED
        BY <1>1, <3>1, <4>1, <4>2 DEF Fits, Loads, Through
    <3>6. ASSUME latest = Torn, NEW n \in Steps', \A m \in Steps' : m <= n
          PROVE  Fits(n)'
      <4>1. n = step
        BY <1>2, <2>2, <3>4, <3>6
      <4> DEFINE p == Parts[k]
      <4> HIDE DEF p
      <4>2. folders'[step] = [Folder(step) EXCEPT ![p] = Torn] /\ p \in {"policy", "critic", "data", "state"}
        BY <3>2, <3>4 DEF p
      <4>3. \/ folders'[step].policy = Torn
            \/ folders'[step].critic = Torn
            \/ folders'[step].data = Torn
            \/ folders'[step].state = Torn
        BY <3>4, <4>2 DEF Folders
      <4> QED
        BY <4>1, <4>3 DEF Fits, Loads, NoFile
    <3> QED
      BY <1>3, <3>1, <3>5, <3>6
  <2>4. CASE k = 5
    <3>1. latest' = Torn /\ folders' = folders /\ Steps' = Steps
      BY <1>5, <2>1, <2>4, Tearing DEF Steps
    <3>2. Saved(5) /\ step \in Steps
      BY <2>2, <2>4 DEF Saved
    <3>3. Fits(step)
      BY <2>1, <3>2, SavedFits
    <3>4. ASSUME NEW n \in Steps', \A m \in Steps' : m <= n
          PROVE  Fits(n)'
      <4>1. n = step
        BY <1>2, <2>2, <3>1, <3>2, <3>4
      <4> QED
        BY <1>1, <3>1, <3>3, <4>1 DEF Fits, Loads, Through
    <3> QED
      BY <1>2, <1>3, <3>1, <3>4
  <2>5. CASE k = 6
    <3>1. HalfRemoved /\ latest' = latest /\ latest = step /\ latest # 0
      BY <1>5, <2>1, <2>2, <2>5, Tearing DEF Saved, Values, Running
    <3>2. latest \in Steps /\ Fits(latest)
      BY <1>2, <3>1 DEF Ordered, FileNames, Placed
    <3>3. folders'[latest] = folders[latest]
      BY <2>2, <3>1, <3>2, Cleaning
    <3>4. Fits(latest)'
      BY <1>1, <3>1, <3>2, <3>3 DEF Fits, Loads, Through
    <3> QED
      BY <1>2, <1>3, <3>1, <3>4
  <2> QED
    BY <2>1, <2>3, <2>4, <2>5
<1> QED
  BY <1>4, <1>5 DEF Crash, Leave

(* Every model on disk and in memory has its place in the data at first.   *)
LEMMA PlaceInit == Init => PlaceInv
<1> SUFFICES ASSUME Init PROVE PlaceInv
  OBVIOUS
<1>1. latest = 0 /\ pc = "down" /\ Torn # 0
  BY TrainerCheckpointsAssumption DEF Init
<1> QED
  BY <1>1, OrderInit DEF PlaceInv, Placed

(* And no step takes it away, unless it is one of the lapses.              *)
LEMMA PlaceStep == PlaceInv /\ [Next]_vars => PlaceInv'
<1> SUFFICES ASSUME PlaceInv, [Next]_vars PROVE PlaceInv'
  OBVIOUS
<1>1. OrderInv /\ OrderInv'
  BY OrderStep DEF PlaceInv
<1>2. ASSUME InPlace'
      PROVE  Placed'
  <2>1. InPlace /\ Placed
    BY <1>2, LapsesStay DEF InPlace, PlaceInv
  <2>2. Values /\ Values' /\ Ordered /\ Ordered'
    BY <1>1, <1>2, <2>1 DEF OrderInv, InPlace, InStepOrder
  <2>3. CASE Start
    BY <1>2, <2>1, <2>2, <2>3, StartPlaced
  <2>4. CASE EpochStart \/ Fetch \/ KeepSampling \/ Train \/ Export \/ End \/ LastExport
    BY <1>2, <2>1, <2>2, <2>4, LoopPlaced
  <2>5. CASE SavePart
    BY <2>1, <2>2, <2>5, SavePlaced
  <2>6. CASE Crash \/ Leave
    BY <2>1, <2>2, <2>6, ExitPlaced
  <2>7. CASE UNCHANGED vars
    BY <2>1, <2>7 DEF vars, disk, memory, Placed, Fits, Loads, Through, Seen, Steps
  <2> QED
    BY <2>3, <2>4, <2>5, <2>6, <2>7 DEF Next, Work
<1> QED
  BY <1>1, <1>2 DEF PlaceInv

(* Through every crash and restart no batch is trained on twice, and the   *)
(* synchronous trainer leaves none out.                                    *)
THEOREM ConsecutiveCorrect == Spec => []Consecutive
<1>1. PlaceInv => Consecutive
  <2> SUFFICES ASSUME PlaceInv, InPlace
               PROVE  /\ \A i, j \in DOMAIN model : i < j => model[i] < model[j]
                      /\ ~cfg.asynch => \A i \in DOMAIN model : model[i] = i
    BY DEF Consecutive, InPlace
  <2>1. Values /\ Placed
    BY DEF PlaceInv, OrderInv
  <2>2. ASSUME NEW m, NEW l, Through(m, l), \A i \in DOMAIN model : i \in DOMAIN m /\ m[i] = model[i]
        PROVE  /\ \A i, j \in DOMAIN model : i < j => model[i] < model[j]
               /\ ~cfg.asynch => \A i \in DOMAIN model : model[i] = i
    <3>1. CASE cfg.asynch
      BY <2>2, <3>1 DEF Through, Increasing
    <3>2. CASE ~cfg.asynch
      <4>1. \A i \in DOMAIN model : model[i] = i
        BY <2>2, <3>2 DEF Through
      <4> QED
        BY <4>1
    <3> QED
      BY <3>1, <3>2
  <2>3. \A i \in DOMAIN model : i \in DOMAIN Seen /\ Seen[i] = model[i]
    BY <2>1, SeenBatches
  <2>4. \A i \in DOMAIN model : i \in DOMAIN Append(Seen, batch) /\ Append(Seen, batch)[i] = model[i]
    <3>1. Seen \in Batches /\ batch \in Int
      BY <2>1, SeenBatches DEF Values
    <3>2. /\ Len(Seen) \in Nat /\ DOMAIN Seen = 1 .. Len(Seen) /\ DOMAIN Append(Seen, batch) = 1 .. Len(Seen) + 1
          /\ \A i \in 1 .. Len(Seen) : Append(Seen, batch)[i] = Seen[i]
      BY <3>1, Appended
    <3> QED
      BY <2>3, <3>2
  <2>5. CASE model = <<>>
    BY <2>5
  <2>6. CASE Through(Seen, loader)
    BY <2>2, <2>3, <2>6
  <2>7. CASE Through(Append(Seen, batch), loader)
    BY <2>2, <2>4, <2>7
  <2> QED
    BY <2>1, <2>5, <2>6, <2>7 DEF Placed, Values, Running
<1> QED
  BY <1>1, PlaceInit, PlaceStep, PTL DEF Spec

-----------------------------------------------------------------------------
(* The first run, which starts from nothing: how many batches it has       *)
(* trained on, in which epoch, and what it has made of them.               *)
Past(n) == Min({n \div PerEpoch, Epochs - 1})
Refreshed(n) ==
    /\ ref = SubSeq(model, 1, Past(n) * PerEpoch)
    /\ exports = (1 .. n) \ {e * PerEpoch : e \in 1 .. Past(n)}

Nothing ==
    /\ pc = "down" /\ latest = 0 /\ Steps = {}
    /\ held = <<>> /\ ref = <<>> /\ exports = {} /\ lapses = {}

InLoop == pc \in {"fetch", "train", "export"} \/ (pc = "save" /\ epoch < Epochs)
Trained == pc = "export" \/ (pc = "save" /\ epoch < Epochs)

(* Where the loop and the loader are, until the run has paused.            *)
InEpoch ==
    /\ pc = "epoch" => Len(model) = epoch * PerEpoch
    /\ InLoop =>
          /\ iters \in 0 .. PerEpoch
          /\ Len(model) = epoch * PerEpoch + (IF pc = "train" THEN iters - 1 ELSE iters)
          /\ pc # "fetch" => iters > 0
          /\ IF ~cfg.asynch THEN loader.pos = iters
             ELSE IF ahead = 0 THEN iters = PerEpoch ELSE loader.pos = iters + 1

FirstRun ==
    /\ held = <<>> /\ ~loader.loaded
    /\ InLoop => loader.ep > 0 /\ epoch < Epochs
    /\ pc \in {"epoch", "fetch", "train"} => Len(model) = step - 1
    /\ Trained => Len(model) = step
    /\ pc = "epoch" \/ InLoop => Refreshed(step - 1)
    /\ IF "paused" \in lapses THEN Paused /\ pc # "train" /\ ~Trained ELSE InEpoch

FirstInv ==
    /\ Values
    /\ pc = "end" => epoch >= Epochs
    /\ cfg.refresh /\ cfg.samples = 1 =>
          /\ starts = 0 => Nothing
          /\ starts = 1 /\ (pc = "epoch" \/ InLoop) => FirstRun

(* Division by the length of an epoch, and the epochs past.                *)
LEMMA EpochsPast ==
    ASSUME NEW e \in Nat, NEW i \in 0 .. PerEpoch - 1
    PROVE  /\ e * PerEpoch + i \in Nat
           /\ Past(e * PerEpoch + i) = IF e <= Epochs - 1 THEN e ELSE Epochs - 1
           /\ Past(e * PerEpoch + i) \in Nat
<1>1. PerEpoch \in Nat \ {0} /\ Epochs \in Nat \ {0}
  BY TrainerCheckpointsAssumption
<1> DEFINE x == e * PerEpoch + i
           d == x \div PerEpoch
           r == x % PerEpoch
<1>2. e * PerEpoch \in Nat
  BY <1>1
<1>3. x \in Nat /\ x = PerEpoch * e + i
  BY <1>1, <1>2
<1> HIDE DEF x
<1>4. r \in 0 .. PerEpoch - 1 /\ x = PerEpoch * d + r /\ d \in Nat
  BY <1>1, <1>3, DivisionOf
<1> HIDE DEF d, r
<1>5. PerEpoch * (d - e) = i - r /\ d - e \in Int /\ i - r \in -(PerEpoch - 1) .. PerEpoch - 1
  BY <1>1, <1>3, <1>4
<1>6. d - e = 0
  <2>1. CASE d - e >= 1
    <3>1. PerEpoch * (d - e) >= PerEpoch
      BY <1>1, <1>5, <2>1
    <3> QED
      BY <1>1, <1>5, <3>1
  <2>2. CASE d - e <= -1
    <3>1. PerEpoch * (d - e) <= -PerEpoch
      BY <1>1, <1>5, <2>2
    <3> QED
      BY <1>1, <1>5, <3>1
  <2> QED
    BY <1>5, <2>1, <2>2
<1>7. d = e
  BY <1>4, <1>6
<1>8. \A a, b \in Int : Min({a, b}) = IF a <= b THEN a ELSE b
  BY DEF Min
<1>9. Past(x) = IF e <= Epochs - 1 THEN e ELSE Epochs - 1
  BY <1>1, <1>7, <1>8 DEF Past, d
<1> QED
  BY <1>1, <1>3, <1>9 DEF x

(* The first start finds nothing on disk.                                  *)
LEMMA FirstStart ==
    ASSUME Values, Nothing, Start
    PROVE  FirstRun' /\ pc' = "epoch"
<1>1. DOMAIN folders = {} /\ latest = 0 /\ lapses = {} /\ held = <<>> /\ ref = <<>> /\ exports = {}
  BY DEF Nothing, Steps
<1>2. BehindDisk(0) = {}
  BY <1>1 DEF BehindDisk
<1>3. /\ pc' = "epoch" /\ model' = <<>> /\ step' = 1 /\ epoch' = 0 /\ loader' = NewLoader /\ lapses' = {}
      /\ held' = <<>> /\ ref' = <<>> /\ exports' = {}
  BY <1>1, <1>2 DEF Start, FromScratch, disk
<1>4. PerEpoch \in Nat \ {0}
  BY TrainerCheckpointsAssumption
<1>5. Past(0) = 0
  <2>1. 0 * PerEpoch + 0 = 0 /\ 0 \in 0 .. PerEpoch - 1 /\ 0 <= Epochs - 1
    BY <1>4, TrainerCheckpointsAssumption
  <2> QED
    BY <2>1, EpochsPast
<1>6. Refreshed(0)'
  <2>1. 0 * PerEpoch = 0 /\ SubSeq(<<>>, 1, 0) = <<>> /\ (1 .. 0) = {}
    BY <1>4
  <2>2. ref' = SubSeq(model', 1, Past(0) * PerEpoch)
    BY <1>3, <1>5, <2>1
  <2>3. exports' = (1 .. 0) \ {e * PerEpoch : e \in 1 .. Past(0)}
    BY <1>3, <1>5, <2>1
  <2> QED
    BY <2>2, <2>3 DEF Refreshed, Past
<1>7. (~InLoop /\ ~Trained)' /\ Len(model') = 0 /\ epoch' * PerEpoch = 0 /\ step' - 1 = 0
  BY <1>3, <1>4 DEF InLoop, Trained
<1>8. Refreshed(step - 1)'
  BY <1>6, <1>7 DEF Refreshed, Past
<1> QED
  BY <1>3, <1>7, <1>8 DEF FirstRun, InEpoch, NewLoader

(* The steps of the loop in the first run.                                 *)
LEMMA FirstLoop ==
    ASSUME Values, Values', cfg.samples = 1, cfg.refresh, pc = "epoch" \/ InLoop, FirstRun,
           EpochStart \/ Fetch \/ KeepSampling \/ Train \/ SavePart,
           (pc = "epoch" \/ InLoop)'
    PROVE  FirstRun'
<1>1. /\ PerEpoch \in Nat \ {0} /\ Epochs \in Nat \ {0} /\ loader \in Loaders /\ ahead \in Int
      /\ step \in Nat /\ epoch \in Nat /\ iters \in Nat /\ cfg.samples = 1 /\ cfg.pause \in Int
      /\ model \in Batches
  BY TrainerCheckpointsAssumption DEF Values
<1>2. Len(model) \in Nat /\ held = <<>> /\ ~loader.loaded
  BY <1>1 DEF FirstRun, Batches
<1>3. CASE EpochStart
  <2>1. /\ pc = "epoch" /\ pc' \in {"fetch", "end"} /\ UNCHANGED <<step, epoch, held, model, ref, exports, cfg>>
        /\ Len(model) = step - 1 /\ Refreshed(step - 1)
    BY <1>3 DEF EpochStart, disk, FirstRun
  <2>2. pc' = "fetch" /\ epoch < Epochs
    BY <1>3 DEF EpochStart, InLoop
  <2>3. /\ iters' = 0 /\ UNCHANGED lapses
        /\ loader' = IF cfg.asynch THEN Taken(Restarted(loader)) ELSE Restarted(loader)
        /\ ahead' = IF cfg.asynch THEN Given(Restarted(loader)) ELSE 0
    <3>1. Iterators(loader) = {Restarted(loader)}
      BY <1>2 DEF Iterators
    <3> QED
      BY <1>3, <2>2, <3>1 DEF EpochStart
  <2>4. /\ loader'.ep > 0 /\ ~loader'.loaded
        /\ IF cfg.asynch THEN ahead' # 0 /\ loader'.pos = 1 ELSE loader'.pos = 0
    <3>1. Restarted(loader) = [ep |-> loader.ep + 1, pos |-> 0, fin |-> FALSE, loaded |-> FALSE]
      BY DEF Restarted
    <3>2. loader.ep \in Nat /\ loader.ep * PerEpoch \in Nat
      BY <1>1 DEF Loaders
    <3>3. Given(Restarted(loader)) = loader.ep * PerEpoch + 1
      BY <1>1, <3>1, <3>2 DEF Given
    <3>4. Taken(Restarted(loader)).pos = 1 /\ Taken(Restarted(loader)).ep = loader.ep + 1
          /\ ~Taken(Restarted(loader)).loaded
      BY <1>1, <3>1 DEF Taken
    <3> QED
      BY <2>3, <3>1, <3>2, <3>3, <3>4
  <2>5. Refreshed(step - 1)'
    BY <2>1 DEF Refreshed, Past
  <2>6. IF "paused" \in lapses THEN Paused' ELSE Len(model) = epoch * PerEpoch
    BY <2>1 DEF FirstRun, InEpoch, Paused
  <2>7. "paused" \notin lapses => InEpoch'
    <3> SUFFICES ASSUME Len(model) = epoch * PerEpoch PROVE InEpoch'
      BY <2>6
    <3>1. Len(model') = epoch' * PerEpoch + iters' /\ iters' \in 0 .. PerEpoch
      BY <1>1, <1>2, <2>1, <2>3
    <3>2. IF ~cfg'.asynch THEN loader'.pos = iters'
          ELSE IF ahead' = 0 THEN iters' = PerEpoch ELSE loader'.pos = iters' + 1
      BY <1>1, <2>1, <2>3, <2>4
    <3> QED
      BY <2>2, <3>1, <3>2 DEF InEpoch
  <2> QED
    BY <1>2, <2>1, <2>2, <2>3, <2>4, <2>5, <2>6, <2>7 DEF FirstRun, Trained
<1>4. CASE Fetch
  <2>1. /\ pc = "fetch" /\ UNCHANGED <<step, held, model, ref, exports, cfg>>
        /\ Len(model) = step - 1 /\ Refreshed(step - 1) /\ loader.ep > 0 /\ epoch < Epochs
    BY <1>4 DEF Fetch, disk, FirstRun, InLoop
  <2>2. /\ loader'.ep > 0 /\ ~loader'.loaded
        /\ loader' = loader \/ loader' = Taken(loader)
    BY <1>1, <1>2, <1>4, <2>1 DEF Fetch, Taken, Loaders
  <2>3. Given(loader) = 0 <=> loader.pos = PerEpoch
    <3>1. (loader.ep - 1) * PerEpoch \in Nat /\ loader.pos \in 0 .. PerEpoch
      BY <1>1, <2>1 DEF Loaders
    <3> QED
      BY <1>1, <3>1 DEF Given
  <2>4. Taken(loader).pos = IF loader.pos < PerEpoch THEN loader.pos + 1 ELSE PerEpoch
    BY <1>1 DEF Taken, Loaders
  <2>5. Refreshed(step - 1)'
    BY <2>1 DEF Refreshed, Past
  <2>6. CASE pc' = "epoch"
    <3>1. UNCHANGED lapses \/ (Paused' /\ "paused" \in lapses')
      BY <1>4, <2>1, <2>6 DEF Fetch, Paused
    <3>2. "paused" \notin lapses' => Len(model') = epoch' * PerEpoch
      <4> SUFFICES ASSUME "paused" \notin lapses' PROVE Len(model') = epoch' * PerEpoch
        OBVIOUS
      <4>1. /\ epoch' = epoch + 1 /\ lapses' = lapses
            /\ (IF cfg.asynch THEN ahead ELSE Given(loader)) = 0
        BY <1>4, <2>6 DEF Fetch
      <4>2. InEpoch
        BY <4>1 DEF FirstRun
      <4>3. iters = PerEpoch /\ Len(model) = epoch * PerEpoch + iters
        BY <1>1, <2>1, <2>3, <4>1, <4>2 DEF InEpoch, InLoop
      <4>4. (epoch + 1) * PerEpoch = epoch * PerEpoch + PerEpoch
        BY <1>1
      <4> QED
        BY <2>1, <4>1, <4>3, <4>4
    <3>3. "paused" \in lapses' => Paused'
      BY <2>1, <3>1 DEF FirstRun, Paused
    <3> QED
      BY <1>2, <2>1, <2>2, <2>5, <2>6, <3>2, <3>3 DEF FirstRun, InEpoch, InLoop, Trained
  <2>7. CASE pc' = "train"
    <3>1. /\ ~Paused /\ iters' = iters + 1 /\ UNCHANGED <<epoch, lapses>>
          /\ (IF cfg.asynch THEN ahead ELSE Given(loader)) # 0
          /\ loader' = Taken(loader)
          /\ ahead' = IF cfg.asynch THEN Given(loader) ELSE 0
      BY <1>4, <2>7 DEF Fetch
    <3>2. "paused" \notin lapses /\ InEpoch
      BY <3>1 DEF FirstRun
    <3>3. Len(model) = epoch * PerEpoch + iters /\ iters \in 0 .. PerEpoch
      BY <2>1, <3>2 DEF InEpoch, InLoop
    <3>4. IF ~cfg.asynch THEN loader.pos = iters /\ loader.pos < PerEpoch ELSE loader.pos = iters + 1
      <4>1. loader.pos \in 0 .. PerEpoch
        BY <1>1 DEF Loaders
      <4> QED
        BY <1>1, <2>1, <2>3, <3>1, <3>2, <4>1 DEF InEpoch, InLoop
    <3>5. loader.pos \in 0 .. PerEpoch
      BY <1>1 DEF Loaders
    <3>6. iters' \in 0 .. PerEpoch /\ iters' > 0 /\ Len(model') = epoch' * PerEpoch + (iters' - 1)
      BY <1>1, <2>1, <3>1, <3>3, <3>4, <3>5
    <3>7. IF ~cfg'.asynch THEN loader'.pos = iters'
          ELSE IF ahead' = 0 THEN iters' = PerEpoch ELSE loader'.pos = iters' + 1
      BY <1>1, <2>1, <2>3, <2>4, <3>1, <3>4, <3>5
    <3>8. InEpoch'
      BY <2>7, <3>6, <3>7 DEF InEpoch
    <3> QED
      BY <1>2, <2>1, <2>2, <2>5, <2>7, <3>1, <3>2, <3>8 DEF FirstRun, Trained
  <2> QED
    BY <1>4, <2>6, <2>7 DEF Fetch
<1>5. CASE KeepSampling
  BY <1>1, <1>2, <1>5 DEF KeepSampling
<1>6. CASE Train
  <2>1. /\ pc = "train" /\ pc' \in {"save", "export"}
        /\ UNCHANGED <<step, epoch, iters, loader, ahead, ref, exports, cfg, lapses>> /\ held' = <<>>
        /\ model' = Append(Seen, batch) /\ Seen = model
        /\ Len(model) = step - 1 /\ Refreshed(step - 1) /\ epoch < Epochs /\ loader.ep > 0
    BY <1>2, <1>6, SeenBatches DEF Train, disk, FirstRun, InLoop, Seen
  <2>2. "paused" \notin lapses /\ InEpoch
    BY <2>1 DEF FirstRun
  <2>3. /\ iters \in 0 .. PerEpoch /\ iters > 0 /\ Len(model) = epoch * PerEpoch + (iters - 1)
        /\ IF ~cfg.asynch THEN loader.pos = iters
           ELSE IF ahead = 0 THEN iters = PerEpoch ELSE loader.pos = iters + 1
    BY <2>1, <2>2 DEF InEpoch, InLoop
  <2>4. batch \in Int
    BY DEF Values
  <2>5. Len(model') = step /\ Len(model') = epoch * PerEpoch + iters
    <3>1. Len(model') = Len(model) + 1
      BY <1>1, <2>1, <2>4, Appended
    <3>2. epoch * PerEpoch \in Nat
      BY <1>1
    <3> QED
      BY <1>1, <1>2, <2>1, <2>3, <3>1, <3>2
  <2>6. Refreshed(step - 1)'
    <3> DEFINE n == Past(step - 1) * PerEpoch
    <3>1. n \in Nat /\ n <= Len(model)
      <4>1. Past(step - 1) = epoch
        <5>1. iters - 1 \in 0 .. PerEpoch - 1 /\ step - 1 = epoch * PerEpoch + (iters - 1) /\ epoch <= Epochs - 1
          BY <1>1, <2>1, <2>3
        <5> QED
          BY <1>1, <5>1, EpochsPast
      <4>2. epoch * PerEpoch \in Nat
        BY <1>1
      <4> QED
        BY <1>1, <2>3, <4>1, <4>2
    <3> HIDE DEF n
    <3>2. \A i \in 1 .. n : model'[i] = model[i]
      BY <1>1, <2>1, <2>4, <3>1, Appended
    <3>3. SubSeq(model', 1, n) = SubSeq(model, 1, n)
      BY <3>1, <3>2
    <3> QED
      BY <2>1, <3>3 DEF Refreshed, Past, n
  <2>7. InEpoch'
    BY <2>1, <2>3, <2>5 DEF InEpoch
  <2> QED
    BY <1>2, <2>1, <2>2, <2>5, <2>6, <2>7 DEF FirstRun, InLoop, Trained
<1>7. CASE SavePart
  <2>1. /\ pc = "save" /\ UNCHANGED <<cfg, step, epoch, iters, loader, ahead, held, model, ref, exports, lapses>>
        /\ pc' \in {"save", "export", "last"} /\ (pc' = "export" => epoch < Epochs)
    BY <1>7 DEF SavePart, memory
  <2>2. InLoop /\ Trained /\ InLoop' /\ Trained' /\ "paused" \notin lapses
    BY <2>1 DEF InLoop, Trained, FirstRun
  <2>3. Refreshed(step - 1)'
    BY <2>1, <2>2 DEF Refreshed, Past, FirstRun
  <2>4. InEpoch'
    BY <2>1, <2>2 DEF InEpoch, FirstRun
  <2> QED
    BY <2>1, <2>2, <2>3, <2>4 DEF FirstRun
<1> QED
  BY <1>3, <1>4, <1>5, <1>6, <1>7

(* The export of a step of the first run, and the refresh of the reference *)
(* model at the last batch of an epoch.                                    *)
LEMMA FirstExport ==
    ASSUME Values, Values', cfg.samples = 1, cfg.refresh, FirstRun, Export
    PROVE  FirstRun'
<1>1. /\ PerEpoch \in Nat \ {0} /\ Epochs \in Nat \ {0}
      /\ step \in Nat /\ epoch \in Nat /\ iters \in Nat /\ model \in Batches
  BY TrainerCheckpointsAssumption DEF Values
<1>2. /\ pc = "export" /\ pc' = "fetch" /\ step' = step + 1
      /\ UNCHANGED <<cfg, epoch, iters, loader, ahead, held, model, lapses>>
      /\ exports' = IF RefreshDue THEN exports \ {step} ELSE exports \cup {step}
      /\ ref' = IF RefreshDue THEN model ELSE ref
  BY DEF Export
<1>3. /\ "paused" \notin lapses /\ InEpoch /\ Len(model) = step /\ Refreshed(step - 1)
      /\ held = <<>> /\ ~loader.loaded /\ loader.ep > 0 /\ epoch < Epochs
  BY <1>2 DEF FirstRun, Trained, InLoop
<1>4. /\ iters \in 1 .. PerEpoch /\ step = epoch * PerEpoch + iters
      /\ IF ~cfg.asynch THEN loader.pos = iters
         ELSE IF ahead = 0 THEN iters = PerEpoch ELSE loader.pos = iters + 1
  BY <1>2, <1>3 DEF InEpoch, InLoop
<1>5. epoch * PerEpoch \in Nat /\ (epoch + 1) * PerEpoch = epoch * PerEpoch + PerEpoch
  BY <1>1
<1>6. Past(step - 1) = epoch
  <2>1. iters - 1 \in 0 .. PerEpoch - 1 /\ step - 1 = epoch * PerEpoch + (iters - 1) /\ epoch <= Epochs - 1
    BY <1>1, <1>3, <1>4, <1>5
  <2> QED
    BY <1>1, <2>1, EpochsPast
<1>7. ref = SubSeq(model, 1, epoch * PerEpoch) /\ exports = (1 .. step - 1) \ {e * PerEpoch : e \in 1 .. epoch}
  BY <1>3, <1>6 DEF Refreshed
<1>8. ref' = SubSeq(model, 1, Past(step) * PerEpoch) /\ exports' = (1 .. step) \ {e * PerEpoch : e \in 1 .. Past(step)}
  <2>1. CASE RefreshDue
    <3>1. iters = PerEpoch /\ epoch + 1 <= Epochs - 1
      BY <1>1, <1>3, <2>1 DEF RefreshDue
    <3>2. step = (epoch + 1) * PerEpoch + 0 /\ 0 \in 0 .. PerEpoch - 1
      BY <1>1, <1>4, <1>5, <3>1
    <3>3. Past(step) = epoch + 1
      BY <1>1, <3>1, <3>2, EpochsPast
    <3>4. Past(step) * PerEpoch = Len(model)
      BY <1>3, <1>4, <1>5, <3>1, <3>3
    <3>5. SubSeq(model, 1, Len(model)) = model
      BY <1>1 DEF Batches
    <3>6. {e * PerEpoch : e \in 1 .. epoch + 1} = {e * PerEpoch : e \in 1 .. epoch} \cup {step}
      <4>1. 1 .. epoch + 1 = (1 .. epoch) \cup {epoch + 1}
        BY <1>1
      <4>2. step = (epoch + 1) * PerEpoch
        BY <1>1, <1>4, <1>5, <3>1
      <4> QED
        BY <4>1, <4>2
    <3>7. exports' = exports \ {step} /\ 1 .. step = (1 .. step - 1) \cup {step}
      BY <1>1, <1>2, <1>4, <1>5, <2>1
    <3>8. exports' = (1 .. step) \ {e * PerEpoch : e \in 1 .. epoch + 1}
      BY <1>7, <3>6, <3>7
    <3> QED
      BY <1>2, <2>1, <3>3, <3>4, <3>5, <3>8
  <2>2. CASE ~RefreshDue
    <3>1. Past(step) = epoch
      <4>1. CASE iters < PerEpoch
        <5>1. iters \in 0 .. PerEpoch - 1 /\ epoch <= Epochs - 1
          BY <1>1, <1>3, <1>4, <4>1
        <5> QED
          BY <1>1, <1>4, <5>1, EpochsPast
      <4>2. CASE iters = PerEpoch
        <5>1. epoch = Epochs - 1
          BY <2>2, <4>2 DEF RefreshDue
        <5>2. step = (epoch + 1) * PerEpoch + 0 /\ 0 \in 0 .. PerEpoch - 1 /\ epoch + 1 \in Nat
              /\ ~(epoch + 1 <= Epochs - 1)
          BY <1>1, <1>4, <1>5, <4>2, <5>1
        <5>3. Past((epoch + 1) * PerEpoch + 0) = Epochs - 1
          BY <5>2, EpochsPast
        <5> QED
          BY <5>1, <5>2, <5>3
      <4> QED
        BY <1>1, <1>4, <4>1, <4>2
    <3>2. step \notin {e * PerEpoch : e \in 1 .. epoch}
      <4> SUFFICES ASSUME NEW e \in 1 .. epoch, step = e * PerEpoch PROVE FALSE
        OBVIOUS
      <4>1. e * PerEpoch + (epoch - e) * PerEpoch = epoch * PerEpoch /\ (epoch - e) * PerEpoch \in Nat
        BY <1>1
      <4> QED
        BY <1>1, <1>4, <1>5, <4>1
    <3>3. exports' = exports \cup {step} /\ ref' = ref /\ 1 .. step = (1 .. step - 1) \cup {step}
      BY <1>1, <1>2, <1>4, <1>5, <2>2
    <3>4. exports' = (1 .. step) \ {e * PerEpoch : e \in 1 .. epoch}
      BY <1>7, <3>2, <3>3
    <3> QED
      BY <1>7, <3>1, <3>3, <3>4
  <2> QED
    BY <2>1, <2>2
<1>9. Refreshed(step - 1)'
  <2>1. step' - 1 = step
    BY <1>1, <1>2
  <2> QED
    BY <1>2, <1>8, <2>1 DEF Refreshed, Past
<1>10. InEpoch'
  <2>1. Len(model') = epoch' * PerEpoch + iters' /\ iters' \in 0 .. PerEpoch
    BY <1>1, <1>2, <1>3, <1>4
  <2>2. IF ~cfg'.asynch THEN loader'.pos = iters'
        ELSE IF ahead' = 0 THEN iters' = PerEpoch ELSE loader'.pos = iters' + 1
    BY <1>2, <1>4
  <2> QED
    BY <1>2, <2>1, <2>2 DEF InEpoch
<1>11. step' - 1 = step
  BY <1>1, <1>2
<1> QED
  BY <1>2, <1>3, <1>9, <1>10, <1>11 DEF FirstRun, Trained

(* The first run has nothing behind it at first.                           *)
LEMMA FirstInit == Init => FirstInv
<1> SUFFICES ASSUME Init PROVE FirstInv
  OBVIOUS
<1>1. starts = 0 /\ Nothing /\ pc = "down"
  BY DEF Init, Nothing, Steps
<1> QED
  BY <1>1, ValuesInit DEF FirstInv

(* Each step of the first run keeps count.                                 *)
LEMMA FirstStep == FirstInv /\ [Next]_vars => FirstInv'
<1> SUFFICES ASSUME FirstInv, [Next]_vars PROVE FirstInv'
  OBVIOUS
<1>1. Values
  BY DEF FirstInv
<1>2. Values'
  <2>1. CASE UNCHANGED vars
    BY <1>1, <2>1 DEF vars, disk, memory, Values, Steps, HasNewest
  <2> QED
    BY <1>1, <2>1, WorkValues, ExitValues DEF Next
<1>3. CASE UNCHANGED vars
  <2>1. UNCHANGED <<Steps, Nothing, InLoop, Trained, InEpoch, Paused, FirstRun>>
    BY <1>3 DEF vars, disk, memory, Steps, Nothing, InLoop, Trained, InEpoch, Paused, FirstRun,
                Refreshed, Past
  <2> QED
    BY <1>2, <1>3, <2>1 DEF FirstInv, vars, memory
<1>4. CASE Start
  <2>1. cfg' = cfg /\ pc = "down" /\ starts' = starts + 1 /\ starts \in Nat
    BY <1>1, <1>4 DEF Start, Values
  <2>2. cfg.refresh /\ cfg.samples = 1 /\ starts' = 1 => FirstRun'
    BY <1>1, <1>4, <2>1, FirstStart DEF FirstInv
  <2>3. starts' # 0 /\ pc' # "end"
    BY <1>4, <2>1 DEF Start, FromScratch, LoadFrom
  <2> QED
    BY <1>2, <2>1, <2>2, <2>3 DEF FirstInv
<1>5. CASE Crash \/ Leave
  <2>1. cfg' = cfg /\ pc # "down" /\ starts' = starts /\ pc' = "down"
    BY <1>5 DEF Crash, Leave, Exit
  <2>2. cfg.refresh /\ cfg.samples = 1 => starts # 0
    BY <2>1 DEF FirstInv, Nothing
  <2>3. ~InLoop' /\ pc' # "epoch"
    BY <2>1 DEF InLoop
  <2> QED
    BY <1>2, <2>1, <2>2, <2>3 DEF FirstInv
<1>6. CASE EpochStart \/ Fetch \/ KeepSampling \/ Train \/ SavePart \/ Export \/ End \/ LastExport
  <2>1. cfg' = cfg /\ pc # "down" /\ starts' = starts
    BY <1>6 DEF EpochStart, Fetch, KeepSampling, Train, SavePart, Export, End, LastExport
  <2>2. cfg.refresh /\ cfg.samples = 1 => starts # 0
    BY <2>1 DEF FirstInv, Nothing
  <2>3. ASSUME cfg.refresh, cfg.samples = 1, starts = 1, (pc = "epoch" \/ InLoop)'
        PROVE  FirstRun'
    <3>1. CASE EpochStart \/ Fetch \/ KeepSampling \/ Train \/ SavePart
      <4>1. pc = "epoch" \/ InLoop
        <5>1. pc \in {"epoch", "fetch", "train"} \/ SavePart
          BY <3>1 DEF EpochStart, Fetch, KeepSampling, Train
        <5>2. SavePart => pc = "save" /\ epoch' = epoch /\ pc' \in {"save", "export", "last"}
                          /\ (pc' = "export" => epoch < Epochs)
          BY DEF SavePart, memory
        <5> QED
          BY <2>3, <5>1, <5>2 DEF InLoop
      <4>2. FirstRun
        BY <2>3, <4>1 DEF FirstInv
      <4> QED
        BY <1>1, <1>2, <2>3, <3>1, <4>1, <4>2, FirstLoop
    <3>2. CASE Export
      <4>1. FirstRun
        BY <2>3, <3>2 DEF FirstInv, Export, InLoop
      <4> QED
        BY <1>1, <1>2, <2>3, <3>2, <4>1, FirstExport
    <3>3. CASE End \/ LastExport
      <4>1. pc = "end" /\ pc' = "save" /\ epoch' = epoch /\ epoch < Epochs
        BY <2>3, <3>3 DEF End, LastExport, InLoop, memory
      <4>2. epoch >= Epochs /\ epoch \in Nat /\ Epochs \in Nat
        BY <1>1, <4>1, TrainerCheckpointsAssumption DEF FirstInv, Values
      <4> QED
        BY <4>1, <4>2
    <3> QED
      BY <1>6, <3>1, <3>2, <3>3
  <2>4. pc' = "end" => epoch' >= Epochs
    <3> SUFFICES ASSUME pc' = "end" PROVE epoch' >= Epochs
      OBVIOUS
    <3>1. EpochStart /\ epoch' = epoch /\ ~(epoch < Epochs)
      BY <1>6 DEF EpochStart, Fetch, KeepSampling, Train, SavePart, Export, End, LastExport
    <3> QED
      BY <1>1, <3>1, TrainerCheckpointsAssumption DEF Values
  <2> QED
    BY <1>2, <2>1, <2>2, <2>3, <2>4 DEF FirstInv
<1> QED
  BY <1>3, <1>4, <1>5, <1>6 DEF Next, Work

(* In a run that has not been restarted the reference model is the policy  *)
(* of the end of the last epoch, and only the exports of a refresh are     *)
(* gone.                                                                   *)
THEOREM RefreshedByEpochCorrect == Spec => []RefreshedByEpoch
<1>1. FirstInv => RefreshedByEpoch
  <2> SUFFICES ASSUME FirstInv, cfg.refresh, starts = 1, cfg.samples = 1, pc = "fetch"
               PROVE  /\ ref = SubSeq(model, 1, Min({Len(model) \div PerEpoch, Epochs - 1}) * PerEpoch)
                      /\ exports = (1 .. step - 1)
                                   \ {e * PerEpoch : e \in 1 .. Min({Len(model) \div PerEpoch, Epochs - 1})}
    BY DEF RefreshedByEpoch
  <2>1. FirstRun
    BY DEF FirstInv, InLoop
  <2>2. Len(model) = step - 1 /\ Refreshed(step - 1)
    BY <2>1 DEF FirstRun, InLoop
  <2> QED
    BY <2>2 DEF Refreshed, Past
<1> QED
  BY <1>1, FirstInit, FirstStep, PTL DEF Spec
=============================================================================
