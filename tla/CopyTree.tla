------------------------------ MODULE CopyTree ------------------------------
(***************************************************************************)
(* copytree_via_tar with cached=True, as SandboxDeployment.__init__ calls  *)
(* it to put the tool bundles into every new sandbox: all workers share    *)
(* one uncompressed archive under /tmp, named after the source directory,  *)
(* which is packed when it is missing and never removed, not even when the *)
(* packing raises or its worker dies.                                      *)
(***************************************************************************)
EXTENDS Integers, FiniteSets, SharedFile

CONSTANTS
  Workers,
  Versions,    \* versions of the tool directory
  MaxCopies,   \* bound: copies per worker
  MaxEdits     \* bound: changes of the tool directory

ASSUME CopyTreeAssumption ==
  /\ Versions \intersect {"none", "torn", "short"} = {}
  /\ MaxCopies \in Nat
  /\ MaxEdits \in Nat

VARIABLES
  pc,       \* where each worker is in copytree_via_tar
  copies,   \* calls each worker has begun
  dst,      \* what its sandbox got: "none", "short" or a version of the tools
  src,      \* the tool directory
  edits,    \* changes made to it
  packed,   \* version each worker found when it began to pack
  mixture,  \* versions packed into the archive since a lone writer opened it,
            \* and "torn" if one of these packings was cut off
  tar       \* the archive under /tmp

vars == <<pc, copies, dst, src, edits, packed, mixture, tar>>

Positions == {"idle", "create", "packing", "unpack", "extract", "done"}

TypeOK ==
  /\ pc \in [Workers -> Positions]
  /\ copies \in [Workers -> 0 .. MaxCopies]
  /\ dst \in [Workers -> {"none", "short"} \union Versions]
  /\ src \in Versions
  /\ edits \in 0 .. MaxEdits
  /\ packed \in [Workers -> Versions]
  /\ mixture \in SUBSET (Versions \union {"torn"})
  /\ tar \in FileStates(Workers, Versions)

Init ==
  /\ src \in Versions
  /\ pc = [w \in Workers |-> "idle"]
  /\ copies = [w \in Workers |-> 0]
  /\ dst = [w \in Workers |-> "none"]
  /\ edits = 0
  /\ packed = [w \in Workers |-> src]
  /\ mixture = {}
  /\ tar = Absent

Goto(w, from, to) == pc[w] = from /\ pc' = [pc EXCEPT ![w] = to]

\* Mutant of Begin: the archive is packed anew although it is there.
BeginAnew(w) ==
  /\ copies[w] < MaxCopies
  /\ Goto(w, "idle", "create")
  /\ copies' = [copies EXCEPT ![w] = @ + 1]
  /\ dst' = [dst EXCEPT ![w] = "none"]
  /\ UNCHANGED <<src, edits, packed, mixture, tar>>

\* A new sandbox: look for the archive.
Begin(w) ==
  /\ copies[w] < MaxCopies
  /\ Goto(w, "idle", IF tar.there THEN "extract" ELSE "create")
  /\ copies' = [copies EXCEPT ![w] = @ + 1]
  /\ dst' = [dst EXCEPT ![w] = "none"]
  /\ UNCHANGED <<src, edits, packed, mixture, tar>>

\* Create the file empty, then open it again to pack the tree: two truncations
\* in a row, between which it is just as unreadable.
Create(w) ==
  /\ Goto(w, "create", "packing")
  /\ tar' = Opened(tar, w)
  /\ packed' = [packed EXCEPT ![w] = src]
  /\ mixture' = (IF tar.writers = {} THEN {} ELSE mixture) \union {src}
  /\ UNCHANGED <<copies, dst, src, edits>>

\* Mutant of EndPack: the archive is read back before it is closed.
EndPackUnclosed(w) ==
  /\ Goto(w, "packing", "unpack")
  /\ \E f \in Closed(tar, w, "short") : tar' = f
  /\ UNCHANGED <<copies, dst, src, edits, packed, mixture>>

\* Archives of the same tree are the same bytes, so writers of one version
\* complete each other.  Writers of different versions do not, nor does one
\* fill the gap of a cut one that truncated the file under it.
EndPack(w) ==
  /\ Goto(w, "packing", "unpack")
  /\ LET mingled == tar.mixed /\ mixture # {src}
         own == IF packed[w] = src THEN src ELSE "short"
     IN  \E d \in IF mingled THEN mixture \union {"short"} ELSE {own} :
           \E f \in Closed([tar EXCEPT !.mixed = mingled], w, d) : tar' = f
  /\ UNCHANGED <<copies, dst, src, edits, packed, mixture>>

\* Packing raises, or the worker dies in it: the handle is closed within a
\* member, between two, or before the end mark, which nobody misses.  The
\* finally clause keeps the file.
Cut(w) ==
  /\ Goto(w, "packing", "idle")
  /\ \E d \in {"torn", "short"} \union mixture : \E f \in Closed(tar, w, d) : tar' = f
  /\ mixture' = mixture \union {"torn"}
  /\ UNCHANGED <<copies, dst, src, edits, packed>>

\* Anything else in the call raises, or the worker dies: no sandbox.
Fail(w) ==
  /\ pc[w] \in {"create", "unpack", "extract"}
  /\ pc' = [pc EXCEPT ![w] = "idle"]
  /\ UNCHANGED <<copies, dst, src, edits, packed, mixture, tar>>

\* Extract the archive, found ("extract") or just packed ("unpack").  One that
\* is being written raises, or, cut between two members, comes out short.
Extract(w) ==
  /\ pc[w] \in {"extract", "unpack"}
  /\ \/ /\ pc' = [pc EXCEPT ![w] = "done"]
        /\ dst' = [dst EXCEPT ![w] = IF tar.data \in Versions THEN tar.data ELSE "short"]
     \/ /\ tar.data = "torn"
        /\ pc' = [pc EXCEPT ![w] = "idle"]
        /\ UNCHANGED dst
  /\ UNCHANGED <<copies, src, edits, packed, mixture, tar>>

\* Mutant of Done: the finally clause removes the archive, as without cached.
DoneRemoves(w) ==
  /\ Goto(w, "done", "idle")
  /\ tar' = Absent
  /\ UNCHANGED <<copies, dst, src, edits, packed, mixture>>

\* The sandbox lives and goes; its archive stays, because cached is True.
Done(w) ==
  /\ Goto(w, "done", "idle")
  /\ UNCHANGED <<copies, dst, src, edits, packed, mixture, tar>>

\* Somebody changes a tool bundle on the host.
Edit ==
  /\ edits < MaxEdits
  /\ edits' = edits + 1
  /\ src' \in Versions
  /\ UNCHANGED <<pc, copies, dst, packed, mixture, tar>>

Step(w) == Create(w) \/ EndPack(w) \/ Extract(w) \/ Done(w)

Next == (\E w \in Workers : Begin(w) \/ Step(w) \/ Cut(w) \/ Fail(w)) \/ Edit

Spec == Init /\ [][Next]_vars

\* Copies that have begun run to their end, whole or not.
FairSpec == Spec /\ \A w \in Workers : WF_vars(Step(w))

-----------------------------------------------------------------------------

\* The archive is there and no call that found it missing is still under way.
AtRest ==
  /\ tar.there
  /\ \A w \in Workers : pc[w] \notin {"create", "packing"}

Whole == tar.data \in Versions

\* Some packing since the archive was opened by a lone writer was cut off.
CutOff == "torn" \in mixture

\* An archive at rest is there for good, as it is: later calls find it, so none
\* truncates it under the readers, and none repacks one that was cut off.
AtRestForGood == [][AtRest => AtRest' /\ tar' = tar]_vars

\* Calls that overlapped at the start do not spoil the archive: if the tools
\* are not edited, it comes to rest once it is there, whole unless a packing
\* was cut off.
EventuallySettled ==
  [](edits = 0) => (tar.there ~> [](AtRest /\ (Whole \/ CutOff)))

\* The worker that packed the archive alone, or last, gets all it packed.
\* Tools are missing only after an archive that another worker was still
\* writing, or whose packing was cut off.
ShortOnlyExplained ==
  [][\A w \in Workers :
       edits = 0 /\ dst'[w] = "short" /\ dst[w] # "short"
         => tar.writers # {} \/ CutOff]_vars

=============================================================================
