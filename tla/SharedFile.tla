----------------------------- MODULE SharedFile -----------------------------
(***************************************************************************)
(* An archive at a fixed path that several workers write in place and read *)
(* without a lock, as tarfile.open(path, "w...") and extractall do.        *)
(*                                                                         *)
(* data tells how an extraction of the file goes:                          *)
(*   "none"   there is no file                                             *)
(*   "torn"   unreadable: being written, cut off, or two writers mixed     *)
(*   "short"  readable, but members are missing: the writer raised between *)
(*            two members, so the file was closed without an end mark, and *)
(*            tarfile takes the missing end mark for the end               *)
(*   other    readable, with the content its writer packed                 *)
(***************************************************************************)
EXTENDS FiniteSets

Absent == [there |-> FALSE, writers |-> {}, mixed |-> FALSE, data |-> "none"]

Holding(content) ==
  [there |-> TRUE, writers |-> {}, mixed |-> FALSE, data |-> content]

FileStates(Workers, Contents) ==
  [there : BOOLEAN, writers : SUBSET Workers, mixed : BOOLEAN,
   data : {"none", "torn", "short"} \union Contents]

\* open(path, "w"): create or truncate; handles already open write on into the
\* same file.
Opened(f, w) ==
  [there |-> TRUE, writers |-> f.writers \union {w}, mixed |-> f.writers # {},
   data |-> "torn"]

\* What the path may hold after w closes its handle with content packed.  If
\* the path was unlinked meanwhile, w wrote to a file nobody can reach.
Closed(f, w, content) ==
  LET left == f.writers \ {w}
  IN  IF w \notin f.writers THEN {f}
      ELSE IF left # {} THEN {[f EXCEPT !.writers = left]}
      ELSE {Holding(d) : d \in {content} \union (IF f.mixed THEN {"torn"} ELSE {})}

\* An exception while packing: the handle is closed with no end mark, between
\* two members or within one.
Abandoned(f, w) == Closed(f, w, "short") \union Closed(f, w, "torn")

\* The process dies: whoever was writing leaves a file cut off.
Killed(f) == IF f.writers = {} THEN f ELSE Holding("torn")

Readable(f) == f.there /\ f.data # "torn"
=============================================================================
