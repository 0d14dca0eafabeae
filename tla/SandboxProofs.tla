---------------------------- MODULE SandboxProofs ----------------------------
(***************************************************************************)
(* What a sandbox and its shell session keep, for any number of tries,     *)
(* calls, interrupts and hard resets.                                      *)
(*                                                                         *)
(* The life of the sandbox (SandboxEnv).  The invariant says where the     *)
(* session can be anything but open: only while the repository is being    *)
(* reset can a command have closed the environment without its caller      *)
(* having raised, because _reset_repository alone catches what communicate *)
(* raises.                                                                 *)
(*                                                                         *)
(* Its shell session (BashSession).  Prompts, outputs and exit codes share *)
(* one stream, so a property of what a call returns must say what the      *)
(* stream, the running line and the unread lines still have to come:       *)
(*   StepInv   what each wait of a session in step has before it;          *)
(*   QueueInv  the lines to come are those of later and later calls, and   *)
(*             a status line has a command before it to ask about;         *)
(*   CodesInv  each exit code is of an earlier command than all to come;   *)
(*   OwnInv    until a caller is warned, what has been printed and is      *)
(*             still to come is the present call's own.                    *)
(***************************************************************************)
EXTENDS SandboxEnv, BashSession, SequenceTheorems, WellFoundedInduction, TLAPS

-----------------------------------------------------------------------------
(* The life of a sandbox.                                                  *)

(* Between the creation of the session and the end of the caller's use. *)
Running == pc \in {"variables", "copy", "fetch", "commit", "build", "ready",
                   "shell", "patch"}
Over == pc \in {"done", "collected"}

OpenInv ==
    /\ Running => session = "open"
    /\ pc = "reset" => session \in {"open", "closed"}
    /\ pc = "start" => session \in {"none", "closed"}
    /\ pc = "config" => session = "none"
    /\ Over => session \in {"none", "closed"}
    /\ session = "open" => root = "made"

TreeInv ==
    /\ pc \in {"commit", "build", "shell"} => tree = "clean"
    /\ pc \in {"ready", "patch"} => tree \in {"clean", "work"}

RootInv ==
    /\ lapse = "constructor" => Over
    /\ Over /\ lapse = "no" => root = "removed"

Inv == TypeOK /\ OpenInv /\ TreeInv /\ RootInv

-----------------------------------------------------------------------------
(* At first there is neither a directory nor a session. *)
LEMMA InvInit == Init => Inv
  BY SandboxEnvAssumption
  DEF Init, Inv, TypeOK, OpenInv, TreeInv, RootInv, Running, Over

(* Every step of the caller keeps the invariant, whatever fails in it. *)
LEMMA InvNext == Inv /\ [Next]_vars => Inv'
  <1> SUFFICES ASSUME Inv, [Next]_vars PROVE Inv'
    OBVIOUS
  <1> USE SandboxEnvAssumption
      DEF Inv, TypeOK, OpenInv, TreeInv, RootInv, Running, Over, bounds
  <1>1. CASE FromConfig
    BY <1>1 DEF FromConfig
  <1>2. CASE CreateSession
    BY <1>2 DEF CreateSession, Registered, Raise
  <1>3. CASE SetVariables
    BY <1>3 DEF SetVariables, Fails, Keep, Stop, RegisteredClosed, Raise
  <1>4. CASE CopyCached
    BY <1>4 DEF CopyCached, Raise
  <1>5. CASE CloneInit
    BY <1>5 DEF CloneInit, Command, Raise
  <1>6. CASE Fetch
    BY <1>6 DEF Fetch
  <1>7. CASE ResetWorks
    BY <1>7 DEF ResetWorks
  <1>8. CASE ResetFails
    BY <1>8 DEF ResetFails, Fails, Keep, Stop, RegisteredClosed, Counted,
                TriedOften, GiveUp
  <1>9. CASE Commit
    BY <1>9 DEF Commit, Fails, Keep, Stop, RegisteredClosed, Raise
  <1>10. CASE PostInit
    BY <1>10 DEF PostInit, Command, Raise
  <1>11. CASE PreCheck
    BY <1>11 DEF PreCheck, Raise
  <1>12. CASE ResetShell
    BY <1>12 DEF ResetShell, Command, Raise
  <1>13. CASE Use
    BY <1>13 DEF Use
  <1>14. CASE UseOrRaise
    BY <1>14 DEF UseOrRaise, Keep, Stop, RegisteredClosed, Raise
  <1>15. CASE GetPatch
    BY <1>15 DEF GetPatch
  <1>16. CASE Patch
    BY <1>16 DEF Patch
  <1>17. CASE Close
    BY <1>17 DEF Close, Stop, RegisteredClosed
  <1>18. CASE HardReset
    BY <1>18 DEF HardReset, Stop, RegisteredClosed
  <1>19. CASE Collect
    BY <1>19 DEF Collect, Keep, Stop, RegisteredClosed
  <1>20. CASE UNCHANGED vars
    BY <1>20 DEF vars
  <1>q. QED
    BY <1>1, <1>2, <1>3, <1>4, <1>5, <1>6, <1>7, <1>8, <1>9, <1>10, <1>11,
       <1>12, <1>13, <1>14, <1>15, <1>16, <1>17, <1>18, <1>19, <1>20 DEF Next

(* The invariant holds in every state.                                     *)
LEMMA Invariance == Spec => []Inv
  BY InvInit, InvNext, PTL DEF Spec

-----------------------------------------------------------------------------
(* The counters of the retry loops stay under their bounds. *)
THEOREM TypeCorrect == Spec => []TypeOK
  BY Invariance, PTL DEF Inv

(* An agent's sandbox is whole: see ReadyWhole. *)
THEOREM ReadyWholeCorrect == Spec => []ReadyWhole
  <1>1. Inv => ReadyWhole
    BY DEF Inv, OpenInv, TreeInv, Running, ReadyWhole
  <1>q. QED
    BY <1>1, Invariance, PTL

(* The end of the caller leaves nothing behind: see NothingLeft. *)
THEOREM NothingLeftCorrect == Spec => []NothingLeft
  <1>1. Inv => NothingLeft
    BY DEF Inv, OpenInv, RootInv, Over, NothingLeft
  <1>q. QED
    BY <1>1, Invariance, PTL

(* A closed session is never opened or used again: see ClosedForGood. *)
THEOREM ClosedForGoodCorrect == Spec => ClosedForGood
  <1> DEFINE Stays == session = "closed" =>
                         session' = "closed" /\ pc' \notin {"ready", "variables"}
  <1>1. Inv /\ [Next]_vars => [Stays]_vars
    <2> SUFFICES ASSUME Inv, Next, session = "closed" PROVE Stays
      OBVIOUS
    <2>1. pc \in {"start", "reset", "raised", "done", "collected"}
      BY DEF Inv, TypeOK, OpenInv, Running
    <2>2. CASE pc = "start"
      BY <2>2 DEF Next, FromConfig, CreateSession, SetVariables, CopyCached,
         CloneInit, Fetch, ResetWorks, ResetFails, Commit, PostInit, PreCheck,
         ResetShell, Use, UseOrRaise, GetPatch, Patch, Close, HardReset, Collect,
         Registered, Raise
    <2>3. CASE pc = "reset"
      BY <2>3 DEF Next, FromConfig, CreateSession, SetVariables, CopyCached,
         CloneInit, Fetch, ResetWorks, ResetFails, Commit, PostInit, PreCheck,
         ResetShell, Use, UseOrRaise, GetPatch, Patch, Close, HardReset, Collect,
         Fails, Keep, GiveUp
    <2>4. CASE pc \in {"raised", "done", "collected"}
      BY <2>4 DEF Next, FromConfig, CreateSession, SetVariables, CopyCached,
         CloneInit, Fetch, ResetWorks, ResetFails, Commit, PostInit, PreCheck,
         ResetShell, Use, UseOrRaise, GetPatch, Patch, Close, HardReset, Collect,
         Keep, Stop, RegisteredClosed
    <2>q. QED
      BY <2>1, <2>2, <2>3, <2>4
  <1>q. QED
    BY <1>1, Invariance, PTL DEF Spec, ClosedForGood

-----------------------------------------------------------------------------
(* The stream in step: what each wait of the session still has to come.    *)
Seen(kind) == \E i \in DOMAIN chan : chan[i].kind = kind
ReadsCodes == Seen("code") \/ Seen("torn")

(* One prompt is owed: bash has yet to print it, or it is the last mark.   *)
OneOwed ==
  /\ typed = <<>>
  /\ \/ shell.at # "prompt" /\ ~ Seen("prompt")
     \/ /\ shell = AtPrompt /\ chan # <<>> /\ chan[Len(chan)] = Prompt
        /\ \A i \in 1 .. (Len(chan) - 1) : chan[i].kind # "prompt"

(* Or the line that will print it waits to be read.                        *)
OneToCome(text) ==
  /\ shell.at = "running" => shell.line.text = text
  /\ \/ Len(typed) = 1 /\ typed[1].text = text /\ shell = AtPrompt /\ ~ Seen("prompt")
     \/ OneOwed

(* The unique string, if it comes, is the last that the command prints.    *)
UniqueToCome ==
  /\ \A i \in DOMAIN typed : /\ typed[i].text \in {"body", "unique"}
                             /\ typed[i].text = "unique" => i = Len(typed)
  /\ shell.at = "running" => /\ shell.line.text \in {"body", "unique"}
                             /\ shell.line.text = "unique" => typed = <<>>
  /\ Seen("unique") => typed = <<>> /\ shell.at # "running"

(* The exit code is followed by one prompt.                                *)
StatusToCome ==
  \/ /\ typed # <<>> /\ typed[Len(typed)].text = "status" /\ ~ ReadsCodes
     /\ \A i \in 1 .. (Len(typed) - 1) : typed[i].text = "blank"
     /\ shell.at = "running" => shell.line.text = "blank"
  \/ /\ typed = <<>> /\ shell.at = "running" /\ shell.line.text = "status" /\ ~ ReadsCodes
  \/ /\ typed = <<>> /\ chan # <<>> /\ ~ Seen("torn")
     /\ \/ /\ shell.at = "ending" /\ chan[Len(chan)].kind = "code"
           /\ \A i \in 1 .. (Len(chan) - 1) : chan[i].kind # "code"
        \/ /\ shell = AtPrompt /\ Len(chan) > 1
           /\ chan[Len(chan)] = Prompt /\ chan[Len(chan) - 1].kind = "code"
           /\ \A i \in 1 .. (Len(chan) - 2) : chan[i].kind # "code"

StepInv ==
  /\ slip = "none" =>
       /\ phase \notin {"stop", "kill"}
       /\ phase = "idle" => Quiet
       /\ phase = "body" => ~ ReadsCodes /\ IF mode.fallback THEN UniqueToCome ELSE OneToCome("body")
       /\ phase = "status" => StatusToCome
       /\ phase \in {"prompt", "intr"} => OneOwed
  /\ slip = "timeout" =>
       /\ phase \in {"idle", "intr", "stop", "kill"}
       /\ phase \in {"intr", "stop"} => OneOwed
       /\ phase = "kill" => OneToCome("kill")

-----------------------------------------------------------------------------
(* Exit codes in order.                                                    *)
Coming == IF shell.at = "running" THEN StatusAfter(shell.line) ELSE last
Resets == {"status", "kill"}

(* A line typed at j would find the exit code of a command.                *)
Covered(j) ==
  \/ \E i \in 1 .. (j - 1) : /\ typed[i].text = "body"
                             /\ \A k \in (i + 1) .. (j - 1) : typed[k].text \notin Resets
  \/ Coming # Nobody /\ \A k \in 1 .. (j - 1) : typed[k].text \notin Resets

(* Only commands that bash has not read yet are later than c.              *)
Past(c) == c <= calls /\ \A i \in DOMAIN typed : typed[i].text = "body" => c < typed[i].call

(* c has been printed, and nothing older is to come.                       *)
Printed(c) == Past(c) /\ (last # Nobody => c < last) /\ (Coming # Nobody => c < Coming)

QueueInv ==
  /\ Past(last) /\ Past(Coming)
  /\ \A i, j \in DOMAIN typed : i < j /\ typed[i].text = "body" /\ typed[j].text = "body"
                                  => typed[i].call < typed[j].call
  /\ \A i \in DOMAIN typed : /\ typed[i].text = "body" => typed[i].call \in 1 .. calls
                             /\ typed[i].text = "status" => Covered(i)
  /\ shell.at = "running" /\ shell.line.text = "status" => last # Nobody
  /\ phase = "body" => Covered(Len(typed) + 1)

CodesInv ==
  /\ \A i, j \in Codes : i < j => chan[i].call < chan[j].call
  /\ \A i \in Codes : Printed(chan[i].call)
  /\ code # NoCode => Printed(code) /\ \A i \in Codes : code < chan[i].call
  /\ result.code # NoCode => Printed(result.code) /\ \A i \in Codes : result.code < chan[i].call

-----------------------------------------------------------------------------
(* A call's own output and exit code.                                      *)
Between == {Prompt, Mark("out", Nobody)}
Calm == \A i \in DOMAIN chan : chan[i] \in Between
Outsider(line) == line.text = "kill" \/ line = Line("body", Nobody)
Own(m) == m \in Between \cup {Mark("out", calls), Mark("unique", calls)}
Given == calls \in outs \/ \E i \in DOMAIN chan : chan[i] = Mark("out", calls)

(* The command has not begun, runs, or has run; then tail remains.         *)
Waits(tail) ==
  /\ Calm /\ (shell.at = "running" => Outsider(shell.line))
  /\ \E i \in DOMAIN typed :
       /\ typed[i] = Line("body", calls)
       /\ \A j \in 1 .. (i - 1) : Outsider(typed[j])
       /\ \A j \in (i + 1) .. Len(typed) : typed[j] \in tail
Runs(tail) ==
  /\ Calm /\ shell.at = "running" /\ shell.line = Line("body", calls)
  /\ \A j \in DOMAIN typed : typed[j] \in tail
HasRun(tail) ==
  /\ last = calls
  /\ \A i \in DOMAIN chan : Own(chan[i])
  /\ \A j \in DOMAIN typed : typed[j] \in tail
  /\ shell.at = "running" => shell.line \in tail

Uniques == IF mode.fallback THEN {Line("unique", calls)} ELSE {}
Queries == {Line("blank", calls), Line("status", calls)}

(* Between calls nothing of a call is left to come. *)
Rest ==
  /\ Calm /\ (shell.at = "running" => Outsider(shell.line))
  /\ \A i \in DOMAIN typed : Outsider(typed[i])

(* The unique string comes after the output, and nothing after it. *)
UniqueLast ==
  /\ \A i \in DOMAIN typed : typed[i].text = "unique" => i = Len(typed)
  /\ shell.at = "running" /\ shell.line.text = "unique" => typed = <<>>
  /\ \A i \in DOMAIN chan : chan[i].kind = "unique" =>
       /\ typed = <<>> /\ shell.at # "running"
       /\ \E k \in 1 .. (i - 1) : chan[k] = Mark("out", calls)

BodyToCome == Waits(Uniques) \/ Runs(Uniques) \/ (HasRun(Uniques) /\ Given)

StatusLast ==
  /\ \A i \in DOMAIN typed : typed[i].text = "status" => i = Len(typed)
  /\ shell.at = "running" /\ shell.line.text = "status" => typed = <<>>

(* The call's own exit code has been printed, after its output. *)
CodeSeen ==
  /\ typed = <<>> /\ shell.at # "running"
  /\ \E k \in DOMAIN chan :
       /\ chan[k] = Mark("code", calls)
       /\ calls \in outs \/ \E i \in 1 .. (k - 1) : chan[i] = Mark("out", calls)
       /\ \A i \in 1 .. (k - 1) : Own(chan[i])
       /\ \A i \in (k + 1) .. Len(chan) : chan[i] \in Between

CodeToCome == Waits(Queries) \/ Runs(Queries) \/ (HasRun(Queries) /\ Given) \/ CodeSeen

OwnResult ==
  result.how = "value" /\ result.code # NoCode =>
    result.code = result.call /\ result.outs \ {Nobody} = {result.call}

OwnInv ==
  ~ warned =>
    /\ phase \in {"body", "status", "prompt"} => calls \in CallIds /\ outs \subseteq {Nobody, calls}
    /\ phase \in {"idle", "intr", "stop", "kill"} => Rest
    /\ phase = "body" => outs = {} /\ BodyToCome /\ UniqueLast
    /\ phase = "status" => StatusLast /\ CodeToCome
    /\ phase = "prompt" =>
         /\ code = calls /\ outs \ {Nobody} = {calls}
         /\ Calm /\ typed = <<>> /\ shell.at # "running"
    /\ OwnResult

-----------------------------------------------------------------------------
(* Sequences of marks and lines.                                           *)
(* t holds some of the marks of s, in their order; a code may be torn.     *)
Thins(f, t, s) ==
  /\ \A k, l \in 1 .. Len(t) : k < l => f[k] < f[l]
  /\ \A k \in 1 .. Len(t) : \/ t[k] = s[f[k]]
                            \/ t[k].kind = "torn" /\ s[f[k]].kind = "code"

(* A set of numbers has a least one, and Min is it. *)
LEMMA NatMinimum ==
  ASSUME NEW I, I \subseteq Nat, I # {}
  PROVE  Min(I) \in I /\ \A i \in I : Min(I) <= i
  <1>1. \E m \in I : \A i \in I : ~ (<<i, m>> \in OpToRel(<, Nat))
    BY NatLessThanWellFounded, WFMin, Zenon
  <1>2. \A i, m \in Nat : i < m => <<i, m>> \in OpToRel(<, Nat)
    <2>1. \A r \in Nat \X Nat : r[1] < r[2] => r \in OpToRel(<, Nat)
      BY DEF OpToRel
    <2>2. \A i, m \in Nat : <<i, m>> \in Nat \X Nat /\ <<i, m>>[1] = i /\ <<i, m>>[2] = m
      OBVIOUS
    <2>q. QED
      BY <2>1, <2>2
  <1>3. \E m \in I : \A i \in I : ~ (i < m)
    BY <1>1, <1>2
  <1>4. \E m \in I : \A i \in I : m <= i
    BY <1>3
  <1>q. QED
    BY <1>4 DEF Min

(* Where a wait stops: at the first mark of its kinds, if there is one. *)
LEMMA FirstOfMark ==
  ASSUME chan \in Seq(Marks), NEW kinds
  PROVE  /\ FirstOf(kinds) = 0 => \A i \in DOMAIN chan : chan[i].kind \notin kinds
         /\ FirstOf(kinds) # 0 =>
              /\ FirstOf(kinds) \in 1 .. Len(chan) /\ chan[FirstOf(kinds)].kind \in kinds
              /\ \A i \in 1 .. (FirstOf(kinds) - 1) : chan[i].kind \notin kinds
  <1> DEFINE I == {i \in 1 .. Len(chan) : chan[i].kind \in kinds}
  <1>1. FirstOf(kinds) = IF I # {} THEN Min(I) ELSE 0
    BY DEF FirstOf, SelectInSeq
  <1>2. DOMAIN chan = 1 .. Len(chan) /\ Len(chan) \in Nat
    BY LenProperties
  <1>3. CASE I = {}
    BY <1>1, <1>2, <1>3
  <1>4. CASE I # {}
    <2>1. I \subseteq Nat
      BY <1>2
    <2>2. PICK m : m = Min(I)
      OBVIOUS
    <2>3. FirstOf(kinds) = m
      BY <1>1, <1>4, <2>2
    <2> HIDE DEF I
    <2>4. m \in I /\ \A i \in I : m <= i
      BY <1>4, <2>1, <2>2, NatMinimum
    <2> USE DEF I
    <2>q. QED
      BY <1>2, <2>3, <2>4
  <1>q. QED
    BY <1>3, <1>4

(* What is left of a sequence behind one of its places. *)
LEMMA MarksBehind ==
  ASSUME NEW s \in Seq(Marks), NEW p \in 1 .. Len(s), NEW t, t = SubSeq(s, p + 1, Len(s))
  PROVE  /\ t \in Seq(Marks) /\ Len(t) = Len(s) - p
         /\ \A i \in 1 .. (Len(s) - p) : t[i] = s[p + i]
  <1>1. Len(s) \in Nat /\ \A i \in 1 .. Len(s) : s[i] \in Marks
    BY LenProperties, ElementOfSeq
  <1>2. PICK m, n : m = p + 1 /\ n = Len(s)
    OBVIOUS
  <1>3. m \in 1 .. (Len(s) + 1) /\ n \in (m - 1) .. Len(s)
    BY <1>1, <1>2
  <1>4. \A i \in m .. n : s[i] \in Marks
    BY <1>1, <1>2
  <1>5. /\ t \in Seq(Marks) /\ Len(t) = n - m + 1
        /\ \A i \in 1 .. (n - m + 1) : t[i] = s[m + i - 1]
    BY <1>2, <1>3, <1>4, SubSeqProperties
  <1>6. n - m + 1 = Len(s) - p /\ \A i \in 1 .. (Len(s) - p) : m + i - 1 = p + i
    BY <1>1, <1>2
  <1>q. QED
    BY <1>5, <1>6

(* The stream behind a mark. *)
LEMMA AfterMarks ==
  ASSUME chan \in Seq(Marks), NEW p \in 1 .. Len(chan)
  PROVE  /\ After(p) \in Seq(Marks) /\ Len(After(p)) = Len(chan) - p
         /\ \A i \in 1 .. (Len(chan) - p) : After(p)[i] = chan[p + i]
  BY MarksBehind DEF After

(* _eat_following_output leaves some marks, in their order. *)
LEMMA EatenMarks ==
  ASSUME NEW s \in Seq(Marks), NEW t \in EatFollowing(s)
  PROVE  t \in Seq(Marks) /\ \E f \in [1 .. Len(t) -> 1 .. Len(s)] : Thins(f, t, s)
  <1>1. DOMAIN s = 1 .. Len(s) /\ Len(s) \in Nat /\ \A i \in 1 .. Len(s) : s[i] \in Marks
    BY LenProperties, ElementOfSeq
  <1>2. CASE t = s
    <2> DEFINE f == [k \in 1 .. Len(s) |-> k]
    <2>1. f \in [1 .. Len(t) -> 1 .. Len(s)] /\ Thins(f, t, s)
      BY <1>1, <1>2 DEF Thins
    <2>q. QED
      BY <1>2, <2>1
  <1>3. ASSUME NEW i \in 1 .. Len(s), t = RemoveAt(s, i)
        PROVE  t \in Seq(Marks) /\ \E f \in [1 .. Len(t) -> 1 .. Len(s)] : Thins(f, t, s)
    <2> DEFINE a == SubSeq(s, 1, i - 1)
               b == SubSeq(s, i + 1, Len(s))
               f == [k \in 1 .. (Len(s) - 1) |-> IF k < i THEN k ELSE k + 1]
    <2>1. a \in Seq(Marks) /\ Len(a) = i - 1 /\ \A k \in 1 .. (i - 1) : a[k] = s[k]
      BY <1>1, SubSeqProperties
    <2>2. b \in Seq(Marks) /\ Len(b) = Len(s) - i /\ \A k \in 1 .. (Len(s) - i) : b[k] = s[k + i]
      <3>1. b \in Seq(Marks) /\ Len(b) = Len(s) - i /\ \A k \in 1 .. (Len(s) - i) : b[k] = s[i + k]
        BY MarksBehind
      <3> HIDE DEF b
      <3>2. \A k \in 1 .. (Len(s) - i) : k + i = i + k
        BY <1>1
      <3>q. QED
        BY <3>1, <3>2
    <2>3. t = a \o b
      BY <1>3 DEF RemoveAt
    <2> HIDE DEF a, b
    <2>4. /\ t \in Seq(Marks) /\ Len(t) = Len(a) + Len(b)
          /\ \A k \in 1 .. (Len(a) + Len(b)) : t[k] = IF k <= Len(a) THEN a[k] ELSE b[k - Len(a)]
      BY <2>1, <2>2, <2>3, ConcatProperties
    <2>5. Len(t) = Len(s) - 1 /\ \A k \in 1 .. Len(t) : t[k] = s[IF k < i THEN k ELSE k + 1]
      BY <1>1, <2>1, <2>2, <2>4
    <2>6. f \in [1 .. Len(t) -> 1 .. Len(s)] /\ Thins(f, t, s)
      BY <1>1, <2>5 DEF Thins
    <2>q. QED
      BY <2>4, <2>6
  <1>4. ASSUME NEW i \in 1 .. Len(s), s[i].kind = "code", t = [s EXCEPT ![i] = Mark("torn", Nobody)]
        PROVE  t \in Seq(Marks) /\ \E f \in [1 .. Len(t) -> 1 .. Len(s)] : Thins(f, t, s)
    <2> DEFINE f == [k \in 1 .. Len(s) |-> k]
    <2>1. Mark("torn", Nobody) \in Marks /\ Mark("torn", Nobody).kind = "torn"
      BY DEF Mark, Marks, Nobody
    <2>2. t \in Seq(Marks) /\ Len(t) = Len(s)
      BY <1>1, <1>4, <2>1, ExceptSeq
    <2>3. \A k \in 1 .. Len(s) : t[k] = IF k = i THEN Mark("torn", Nobody) ELSE s[k]
      BY <1>1, <1>4
    <2>4. f \in [1 .. Len(t) -> 1 .. Len(s)] /\ Thins(f, t, s)
      BY <1>1, <1>4, <2>1, <2>2, <2>3 DEF Thins
    <2>q. QED
      BY <2>2, <2>4
  <1>5. \/ t = s
        \/ \E i \in 1 .. Len(s) : \/ t = RemoveAt(s, i)
                                  \/ s[i].kind = "code" /\ t = [s EXCEPT ![i] = Mark("torn", Nobody)]
    BY <1>1 DEF EatFollowing, Bitten
  <1>q. QED
    BY <1>2, <1>3, <1>4, <1>5

(* What a line prints. *)
LEMMA PrintsMarks ==
  ASSUME NEW line \in Lines, last \in CallIds \cup {Nobody}
  PROVE  /\ Prints(line) \in Seq(Marks) /\ StatusAfter(line) \in CallIds \cup {Nobody}
         /\ Len(Prints(line)) = IF line.text \in {"body", "status", "unique"} THEN 1 ELSE 0
         /\ line.text = "body" => Prints(line)[1] = Mark("out", line.call)
         /\ line.text = "status" => Prints(line)[1] = Mark("code", last)
         /\ line.text = "unique" => Prints(line)[1] = Mark("unique", line.call)
  <1>1. \A m \in Marks : <<m>> \in Seq(Marks) /\ Len(<<m>>) = 1 /\ <<m>>[1] = m
    OBVIOUS
  <1>2. \A k \in {"out", "code", "unique"}, c \in CallIds \cup {Nobody} : Mark(k, c) \in Marks
    BY DEF Mark, Marks
  <1>3. line.call \in CallIds \cup {Nobody} /\ line.text \in {"body", "unique", "blank", "status", "kill"}
    BY DEF Lines
  <1>4. << >> \in Seq(Marks) /\ Len(<< >>) = 0
    OBVIOUS
  <1>5. StatusAfter(line) \in CallIds \cup {Nobody}
    BY <1>3 DEF StatusAfter
  <1>6. CASE line.text = "body"
    BY <1>1, <1>2, <1>3, <1>5, <1>6 DEF Prints
  <1>7. CASE line.text = "status"
    BY <1>1, <1>2, <1>3, <1>5, <1>7 DEF Prints
  <1>8. CASE line.text = "unique"
    BY <1>1, <1>2, <1>3, <1>5, <1>8 DEF Prints
  <1>9. CASE line.text \in {"blank", "kill"}
    BY <1>4, <1>5, <1>9 DEF Prints
  <1>q. QED
    BY <1>3, <1>6, <1>7, <1>8, <1>9

(* The stream with a line's output, and with a prompt. *)
LEMMA PrintsAdded ==
  ASSUME chan \in Seq(Marks), NEW line \in Lines, last \in CallIds \cup {Nobody}, NEW t, t = chan \o Prints(line)
  PROVE  /\ t \in Seq(Marks)
         /\ Len(t) = Len(chan) + IF line.text \in {"body", "status", "unique"} THEN 1 ELSE 0
         /\ \A i \in 1 .. Len(chan) : t[i] = chan[i]
         /\ line.text = "body" => t[Len(chan) + 1] = Mark("out", line.call)
         /\ line.text = "status" => t[Len(chan) + 1] = Mark("code", last)
         /\ line.text = "unique" => t[Len(chan) + 1] = Mark("unique", line.call)
  <1> DEFINE u == Prints(line)
  <1>1. /\ u \in Seq(Marks)
        /\ Len(u) = IF line.text \in {"body", "status", "unique"} THEN 1 ELSE 0
        /\ line.text = "body" => u[1] = Mark("out", line.call)
        /\ line.text = "status" => u[1] = Mark("code", last)
        /\ line.text = "unique" => u[1] = Mark("unique", line.call)
    BY PrintsMarks
  <1> HIDE DEF u
  <1>2. Len(chan) \in Nat
    BY LenProperties
  <1>3. /\ t \in Seq(Marks) /\ Len(t) = Len(chan) + Len(u)
        /\ \A i \in 1 .. (Len(chan) + Len(u)) : t[i] = IF i <= Len(chan) THEN chan[i] ELSE u[i - Len(chan)]
    <2>1. t = chan \o u
      BY DEF u
    <2>q. QED
      BY <1>1, <2>1, ConcatProperties
  <1>4. ASSUME Len(u) = 1 PROVE t[Len(chan) + 1] = u[1]
    BY <1>2, <1>3, <1>4
  <1>5. \A i \in 1 .. Len(chan) : t[i] = chan[i]
    BY <1>1, <1>2, <1>3
  <1>q. QED
    BY <1>1, <1>3, <1>4, <1>5

(* The stream with a prompt at its end. *)
LEMMA PromptAdded ==
  ASSUME chan \in Seq(Marks), NEW t, t = Append(chan, Prompt)
  PROVE  /\ t \in Seq(Marks) /\ Len(t) = Len(chan) + 1 /\ t[Len(chan) + 1] = Prompt
         /\ \A i \in 1 .. Len(chan) : t[i] = chan[i]
  <1>1. Prompt \in Marks
    BY DEF Prompt, Mark, Marks
  <1>q. QED
    BY <1>1, AppendProperties

(* The terminal without its first line, and with the lines of a call. *)
LEMMA LineRead ==
  ASSUME typed \in Seq(Lines), typed # << >>, NEW t, t = Tail(typed)
  PROVE  /\ t \in Seq(Lines) /\ Len(t) = Len(typed) - 1 /\ Head(typed) = typed[1]
         /\ Head(typed) \in Lines /\ Len(typed) \in Nat \ {0}
         /\ \A i \in 1 .. (Len(typed) - 1) : t[i] = typed[i + 1]
  BY HeadTailProperties, EmptySeq

(* The terminal with one line more. *)
LEMMA LineAdded ==
  ASSUME NEW s \in Seq(Lines), NEW a \in Lines, NEW t, t = Append(s, a)
  PROVE  /\ t \in Seq(Lines) /\ Len(t) = Len(s) + 1 /\ t[Len(s) + 1] = a
         /\ \A i \in 1 .. Len(s) : t[i] = s[i]
  BY AppendProperties

(* The terminal with two lines more. *)
LEMMA TwoLinesAdded ==
  ASSUME NEW s \in Seq(Lines), NEW a \in Lines, NEW b \in Lines, NEW t, t = s \o <<a, b>>
  PROVE  /\ t \in Seq(Lines) /\ Len(t) = Len(s) + 2 /\ t[Len(s) + 1] = a /\ t[Len(s) + 2] = b
         /\ \A i \in 1 .. Len(s) : t[i] = s[i]
  <1>1. <<a, b>> \in Seq(Lines) /\ Len(<<a, b>>) = 2 /\ <<a, b>>[1] = a /\ <<a, b>>[2] = b
    OBVIOUS
  <1>2. PICK u : u = <<a, b>>
    OBVIOUS
  <1>3. u \in Seq(Lines) /\ Len(u) = 2 /\ u[1] = a /\ u[2] = b /\ t = s \o u
    BY <1>1, <1>2
  <1>4. /\ t \in Seq(Lines) /\ Len(t) = Len(s) + Len(u) /\ Len(s) \in Nat
        /\ \A i \in 1 .. (Len(s) + Len(u)) : t[i] = IF i <= Len(s) THEN s[i] ELSE u[i - Len(s)]
    BY SMTT(30), <1>3, ConcatProperties, LenProperties
  <1>q. QED
    BY <1>3, <1>4

(* What run types is the command, and the unique string if bash is to print one. *)
LEMMA CommandTyped ==
  ASSUME typed \in Seq(Lines), NEW c \in CallIds, NEW fallback \in BOOLEAN,
         NEW t, t = typed \o CommandLines(c, fallback)
  PROVE  /\ t \in Seq(Lines) /\ Len(t) = Len(typed) + IF fallback THEN 2 ELSE 1
         /\ \A i \in 1 .. Len(typed) : t[i] = typed[i]
         /\ t[Len(typed) + 1] = Line("body", c)
         /\ fallback => t[Len(typed) + 2] = Line("unique", c)
  <1>1. Line("body", c) \in Lines /\ Line("unique", c) \in Lines
    BY DEF Line, Lines
  <1>3. CASE fallback
    <2>1. t = typed \o <<Line("body", c), Line("unique", c)>>
      BY <1>3 DEF CommandLines
    <2>2. /\ t \in Seq(Lines) /\ Len(t) = Len(typed) + 2
          /\ t[Len(typed) + 1] = Line("body", c) /\ t[Len(typed) + 2] = Line("unique", c)
          /\ \A i \in 1 .. Len(typed) : t[i] = typed[i]
      BY <1>1, <2>1, TwoLinesAdded
    <2>q. QED
      BY <1>3, <2>2
  <1>4. CASE ~ fallback
    <2>1. CommandLines(c, fallback) = <<Line("body", c)>>
      BY <1>4 DEF CommandLines
    <2>2. t = Append(typed, Line("body", c))
      BY <1>1, <2>1, AppendIsConcat
    <2>3. /\ t \in Seq(Lines) /\ Len(t) = Len(typed) + 1 /\ t[Len(typed) + 1] = Line("body", c)
          /\ \A i \in 1 .. Len(typed) : t[i] = typed[i]
      BY <1>1, <2>2, LineAdded
    <2>q. QED
      BY <1>4, <2>3
  <1>q. QED
    BY <1>3, <1>4

(* Each line is an old one or one of these. *)
LEMMA CommandLine ==
  ASSUME typed \in Seq(Lines), NEW c \in CallIds, NEW fallback \in BOOLEAN,
         NEW t, t = typed \o CommandLines(c, fallback)
  PROVE  \A i \in DOMAIN t : \/ i \in DOMAIN typed /\ t[i] = typed[i]
                             \/ i = Len(typed) + 1 /\ t[i] = Line("body", c)
                             \/ fallback /\ i = Len(typed) + 2 /\ t[i] = Line("unique", c)
  <1>1. DOMAIN typed = 1 .. Len(typed) /\ Len(typed) \in Nat
    BY LenProperties
  <1>2. /\ t \in Seq(Lines) /\ \A i \in 1 .. Len(typed) : t[i] = typed[i]
        /\ t[Len(typed) + 1] = Line("body", c)
        /\ fallback => t[Len(typed) + 2] = Line("unique", c)
    BY CommandTyped
  <1>3. CASE fallback
    <2>1. Len(t) = Len(typed) + 2
      BY <1>3, CommandTyped
    <2>2. \A i \in DOMAIN t : i \in 1 .. Len(typed) \/ i = Len(typed) + 1 \/ i = Len(typed) + 2
      BY <1>1, <1>2, <2>1, LenProperties
    <2>q. QED
      BY <1>1, <1>2, <1>3, <2>2
  <1>4. CASE ~ fallback
    <2>1. Len(t) = Len(typed) + 1
      BY <1>4, CommandTyped
    <2>2. \A i \in DOMAIN t : i \in 1 .. Len(typed) \/ i = Len(typed) + 1
      BY <1>1, <1>2, <2>1, LenProperties
    <2>q. QED
      BY <1>1, <1>2, <1>4, <2>2
  <1>q. QED
    BY <1>3, <1>4

(* The question for the exit code is a blank line and the status line. *)
LEMMA StatusTyped ==
  ASSUME typed \in Seq(Lines), calls \in 0 .. MaxCalls, NEW t, t = typed \o StatusLines
  PROVE  /\ t \in Seq(Lines) /\ Len(t) = Len(typed) + 2
         /\ \A i \in 1 .. Len(typed) : t[i] = typed[i]
         /\ t[Len(typed) + 1] = Line("blank", calls)
         /\ t[Len(typed) + 2] = Line("status", calls)
  <1>1. Line("blank", calls) \in Lines /\ Line("status", calls) \in Lines
    BY BashSessionAssumption DEF Line, Lines, CallIds, Nobody
  <1>q. QED
    BY <1>1, TwoLinesAdded DEF StatusLines

-----------------------------------------------------------------------------
(* What a session holds at first is of its type. *)
LEMMA SessionTypeInit == SessionInit => SessionTypeOK
  <1>1. /\ << >> \in Seq(Marks) /\ << >> \in Seq(Lines)
        /\ Line("body", Nobody) \in Lines /\ Line("blank", Nobody) \in Lines
    BY DEF Line, Lines, Nobody
  <1>2. NoCode \in 0 .. NoCode /\ MaxCalls \in Nat /\ MaxInterrupts \in Nat /\ Retries \in Nat \ {0}
    BY BashSessionAssumption DEF NoCode
  <1>3. /\ NoResult \in [how : {"none", "value", "raised", "interrupted"}, call : 0 .. MaxCalls,
                          code : 0 .. NoCode, outs : SUBSET (CallIds \cup {Nobody})]
        /\ [sent |-> 0, now |-> 0] \in [sent : 0 .. MaxInterrupts, now : 0 .. Retries]
    BY <1>2 DEF NoResult, Nobody
  <1>4. SessionInit => shell \in [at : {"prompt", "running", "ending"}, line : Lines]
    BY <1>1 DEF SessionInit, AtPrompt
  <1>5. [check |-> "raise", fallback |-> FALSE] \in [check : {"raise", "silent", "ignore"}, fallback : BOOLEAN]
    OBVIOUS
  <1>6. SessionInit => slip \in {"none", "timeout", "lost"}
    BY DEF SessionInit
  <1>7. /\ NoCode \in 0 .. NoCode /\ Nobody \in CallIds \cup {Nobody} /\ 0 \in 0 .. MaxCalls
        /\ {} \subseteq CallIds \cup {Nobody}
    BY <1>2
  <1>q. QED
    BY <1>1, <1>3, <1>4, <1>5, <1>6, <1>7 DEF SessionInit, SessionTypeOK

(* The call's collected output names calls. *)
LEMMA CollectedCalls ==
  ASSUME chan \in Seq(Marks), NEW p \in 0 .. Len(chan)
  PROVE  OutputBefore(p) \subseteq CallIds \cup {Nobody}
  <1>1. DOMAIN chan = 1 .. Len(chan) /\ Len(chan) \in Nat /\ \A i \in 1 .. Len(chan) : chan[i] \in Marks
    BY LenProperties, ElementOfSeq
  <1>q. QED
    BY <1>1 DEF OutputBefore, Marks

(* The mark a wait stops at is in the stream. *)
LEMMA Found ==
  ASSUME chan \in Seq(Marks), NEW kinds, FirstOf(kinds) # 0
  PROVE  /\ FirstOf(kinds) \in 1 .. Len(chan) /\ After(FirstOf(kinds)) \in Seq(Marks)
         /\ OutputBefore(FirstOf(kinds)) \subseteq CallIds \cup {Nobody}
         /\ chan[FirstOf(kinds)] \in Marks
  <1>1. Len(chan) \in Nat
    BY LenProperties
  <1>2. PICK p : p = FirstOf(kinds)
    OBVIOUS
  <1>3. p \in 1 .. Len(chan)
    BY <1>2, FirstOfMark
  <1>q. QED
    BY <1>1, <1>2, <1>3, AfterMarks, CollectedCalls, ElementOfSeq

(* Every step keeps the types. *)
LEMMA SessionTypeNext == SessionTypeOK /\ [SessionNext]_sessionVars => SessionTypeOK'
  <1> SUFFICES ASSUME SessionTypeOK, [SessionNext]_sessionVars PROVE SessionTypeOK'
    OBVIOUS
  <1>t. /\ chan \in Seq(Marks) /\ typed \in Seq(Lines) /\ shell.line \in Lines
        /\ last \in CallIds \cup {Nobody} /\ calls \in 0 .. MaxCalls /\ outs \subseteq CallIds \cup {Nobody}
        /\ code \in 0 .. NoCode
    BY DEF SessionTypeOK
  <1>c. /\ MaxCalls \in Nat /\ MaxInterrupts \in Nat /\ Retries \in Nat \ {0} /\ NoCode \in Nat
        /\ CallIds \cup {Nobody} \subseteq 0 .. NoCode /\ CallIds = 1 .. MaxCalls
    BY BashSessionAssumption DEF CallIds, NoCode, Nobody
  <1>l. /\ << >> \in Seq(Marks) /\ << >> \in Seq(Lines)
        /\ Line("blank", Nobody) \in Lines /\ Line("kill", Nobody) \in Lines
    BY DEF Line, Lines, Nobody
  <1>p. AtPrompt \in [at : {"prompt"}, line : Lines]
    BY <1>l DEF AtPrompt
  <1>s. \A line \in Lines : StatusAfter(line) \in CallIds \cup {Nobody}
    BY <1>t, PrintsMarks
  <1>1. CASE ReadLine
    <2>1. typed' \in Seq(Lines) /\ Head(typed) \in Lines
      BY <1>t, <1>1, LineRead DEF ReadLine
    <2>q. QED
      BY <1>1, <2>1 DEF ReadLine, answering, SessionTypeOK
  <1>2. CASE PrintOutput
    <2>1. chan' \in Seq(Marks)
      BY <1>t, <1>2, PrintsAdded DEF PrintOutput
    <2>2. last' \in CallIds \cup {Nobody}
      BY <1>t, <1>s, <1>2 DEF PrintOutput
    <2>3. shell' \in [at : {"prompt", "running", "ending"}, line : Lines]
      BY <1>2 DEF PrintOutput, SessionTypeOK
    <2>q. QED
      BY <1>2, <2>1, <2>2, <2>3 DEF PrintOutput, answering, SessionTypeOK
  <1>3. CASE PrintPrompt
    <2>1. chan' \in Seq(Marks)
      BY <1>t, <1>3, PromptAdded DEF PrintPrompt
    <2>q. QED
      BY <1>p, <1>3, <2>1 DEF PrintPrompt, answering, SessionTypeOK
  <1>4. CASE TakesInput
    <2>1. typed' \in Seq(Lines)
      BY <1>t, <1>4, LineRead DEF TakesInput
    <2>q. QED
      BY <1>4, <2>1 DEF TakesInput, answering, SessionTypeOK
  <1>5. CASE \E check \in {"raise", "silent", "ignore"}, fallback \in BOOLEAN : Run(check, fallback)
    <2> PICK check \in {"raise", "silent", "ignore"}, fallback \in BOOLEAN : Run(check, fallback)
      BY <1>5
    <2>1. calls + 1 \in CallIds /\ calls + 1 \in 0 .. MaxCalls
      BY <1>t, <1>c DEF Run
    <2>2. typed' \in Seq(Lines)
      BY <1>t, <2>1, CommandTyped DEF Run
    <2>3. mode' \in [check : {"raise", "silent", "ignore"}, fallback : BOOLEAN]
      BY DEF Run
    <2>q. QED
      BY <1>c, <2>1, <2>2, <2>3 DEF Run, SessionTypeOK, NoResult, Nobody
  <1>6. CASE SeeEnd
    <2> DEFINE p == FirstOf(BodyEnd)
    <2>1. p # 0 /\ chan' = After(p)
      BY <1>6 DEF SeeEnd
    <2>2. chan' \in Seq(Marks) /\ OutputBefore(p) \subseteq CallIds \cup {Nobody}
      BY <1>t, <2>1, Found
    <2>3. typed' \in Seq(Lines)
      <3>1. typed' = typed \/ typed' = typed \o StatusLines
        BY <1>6 DEF SeeEnd
      <3>q. QED
        BY <1>t, <3>1, StatusTyped
    <2> HIDE DEF p
    <2>4. CASE mode.check = "ignore"
      BY SMTT(30), <1>c, <1>6, <2>2, <2>3, <2>4 DEF SeeEnd, p, Return, SessionTypeOK
    <2>5. CASE mode.check # "ignore"
      BY <1>c, <1>6, <2>2, <2>3, <2>5 DEF SeeEnd, p, SessionTypeOK
    <2>q. QED
      BY <2>4, <2>5
  <1>7. CASE BodyTimeout
    BY <1>c, <1>7 DEF BodyTimeout, Return, terminal, SessionTypeOK
  <1>8. CASE SeeStatus
    <2> DEFINE p == FirstOf({"code", "torn"})
    <2>1. p # 0 /\ chan' = After(p)
      BY <1>8 DEF SeeStatus
    <2>2. /\ chan' \in Seq(Marks) /\ OutputBefore(p) \subseteq CallIds \cup {Nobody}
          /\ chan[p].call \in 0 .. NoCode
      BY <1>c, <1>t, <2>1, Found DEF Marks
    <2> HIDE DEF p
    <2>3. CASE chan[p].kind = "code"
      BY <1>c, <1>t, <1>8, <2>2, <2>3 DEF SeeStatus, p, terminal, SessionTypeOK
    <2>4. CASE chan[p].kind # "code"
      <3>1. /\ Failed /\ UNCHANGED <<terminal, mode, calls, intrs>>
        BY <1>8, <2>4 DEF SeeStatus, p
      <3>q. QED
        BY <1>c, <1>t, <2>2, <3>1 DEF Failed, Return, terminal, SessionTypeOK
    <2>q. QED
      BY <2>3, <2>4
  <1>9. CASE StatusTimeout
    BY <1>c, <1>t, <1>9 DEF StatusTimeout, Failed, Return, terminal, SessionTypeOK
  <1>10. CASE SeePrompt
    <2>1. chan' \in Seq(Marks)
      BY <1>t, <1>10, Found DEF SeePrompt
    <2>q. QED
      BY <1>c, <1>t, <1>10, <2>1 DEF SeePrompt, Return, terminal, SessionTypeOK
  <1>11. CASE PromptTimeout
    BY <1>c, <1>t, <1>11 DEF PromptTimeout, Failed, Return, terminal, SessionTypeOK
  <1>g. ASSUME Signalled
        PROVE  /\ typed' \in Seq(Lines) /\ last' \in CallIds \cup {Nobody}
               /\ shell' \in [at : {"prompt", "running", "ending"}, line : Lines]
    BY <1>t, <1>l, <1>p, <1>s, <1>g DEF Signalled, SessionTypeOK
  <1>12. CASE SendIntr
    <2>1. intrs' \in [sent : 0 .. MaxInterrupts, now : 0 .. Retries]
      BY SMTT(30), <1>c, <1>12 DEF SendIntr, SessionTypeOK
    <2>2. result' = NoResult \/ result' = result
      BY <1>12 DEF SendIntr
    <2>3. NoResult \in [how : {"none", "value", "raised", "interrupted"}, call : 0 .. MaxCalls,
                   code : 0 .. NoCode, outs : SUBSET (CallIds \cup {Nobody})]
      BY <1>c DEF NoResult, Nobody
    <2>4. slip' \in {"none", "timeout", "lost"}
      BY <1>12 DEF SendIntr, SessionTypeOK
    <2>q. QED
      BY <1>g, <1>12, <2>1, <2>2, <2>3, <2>4 DEF SendIntr, SessionTypeOK
  <1>13. CASE SeeInterrupted
    <2> DEFINE p == FirstOf({"prompt"})
    <2>1. p # 0 /\ chan' \in EatFollowing(After(p))
      BY <1>13 DEF SeeInterrupted, InterruptDone
    <2>2. chan' \in Seq(Marks) /\ OutputBefore(p) \subseteq CallIds \cup {Nobody}
      <3>1. After(p) \in Seq(Marks) /\ OutputBefore(p) \subseteq CallIds \cup {Nobody}
        BY <1>t, <2>1, Found
      <3>2. PICK s, t : s = After(p) /\ t = chan'
        OBVIOUS
      <3>3. t \in Seq(Marks)
        BY <2>1, <3>1, <3>2, EatenMarks
      <3>q. QED
        BY <3>1, <3>2, <3>3
    <2> HIDE DEF p
    <2>q. QED
      BY <1>c, <1>13, <2>2 DEF SeeInterrupted, InterruptDone, p, terminal, SessionTypeOK, Nobody
  <1>14. CASE SendStop
    BY <1>g, <1>14 DEF SendStop, SessionTypeOK
  <1>15. CASE SendKill
    <2>1. chan' \in Seq(Marks)
      BY <1>t, <1>15, Found DEF SendKill
    <2>2. typed' \in Seq(Lines)
      BY <1>t, <1>l, <1>15, LineAdded DEF SendKill
    <2>q. QED
      BY <1>15, <2>1, <2>2 DEF SendKill, SessionTypeOK
  <1>16. CASE InterruptFails
    BY <1>c, <1>16 DEF InterruptFails, terminal, SessionTypeOK, Nobody
  <1>17. CASE UNCHANGED sessionVars
    BY <1>17 DEF sessionVars, SessionTypeOK
  <1>q. QED
    BY <1>1, <1>2, <1>3, <1>4, <1>5, <1>6, <1>7, <1>8, <1>9, <1>10, <1>11, <1>12, <1>13,
       <1>14, <1>15, <1>16, <1>17 DEF SessionNext

(* A sequence is indexed by its length and holds elements of its set. *)
LEMMA Sized ==
  ASSUME NEW S, NEW s \in Seq(S)
  PROVE  /\ DOMAIN s = 1 .. Len(s) /\ Len(s) \in Nat /\ (s = << >> <=> Len(s) = 0)
         /\ \A i \in 1 .. Len(s) : s[i] \in S
  BY LenProperties, ElementOfSeq, EmptySeq

(* A session is handed out in step, or as out of step. *)
LEMMA StepInit == SessionInit => StepInv
  BY DEF SessionInit, StepInv, Quiet

(* The prompt that is owed is the last that the stream holds. *)
LEMMA OwedSeen ==
  ASSUME chan \in Seq(Marks), OneOwed, FirstOf({"prompt"}) # 0
  PROVE  After(FirstOf({"prompt"})) = << >> /\ typed = << >> /\ shell = AtPrompt
  <1>1. PICK p : p = FirstOf({"prompt"})
    OBVIOUS
  <1>2. p \in 1 .. Len(chan) /\ chan[p].kind = "prompt" /\ DOMAIN chan = 1 .. Len(chan) /\ Len(chan) \in Nat
    BY <1>1, FirstOfMark, Sized
  <1>3. Seen("prompt")
    BY <1>2 DEF Seen
  <1>4. typed = << >> /\ shell = AtPrompt /\ \A i \in 1 .. (Len(chan) - 1) : chan[i].kind # "prompt"
    BY <1>3 DEF OneOwed
  <1>5. p = Len(chan)
    BY <1>2, <1>4
  <1>6. After(p) \in Seq(Marks) /\ Len(After(p)) = Len(chan) - p
    BY <1>2, AfterMarks
  <1>7. Len(After(p)) = 0
    BY <1>2, <1>5, <1>6
  <1>q. QED
    BY <1>1, <1>4, <1>6, <1>7, Sized

(* Every step keeps what a session in step has still to come. *)
LEMMA StepNext == SessionTypeOK /\ StepInv /\ [SessionNext]_sessionVars => StepInv'
  <1> SUFFICES ASSUME SessionTypeOK, StepInv, [SessionNext]_sessionVars PROVE StepInv'
    OBVIOUS
  <1>t. /\ chan \in Seq(Marks) /\ typed \in Seq(Lines) /\ chan' \in Seq(Marks) /\ typed' \in Seq(Lines)
        /\ last \in CallIds \cup {Nobody} /\ calls \in 0 .. MaxCalls
        /\ shell \in [at : {"prompt", "running", "ending"}, line : Lines]
        /\ shell' \in [at : {"prompt", "running", "ending"}, line : Lines]
        /\ phase \in {"idle", "body", "status", "prompt", "intr", "stop", "kill"}
    BY SessionTypeNext DEF SessionTypeOK
  <1>d. /\ DOMAIN chan = 1 .. Len(chan) /\ Len(chan) \in Nat /\ (chan = << >> <=> Len(chan) = 0)
        /\ DOMAIN typed = 1 .. Len(typed) /\ Len(typed) \in Nat /\ (typed = << >> <=> Len(typed) = 0)
        /\ DOMAIN chan' = 1 .. Len(chan') /\ Len(chan') \in Nat /\ (chan' = << >> <=> Len(chan') = 0)
        /\ DOMAIN typed' = 1 .. Len(typed') /\ Len(typed') \in Nat /\ (typed' = << >> <=> Len(typed') = 0)
    BY <1>t, Sized
  <1>m. Prompt.kind = "prompt" /\ AtPrompt.at = "prompt" /\ \A k, c : Mark(k, c).kind = k /\ Line(k, c).text = k
    BY DEF Prompt, Mark, AtPrompt, Line
  <1>1. CASE ReadLine
    <2>1. /\ Len(typed') = Len(typed) - 1 /\ \A i \in 1 .. (Len(typed) - 1) : typed'[i] = typed[i + 1]
          /\ shell' = [at |-> "running", line |-> typed[1]] /\ shell.at = "prompt" /\ typed # << >>
          /\ chan' = chan /\ phase' = phase /\ slip' = slip /\ mode' = mode
      BY <1>t, <1>1, LineRead DEF ReadLine, answering
    <2>2. ASSUME NEW text, OneToCome(text) PROVE OneToCome(text)'
      BY <1>d, <1>m, <2>1, <2>2 DEF OneToCome, OneOwed, Seen
    <2>3. ~ OneOwed
      BY <2>1 DEF OneOwed
    <2>4. ASSUME UniqueToCome PROVE UniqueToCome'
      <3>1. ASSUME NEW i \in 1 .. Len(typed')
            PROVE  typed'[i].text \in {"body", "unique"} /\ (typed'[i].text = "unique" => i = Len(typed'))
        <4>1. i + 1 \in DOMAIN typed /\ typed'[i] = typed[i + 1]
          BY <1>d, <2>1
        <4>2. typed[i + 1].text \in {"body", "unique"} /\ (typed[i + 1].text = "unique" => i + 1 = Len(typed))
          BY <2>4, <4>1 DEF UniqueToCome
        <4>3. Len(typed') = Len(typed) - 1 /\ Len(typed) \in Nat /\ i \in Nat
          BY <1>d, <2>1
        <4>4. i + 1 = Len(typed) => i = Len(typed')
          BY <4>3
        <4>q. QED
          BY <4>1, <4>2, <4>4, Zenon
      <3>2. ~ Seen("unique") /\ ~ Seen("unique")'
        BY <2>1, <2>4 DEF UniqueToCome, Seen
      <3>3. shell'.line.text \in {"body", "unique"} /\ (shell'.line.text = "unique" => Len(typed') = 0)
        BY <1>d, <2>1, <2>4 DEF UniqueToCome
      <3>q. QED
        <4>1. \A i \in DOMAIN typed' : /\ typed'[i].text \in {"body", "unique"}
                                       /\ typed'[i].text = "unique" => i = Len(typed')
          BY <1>d, <3>1
        <4>2. shell'.line.text = "unique" => typed' = << >>
          BY <1>d, <3>3
        <4>q. QED
          BY <3>2, <3>3, <4>1, <4>2 DEF UniqueToCome
    <2>5. ASSUME StatusToCome PROVE StatusToCome'
      BY <1>d, <1>m, <2>1, <2>5 DEF StatusToCome, ReadsCodes, Seen
    <2>6. ReadsCodes' <=> ReadsCodes
      BY <2>1 DEF ReadsCodes, Seen
    <2>q. QED
      BY <2>1, <2>2, <2>3, <2>4, <2>5, <2>6 DEF StepInv, Quiet
  <1>2. CASE PrintOutput
    <2>1. /\ Len(chan') = Len(chan) + IF shell.line.text \in {"body", "status", "unique"} THEN 1 ELSE 0
          /\ \A i \in 1 .. Len(chan) : chan'[i] = chan[i]
          /\ shell.line.text = "body" => chan'[Len(chan) + 1].kind = "out"
          /\ shell.line.text = "status" => chan'[Len(chan) + 1].kind = "code"
          /\ shell.line.text = "unique" => chan'[Len(chan) + 1].kind = "unique"
          /\ shell.at = "running" /\ shell' = [shell EXCEPT !.at = "ending"]
          /\ shell'.at = "ending" /\ shell'.line = shell.line
          /\ typed' = typed /\ phase' = phase /\ slip' = slip /\ mode' = mode
      <3>1. shell.line \in Lines /\ chan' = chan \o Prints(shell.line)
        BY <1>t, <1>2 DEF PrintOutput
      <3>2. PICK line, t : line \in Lines /\ line = shell.line /\ t = chan' /\ t = chan \o Prints(line)
        BY <3>1
      <3>3. /\ Len(t) = Len(chan) + IF line.text \in {"body", "status", "unique"} THEN 1 ELSE 0
            /\ \A i \in 1 .. Len(chan) : t[i] = chan[i]
            /\ line.text = "body" => t[Len(chan) + 1] = Mark("out", line.call)
            /\ line.text = "status" => t[Len(chan) + 1] = Mark("code", last)
            /\ line.text = "unique" => t[Len(chan) + 1] = Mark("unique", line.call)
        <4>1. chan \in Seq(Marks) /\ last \in CallIds \cup {Nobody}
          BY <1>t
        <4>q. QED
          BY <4>1, <3>2, PrintsAdded, Zenon
      <3>q. QED
        BY <1>t, <1>m, <1>2, <3>2, <3>3 DEF PrintOutput, answering
    <2>2. OneOwed => OneOwed'
      BY <1>d, <1>m, <2>1 DEF OneOwed, Seen
    <2>3. ASSUME NEW text, OneToCome(text) PROVE OneToCome(text)'
      BY <1>d, <1>m, <2>1, <2>2, <2>3 DEF OneToCome, OneOwed, Seen
    <2>4. ASSUME UniqueToCome PROVE UniqueToCome'
      BY <1>d, <1>m, <2>1, <2>4 DEF UniqueToCome, Seen
    <2>5. ASSUME StatusToCome PROVE StatusToCome'
      BY <1>d, <1>m, <2>1, <2>5 DEF StatusToCome, ReadsCodes, Seen
    <2>6. ASSUME ~ ReadsCodes, shell.line.text # "status" PROVE ~ ReadsCodes'
      BY <1>d, <1>m, <2>1, <2>6 DEF ReadsCodes, Seen
    <2>7. UniqueToCome \/ OneToCome("body") => shell.line.text # "status"
      BY <2>1 DEF UniqueToCome, OneToCome
    <2>q. QED
      BY <1>m, <2>1, <2>2, <2>3, <2>4, <2>5, <2>6, <2>7 DEF StepInv, Quiet
  <1>3. CASE PrintPrompt
    <2>1. /\ Len(chan') = Len(chan) + 1 /\ chan'[Len(chan) + 1] = Prompt
          /\ \A i \in 1 .. Len(chan) : chan'[i] = chan[i]
          /\ shell.at = "ending" /\ shell' = AtPrompt
          /\ typed' = typed /\ phase' = phase /\ slip' = slip /\ mode' = mode
      BY <1>t, <1>3, PromptAdded DEF PrintPrompt, answering
    <2>2. OneOwed => OneOwed'
      BY <1>d, <1>m, <2>1 DEF OneOwed, Seen
    <2>3. ASSUME NEW text, OneToCome(text) PROVE OneToCome(text)'
      BY <1>d, <1>m, <2>1, <2>2, <2>3 DEF OneToCome
    <2>4. ASSUME UniqueToCome PROVE UniqueToCome'
      BY <1>d, <1>m, <2>1, <2>4 DEF UniqueToCome, Seen
    <2>5. ASSUME StatusToCome PROVE StatusToCome'
      BY <1>d, <1>m, <2>1, <2>5 DEF StatusToCome, ReadsCodes, Seen
    <2>6. ASSUME ~ ReadsCodes PROVE ~ ReadsCodes'
      BY <1>d, <1>m, <2>1, <2>6 DEF ReadsCodes, Seen
    <2>q. QED
      BY <1>m, <2>1, <2>2, <2>3, <2>4, <2>5, <2>6 DEF StepInv, Quiet
  <1>4. CASE TakesInput
    <2>1. /\ Len(typed') = Len(typed) - 1 /\ \A i \in 1 .. (Len(typed) - 1) : typed'[i] = typed[i + 1]
          /\ shell' = shell /\ shell.at = "running" /\ shell.line.text = "body" /\ typed # << >>
          /\ chan' = chan /\ phase' = phase /\ slip' = slip /\ mode' = mode
      BY <1>t, <1>4, LineRead DEF TakesInput, answering
    <2>2. ASSUME NEW text, OneToCome(text) PROVE FALSE
      BY <1>m, <2>1, <2>2 DEF OneToCome, OneOwed
    <2>3. ~ OneOwed /\ ~ StatusToCome
      BY <2>1 DEF OneOwed, StatusToCome
    <2>4. ASSUME UniqueToCome PROVE UniqueToCome'
      <3>1. ASSUME NEW i \in 1 .. Len(typed')
            PROVE  typed'[i].text \in {"body", "unique"} /\ (typed'[i].text = "unique" => i = Len(typed'))
        <4>1. i + 1 \in DOMAIN typed /\ typed'[i] = typed[i + 1]
          BY <1>d, <2>1
        <4>2. typed[i + 1].text \in {"body", "unique"} /\ (typed[i + 1].text = "unique" => i + 1 = Len(typed))
          BY <2>4, <4>1 DEF UniqueToCome
        <4>3. Len(typed') = Len(typed) - 1 /\ Len(typed) \in Nat /\ i \in Nat
          BY <1>d, <2>1
        <4>4. i + 1 = Len(typed) => i = Len(typed')
          BY <4>3
        <4>q. QED
          BY <4>1, <4>2, <4>4, Zenon
      <3>2. ~ Seen("unique") /\ ~ Seen("unique")'
        BY <2>1, <2>4 DEF UniqueToCome, Seen
      <3>q. QED
        <4>1. \A i \in DOMAIN typed' : /\ typed'[i].text \in {"body", "unique"}
                                       /\ typed'[i].text = "unique" => i = Len(typed')
          BY <1>d, <3>1
        <4>q. QED
          BY <2>1, <2>4, <3>2, <4>1 DEF UniqueToCome
    <2>6. ReadsCodes' <=> ReadsCodes
      BY <2>1 DEF ReadsCodes, Seen
    <2>q. QED
      BY <1>m, <2>1, <2>2, <2>3, <2>4, <2>6 DEF StepInv, Quiet
  <1>5. CASE \E check \in {"raise", "silent", "ignore"}, fallback \in BOOLEAN : Run(check, fallback)
    <2> PICK check \in {"raise", "silent", "ignore"}, fallback \in BOOLEAN : Run(check, fallback)
      BY <1>5
    <2> SUFFICES ASSUME slip' = "none" PROVE StepInv'
      BY DEF StepInv, Run
    <2>1. /\ Quiet /\ chan' = chan /\ shell' = shell /\ phase' = "body" /\ mode'.fallback = fallback
          /\ slip' = "none"
      BY DEF StepInv, Run
    <2>2. calls + 1 \in CallIds
      BY <1>t, BashSessionAssumption DEF Run, CallIds
    <2>3. /\ Len(typed') = IF fallback THEN 2 ELSE 1
          /\ typed'[1] = Line("body", calls + 1)
          /\ fallback => typed'[2] = Line("unique", calls + 1)
      <3>1. PICK t, c : t = typed' /\ c = calls + 1 /\ t = typed \o CommandLines(c, fallback)
        BY DEF Run
      <3>2. Len(typed) = 0
        BY <1>d, <2>1 DEF Quiet
      <3>3. /\ Len(t) = Len(typed) + IF fallback THEN 2 ELSE 1
            /\ t[Len(typed) + 1] = Line("body", c)
            /\ fallback => t[Len(typed) + 2] = Line("unique", c)
        BY <1>t, <2>2, <3>1, CommandTyped, ZenonT(30)
      <3>q. QED
        BY <3>1, <3>2, <3>3
    <2>4. ~ Seen("code")' /\ ~ Seen("torn")' /\ ~ Seen("unique")' /\ ~ Seen("prompt")' /\ shell' = AtPrompt
      BY <1>d, <2>1 DEF Quiet, Seen
    <2>5. CASE fallback
      <3>1. /\ Len(typed') = 2 /\ typed'[1].text = "body" /\ typed'[2].text = "unique"
        BY <1>m, <2>3, <2>5
      <3>2. UniqueToCome'
        BY <1>d, <1>m, <2>4, <3>1 DEF UniqueToCome
      <3>q. QED
        BY <2>1, <2>4, <2>5, <3>2 DEF StepInv, ReadsCodes
    <2>6. CASE ~ fallback
      <3>1. OneToCome("body")'
        BY <1>m, <2>3, <2>4, <2>6 DEF OneToCome
      <3>q. QED
        BY <2>1, <2>4, <2>6, <3>1 DEF StepInv, ReadsCodes
    <2>q. QED
      BY <2>5, <2>6
  <1>f. ASSUME NEW kinds, FirstOf(kinds) # 0
        PROVE  /\ FirstOf(kinds) \in 1 .. Len(chan) /\ chan[FirstOf(kinds)].kind \in kinds
               /\ \A i \in 1 .. (FirstOf(kinds) - 1) : chan[i].kind \notin kinds
               /\ Len(After(FirstOf(kinds))) = Len(chan) - FirstOf(kinds)
               /\ \A i \in 1 .. (Len(chan) - FirstOf(kinds)) : After(FirstOf(kinds))[i] = chan[FirstOf(kinds) + i]
    <2>1. PICK p : p = FirstOf(kinds)
      OBVIOUS
    <2>2. p \in 1 .. Len(chan) /\ chan[p].kind \in kinds /\ \A i \in 1 .. (p - 1) : chan[i].kind \notin kinds
      BY <1>t, <1>f, <2>1, FirstOfMark
    <2>3. Len(After(p)) = Len(chan) - p /\ \A i \in 1 .. (Len(chan) - p) : After(p)[i] = chan[p + i]
      BY <1>t, <2>2, AfterMarks
    <2>q. QED
      BY <2>1, <2>2, <2>3
  <1>6. CASE SeeEnd
    <2>0. SUFFICES ASSUME slip = "none" PROVE StepInv'
      BY <1>6 DEF SeeEnd, StepInv, Return
    <2>1. PICK p : p = FirstOf(BodyEnd) /\ p # 0
      BY <1>6 DEF SeeEnd
    <2>2. /\ p \in 1 .. Len(chan) /\ chan[p].kind \in BodyEnd
          /\ Len(chan') = Len(chan) - p /\ \A i \in 1 .. (Len(chan) - p) : chan'[i] = chan[p + i]
      BY <1>f, <1>6, <2>1 DEF SeeEnd
    <2>3. phase = "body" /\ shell' = shell
      BY <1>6 DEF SeeEnd
    <2>4. ~ ReadsCodes /\ ~ ReadsCodes'
      <3>1. ~ ReadsCodes
        BY <2>0, <2>3 DEF StepInv
      <3>2. \A j \in 1 .. Len(chan) : chan[j].kind \notin {"code", "torn"}
        BY <1>d, <3>1 DEF ReadsCodes, Seen
      <3>3. ASSUME NEW i \in 1 .. Len(chan') PROVE chan'[i].kind \notin {"code", "torn"}
        <4>0. p \in 1 .. Len(chan) /\ Len(chan') = Len(chan) - p /\ Len(chan) \in Nat
          BY <1>d, <2>2
        <4>1. p + i \in 1 .. Len(chan) /\ i \in 1 .. (Len(chan) - p)
          BY <4>0
        <4>2. chan'[i] = chan[p + i]
          BY <2>2, <4>1
        <4>q. QED
          BY <3>2, <4>1, <4>2
      <3>q. QED
        BY <1>d, <3>1, <3>3 DEF ReadsCodes, Seen
    <2>5. mode.fallback => typed = << >> /\ shell.at # "running"
      BY <1>d, <2>0, <2>2, <2>3 DEF StepInv, BodyEnd, UniqueToCome, Seen
    <2>6. ~ mode.fallback => typed = << >> /\ shell = AtPrompt /\ chan' = << >>
      <3>1. ASSUME ~ mode.fallback PROVE OneOwed /\ BodyEnd = {"prompt"}
        BY <1>d, <2>0, <2>2, <2>3, <3>1 DEF StepInv, BodyEnd, OneToCome, Seen
      <3>q. QED
        BY <1>t, <1>6, <2>1, <3>1, OwedSeen DEF SeeEnd
    <2>7. CASE mode.check = "ignore"
      <3>1. phase' = "idle" /\ slip' = (IF mode.fallback THEN "lost" ELSE slip) /\ typed' = typed
        BY <1>6, <2>7 DEF SeeEnd, Return
      <3>q. QED
        BY <2>0, <2>3, <2>6, <3>1 DEF StepInv, Quiet
    <2>8. CASE mode.check # "ignore"
      <3>1. phase' = "status" /\ slip' = "none" /\ typed' = typed \o StatusLines
        BY <1>6, <2>0, <2>8 DEF SeeEnd
      <3>2. Len(typed) = 0 /\ shell.at # "running"
        BY <1>d, <1>m, <2>5, <2>6
      <3>3. /\ Len(typed') = 2 /\ typed'[1] = Line("blank", calls) /\ typed'[2] = Line("status", calls)
        <4>1. PICK t : t = typed' /\ t = typed \o StatusLines
          BY <3>1
        <4>2. Len(t) = Len(typed) + 2 /\ t[Len(typed) + 1] = Line("blank", calls) /\ t[Len(typed) + 2] = Line("status", calls)
          BY <1>t, <4>1, StatusTyped, Zenon
        <4>q. QED
          BY <3>2, <4>1, <4>2
      <3>4. typed'[1].text = "blank" /\ typed'[2].text = "status"
        BY <1>m, <3>3
      <3>5. StatusToCome'
        BY <1>d, <2>3, <2>4, <3>2, <3>3, <3>4 DEF StatusToCome
      <3>q. QED
        BY <3>1, <3>5 DEF StepInv
    <2>q. QED
      BY <2>7, <2>8
  <1>7. CASE BodyTimeout
    BY <1>7 DEF BodyTimeout, Return, StepInv
  <1>8. CASE SeeStatus
    <2>0. SUFFICES ASSUME slip = "none" PROVE StepInv'
      BY <1>8 DEF SeeStatus, StepInv, Failed
    <2>1. PICK p : p = FirstOf({"code", "torn"}) /\ p # 0
      BY <1>8 DEF SeeStatus
    <2>2. /\ p \in 1 .. Len(chan) /\ chan[p].kind \in {"code", "torn"}
          /\ \A i \in 1 .. (p - 1) : chan[i].kind \notin {"code", "torn"}
          /\ Len(chan') = Len(chan) - p /\ \A i \in 1 .. (Len(chan) - p) : chan'[i] = chan[p + i]
      BY <1>f, <1>8, <2>1 DEF SeeStatus
    <2>3. phase = "status" /\ shell' = shell /\ typed' = typed /\ StatusToCome
      BY <1>8, <2>0 DEF SeeStatus, terminal, StepInv
    <2>4. chan[p].kind = "code" /\ typed = << >>
      BY <1>d, <2>2, <2>3 DEF StatusToCome, ReadsCodes, Seen
    <2>5. phase' = "prompt" /\ slip' = "none"
      BY <1>8, <2>0, <2>1, <2>4 DEF SeeStatus
    <2>6. CASE shell.at = "ending"
      <3>1. Len(chan') = 0
        <4>1. \A i \in 1 .. (Len(chan) - 1) : chan[i].kind # "code"
          BY <1>m, <2>3, <2>4, <2>6 DEF StatusToCome
        <4>2. p = Len(chan)
          <5>1. p \in 1 .. Len(chan) /\ Len(chan) \in Nat /\ p \notin 1 .. (Len(chan) - 1)
            BY <1>d, <2>2, <2>4, <4>1
          <5>q. QED
            BY <5>1
        <4>q. QED
          BY <1>d, <2>2, <4>2
      <3>2. OneOwed'
        BY <1>d, <2>3, <2>4, <2>6, <3>1 DEF OneOwed, Seen
      <3>q. QED
        BY <2>5, <3>2 DEF StepInv
    <2>7. CASE shell.at # "ending"
      <3>1. shell = AtPrompt /\ Len(chan') = 1 /\ chan'[1] = Prompt
        <4>1. /\ shell = AtPrompt /\ Len(chan) > 1 /\ chan[Len(chan)] = Prompt
              /\ \A i \in 1 .. (Len(chan) - 2) : chan[i].kind # "code"
          <5>1. \E i \in DOMAIN chan : chan[i].kind = "code"
            BY <1>d, <2>2, <2>4
          <5>2. ReadsCodes
            BY <5>1 DEF ReadsCodes, Seen
          <5>q. QED
            BY <2>3, <2>4, <2>7, <5>2 DEF StatusToCome
        <4>2. p = Len(chan) - 1
          <5>1. p \in 1 .. Len(chan) /\ Len(chan) \in Nat /\ p \notin 1 .. (Len(chan) - 2)
            BY <1>d, <2>2, <2>4, <4>1
          <5>2. p # Len(chan)
            BY <1>m, <2>4, <4>1
          <5>q. QED
            BY <5>1, <5>2
        <4>q. QED
          BY <1>d, <2>2, <4>1, <4>2
      <3>2. OneOwed'
        BY <1>d, <2>3, <2>4, <3>1 DEF OneOwed, Seen
      <3>q. QED
        BY <2>5, <3>2 DEF StepInv
    <2>q. QED
      BY <2>6, <2>7
  <1>9. CASE StatusTimeout
    BY <1>9 DEF StatusTimeout, Failed, StepInv
  <1>10. CASE SeePrompt
    <2>0. SUFFICES ASSUME slip = "none" PROVE StepInv'
      BY <1>10 DEF SeePrompt, StepInv
    <2>1. OneOwed /\ FirstOf({"prompt"}) # 0 /\ chan' = After(FirstOf({"prompt"}))
      BY <1>10, <2>0 DEF SeePrompt, StepInv
    <2>2. Quiet'
      BY <1>t, <1>10, <2>1, OwedSeen DEF SeePrompt, terminal, Quiet
    <2>q. QED
      BY <1>10, <2>0, <2>2 DEF SeePrompt, Return, StepInv
  <1>11. CASE PromptTimeout
    BY <1>11 DEF PromptTimeout, Failed, StepInv
  <1>n. ~ PromptOwed => shell.at # "prompt" /\ ~ Seen("prompt")
    <2>1. FirstOf({"prompt"}) = 0 => \A i \in DOMAIN chan : chan[i].kind \notin {"prompt"}
      BY <1>t, FirstOfMark
    <2>q. QED
      BY <2>1 DEF PromptOwed, Seen
  <1>12. CASE SendIntr
    <2>1. phase' = "intr" /\ chan' = chan /\ Signalled
      BY <1>12 DEF SendIntr
    <2>2. CASE slip' = "none"
      <3>1. slip = "none" /\ phase = "idle"
        BY <1>12, <2>2 DEF SendIntr
      <3>2. Quiet
        BY <3>1 DEF StepInv
      <3>3. shell' = [AtPrompt EXCEPT !.at = "ending"] /\ typed' = << >>
        BY <1>m, <2>1, <3>2 DEF Quiet, Signalled
      <3>4. shell'.at = "ending" /\ ~ Seen("prompt")'
        BY <1>d, <2>1, <3>2, <3>3 DEF Quiet, AtPrompt, Seen
      <3>5. OneOwed'
        BY <3>3, <3>4 DEF OneOwed
      <3>q. QED
        BY <2>1, <2>2, <3>5 DEF StepInv
    <2>3. CASE slip' = "timeout"
      <3>1. ~ PromptOwed
        BY <1>12, <2>3 DEF SendIntr
      <3>2. shell'.at # "prompt"
        BY <1>t, <1>n, <2>1, <3>1 DEF Signalled
      <3>3. OneOwed'
        BY <1>n, <2>1, <3>1, <3>2 DEF Signalled, OneOwed, Seen
      <3>q. QED
        BY <2>1, <2>3, <3>3 DEF StepInv
    <2>q. QED
      BY <2>2, <2>3 DEF StepInv
  <1>13. CASE SeeInterrupted
    <2>1. FirstOf({"prompt"}) # 0 /\ chan' \in EatFollowing(After(FirstOf({"prompt"}))) /\ phase \in {"intr", "kill"}
      BY <1>13 DEF SeeInterrupted, InterruptDone
    <2>0. SUFFICES ASSUME slip \in {"none", "timeout"} PROVE StepInv'
      BY <1>13 DEF SeeInterrupted, InterruptDone, StepInv
    <2>2. Seen("prompt")
      BY <1>d, <1>f, <2>1 DEF Seen
    <2>3. OneOwed
      BY <2>0, <2>1, <2>2 DEF StepInv, OneToCome
    <2>4. After(FirstOf({"prompt"})) = << >> /\ typed = << >> /\ shell = AtPrompt
      BY <1>t, <2>1, <2>3, OwedSeen
    <2>5. chan' = << >>
      BY <2>1, <2>4 DEF EatFollowing
    <2>6. phase' = "idle" /\ slip' = "none" /\ Quiet'
      BY <1>13, <2>0, <2>4, <2>5 DEF SeeInterrupted, InterruptDone, terminal, Quiet
    <2>q. QED
      BY <2>6 DEF StepInv
  <1>14. CASE SendStop
    <2>0. SUFFICES ASSUME slip' = "timeout" PROVE StepInv'
      BY <1>14 DEF SendStop, StepInv
    <2>1. ~ PromptOwed /\ Signalled /\ phase' = "stop" /\ chan' = chan
      BY <1>14, <2>0 DEF SendStop
    <2>2. shell'.at # "prompt"
      BY <1>t, <1>n, <2>1 DEF Signalled
    <2>3. OneOwed'
      BY <1>n, <2>1, <2>2 DEF Signalled, OneOwed, Seen
    <2>q. QED
      BY <2>0, <2>1, <2>3 DEF StepInv
  <1>15. CASE SendKill
    <2>0. SUFFICES ASSUME slip \in {"none", "timeout"} PROVE StepInv'
      BY <1>15 DEF SendKill, StepInv
    <2>1. OneOwed /\ slip = "timeout"
      BY <1>15, <2>0 DEF SendKill, StepInv
    <2>2. chan' = << >> /\ typed = << >> /\ shell' = AtPrompt
      BY <1>t, <1>15, <2>1, OwedSeen DEF SendKill
    <2>3. Len(typed') = 1 /\ typed'[1].text = "kill"
      BY <1>15, <1>m, <2>2 DEF SendKill
    <2>4. OneToCome("kill")'
      BY <1>d, <1>m, <2>2, <2>3 DEF OneToCome, Seen
    <2>q. QED
      BY <1>15, <2>1, <2>4 DEF SendKill, StepInv
  <1>16. CASE InterruptFails
    BY <1>16 DEF InterruptFails, StepInv
  <1>17. CASE UNCHANGED sessionVars
    BY <1>17 DEF sessionVars, StepInv, Quiet, ReadsCodes, Seen, UniqueToCome, OneToCome, OneOwed, StatusToCome
  <1>q. QED
    BY <1>1, <1>2, <1>3, <1>4, <1>5, <1>6, <1>7, <1>8, <1>9, <1>10, <1>11, <1>12, <1>13,
       <1>14, <1>15, <1>16, <1>17 DEF SessionNext

-----------------------------------------------------------------------------
(* At first no exit code is anywhere. *)
LEMMA CodesInit == SessionInit => QueueInv /\ CodesInv
  <1> SUFFICES ASSUME SessionInit PROVE QueueInv /\ CodesInv
    OBVIOUS
  <1>1. /\ chan = << >> /\ typed = << >> /\ last = Nobody /\ phase = "idle" /\ code = NoCode /\ calls = 0
        /\ result.code = NoCode
    BY DEF SessionInit, NoResult
  <1>2. Codes = {} /\ DOMAIN typed = {} /\ Nobody \in Int
    BY <1>1 DEF Codes, Nobody
  <1>3. Coming \in {Nobody} /\ (shell.at = "running" => shell.line.text # "status")
    BY <1>1 DEF Coming, StatusAfter, SessionInit, AtPrompt, Line, Nobody
  <1>q. QED
    BY <1>1, <1>2, <1>3 DEF QueueInv, CodesInv, Past, Nobody

(* A line stays covered when the lines before it move up, and when others follow it. *)
LEMMA CoveredShifted ==
  ASSUME NEW s, Len(s) \in Nat, \A k \in 1 .. (Len(s) - 1) : typed'[k] = s[k + 1], typed = s,
         typed[1].text = "body" => Coming' # Nobody,
         Coming # Nobody /\ typed[1].text \notin Resets => Coming' # Nobody,
         NEW i \in 1 .. Len(s), Covered(i + 1)
  PROVE  Covered(i)'
  <1>1. \A k \in 1 .. (i - 1) : typed'[k] = s[k + 1]
    OBVIOUS
  <1>2. ASSUME NEW j \in 1 .. i, s[j].text = "body", \A k \in (j + 1) .. i : s[k].text \notin Resets
        PROVE  Covered(i)'
    <2>1. CASE j = 1
      <3>1. Coming' # Nobody
        BY <1>2, <2>1
      <3>2. ASSUME NEW k \in 1 .. (i - 1) PROVE typed'[k].text \notin Resets
        <4>1. k + 1 \in (j + 1) .. i
          BY <2>1
        <4>q. QED
          BY <1>1, <1>2, <4>1
      <3>q. QED
        BY <3>1, <3>2 DEF Covered, Resets
    <2>2. CASE j # 1
      <3>1. j - 1 \in 1 .. (i - 1) /\ (j - 1) + 1 = j
        BY <2>2
      <3>2. typed'[j - 1] = s[j]
        BY <1>1, <3>1
      <3>3. ASSUME NEW k \in ((j - 1) + 1) .. (i - 1) PROVE typed'[k].text \notin Resets
        <4>1. k + 1 \in (j + 1) .. i /\ k \in 1 .. (i - 1)
          BY <3>1
        <4>q. QED
          BY <1>1, <1>2, <4>1
      <3>q. QED
        BY <1>2, <3>1, <3>2, <3>3 DEF Covered, Resets
    <2>q. QED
      BY <2>1, <2>2
  <1>3. ASSUME Coming # Nobody, \A k \in 1 .. i : s[k].text \notin Resets
        PROVE  Covered(i)'
    <2>1. Coming' # Nobody
      BY <1>3
    <2>2. ASSUME NEW k \in 1 .. (i - 1) PROVE typed'[k].text \notin Resets
      <3>1. k + 1 \in 1 .. i
        OBVIOUS
      <3>q. QED
        BY <1>1, <1>3, <3>1
    <2>q. QED
      BY <2>1, <2>2 DEF Covered, Resets
  <1>4. (i + 1) - 1 = i
    OBVIOUS
  <1>q. QED
    BY <1>2, <1>3, <1>4 DEF Covered

(* A line stays covered when only lines behind it change. *)
LEMMA CoveredExtended ==
  ASSUME NEW n \in Nat, \A k \in 1 .. n : typed'[k] = typed[k], Coming' = Coming,
         NEW i \in 1 .. (n + 1), Covered(i)
  PROVE  Covered(i)'
  <1>1. \A k \in 1 .. (i - 1) : typed'[k] = typed[k]
    OBVIOUS
  <1>2. ASSUME NEW j \in 1 .. (i - 1), typed[j].text = "body", \A k \in (j + 1) .. (i - 1) : typed[k].text \notin Resets
        PROVE  Covered(i)'
    <2>1. \A k \in (j + 1) .. (i - 1) : k \in 1 .. (i - 1)
      OBVIOUS
    <2>q. QED
      BY <1>1, <1>2, <2>1 DEF Covered, Resets
  <1>3. ASSUME Coming # Nobody, \A k \in 1 .. (i - 1) : typed[k].text \notin Resets
        PROVE  Covered(i)'
    BY <1>1, <1>3 DEF Covered, Resets
  <1>q. QED
    BY <1>2, <1>3 DEF Covered

(* The codes of a thinned stream keep their order. *)
LEMMA CodesThinned ==
  ASSUME chan \in Seq(Marks), chan' \in Seq(Marks),
         NEW f \in [1 .. Len(chan') -> 1 .. Len(chan)], Thins(f, chan', chan),
         \A i, j \in Codes : i < j => chan[i].call < chan[j].call
  PROVE  /\ \A i, j \in Codes' : i < j => chan'[i].call < chan'[j].call
         /\ \A i \in Codes' : f[i] \in Codes /\ chan'[i].call = chan[f[i]].call
  <1>1. DOMAIN chan = 1 .. Len(chan) /\ DOMAIN chan' = 1 .. Len(chan')
    BY Sized
  <1>2. ASSUME NEW i \in Codes' PROVE f[i] \in Codes /\ chan'[i].call = chan[f[i]].call
    <2>1. i \in 1 .. Len(chan') /\ chan'[i].kind = "code"
      BY <1>1 DEF Codes
    <2>2. f[i] \in 1 .. Len(chan) /\ chan'[i] = chan[f[i]]
      BY <2>1 DEF Thins
    <2>q. QED
      BY <1>1, <2>1, <2>2 DEF Codes
  <1>3. ASSUME NEW i \in Codes', NEW j \in Codes', i < j PROVE chan'[i].call < chan'[j].call
    <2>1. i \in 1 .. Len(chan') /\ j \in 1 .. Len(chan')
      BY <1>1 DEF Codes
    <2>2. f[i] < f[j]
      BY <1>3, <2>1 DEF Thins
    <2>q. QED
      BY <1>2, <2>2
  <1>q. QED
    BY <1>2, <1>3

(* What a wait leaves of the stream thins what followed the mark it found. *)
LEMMA Consumed ==
  ASSUME chan \in Seq(Marks), NEW p \in 1 .. Len(chan), NEW t \in EatFollowing(After(p))
  PROVE  \E f \in [1 .. Len(t) -> 1 .. Len(chan)] :
            Thins(f, t, chan) /\ \A k \in 1 .. Len(t) : f[k] > p
  <1>1. PICK s : s = After(p)
    OBVIOUS
  <1>2. /\ s \in Seq(Marks) /\ Len(s) = Len(chan) - p /\ Len(chan) \in Nat
        /\ \A i \in 1 .. (Len(chan) - p) : s[i] = chan[p + i]
    BY <1>1, AfterMarks, Sized
  <1>3. PICK g \in [1 .. Len(t) -> 1 .. Len(s)] : Thins(g, t, s)
    BY <1>1, <1>2, EatenMarks
  <1>4. Len(t) \in Nat
    BY <1>1, <1>2, EatenMarks, Sized
  <1> DEFINE f == [k \in 1 .. Len(t) |-> g[k] + p]
  <1>5. \A k \in 1 .. Len(t) : g[k] \in 1 .. (Len(chan) - p) /\ f[k] = g[k] + p
    BY <1>2, <1>3
  <1>6. f \in [1 .. Len(t) -> 1 .. Len(chan)] /\ \A k \in 1 .. Len(t) : f[k] > p
    BY <1>2, <1>5
  <1>7. ASSUME NEW k \in 1 .. Len(t)
        PROVE  s[g[k]] = chan[f[k]]
    <2>1. g[k] \in 1 .. (Len(chan) - p) /\ f[k] = p + g[k]
      BY <1>2, <1>5
    <2>q. QED
      BY <1>2, <2>1
  <1> HIDE DEF f
  <1>8. \A k, l \in 1 .. Len(t) : k < l => f[k] < f[l]
    <2> TAKE k, l \in 1 .. Len(t)
    <2>1. k < l => g[k] < g[l]
      BY <1>3 DEF Thins
    <2>2. g[k] \in Int /\ g[l] \in Int /\ f[k] = g[k] + p /\ f[l] = g[l] + p /\ p \in Int
      BY <1>2, <1>5
    <2>q. QED
      BY <2>1, <2>2
  <1>9. \A k \in 1 .. Len(t) : \/ t[k] = chan[f[k]]
                               \/ t[k].kind = "torn" /\ chan[f[k]].kind = "code"
    BY <1>3, <1>7 DEF Thins
  <1>q. QED
    BY <1>6, <1>8, <1>9 DEF Thins

(* Eating what follows may take nothing. *)
LEMMA Taken ==
  ASSUME NEW s PROVE s \in EatFollowing(s)
  BY DEF EatFollowing

(* What is left behind a mark holds only codes from behind it, in order. *)
LEMMA CodesAfter ==
  ASSUME chan \in Seq(Marks), chan' \in Seq(Marks), NEW p \in 1 .. Len(chan), chan' \in EatFollowing(After(p)),
         \A i, j \in Codes : i < j => chan[i].call < chan[j].call
  PROVE  /\ \A i, j \in Codes' : i < j => chan'[i].call < chan'[j].call
         /\ \A i \in Codes' : \E j \in Codes : j > p /\ chan'[i].call = chan[j].call
  <1>1. PICK t : t = chan'
    OBVIOUS
  <1>2. PICK f \in [1 .. Len(t) -> 1 .. Len(chan)] :
            Thins(f, t, chan) /\ \A k \in 1 .. Len(t) : f[k] > p
    BY <1>1, Consumed
  <1>3. f \in [1 .. Len(chan') -> 1 .. Len(chan)] /\ Thins(f, chan', chan)
    BY <1>1, <1>2 DEF Thins
  <1>4. /\ \A i, j \in Codes' : i < j => chan'[i].call < chan'[j].call
        /\ \A i \in Codes' : f[i] \in Codes /\ chan'[i].call = chan[f[i]].call
    BY <1>3, CodesThinned
  <1>5. \A i \in Codes' : i \in 1 .. Len(t)
    BY <1>1, Sized DEF Codes
  <1>q. QED
    BY <1>2, <1>4, <1>5

(* A code that has been printed stays before all that are to come. *)
LEMMA PastKept ==
  ASSUME NEW c \in Int, Past(c), calls \in Nat, calls' \in {calls, calls + 1},
         \A i \in DOMAIN typed' : typed'[i].text = "body" =>
             \/ typed'[i].call = calls + 1
             \/ \E j \in DOMAIN typed : typed'[i] = typed[j]
  PROVE  Past(c)'
  <1>1. c <= calls' /\ c < calls + 1
    BY DEF Past
  <1>q. QED
    BY <1>1 DEF Past

(* And so it stays when bash takes no older command up. *)
LEMMA PrintedKept ==
  ASSUME NEW c \in Int, Printed(c), Past(c)', {last', Coming'} \subseteq {last, Coming, Nobody}
  PROVE  Printed(c)'
  BY DEF Printed

(* A step that only takes codes away, or reads the first, keeps them in order. *)
LEMMA CodesKept ==
  ASSUME CodesInv, chan \in Seq(Marks), code \in Int, result.code \in Int,
         \A i, j \in Codes' : i < j => chan'[i].call < chan'[j].call,
         \A i \in Codes' : \E j \in Codes : chan'[i].call = chan[j].call,
         \A c \in Int : Printed(c) => Printed(c)',
         \/ code' \in {code, NoCode}
         \/ Printed(code)' /\ \A i \in Codes' : code' < chan'[i].call,
         result'.code \in {result.code, code, NoCode}
  PROVE  CodesInv'
  <1>1. \A j \in Codes : chan[j].call \in Int
    <2>1. \A j \in 1 .. Len(chan) : chan[j] \in Marks
      BY Sized
    <2>2. \A m \in Marks : m.call \in Int
      BY BashSessionAssumption DEF Marks, CallIds, Nobody
    <2>q. QED
      BY <2>1, <2>2, Sized DEF Codes
  <1>2. ASSUME NEW i \in Codes' PROVE Printed(chan[i].call)'
    <2>1. PICK j \in Codes : chan'[i].call = chan[j].call
      BY <1>2
    <2>2. PICK c : c = chan[j].call /\ c = chan'[i].call
      BY <2>1
    <2>3. c \in Int /\ Printed(c)
      BY <1>1, <2>2 DEF CodesInv
    <2>4. Printed(c)'
      BY <2>3
    <2>q. QED
      BY <2>2, <2>4 DEF Printed, Past
  <1>3. ASSUME NEW c \in Int, Printed(c), \A i \in Codes : c < chan[i].call
        PROVE  Printed(c)' /\ \A i \in Codes' : c < chan'[i].call
    BY <1>3
  <1>4. ASSUME NEW c \in {code, result.code}, c # NoCode
        PROVE  c \in Int /\ Printed(c) /\ \A i \in Codes : c < chan[i].call
    BY <1>4 DEF CodesInv
  <1>5. ASSUME code' # NoCode
        PROVE  Printed(code)' /\ \A i \in Codes' : code' < chan'[i].call
    <2>1. CASE code' = code
      <3>1. PICK c : c = code /\ c = code'
        BY <2>1
      <3>2. Printed(c)' /\ \A i \in Codes' : c < chan'[i].call
        BY <1>3, <1>4, <1>5, <3>1
      <3>q. QED
        BY <3>1, <3>2 DEF Printed, Past
    <2>q. QED
      BY <1>5, <2>1
  <1>6. ASSUME result'.code # NoCode
        PROVE  Printed(result.code)' /\ \A i \in Codes' : result'.code < chan'[i].call
    <2>1. PICK c \in {code, result.code} : c = result'.code /\ c # NoCode
      BY <1>6
    <2>2. Printed(c)' /\ \A i \in Codes' : c < chan'[i].call
      BY <1>3, <1>4, <2>1
    <2>q. QED
      BY <2>1, <2>2 DEF Printed, Past
  <1>q. QED
    BY <1>2, <1>5, <1>6 DEF CodesInv

(* Every step keeps the lines that are to come in order. *)
LEMMA QueueNext == SessionTypeOK /\ QueueInv /\ [SessionNext]_sessionVars => QueueInv'
  <1> SUFFICES ASSUME SessionTypeOK, QueueInv, [SessionNext]_sessionVars PROVE QueueInv'
    OBVIOUS
  <1>t. /\ typed \in Seq(Lines) /\ typed' \in Seq(Lines)
        /\ last \in CallIds \cup {Nobody} /\ last' \in CallIds \cup {Nobody}
        /\ calls \in 0 .. MaxCalls /\ calls \in Nat /\ CallIds = 1 .. MaxCalls /\ Nobody = 0
        /\ shell \in [at : {"prompt", "running", "ending"}, line : Lines]
        /\ shell' \in [at : {"prompt", "running", "ending"}, line : Lines]
    BY BashSessionAssumption, SessionTypeNext DEF SessionTypeOK, CallIds, Nobody
  <1>d. /\ DOMAIN typed = 1 .. Len(typed) /\ Len(typed) \in Nat /\ (typed = << >> <=> Len(typed) = 0)
        /\ DOMAIN typed' = 1 .. Len(typed') /\ Len(typed') \in Nat /\ (typed' = << >> <=> Len(typed') = 0)
        /\ \A i \in 1 .. Len(typed) : typed[i] \in Lines
    BY <1>t, Sized
  <1>c. Coming \in Int /\ last \in Int
    BY <1>t, PrintsMarks, BashSessionAssumption DEF Coming
  <1>m. AtPrompt.at = "prompt" /\ \A k, c : Line(k, c).text = k /\ Line(k, c).call = c
    BY DEF AtPrompt, Line
  <1>b. ASSUME typed # << >>, typed' = Tail(typed)
        PROVE  /\ Len(typed') = Len(typed) - 1 /\ \A i \in 1 .. (Len(typed) - 1) : typed'[i] = typed[i + 1]
               /\ \A i \in DOMAIN typed' : i + 1 \in DOMAIN typed /\ typed'[i] = typed[i + 1]
    <2>1. Len(typed') = Len(typed) - 1 /\ \A i \in 1 .. (Len(typed) - 1) : typed'[i] = typed[i + 1]
      BY <1>t, <1>b, LineRead
    <2>2. ASSUME NEW i \in DOMAIN typed' PROVE i + 1 \in DOMAIN typed /\ i \in 1 .. (Len(typed) - 1)
      BY <1>d, <2>1
    <2>q. QED
      BY <2>1, <2>2
  (* Lines that only move up stay in order. *)
  <1>o. ASSUME typed # << >>, typed' = Tail(typed), calls' = calls
        PROVE  /\ \A i, j \in DOMAIN typed' : i < j /\ typed'[i].text = "body" /\ typed'[j].text = "body"
                                                => typed'[i].call < typed'[j].call
               /\ \A i \in DOMAIN typed' : typed'[i].text = "body" => typed'[i].call \in 1 .. calls'
               /\ \A c \in Int : Past(c) => Past(c)'
    <2>1. ASSUME NEW i \in DOMAIN typed', NEW j \in DOMAIN typed', i < j,
                 typed'[i].text = "body", typed'[j].text = "body"
          PROVE  typed'[i].call < typed'[j].call
      <3>1. i + 1 \in DOMAIN typed /\ j + 1 \in DOMAIN typed /\ i + 1 < j + 1
        BY <1>b, <1>d, <1>o, <2>1
      <3>2. typed'[i] = typed[i + 1] /\ typed'[j] = typed[j + 1]
        BY <1>b, <1>o
      <3>q. QED
        BY <2>1, <3>1, <3>2 DEF QueueInv
    <2>2. ASSUME NEW i \in DOMAIN typed', typed'[i].text = "body" PROVE typed'[i].call \in 1 .. calls'
      <3>1. i + 1 \in DOMAIN typed /\ typed'[i] = typed[i + 1]
        BY <1>b, <1>o
      <3>q. QED
        BY <1>o, <2>2, <3>1 DEF QueueInv
    <2>3. ASSUME NEW c \in Int, Past(c) PROVE Past(c)'
      BY <1>b, <1>o, <1>t, <2>3, PastKept
    <2>q. QED
      BY <2>1, <2>2, <2>3
  <1>1. CASE ReadLine
    <2>1. /\ typed # << >> /\ typed' = Tail(typed) /\ calls' = calls /\ last' = last /\ phase' = phase
          /\ shell' = [at |-> "running", line |-> typed[1]] /\ shell.at = "prompt"
      BY <1>t, <1>1, LineRead DEF ReadLine, answering
    <2>2. Coming = last /\ Coming' = (IF typed[1].text = "body" THEN typed[1].call
                                     ELSE IF typed[1].text \in Resets THEN Nobody ELSE last)
      BY <2>1 DEF Coming, StatusAfter, Resets
    <2>3. 1 \in DOMAIN typed /\ Len(typed) \in Nat
      BY <1>d, <2>1
    <2>4. Past(last)' /\ \A c \in Int : Past(c) => Past(c)'
      <3>1. PICK c : c = last /\ c = last'
        BY <2>1
      <3>2. Past(c)'
        BY <1>c, <1>o, <2>1, <3>1 DEF QueueInv
      <3>q. QED
        BY <1>o, <2>1, <3>1, <3>2 DEF Past
    <2>5. Past(Coming)'
      <3>1. CASE typed[1].text = "body"
        <4>1. typed[1].call <= calls' /\ Coming' = typed[1].call
          BY <1>t, <2>1, <2>2, <2>3, <3>1 DEF QueueInv
        <4>2. ASSUME NEW i \in DOMAIN typed', typed'[i].text = "body" PROVE typed[1].call < typed'[i].call
          <5>1. i + 1 \in DOMAIN typed /\ typed'[i] = typed[i + 1] /\ 1 < i + 1
            BY <1>b, <1>d, <2>1
          <5>q. QED
            BY <2>3, <3>1, <4>2, <5>1 DEF QueueInv
        <4>q. QED
          BY <4>1, <4>2 DEF Past
      <3>2. CASE typed[1].text # "body"
        <4>1. Past(Nobody)
          BY <1>t DEF QueueInv, Past
        <4>2. PICK c \in {last, Nobody} : c = Coming'
          BY <2>2, <3>2
        <4>3. c \in Int /\ Past(c)
          BY <1>c, <1>t, <4>1 DEF QueueInv
        <4>4. Past(c)'
          BY <2>4, <4>3
        <4>q. QED
          BY <4>2, <4>4 DEF Past
      <3>q. QED
        BY <3>1, <3>2
    <2>6. ASSUME NEW i \in 1 .. Len(typed), Covered(i + 1) PROVE Covered(i)'
      <3>1. typed[1].text = "body" => Coming' # Nobody
        BY <1>t, <2>2, <2>3 DEF QueueInv
      <3>2. Coming # Nobody /\ typed[1].text \notin Resets => Coming' # Nobody
        BY <2>2, <3>1
      <3>q. QED
        BY <1>b, <2>1, <2>3, <2>6, <3>1, <3>2, CoveredShifted
    <2>7. ASSUME NEW i \in DOMAIN typed', typed'[i].text = "status" PROVE Covered(i)'
      <3>1. i + 1 \in DOMAIN typed /\ typed'[i] = typed[i + 1] /\ i \in 1 .. Len(typed)
        BY <1>b, <1>d, <2>1
      <3>q. QED
        BY <2>6, <2>7, <3>1 DEF QueueInv
    <2>8. typed[1].text = "status" => last # Nobody
      BY <2>2, <2>3 DEF QueueInv, Covered
    <2>9. phase = "body" => Covered(Len(typed) + 1)'
      <3>1. Len(typed) \in 1 .. Len(typed) /\ Len(typed') + 1 = Len(typed)
        BY <1>b, <1>d, <2>1
      <3>2. PICK n : n = Len(typed)
        OBVIOUS
      <3>3. phase = "body" => Covered(n)'
        BY <2>6, <3>1, <3>2 DEF QueueInv
      <3>q. QED
        BY <3>1, <3>2, <3>3 DEF Covered
    <2>q. QED
      BY <1>o, <2>1, <2>4, <2>5, <2>7, <2>8, <2>9 DEF QueueInv
  (* A step that leaves the terminal and the call alone. *)
  <1>k. ASSUME typed' = typed, calls' = calls, Coming' = Coming, last' \in {last, Coming},
               phase' = phase \/ phase' # "body",
               shell'.at = "running" => shell' = shell /\ last' = last
        PROVE  QueueInv'
    <2>1. \A c \in Int : Past(c) => Past(c)'
      BY <1>k DEF Past
    <2>2. Past(last)' /\ Past(Coming)'
      <3>1. PICK a, b : a = last' /\ b = Coming' /\ a \in {last, Coming} /\ b = Coming
        BY <1>k
      <3>2. Past(a)' /\ Past(b)'
        BY <1>c, <2>1, <3>1 DEF QueueInv
      <3>q. QED
        BY <3>1, <3>2 DEF Past
    <2>3. ASSUME NEW i \in 1 .. (Len(typed) + 1), Covered(i) PROVE Covered(i)'
      BY <1>d, <1>k, <2>3, CoveredExtended
    <2>4. \A i \in DOMAIN typed' : typed'[i].text = "status" => Covered(i)'
      BY <1>d, <1>k, <2>3 DEF QueueInv
    <2>5. phase' = "body" => Covered(Len(typed) + 1)'
      <3>1. PICK n : n = Len(typed) + 1
        OBVIOUS
      <3>2. n \in 1 .. (Len(typed) + 1)
        BY <1>d, <3>1
      <3>3. phase' = "body" => Covered(n)'
        BY <1>k, <2>3, <3>1, <3>2 DEF QueueInv
      <3>q. QED
        BY <1>k, <3>1, <3>3 DEF Covered
    <2>q. QED
      BY <1>k, <2>2, <2>4, <2>5 DEF QueueInv
  <1>2. CASE PrintOutput
    <2>1. /\ typed' = typed /\ calls' = calls /\ phase' = phase /\ shell'.at = "ending"
          /\ last' = Coming /\ Coming' = Coming
      BY <1>t, <1>2 DEF PrintOutput, answering, Coming
    <2>q. QED
      BY <1>k, <2>1
  <1>3. CASE PrintPrompt
    <2>1. /\ typed' = typed /\ calls' = calls /\ phase' = phase /\ shell'.at = "prompt"
          /\ last' = last /\ Coming' = Coming
      BY <1>m, <1>3 DEF PrintPrompt, answering, Coming
    <2>q. QED
      BY <1>k, <2>1
  <1>4. CASE TakesInput
    <2>1. /\ typed # << >> /\ typed' = Tail(typed) /\ calls' = calls /\ last' = last /\ phase' = phase
          /\ shell' = shell /\ shell.at = "running" /\ shell.line.text = "body" /\ shell.line.call \in CallIds
      BY <1>4 DEF TakesInput, answering
    <2>2. Coming = shell.line.call /\ Coming' = Coming /\ Coming # Nobody
      BY <1>t, <2>1 DEF Coming, StatusAfter
    <2>4. Past(last)' /\ Past(Coming)'
      <3>1. PICK c, e : c = last /\ c = last' /\ e = Coming /\ e = Coming'
        BY <2>1, <2>2
      <3>2. Past(c)' /\ Past(e)'
        BY <1>c, <1>o, <2>1, <3>1 DEF QueueInv
      <3>q. QED
        BY <3>1, <3>2 DEF Past
    <2>6. ASSUME NEW i \in 1 .. Len(typed), Covered(i + 1) PROVE Covered(i)'
      BY <1>b, <1>d, <2>1, <2>2, <2>6, CoveredShifted
    <2>7. ASSUME NEW i \in DOMAIN typed', typed'[i].text = "status" PROVE Covered(i)'
      <3>1. i + 1 \in DOMAIN typed /\ typed'[i] = typed[i + 1] /\ i \in 1 .. Len(typed)
        BY <1>b, <1>d, <2>1
      <3>q. QED
        BY <2>6, <2>7, <3>1 DEF QueueInv
    <2>9. phase = "body" => Covered(Len(typed) + 1)'
      <3>1. Len(typed) \in 1 .. Len(typed) /\ Len(typed') + 1 = Len(typed)
        BY <1>b, <1>d, <2>1
      <3>2. PICK n : n = Len(typed)
        OBVIOUS
      <3>3. phase = "body" => Covered(n)'
        BY <2>6, <3>1, <3>2 DEF QueueInv
      <3>q. QED
        BY <3>1, <3>2, <3>3 DEF Covered
    <2>q. QED
      BY <1>o, <2>1, <2>4, <2>7, <2>9 DEF QueueInv
  <1>5. CASE \E check \in {"raise", "silent", "ignore"}, fallback \in BOOLEAN : Run(check, fallback)
    <2> PICK check \in {"raise", "silent", "ignore"}, fallback \in BOOLEAN : Run(check, fallback)
      BY <1>5
    <2>1. calls' = calls + 1 /\ last' = last /\ shell' = shell /\ Coming' = Coming
      BY DEF Run, Coming, StatusAfter
    <2>2. calls + 1 \in CallIds
      BY <1>t, BashSessionAssumption DEF Run
    <2>3. /\ Len(typed') = Len(typed) + (IF fallback THEN 2 ELSE 1)
          /\ \A i \in 1 .. Len(typed) : typed'[i] = typed[i]
          /\ typed'[Len(typed) + 1] = Line("body", calls + 1)
          /\ fallback => typed'[Len(typed) + 2] = Line("unique", calls + 1)
      <3>1. PICK u, c : u = typed' /\ c = calls + 1 /\ c \in CallIds /\ u = typed \o CommandLines(c, fallback)
        BY <2>2 DEF Run
      <3>0. typed \in Seq(Lines)
        BY <1>t
      <3>2. /\ Len(u) = Len(typed) + IF fallback THEN 2 ELSE 1
            /\ \A i \in 1 .. Len(typed) : u[i] = typed[i]
            /\ u[Len(typed) + 1] = Line("body", c)
            /\ fallback => u[Len(typed) + 2] = Line("unique", c)
        BY <3>0, <3>1, CommandTyped, Zenon
      <3>q. QED
        BY <3>1, <3>2
    <2>4. \A i \in DOMAIN typed' : \/ i \in DOMAIN typed /\ typed'[i] = typed[i]
                                   \/ i = Len(typed) + 1 /\ typed'[i].text = "body" /\ typed'[i].call = calls + 1
                                   \/ i = Len(typed) + 2 /\ typed'[i].text = "unique"
      <3>0. typed \in Seq(Lines)
        BY <1>t
      <3>1. PICK u, c : u = typed' /\ c = calls + 1 /\ c \in CallIds /\ u = typed \o CommandLines(c, fallback)
        BY <2>2 DEF Run
      <3>2. \A i \in DOMAIN u : \/ i \in DOMAIN typed /\ u[i] = typed[i]
                                \/ i = Len(typed) + 1 /\ u[i] = Line("body", c)
                                \/ fallback /\ i = Len(typed) + 2 /\ u[i] = Line("unique", c)
        BY <3>0, <3>1, CommandLine, Zenon
      <3>q. QED
        BY <1>m, <3>1, <3>2
    <2>5. ASSUME NEW c \in Int, Past(c) PROVE Past(c)'
      <3>1. \A i \in DOMAIN typed' : typed'[i].text = "body" =>
               \/ typed'[i].call = calls + 1
               \/ \E j \in DOMAIN typed : typed'[i] = typed[j]
        BY <2>4
      <3>q. QED
        BY <1>t, <2>1, <2>5, <3>1, PastKept
    <2>6. Past(last)' /\ Past(Coming)'
      <3>1. PICK c, e : c = last /\ c = last' /\ e = Coming /\ e = Coming'
        BY <2>1
      <3>2. Past(c)' /\ Past(e)'
        BY <1>c, <2>5, <3>1 DEF QueueInv
      <3>q. QED
        BY <3>1, <3>2 DEF Past
    <2>7. ASSUME NEW i \in DOMAIN typed', NEW j \in DOMAIN typed', i < j,
                 typed'[i].text = "body", typed'[j].text = "body"
          PROVE  typed'[i].call < typed'[j].call
      <3>1. i \in DOMAIN typed /\ typed'[i] = typed[i]
        BY <1>d, <2>4, <2>7
      <3>2. typed[i].call \in 1 .. calls
        BY <2>7, <3>1 DEF QueueInv
      <3>3. CASE j \in DOMAIN typed /\ typed'[j] = typed[j]
        BY <2>7, <3>1, <3>3 DEF QueueInv
      <3>4. CASE typed'[j].call = calls + 1
        BY <1>t, <3>1, <3>2, <3>4
      <3>q. QED
        BY <2>4, <2>7, <3>3, <3>4
    <2>8. ASSUME NEW i \in DOMAIN typed', typed'[i].text = "body" PROVE typed'[i].call \in 1 .. calls'
      <3>1. CASE i \in DOMAIN typed /\ typed'[i] = typed[i]
        <4>1. typed[i].call \in 1 .. calls
          BY <2>8, <3>1 DEF QueueInv
        <4>q. QED
          BY <1>t, <2>1, <3>1, <4>1
      <3>2. CASE typed'[i].call = calls + 1
        BY <1>t, <2>1, <3>2
      <3>q. QED
        BY <2>4, <2>8, <3>1, <3>2
    <2>9. ASSUME NEW i \in DOMAIN typed', typed'[i].text = "status" PROVE Covered(i)'
      <3>1. i \in 1 .. (Len(typed) + 1) /\ typed[i].text = "status" /\ i \in DOMAIN typed
        BY <1>d, <2>4, <2>9
      <3>2. Covered(i)
        BY <3>1 DEF QueueInv
      <3>q. QED
        BY <1>d, <2>1, <2>3, <3>1, <3>2, CoveredExtended
    <2>10. Covered(Len(typed) + 1)'
      <3>1. PICK n, a : n = Len(typed') /\ a = Len(typed) + 1
        OBVIOUS
      <3>2. a \in 1 .. ((n + 1) - 1) /\ typed'[a].text = "body"
        BY <1>d, <1>m, <2>3, <3>1
      <3>3. ASSUME NEW k \in (a + 1) .. ((n + 1) - 1) PROVE typed'[k].text \notin Resets
        <4>1. fallback /\ k = Len(typed) + 2
          BY <1>d, <2>3, <3>1
        <4>q. QED
          BY <1>m, <2>3, <4>1 DEF Resets
      <3>4. Covered(n + 1)'
        BY <3>2, <3>3 DEF Covered, Resets
      <3>q. QED
        BY <3>1, <3>4 DEF Covered
    <2>q. QED
      BY <2>1, <2>6, <2>7, <2>8, <2>9, <2>10 DEF QueueInv
  <1>6. CASE SeeEnd
    <2>1. /\ phase = "body" /\ calls' = calls /\ last' = last /\ shell' = shell /\ Coming' = Coming
          /\ phase' # "body" /\ (typed' = typed \/ typed' = typed \o StatusLines)
      BY <1>6 DEF SeeEnd, Return, Coming, StatusAfter
    <2>2. CASE typed' = typed
      BY <1>k, <2>1, <2>2
    <2>3. CASE typed' = typed \o StatusLines
      <3>1. /\ Len(typed') = Len(typed) + 2 /\ \A i \in 1 .. Len(typed) : typed'[i] = typed[i]
            /\ typed'[Len(typed) + 1].text = "blank" /\ typed'[Len(typed) + 2].text = "status"
        <4>1. PICK u : u = typed' /\ u = typed \o StatusLines
          BY <2>3
        <4>2. /\ Len(u) = Len(typed) + 2 /\ \A i \in 1 .. Len(typed) : u[i] = typed[i]
              /\ u[Len(typed) + 1] = Line("blank", calls) /\ u[Len(typed) + 2] = Line("status", calls)
          BY <1>t, <4>1, StatusTyped, Zenon
        <4>q. QED
          BY <1>m, <4>1, <4>2
      <3>2. \A i \in DOMAIN typed' : \/ i \in DOMAIN typed /\ typed'[i] = typed[i]
                                     \/ i = Len(typed) + 1 /\ typed'[i].text = "blank"
                                     \/ i = Len(typed) + 2 /\ typed'[i].text = "status"
        BY <1>d, <3>1
      <3>3. Past(last)' /\ Past(Coming)'
        <4>1. ASSUME NEW c \in Int, Past(c) PROVE Past(c)'
          BY <1>t, <2>1, <3>2, <4>1, PastKept
        <4>2. PICK c, e : c = last /\ c = last' /\ e = Coming /\ e = Coming'
          BY <2>1
        <4>3. Past(c)' /\ Past(e)'
          BY <1>c, <4>1, <4>2 DEF QueueInv
        <4>q. QED
          BY <4>2, <4>3 DEF Past
      <3>4. ASSUME NEW i \in 1 .. (Len(typed) + 1), Covered(i) PROVE Covered(i)'
        BY <1>d, <2>1, <3>1, <3>4, CoveredExtended
      <3>5. PICK n : n = Len(typed) + 1 /\ n \in 1 .. (Len(typed) + 1)
        BY <1>d
      <3>6. Covered(n)'
        BY <2>1, <3>4, <3>5 DEF QueueInv
      <3>7. Covered(n + 1)'
        <4>1. CASE Coming' # Nobody /\ \A k \in 1 .. (n - 1) : typed'[k].text \notin Resets
          <5>1. \A k \in 1 .. ((n + 1) - 1) : k \in 1 .. (n - 1) \/ k = n
            BY <3>5
          <5>q. QED
            BY <3>1, <3>5, <4>1, <5>1 DEF Covered, Resets
        <4>2. ASSUME NEW j \in 1 .. (n - 1), typed'[j].text = "body", \A k \in (j + 1) .. (n - 1) : typed'[k].text \notin Resets
              PROVE  Covered(n + 1)'
          <5>1. j \in 1 .. ((n + 1) - 1) /\ \A k \in (j + 1) .. ((n + 1) - 1) : k \in (j + 1) .. (n - 1) \/ k = n
            BY <3>5
          <5>q. QED
            BY <3>1, <3>5, <4>2, <5>1 DEF Covered, Resets
        <4>q. QED
          BY <3>6, <4>1, <4>2 DEF Covered, Resets
      <3>8. ASSUME NEW i \in DOMAIN typed', typed'[i].text = "status" PROVE Covered(i)'
        <4>1. CASE i \in DOMAIN typed /\ typed'[i] = typed[i]
          BY <1>d, <3>4, <3>8, <4>1 DEF QueueInv
        <4>2. CASE i = Len(typed) + 2
          <5>1. i = n + 1
            BY <1>d, <3>5, <4>2
          <5>q. QED
            BY <3>7, <5>1
        <4>q. QED
          BY <3>2, <3>8, <4>1, <4>2
      <3>9. \A i \in DOMAIN typed' : typed'[i].text = "body" => i \in DOMAIN typed /\ typed'[i] = typed[i]
        BY <3>2
      <3>q. QED
        BY <2>1, <3>3, <3>8, <3>9 DEF QueueInv
    <2>q. QED
      BY <2>1, <2>2, <2>3
  <1>u. ASSUME UNCHANGED <<terminal, calls>>, phase' # "body" PROVE QueueInv'
    <2>1. typed' = typed /\ calls' = calls /\ shell' = shell /\ last' = last /\ Coming' = Coming
      BY <1>u DEF terminal, Coming, StatusAfter
    <2>q. QED
      BY <1>k, <1>u, <2>1
  <1>7. CASE BodyTimeout
    BY <1>u, <1>7 DEF BodyTimeout, Return
  <1>8. CASE SeeStatus
    BY <1>u, <1>8 DEF SeeStatus, Failed, Return
  <1>9. CASE StatusTimeout
    BY <1>u, <1>9 DEF StatusTimeout, Failed, Return
  <1>10. CASE SeePrompt
    BY <1>u, <1>10 DEF SeePrompt, Return
  <1>11. CASE PromptTimeout
    BY <1>u, <1>11 DEF PromptTimeout, Failed, Return
  <1>13. CASE SeeInterrupted
    BY <1>u, <1>13 DEF SeeInterrupted, InterruptDone
  <1>16. CASE InterruptFails
    BY <1>u, <1>16 DEF InterruptFails
  (* A signal empties the terminal. *)
  <1>s. ASSUME Signalled, calls' = calls, phase' # "body" PROVE QueueInv'
    <2>1. /\ typed' = << >> /\ DOMAIN typed' = {}
          /\ last' \in {last, Coming, Nobody} /\ Coming' \in {last, Coming, Nobody}
          /\ (shell'.at = "running" => shell' = shell /\ last' = last /\ shell.line.text = "body")
      BY <1>t, <1>m, <1>d, <1>s DEF Signalled, Coming, StatusAfter
    <2>2. ASSUME NEW c \in {last, Coming, Nobody} PROVE Past(c)'
      <3>1. c <= calls
        BY <1>t DEF QueueInv, Past
      <3>q. QED
        BY <1>s, <2>1, <3>1 DEF Past
    <2>3. Past(last)' /\ Past(Coming)'
      <3>1. PICK c, e : c = last' /\ e = Coming' /\ {c, e} \subseteq {last, Coming, Nobody}
        BY <2>1
      <3>2. Past(c)' /\ Past(e)'
        BY <2>2, <3>1
      <3>q. QED
        BY <3>1, <3>2 DEF Past
    <2>q. QED
      BY <1>s, <2>1, <2>3 DEF QueueInv
  <1>12. CASE SendIntr
    BY <1>s, <1>12 DEF SendIntr
  <1>14. CASE SendStop
    BY <1>s, <1>14 DEF SendStop
  <1>15. CASE SendKill
    <2>1. /\ calls' = calls /\ last' = last /\ shell' = shell /\ Coming' = Coming
          /\ phase' # "body" /\ typed' = Append(typed, Line("kill", Nobody))
      BY <1>15 DEF SendKill, Coming, StatusAfter
    <2>2. Line("kill", Nobody) \in Lines
      BY DEF Line, Lines
    <2>3. \A i \in DOMAIN typed' : \/ i \in DOMAIN typed /\ typed'[i] = typed[i]
                                   \/ typed'[i].text = "kill"
      <3>1. /\ Len(typed') = Len(typed) + 1 /\ typed'[Len(typed) + 1] = Line("kill", Nobody)
            /\ \A i \in 1 .. Len(typed) : typed'[i] = typed[i]
        BY <1>t, <2>1, <2>2, LineAdded
      <3>q. QED
        BY <1>d, <1>m, <3>1
    <2>4. Past(last)' /\ Past(Coming)'
      <3>1. ASSUME NEW c \in Int, Past(c) PROVE Past(c)'
        BY <1>t, <2>1, <2>3, <3>1, PastKept
      <3>2. PICK c, e : c = last /\ c = last' /\ e = Coming /\ e = Coming'
        BY <2>1
      <3>3. Past(c)' /\ Past(e)'
        BY <1>c, <3>1, <3>2 DEF QueueInv
      <3>q. QED
        BY <3>2, <3>3 DEF Past
    <2>5. ASSUME NEW i \in DOMAIN typed', typed'[i].text = "status" PROVE Covered(i)'
      <3>1. i \in DOMAIN typed /\ typed'[i] = typed[i]
        BY <2>3, <2>5
      <3>2. Covered(i) /\ i \in 1 .. (Len(typed) + 1)
        BY <1>d, <2>5, <3>1 DEF QueueInv
      <3>3. \A k \in 1 .. Len(typed) : typed'[k] = typed[k]
        BY <1>t, <2>1, <2>2, LineAdded
      <3>q. QED
        BY <1>d, <2>1, <3>2, <3>3, CoveredExtended
    <2>6. \A i \in DOMAIN typed' : typed'[i].text = "body" => i \in DOMAIN typed /\ typed'[i] = typed[i]
      BY <2>3
    <2>q. QED
      BY <2>1, <2>4, <2>5, <2>6 DEF QueueInv
  <1>17. CASE UNCHANGED sessionVars
    <2>1. typed' = typed /\ calls' = calls /\ shell' = shell /\ last' = last /\ phase' = phase
      BY <1>17 DEF sessionVars
    <2>2. Coming' = Coming
      BY <2>1 DEF Coming, StatusAfter
    <2>q. QED
      BY <1>k, <2>1, <2>2
  <1>q. QED
    BY <1>1, <1>2, <1>3, <1>4, <1>5, <1>6, <1>7, <1>8, <1>9, <1>10, <1>11, <1>12, <1>13,
       <1>14, <1>15, <1>16, <1>17 DEF SessionNext

(* Every step keeps the exit codes in order. *)
LEMMA CodesNext ==
  SessionTypeOK /\ QueueInv /\ CodesInv /\ [SessionNext]_sessionVars => CodesInv'
  <1> SUFFICES ASSUME SessionTypeOK, QueueInv, CodesInv, [SessionNext]_sessionVars PROVE CodesInv'
    OBVIOUS
  <1>t. /\ chan \in Seq(Marks) /\ chan' \in Seq(Marks) /\ typed \in Seq(Lines) /\ typed' \in Seq(Lines)
        /\ last \in CallIds \cup {Nobody} /\ last' \in CallIds \cup {Nobody}
        /\ calls \in Nat /\ CallIds = 1 .. MaxCalls /\ Nobody = 0
        /\ code \in Int /\ result.code \in Int
        /\ shell \in [at : {"prompt", "running", "ending"}, line : Lines]
    BY BashSessionAssumption, SessionTypeNext DEF SessionTypeOK, CallIds, Nobody, NoCode
  <1>d. /\ DOMAIN typed = 1 .. Len(typed) /\ Len(typed) \in Nat
        /\ DOMAIN typed' = 1 .. Len(typed') /\ Len(typed') \in Nat
        /\ DOMAIN chan = 1 .. Len(chan) /\ Len(chan) \in Nat
        /\ DOMAIN chan' = 1 .. Len(chan') /\ Len(chan') \in Nat
    BY <1>t, Sized
  <1>c. Coming \in Int /\ last \in Int
    BY <1>t, PrintsMarks, BashSessionAssumption DEF Coming
  <1>m. Prompt.kind = "prompt" /\ AtPrompt.at = "prompt"
        /\ \A k, c : Mark(k, c).kind = k /\ Mark(k, c).call = c /\ Line(k, c).text = k /\ Line(k, c).call = c
    BY DEF Prompt, Mark, AtPrompt, Line
  <1>n. NoResult.code = NoCode
    BY DEF NoResult
  (* A step that neither prints nor reads a code. *)
  <1>k. ASSUME \A i \in Codes' : i \in Codes /\ chan'[i] = chan[i],
               \A c \in Int : Printed(c) => Printed(c)',
               code' \in {code, NoCode}, result'.code \in {result.code, code, NoCode}
        PROVE  CodesInv'
    <2>1. \A i, j \in Codes' : i < j => chan'[i].call < chan'[j].call
      BY <1>k DEF CodesInv
    <2>2. \A i \in Codes' : \E j \in Codes : chan'[i].call = chan[j].call
      BY <1>k
    <2>3. chan \in Seq(Marks) /\ code \in Int /\ result.code \in Int
      BY <1>t
    <2>4. \/ code' \in {code, NoCode}
          \/ Printed(code)' /\ \A i \in Codes' : code' < chan'[i].call
      BY <1>k
    <2>5. \A c \in Int : Printed(c) => Printed(c)'
      BY <1>k
    <2>6. result'.code \in {result.code, code, NoCode}
      BY <1>k
    <2>q. QED
      BY <2>1, <2>2, <2>3, <2>4, <2>5, <2>6, CodesKept
  (* A step after which the same lines or fewer are to come. *)
  <1>p. ASSUME calls' = calls, {last', Coming'} \subseteq {last, Coming, Nobody},
               \A i \in DOMAIN typed' : typed'[i].text = "body" => \E j \in DOMAIN typed : typed'[i] = typed[j]
        PROVE  \A c \in Int : Printed(c) => Printed(c)'
    <2> TAKE c \in Int
    <2>1. Past(c) => Past(c)'
      BY <1>p, <1>t, PastKept
    <2>q. QED
      BY <1>p, <2>1, PrintedKept DEF Printed
  <1>1. CASE ReadLine
    <2>1. /\ typed # << >> /\ typed' = Tail(typed) /\ calls' = calls /\ last' = last /\ chan' = chan
          /\ shell' = [at |-> "running", line |-> typed[1]] /\ shell.at = "prompt"
          /\ code' = code /\ result' = result
          /\ Len(typed) \in Nat \ {0} /\ Len(typed') = Len(typed) - 1
          /\ \A i \in 1 .. (Len(typed) - 1) : typed'[i] = typed[i + 1]
      BY <1>t, <1>1, LineRead DEF ReadLine, answering
    <2>2. Coming = last /\ Coming' = (IF typed[1].text = "body" THEN typed[1].call
                                     ELSE IF typed[1].text \in Resets THEN Nobody ELSE last)
      BY <2>1 DEF Coming, StatusAfter, Resets
    <2>3. ASSUME NEW i \in DOMAIN typed' PROVE i + 1 \in DOMAIN typed /\ typed'[i] = typed[i + 1]
      <3>1. i \in 1 .. (Len(typed) - 1)
        BY <1>d, <2>1
      <3>q. QED
        BY <1>d, <2>1, <3>1
    <2>4. ASSUME NEW c \in Int, Printed(c) PROVE Printed(c)'
      <3>1. Past(c)'
        BY <1>t, <2>1, <2>3, <2>4, PastKept DEF Printed
      <3>2. 1 \in DOMAIN typed
        BY <1>d, <2>1
      <3>3. typed[1].text = "body" => c < typed[1].call
        BY <2>4, <3>2 DEF Printed, Past
      <3>q. QED
        BY <2>1, <2>2, <2>4, <3>1, <3>3 DEF Printed
    <2>q. QED
      BY <1>k, <2>1, <2>4 DEF Codes
  <1>2. CASE PrintOutput
    <2>1. /\ typed' = typed /\ calls' = calls /\ shell.at = "running" /\ shell'.at = "ending"
          /\ last' = Coming /\ Coming' = Coming /\ code' = code /\ result' = result
      BY <1>t, <1>2 DEF PrintOutput, answering, Coming
    <2>2. /\ Len(chan') = Len(chan) + (IF shell.line.text \in {"body", "status", "unique"} THEN 1 ELSE 0)
          /\ \A i \in 1 .. Len(chan) : chan'[i] = chan[i]
          /\ shell.line.text = "body" => chan'[Len(chan) + 1].kind = "out"
          /\ shell.line.text = "status" => chan'[Len(chan) + 1] = Mark("code", last)
          /\ shell.line.text = "unique" => chan'[Len(chan) + 1].kind = "unique"
      <3>1. shell.line \in Lines /\ chan' = chan \o Prints(shell.line)
        BY <1>t, <1>2 DEF PrintOutput
      <3>2. PICK line, t : line \in Lines /\ line = shell.line /\ t = chan' /\ t = chan \o Prints(line)
        BY <3>1
      <3>3. /\ Len(t) = Len(chan) + IF line.text \in {"body", "status", "unique"} THEN 1 ELSE 0
            /\ \A i \in 1 .. Len(chan) : t[i] = chan[i]
            /\ line.text = "body" => t[Len(chan) + 1] = Mark("out", line.call)
            /\ line.text = "status" => t[Len(chan) + 1] = Mark("code", last)
            /\ line.text = "unique" => t[Len(chan) + 1] = Mark("unique", line.call)
        <4>1. chan \in Seq(Marks) /\ last \in CallIds \cup {Nobody}
          BY <1>t
        <4>q. QED
          BY <4>1, <3>2, PrintsAdded, Zenon
      <3>q. QED
        BY <1>m, <3>2, <3>3
    <2>3. \A c \in Int : Printed(c) => Printed(c)'
      BY <1>p, <2>1
    <2>4. CASE shell.line.text # "status"
      <3>1. \A i \in Codes' : i \in Codes /\ chan'[i] = chan[i]
        <4> TAKE i \in Codes'
        <4>1. i \in 1 .. Len(chan') /\ chan'[i].kind = "code"
          BY <1>d DEF Codes
        <4>2. i # Len(chan) + 1
          BY <1>d, <2>2, <2>4, <4>1
        <4>3. i \in 1 .. Len(chan)
          BY <1>d, <2>2, <4>1, <4>2
        <4>q. QED
          BY <1>d, <2>2, <4>1, <4>3 DEF Codes
      <3>q. QED
        BY <1>k, <2>1, <2>3, <3>1
    <2>5. CASE shell.line.text = "status"
      <3>1. last # Nobody /\ last' = Nobody /\ Coming' = Nobody /\ Coming = Nobody
        BY <2>1, <2>5 DEF QueueInv, Coming, StatusAfter
      <3>2. PICK c : c = last /\ c \in Int
        BY <1>c
      <3>3. Printed(c)'
        <4>1. Past(c)
          BY <3>2 DEF QueueInv
        <4>q. QED
          BY <2>1, <3>1, <4>1 DEF Printed, Past
      <3>4. \A i \in DOMAIN chan' : (i \in DOMAIN chan /\ chan'[i] = chan[i]) \/ i = Len(chan) + 1
        BY <1>d, <2>2, <2>5
      <3>5. chan'[Len(chan) + 1].call = c
        BY <1>m, <2>2, <2>5, <3>2
      <3>6. \A i \in Codes' : (i \in Codes /\ chan'[i] = chan[i]) \/ i = Len(chan) + 1
        BY <3>4 DEF Codes
      <3>7. ASSUME NEW e \in Int, Printed(e) PROVE e < c /\ Printed(e)'
        BY <2>3, <3>1, <3>2, <3>7 DEF Printed
      <3>8. \A i \in Codes : chan[i].call \in Int
        <4>1. \A m \in Marks : m.call \in Int
          BY <1>t, BashSessionAssumption DEF Marks
        <4>q. QED
          BY <1>d, <1>t, <4>1, Sized DEF Codes
      <3>9. ASSUME NEW i \in Codes PROVE chan[i].call < c /\ \A e \in Int : e = chan[i].call => Printed(e)'
        <4>1. PICK e : e = chan[i].call
          OBVIOUS
        <4>2. e \in Int /\ Printed(e)
          BY <3>8, <4>1 DEF CodesInv
        <4>q. QED
          BY <3>7, <4>1, <4>2
      <3>10. ASSUME NEW i \in Codes', NEW j \in Codes', i < j PROVE chan'[i].call < chan'[j].call
        <4>1. i \in Codes /\ chan'[i] = chan[i]
          <5>1. i # Len(chan) + 1
            BY <1>d, <3>6, <3>10 DEF Codes
          <5>q. QED
            BY <3>6, <5>1
        <4>2. CASE j \in Codes /\ chan'[j] = chan[j]
          BY <3>10, <4>1, <4>2 DEF CodesInv
        <4>3. CASE j = Len(chan) + 1
          BY <3>5, <3>9, <4>1, <4>3
        <4>q. QED
          BY <3>6, <4>2, <4>3
      <3>11. ASSUME NEW i \in Codes' PROVE Printed(chan[i].call)'
        <4>1. PICK e : e = chan'[i].call
          OBVIOUS
        <4>2. Printed(e)'
          <5>1. CASE i \in Codes /\ chan'[i] = chan[i]
            BY <3>8, <3>9, <4>1, <5>1
          <5>2. CASE i = Len(chan) + 1
            BY <3>3, <3>5, <4>1, <5>2
          <5>q. QED
            BY <3>6, <5>1, <5>2
        <4>q. QED
          BY <4>1, <4>2 DEF Printed, Past
      <3>12. ASSUME NEW e \in Int, Printed(e), \A i \in Codes : e < chan[i].call
            PROVE  Printed(e)' /\ \A i \in Codes' : e < chan'[i].call
        BY <3>5, <3>6, <3>7, <3>12
      <3>13. /\ code' # NoCode => Printed(code)' /\ \A i \in Codes' : code' < chan'[i].call
             /\ result'.code # NoCode => Printed(result.code)' /\ \A i \in Codes' : result'.code < chan'[i].call
        <4>1. ASSUME NEW e \in {code, result.code}, e # NoCode
              PROVE  Printed(e)' /\ \A i \in Codes' : e < chan'[i].call
          <5>1. e \in Int /\ Printed(e) /\ \A i \in Codes : e < chan[i].call
            BY <1>t, <4>1 DEF CodesInv
          <5>q. QED
            BY <3>12, <5>1
        <4>2. PICK a, b : a = code /\ a = code' /\ b = result.code /\ b = result'.code
          BY <2>1
        <4>3. /\ a # NoCode => Printed(a)' /\ \A i \in Codes' : a < chan'[i].call
              /\ b # NoCode => Printed(b)' /\ \A i \in Codes' : b < chan'[i].call
          BY <4>1, <4>2
        <4>q. QED
          BY <4>2, <4>3 DEF Printed, Past
      <3>q. QED
        BY <3>10, <3>11, <3>13 DEF CodesInv
    <2>q. QED
      BY <2>4, <2>5
  <1>3. CASE PrintPrompt
    <2>1. /\ typed' = typed /\ calls' = calls /\ code' = code /\ result' = result
          /\ last' = last /\ Coming' = Coming
      BY <1>m, <1>3 DEF PrintPrompt, answering, Coming
    <2>2. /\ Len(chan') = Len(chan) + 1 /\ chan'[Len(chan) + 1] = Prompt
          /\ \A i \in 1 .. Len(chan) : chan'[i] = chan[i]
      BY <1>t, <1>3, PromptAdded DEF PrintPrompt
    <2>3. \A i \in Codes' : i \in Codes /\ chan'[i] = chan[i]
      <3> TAKE i \in Codes'
      <3>1. i \in 1 .. Len(chan') /\ chan'[i].kind = "code"
        BY <1>d DEF Codes
      <3>2. i # Len(chan) + 1
        BY <1>m, <2>2, <3>1
      <3>3. i \in 1 .. Len(chan)
        BY <1>d, <2>2, <3>1, <3>2
      <3>q. QED
        BY <1>d, <2>2, <3>1, <3>3 DEF Codes
    <2>4. \A c \in Int : Printed(c) => Printed(c)'
      BY <1>p, <2>1
    <2>q. QED
      BY <1>k, <2>1, <2>3, <2>4
  <1>4. CASE TakesInput
    <2>1. /\ typed # << >> /\ typed' = Tail(typed) /\ calls' = calls /\ last' = last /\ chan' = chan
          /\ shell' = shell /\ Coming' = Coming /\ code' = code /\ result' = result
          /\ Len(typed) \in Nat \ {0} /\ Len(typed') = Len(typed) - 1
          /\ \A i \in 1 .. (Len(typed) - 1) : typed'[i] = typed[i + 1]
      BY <1>t, <1>4, LineRead DEF TakesInput, answering, Coming, StatusAfter
    <2>2. ASSUME NEW i \in DOMAIN typed' PROVE i + 1 \in DOMAIN typed /\ typed'[i] = typed[i + 1]
      <3>1. i \in 1 .. (Len(typed) - 1)
        BY <1>d, <2>1
      <3>q. QED
        BY <1>d, <2>1, <3>1
    <2>3. \A c \in Int : Printed(c) => Printed(c)'
      BY <1>p, <2>1, <2>2
    <2>q. QED
      BY <1>k, <2>1, <2>3 DEF Codes
  <1>5. CASE \E check \in {"raise", "silent", "ignore"}, fallback \in BOOLEAN : Run(check, fallback)
    <2> PICK check \in {"raise", "silent", "ignore"}, fallback \in BOOLEAN : Run(check, fallback)
      BY <1>5
    <2>1. calls' = calls + 1 /\ last' = last /\ chan' = chan /\ Coming' = Coming /\ code' = code /\ result' = NoResult
      BY DEF Run, Coming, StatusAfter
    <2>2. calls + 1 \in CallIds
      BY <1>t, BashSessionAssumption DEF Run
    <2>3. \A i \in DOMAIN typed' : typed'[i].text = "body" =>
             typed'[i].call = calls + 1 \/ \E j \in DOMAIN typed : typed'[i] = typed[j]
      <3>0. typed \in Seq(Lines)
        BY <1>t
      <3>1. PICK u, c : u = typed' /\ c = calls + 1 /\ c \in CallIds /\ u = typed \o CommandLines(c, fallback)
        BY <2>2 DEF Run
      <3>2. \A i \in DOMAIN u : \/ i \in DOMAIN typed /\ u[i] = typed[i]
                                \/ i = Len(typed) + 1 /\ u[i] = Line("body", c)
                                \/ fallback /\ i = Len(typed) + 2 /\ u[i] = Line("unique", c)
        BY <3>0, <3>1, CommandLine, Zenon
      <3>q. QED
        BY <1>m, <3>1, <3>2
    <2>4. ASSUME NEW c \in Int, Printed(c) PROVE Printed(c)'
      <3>1. Past(c)'
        BY <1>t, <2>1, <2>3, <2>4, PastKept DEF Printed
      <3>q. QED
        BY <2>1, <2>4, <3>1, PrintedKept
    <2>q. QED
      BY <1>k, <1>n, <2>1, <2>4 DEF Codes
  (* A wait that finds its mark, and one that does not. *)
  <1>f. ASSUME NEW kinds, FirstOf(kinds) # 0
        PROVE  FirstOf(kinds) \in 1 .. Len(chan)
    BY <1>t, <1>f, FirstOfMark
  <1>r. ASSUME NEW p \in 1 .. Len(chan), chan' \in EatFollowing(After(p)), calls' = calls,
               last' = last, Coming' = Coming,
               \A i \in DOMAIN typed' : typed'[i].text = "body" => \E j \in DOMAIN typed : typed'[i] = typed[j],
               \/ code' \in {code, NoCode}
               \/ chan[p].kind = "code" /\ code' = chan[p].call,
               result'.code \in {result.code, code, NoCode}
        PROVE  CodesInv'
    <2>1. /\ \A i, j \in Codes' : i < j => chan'[i].call < chan'[j].call
          /\ \A i \in Codes' : \E j \in Codes : j > p /\ chan'[i].call = chan[j].call
      <3>1. \A i, j \in Codes : i < j => chan[i].call < chan[j].call
        BY DEF CodesInv
      <3>q. QED
        BY <1>t, <1>r, <3>1, CodesAfter
    <2>2. \A c \in Int : Printed(c) => Printed(c)'
      BY <1>p, <1>r
    <2>3. ASSUME chan[p].kind = "code", code' = chan[p].call
          PROVE  Printed(code)' /\ \A i \in Codes' : code' < chan'[i].call
      <3>1. p \in Codes
        BY <1>d, <2>3 DEF Codes
      <3>2. PICK c : c = chan[p].call /\ c = code'
        BY <2>3
      <3>3. c \in Int /\ Printed(c)
        <4>1. \A m \in Marks : m.call \in Int
          BY <1>t, BashSessionAssumption DEF Marks
        <4>2. chan[p] \in Marks
          BY <1>t, Sized
        <4>q. QED
          BY <3>1, <3>2, <4>1, <4>2 DEF CodesInv
      <3>4. Printed(c)'
        BY <2>2, <3>3
      <3>5. ASSUME NEW i \in Codes' PROVE c < chan'[i].call
        <4>1. PICK j \in Codes : j > p /\ chan'[i].call = chan[j].call
          BY <2>1
        <4>2. p < j
          BY <1>d, <4>1 DEF Codes
        <4>q. QED
          BY <3>1, <3>2, <4>1, <4>2 DEF CodesInv
      <3>q. QED
        BY <3>2, <3>4, <3>5 DEF Printed, Past
    <2>4. chan \in Seq(Marks) /\ code \in Int /\ result.code \in Int
      BY <1>t
    <2>5. \A i \in Codes' : \E j \in Codes : chan'[i].call = chan[j].call
      BY <2>1
    <2>6. \/ code' \in {code, NoCode}
          \/ Printed(code)' /\ \A i \in Codes' : code' < chan'[i].call
      <3>1. CASE code' \in {code, NoCode}
        BY <3>1
      <3>2. CASE chan[p].kind = "code" /\ code' = chan[p].call
        BY <2>3, <3>2
      <3>q. QED
        BY <1>r, <3>1, <3>2
    <2>7. result'.code \in {result.code, code, NoCode}
      BY <1>r
    <2>q. QED
      BY <2>1, <2>2, <2>4, <2>5, <2>6, <2>7, CodesKept
  <1>u. ASSUME chan' = chan, calls' = calls, last' = last, shell' = shell, typed' = typed,
               code' \in {code, NoCode}, result'.code \in {result.code, code, NoCode}
        PROVE  CodesInv'
    <2>1. Coming' = Coming
      BY <1>u DEF Coming, StatusAfter
    <2>2. \A c \in Int : Printed(c) => Printed(c)'
      BY <1>p, <1>u, <2>1
    <2>q. QED
      BY <1>k, <1>u, <2>2 DEF Codes
  <1>6. CASE SeeEnd
    <2>1. PICK p : p \in 1 .. Len(chan) /\ chan' = After(p)
      BY <1>f, <1>6 DEF SeeEnd
    <2>2. /\ calls' = calls /\ last' = last /\ Coming' = Coming /\ code' \in {code, NoCode}
          /\ result'.code \in {result.code, code, NoCode} /\ (typed' = typed \/ typed' = typed \o StatusLines)
      BY <1>6 DEF SeeEnd, Return, Coming, StatusAfter
    <2>3. ASSUME NEW i \in DOMAIN typed', typed'[i].text = "body" PROVE \E j \in DOMAIN typed : typed'[i] = typed[j]
      <3>1. CASE typed' = typed \o StatusLines
        <4>1. PICK u : u = typed' /\ u = typed \o StatusLines
          BY <3>1
        <4>2. /\ Len(u) = Len(typed) + 2 /\ \A k \in 1 .. Len(typed) : u[k] = typed[k]
              /\ u[Len(typed) + 1] = Line("blank", calls) /\ u[Len(typed) + 2] = Line("status", calls)
          <5>1. calls \in 0 .. MaxCalls
            BY DEF SessionTypeOK
          <5>q. QED
            BY <1>t, <4>1, <5>1, StatusTyped, Zenon
        <4>3. i \in 1 .. Len(typed) \/ i = Len(typed) + 1 \/ i = Len(typed) + 2
          BY <1>d, <4>1, <4>2
        <4>q. QED
          BY <1>d, <1>m, <2>3, <4>1, <4>2, <4>3
      <3>q. QED
        BY <2>2, <2>3, <3>1
    <2>4. chan' \in EatFollowing(After(p))
      BY <2>1, Taken
    <2>q. QED
      BY <1>r, <2>1, <2>2, <2>3, <2>4
  <1>7. CASE BodyTimeout
    BY <1>u, <1>7 DEF BodyTimeout, Return, terminal
  <1>8. CASE SeeStatus
    <2>1. PICK p : p = FirstOf({"code", "torn"}) /\ p \in 1 .. Len(chan) /\ chan' = After(p)
      BY <1>f, <1>8 DEF SeeStatus
    <2>2. /\ calls' = calls /\ last' = last /\ typed' = typed /\ Coming' = Coming
          /\ (code' \in {code, NoCode} \/ (chan[p].kind = "code" /\ code' = chan[p].call))
          /\ result'.code \in {result.code, code, NoCode}
      <3>1. /\ calls' = calls /\ last' = last /\ typed' = typed /\ shell' = shell
        BY <1>8 DEF SeeStatus, terminal
      <3>2. Coming' = Coming
        BY <3>1 DEF Coming, StatusAfter
      <3>3. CASE chan[p].kind = "code"
        BY <1>8, <2>1, <3>1, <3>2, <3>3 DEF SeeStatus
      <3>4. CASE chan[p].kind # "code"
        <4>1. Failed
          BY <1>8, <2>1, <3>4 DEF SeeStatus
        <4>2. code' = NoCode /\ result'.code = NoCode
          BY <4>1 DEF Failed, Return
        <4>3. code' \in {code, NoCode} /\ result'.code \in {result.code, code, NoCode}
          BY <4>2
        <4>q. QED
          BY <3>1, <3>2, <4>3
      <3>q. QED
        BY <3>3, <3>4
    <2>3. chan' \in EatFollowing(After(p))
      BY <2>1, Taken
    <2>q. QED
      BY <1>r, <2>1, <2>2, <2>3
  <1>9. CASE StatusTimeout
    BY <1>u, <1>9 DEF StatusTimeout, Failed, Return, terminal
  <1>10. CASE SeePrompt
    <2>1. PICK p : p \in 1 .. Len(chan) /\ chan' = After(p)
      BY <1>f, <1>10 DEF SeePrompt
    <2>2. /\ calls' = calls /\ last' = last /\ typed' = typed /\ Coming' = Coming
          /\ code' \in {code, NoCode} /\ result'.code \in {result.code, code, NoCode}
      BY <1>10 DEF SeePrompt, terminal, Return, Coming, StatusAfter
    <2>3. chan' \in EatFollowing(After(p))
      BY <2>1, Taken
    <2>q. QED
      BY <1>r, <2>1, <2>2, <2>3
  <1>11. CASE PromptTimeout
    BY <1>u, <1>11 DEF PromptTimeout, Failed, Return, terminal
  (* A signal makes bash forget lines, and perhaps what it was to report. *)
  <1>s. ASSUME Signalled, chan' = chan, calls' = calls, code' = code, result'.code \in {result.code, NoCode}
        PROVE  CodesInv'
    <2>1. typed' = << >> /\ last' \in {last, Coming, Nobody} /\ Coming' \in {last, Coming, Nobody}
      <3>1. CASE shell.at = "running" /\ shell'.at = "ending" /\ last' = StatusAfter(shell.line)
        BY <1>s, <3>1 DEF Signalled, Coming
      <3>2. CASE shell' = shell /\ last' = last
        BY <1>s, <3>2 DEF Signalled, Coming, StatusAfter
      <3>3. CASE shell'.at = "ending" /\ last' = Nobody
        BY <1>s, <3>3 DEF Signalled, Coming
      <3>q. QED
        <4>1. [shell EXCEPT !.at = "ending"].at = "ending" /\ [AtPrompt EXCEPT !.at = "ending"].at = "ending"
          BY <1>t DEF AtPrompt
        <4>q. QED
          BY <1>s, <3>1, <3>2, <3>3, <4>1 DEF Signalled
    <2>3. DOMAIN typed' = {}
      BY <2>1
    <2>2. \A c \in Int : Printed(c) => Printed(c)'
      BY <1>p, <1>s, <2>1, <2>3
    <2>q. QED
      BY <1>k, <1>s, <2>2 DEF Codes
  <1>12. CASE SendIntr
    BY <1>n, <1>s, <1>12 DEF SendIntr
  <1>13. CASE SeeInterrupted
    <2>1. PICK p : p \in 1 .. Len(chan) /\ chan' \in EatFollowing(After(p))
      BY <1>f, <1>13 DEF SeeInterrupted, InterruptDone
    <2>2. /\ calls' = calls /\ last' = last /\ typed' = typed /\ Coming' = Coming
          /\ code' = code /\ result'.code = NoCode
      BY <1>13 DEF SeeInterrupted, InterruptDone, terminal, Coming, StatusAfter
    <2>q. QED
      BY <1>r, <2>1, <2>2
  <1>14. CASE SendStop
    BY <1>s, <1>14 DEF SendStop
  <1>15. CASE SendKill
    <2>1. PICK p : p \in 1 .. Len(chan) /\ chan' = After(p)
      BY <1>f, <1>15 DEF SendKill
    <2>2. /\ calls' = calls /\ last' = last /\ Coming' = Coming /\ code' = code /\ result' = result
          /\ typed' = Append(typed, Line("kill", Nobody))
      BY <1>15 DEF SendKill, Coming, StatusAfter
    <2>3. ASSUME NEW i \in DOMAIN typed', typed'[i].text = "body" PROVE \E j \in DOMAIN typed : typed'[i] = typed[j]
      <3>1. Line("kill", Nobody) \in Lines
        BY DEF Line, Lines
      <3>2. /\ Len(typed') = Len(typed) + 1 /\ typed'[Len(typed) + 1] = Line("kill", Nobody)
            /\ \A k \in 1 .. Len(typed) : typed'[k] = typed[k]
        BY <1>t, <2>2, <3>1, LineAdded
      <3>q. QED
        BY <1>d, <1>m, <2>3, <3>2
    <2>4. chan' \in EatFollowing(After(p))
      BY <2>1, Taken
    <2>q. QED
      BY <1>r, <2>1, <2>2, <2>3, <2>4
  <1>16. CASE InterruptFails
    BY <1>u, <1>16 DEF InterruptFails, terminal
  <1>17. CASE UNCHANGED sessionVars
    BY <1>u, <1>17 DEF sessionVars
  <1>q. QED
    BY <1>1, <1>2, <1>3, <1>4, <1>5, <1>6, <1>7, <1>8, <1>9, <1>10, <1>11, <1>12, <1>13,
       <1>14, <1>15, <1>16, <1>17 DEF SessionNext

-----------------------------------------------------------------------------
(* At first no call has been made. *)
LEMMA OwnInit == SessionInit => OwnInv
  <1> SUFFICES ASSUME SessionInit PROVE OwnInv
    OBVIOUS
  <1>1. /\ chan = << >> /\ typed = << >> /\ phase = "idle" /\ result.how = "none"
        /\ shell.at = "running" => shell.line = Line("body", Nobody)
    BY DEF SessionInit, NoResult, AtPrompt
  <1>2. DOMAIN chan = {} /\ DOMAIN typed = {}
    BY <1>1
  <1>3. Rest
    BY <1>1, <1>2 DEF Rest, Calm, Outsider
  <1>q. QED
    BY <1>1, <1>3 DEF OwnInv, OwnResult

(* The lines that follow a call's command. *)
Tails == SUBSET {Line("unique", calls), Line("blank", calls), Line("status", calls)}

(* The parts of a mark and of a line. *)
LEMMA LineMarks ==
  /\ Prompt.kind = "prompt" /\ AtPrompt.at = "prompt"
  /\ \A k, c : /\ Mark(k, c).kind = k /\ Mark(k, c).call = c
               /\ Line(k, c).text = k /\ Line(k, c).call = c
  BY DEF Prompt, Mark, AtPrompt, Line

(* The stream grows by one mark, or by none. *)
LEMMA OutputPrinted ==
  ASSUME SessionTypeOK, PrintOutput
  PROVE  /\ shell.at = "running" /\ shell'.at = "ending" /\ typed' = typed /\ UNCHANGED answering
         /\ last' = StatusAfter(shell.line) /\ shell.line \in Lines
         /\ Len(chan') = Len(chan) + (IF shell.line.text \in {"body", "status", "unique"} THEN 1 ELSE 0)
         /\ \A i \in 1 .. Len(chan) : chan'[i] = chan[i]
         /\ shell.line.text = "body" => chan'[Len(chan) + 1] = Mark("out", shell.line.call)
         /\ shell.line.text = "status" => chan'[Len(chan) + 1] = Mark("code", last)
         /\ shell.line.text = "unique" => chan'[Len(chan) + 1] = Mark("unique", shell.line.call)
  <1>1. shell.line \in Lines /\ chan' = chan \o Prints(shell.line)
    BY DEF PrintOutput, SessionTypeOK
  <1>2. PICK line, t : line \in Lines /\ line = shell.line /\ t = chan' /\ t = chan \o Prints(line)
    BY <1>1
  <1>3. /\ Len(t) = Len(chan) + IF line.text \in {"body", "status", "unique"} THEN 1 ELSE 0
        /\ \A i \in 1 .. Len(chan) : t[i] = chan[i]
        /\ line.text = "body" => t[Len(chan) + 1] = Mark("out", line.call)
        /\ line.text = "status" => t[Len(chan) + 1] = Mark("code", last)
        /\ line.text = "unique" => t[Len(chan) + 1] = Mark("unique", line.call)
    <2>1. chan \in Seq(Marks) /\ last \in CallIds \cup {Nobody}
      BY DEF SessionTypeOK
    <2>q. QED
      BY <2>1, <1>2, PrintsAdded, Zenon
  <1>4. /\ shell.at = "running" /\ shell'.at = "ending" /\ typed' = typed /\ UNCHANGED answering
        /\ last' = StatusAfter(shell.line)
    BY DEF PrintOutput, SessionTypeOK
  <1>q. QED
    BY <1>1, <1>2, <1>3, <1>4

(* bash reads a line: the command itself, or one before or after it. *)
LEMMA OwnReadLine ==
  ASSUME SessionTypeOK, ReadLine, NEW tail
  PROVE  /\ Waits(tail) => Waits(tail)' \/ Runs(tail)'
         /\ ~ Runs(tail)
         /\ HasRun(tail) => HasRun(tail)'
         /\ Rest => Rest'
  <1>1. /\ typed # << >> /\ calls' = calls /\ last' = last /\ chan' = chan
        /\ shell' = [at |-> "running", line |-> typed[1]] /\ shell.at = "prompt"
        /\ Len(typed) \in Nat \ {0} /\ Len(typed') = Len(typed) - 1
        /\ \A i \in 1 .. (Len(typed) - 1) : typed'[i] = typed[i + 1]
        /\ typed \in Seq(Lines) /\ typed' \in Seq(Lines)
    BY LineRead, SessionTypeNext DEF ReadLine, answering, SessionTypeOK, SessionNext
  <1>2. DOMAIN typed = 1 .. Len(typed) /\ DOMAIN typed' = 1 .. Len(typed')
    BY <1>1, Sized
  <1>3. ASSUME NEW i \in DOMAIN typed' PROVE i + 1 \in DOMAIN typed /\ typed'[i] = typed[i + 1]
    <2>1. i \in 1 .. (Len(typed) - 1)
      BY <1>1, <1>2
    <2>q. QED
      BY <1>1, <1>2, <2>1
  <1>4. Calm => Calm'
    BY <1>1 DEF Calm
  <1>5. ASSUME Waits(tail) PROVE Waits(tail)' \/ Runs(tail)'
    <2>1. PICK i \in DOMAIN typed :
             /\ typed[i] = Line("body", calls)
             /\ \A j \in 1 .. (i - 1) : Outsider(typed[j])
             /\ \A j \in (i + 1) .. Len(typed) : typed[j] \in tail
      BY <1>5 DEF Waits
    <2>2. CASE i = 1
      <3>1. ASSUME NEW j \in DOMAIN typed' PROVE typed'[j] \in tail
        <4>1. j + 1 \in 2 .. Len(typed) /\ typed'[j] = typed[j + 1]
          BY <1>1, <1>2, <1>3
        <4>q. QED
          BY <2>1, <2>2, <4>1
      <3>q. QED
        BY <1>1, <1>4, <1>5, <2>1, <2>2, <3>1 DEF Waits, Runs
    <2>3. CASE i # 1
      <3>1. i - 1 \in DOMAIN typed' /\ (i - 1) + 1 = i /\ 1 \in 1 .. (i - 1)
        BY <1>1, <1>2, <2>3
      <3>2. typed'[i - 1] = Line("body", calls')
        BY <1>1, <1>3, <2>1, <3>1
      <3>3. ASSUME NEW j \in 1 .. ((i - 1) - 1) PROVE Outsider(typed'[j])
        <4>1. j + 1 \in 1 .. (i - 1) /\ j \in 1 .. (Len(typed) - 1)
          BY <1>1, <1>2, <3>1
        <4>q. QED
          BY <1>1, <2>1, <4>1
      <3>4. ASSUME NEW j \in ((i - 1) + 1) .. Len(typed') PROVE typed'[j] \in tail
        <4>1. j + 1 \in (i + 1) .. Len(typed) /\ j \in 1 .. (Len(typed) - 1)
          BY <1>1, <1>2, <3>1
        <4>q. QED
          BY <1>1, <2>1, <4>1
      <3>5. Outsider(shell'.line)
        BY <1>1, <2>1, <3>1
      <3>6. Waits(tail)'
        BY <1>4, <1>5, <3>1, <3>2, <3>3, <3>4, <3>5 DEF Waits, Outsider
      <3>q. QED
        BY <3>6
    <2>q. QED
      BY <2>2, <2>3
  <1>6. ASSUME HasRun(tail) PROVE HasRun(tail)'
    <2>1. 1 \in DOMAIN typed
      BY <1>1, <1>2
    <2>2. \A i \in DOMAIN chan' : Own(chan[i])'
      BY <1>1, <1>6 DEF HasRun, Own
    <2>q. QED
      BY <1>1, <1>3, <1>6, <2>1, <2>2 DEF HasRun
  <1>7. ASSUME Rest PROVE Rest'
    <2>1. 1 \in DOMAIN typed
      BY <1>1, <1>2
    <2>2. Outsider(shell'.line) /\ \A i \in DOMAIN typed' : Outsider(typed'[i])
      BY <1>1, <1>3, <1>7, <2>1 DEF Rest
    <2>q. QED
      BY <1>4, <1>7, <2>2 DEF Rest, Outsider
  <1>q. QED
    BY <1>1, <1>5, <1>6, <1>7 DEF Runs

(* bash runs a line: the command's output is the call's own. *)
LEMMA OwnPrintOutput ==
  ASSUME SessionTypeOK, PrintOutput, NEW tail \in Tails
  PROVE  /\ Waits(tail) => Waits(tail)'
         /\ Runs(tail) => HasRun(tail)' /\ Given'
         /\ Given => Given'
         /\ HasRun(tail) /\ shell.line.text # "status" => HasRun(tail)'
         /\ Rest => Rest'
  <1>1. /\ shell.at = "running" /\ shell'.at = "ending" /\ typed' = typed /\ calls' = calls /\ outs' = outs
        /\ last' = StatusAfter(shell.line) /\ shell.line \in Lines
        /\ Len(chan') = Len(chan) + (IF shell.line.text \in {"body", "status", "unique"} THEN 1 ELSE 0)
        /\ \A i \in 1 .. Len(chan) : chan'[i] = chan[i]
        /\ shell.line.text = "body" => chan'[Len(chan) + 1] = Mark("out", shell.line.call)
        /\ shell.line.text = "status" => chan'[Len(chan) + 1] = Mark("code", last)
        /\ shell.line.text = "unique" => chan'[Len(chan) + 1] = Mark("unique", shell.line.call)
    BY OutputPrinted DEF answering
  <1>2. chan \in Seq(Marks) /\ chan' \in Seq(Marks)
    BY SessionTypeNext DEF SessionTypeOK, SessionNext
  <1>3. /\ DOMAIN chan = 1 .. Len(chan) /\ Len(chan) \in Nat
        /\ DOMAIN chan' = 1 .. Len(chan') /\ Len(chan') \in Nat
    BY <1>2, Sized
  <1>4. \A i \in DOMAIN chan' :
           \/ i \in DOMAIN chan /\ chan'[i] = chan[i]
           \/ i = Len(chan) + 1 /\ shell.line.text = "body" /\ chan'[i] = Mark("out", shell.line.call)
           \/ i = Len(chan) + 1 /\ shell.line.text = "status" /\ chan'[i] = Mark("code", last)
           \/ i = Len(chan) + 1 /\ shell.line.text = "unique" /\ chan'[i] = Mark("unique", shell.line.call)
    <2> TAKE i \in DOMAIN chan'
    <2>1. \/ i \in 1 .. Len(chan)
          \/ shell.line.text \in {"body", "status", "unique"} /\ i = Len(chan) + 1
      BY <1>1, <1>3
    <2>q. QED
      BY <1>1, <1>3, <2>1
  <1>5. ASSUME Calm, Outsider(shell.line) PROVE Calm'
    <2>1. shell.line.text = "kill" \/ (shell.line.text = "body" /\ shell.line.call = Nobody)
      BY <1>5, LineMarks DEF Outsider
    <2>q. QED
      BY <1>4, <1>5, <2>1 DEF Calm, Between
  <1>6. Waits(tail) => Waits(tail)'
    BY <1>1, <1>5 DEF Waits, Outsider
  <1>7. Rest => Rest'
    BY <1>1, <1>5 DEF Rest, Outsider
  <1>8. ASSUME Runs(tail) PROVE HasRun(tail)' /\ Given'
    <2>1. shell.line.text = "body" /\ shell.line.call = calls
      BY <1>8, LineMarks DEF Runs
    <2>2. last' = calls'
      BY <1>1, <2>1 DEF StatusAfter
    <2>3. \A i \in DOMAIN chan' : Own(chan[i])'
      BY <1>1, <1>4, <1>8, <2>1 DEF Own, Runs, Calm
    <2>4. Len(chan) + 1 \in DOMAIN chan' /\ chan'[Len(chan) + 1] = Mark("out", calls')
      BY <1>1, <1>3, <2>1
    <2>q. QED
      BY <1>1, <1>8, <2>2, <2>3, <2>4 DEF HasRun, Given, Runs
  <1>9. ASSUME Given PROVE Given'
    <2>1. \A i \in DOMAIN chan : i \in DOMAIN chan' /\ chan'[i] = chan[i]
      BY <1>1, <1>3
    <2>q. QED
      BY <1>1, <1>9, <2>1 DEF Given
  <1>10. ASSUME HasRun(tail), shell.line.text # "status" PROVE HasRun(tail)'
    <2>1. shell.line \in {Line("unique", calls), Line("blank", calls)}
      BY <1>1, <1>10, LineMarks DEF HasRun, Tails
    <2>2. shell.line.text \in {"unique", "blank"} /\ shell.line.call = calls
      BY <2>1, LineMarks
    <2>3. last' = last
      BY <1>1, <2>2 DEF StatusAfter
    <2>4. \A i \in DOMAIN chan' : Own(chan[i])'
      BY <1>1, <1>4, <1>10, <2>2 DEF Own, HasRun
    <2>q. QED
      BY <1>1, <1>10, <2>3, <2>4 DEF HasRun
  <1>q. QED
    BY <1>6, <1>7, <1>8, <1>9, <1>10

(* A prompt changes nothing of what a call has still to come. *)
LEMMA OwnPrintPrompt ==
  ASSUME SessionTypeOK, PrintPrompt, NEW tail
  PROVE  /\ Waits(tail) => Waits(tail)'
         /\ ~ Runs(tail)
         /\ Given => Given'
         /\ HasRun(tail) => HasRun(tail)'
         /\ Rest => Rest'
         /\ CodeSeen => CodeSeen'
         /\ Calm => Calm'
  <1>1. /\ shell.at = "ending" /\ shell'.at = "prompt" /\ typed' = typed /\ calls' = calls /\ outs' = outs
        /\ last' = last /\ Len(chan') = Len(chan) + 1 /\ chan'[Len(chan) + 1] = Prompt
        /\ \A i \in 1 .. Len(chan) : chan'[i] = chan[i]
    BY PromptAdded, LineMarks DEF PrintPrompt, answering, SessionTypeOK
  <1>2. chan \in Seq(Marks) /\ chan' \in Seq(Marks)
    BY SessionTypeNext DEF SessionTypeOK, SessionNext
  <1>3. /\ DOMAIN chan = 1 .. Len(chan) /\ Len(chan) \in Nat
        /\ DOMAIN chan' = 1 .. Len(chan') /\ Len(chan') \in Nat
    BY <1>2, Sized
  <1>4. \A i \in DOMAIN chan' : (i \in DOMAIN chan /\ chan'[i] = chan[i]) \/ chan'[i] = Prompt
    BY <1>1, <1>3
  <1>5. Calm => Calm'
    BY <1>4 DEF Calm, Between
  <1>6. Waits(tail) => Waits(tail)'
    BY <1>1, <1>5 DEF Waits, Outsider
  <1>7. Rest => Rest'
    BY <1>1, <1>5 DEF Rest, Outsider
  <1>8. \A i \in DOMAIN chan : i \in DOMAIN chan' /\ chan'[i] = chan[i]
    BY <1>1, <1>3
  <1>9. Given => Given'
    BY <1>1, <1>8 DEF Given
  <1>10. HasRun(tail) => HasRun(tail)'
    BY <1>1, <1>4 DEF HasRun, Own, Between
  <1>11. ASSUME CodeSeen PROVE CodeSeen'
    <2>1. PICK k \in DOMAIN chan :
             /\ chan[k] = Mark("code", calls)
             /\ calls \in outs \/ \E i \in 1 .. (k - 1) : chan[i] = Mark("out", calls)
             /\ \A i \in 1 .. (k - 1) : Own(chan[i])
             /\ \A i \in (k + 1) .. Len(chan) : chan[i] \in Between
      BY <1>11 DEF CodeSeen
    <2>2. \A i \in 1 .. (k - 1) : i \in DOMAIN chan /\ chan'[i] = chan[i]
      BY <1>1, <1>3
    <2>3. ASSUME NEW i \in (k + 1) .. Len(chan') PROVE chan'[i] \in Between
      <3>1. i \in (k + 1) .. Len(chan) \/ i = Len(chan) + 1
        BY <1>1, <1>3
      <3>2. \A j \in (k + 1) .. Len(chan) : j \in 1 .. Len(chan)
        BY <1>3
      <3>q. QED
        BY <1>1, <2>1, <3>1, <3>2 DEF Between
    <2>4. /\ k \in DOMAIN chan' /\ chan'[k] = Mark("code", calls')
          /\ calls' \in outs' \/ \E i \in 1 .. (k - 1) : chan'[i] = Mark("out", calls')
          /\ \A i \in 1 .. (k - 1) : Own(chan[i])'
      BY <1>1, <1>8, <2>1, <2>2 DEF Own
    <2>q. QED
      BY <1>1, <1>11, <2>3, <2>4 DEF CodeSeen, Between
  <1>q. QED
    BY <1>1, <1>5, <1>6, <1>7, <1>9, <1>10, <1>11 DEF Runs

(* A command that reads its standard input is the call's own. *)
LEMMA OwnTakesInput ==
  ASSUME SessionTypeOK, TakesInput, NEW tail \in Tails
  PROVE  /\ ~ Waits(tail) /\ ~ HasRun(tail) /\ ~ Rest
         /\ Runs(tail) => Runs(tail)'
  <1>1. /\ shell.at = "running" /\ shell.line.text = "body" /\ shell.line.call \in CallIds
        /\ shell' = shell /\ chan' = chan /\ calls' = calls
        /\ typed # << >> /\ typed' = Tail(typed) /\ typed \in Seq(Lines) /\ typed' \in Seq(Lines)
    BY SessionTypeNext DEF TakesInput, answering, SessionTypeOK, SessionNext
  <1>2. /\ Len(typed) \in Nat \ {0} /\ Len(typed') = Len(typed) - 1
        /\ \A i \in 1 .. (Len(typed) - 1) : typed'[i] = typed[i + 1]
    BY <1>1, LineRead
  <1>3. DOMAIN typed = 1 .. Len(typed) /\ DOMAIN typed' = 1 .. Len(typed')
    BY <1>1, Sized
  <1>4. ~ Outsider(shell.line)
    BY <1>1, LineMarks, BashSessionAssumption DEF Outsider, CallIds, Nobody
  <1>5. shell.line \notin tail
    BY <1>1, LineMarks DEF Tails
  <1>6. ASSUME NEW j \in DOMAIN typed' PROVE j + 1 \in DOMAIN typed /\ typed'[j] = typed[j + 1]
    <2>1. j \in 1 .. (Len(typed) - 1)
      BY <1>2, <1>3
    <2>q. QED
      BY <1>2, <1>3, <2>1
  <1>7. Runs(tail) => Runs(tail)'
    BY <1>1, <1>6 DEF Runs, Calm
  <1>q. QED
    BY <1>1, <1>4, <1>5, <1>7 DEF Waits, HasRun, Rest

(* What a wait leaves of the stream. *)
LEMMA RestOfStream ==
  ASSUME SessionTypeOK, chan' \in Seq(Marks), NEW p \in 1 .. Len(chan), chan' \in EatFollowing(After(p)), calls' = calls
  PROVE  Calm => Calm'
  <1>1. PICK t : t = chan'
    OBVIOUS
  <1>2. PICK f \in [1 .. Len(t) -> 1 .. Len(chan)] : Thins(f, t, chan)
    BY <1>1, Consumed DEF SessionTypeOK
  <1>3. DOMAIN chan' = 1 .. Len(t) /\ DOMAIN chan = 1 .. Len(chan)
    BY <1>1, Sized DEF SessionTypeOK
  <1>4. ASSUME Calm, NEW k \in DOMAIN chan' PROVE chan'[k] \in Between
    <2>1. f[k] \in DOMAIN chan /\ (t[k] = chan[f[k]] \/ chan[f[k]].kind = "code")
      BY <1>2, <1>3 DEF Thins
    <2>2. chan[f[k]] \in Between
      BY <1>4, <2>1 DEF Calm
    <2>3. chan[f[k]].kind # "code"
      BY <2>2, LineMarks DEF Between
    <2>q. QED
      BY <1>1, <2>1, <2>2, <2>3
  <1>q. QED
    BY <1>4 DEF Calm, Between

(* Output that a wait passes over is the call's own, or nobody's. *)
LEMMA OwnOutput ==
  ASSUME chan \in Seq(Marks), NEW p \in 0 .. Len(chan), \A i \in 1 .. p : Own(chan[i]) \/ chan[i].kind # "out"
  PROVE  /\ OutputBefore(p) \subseteq {Nobody, calls}
         /\ \A i \in 1 .. p : chan[i] = Mark("out", calls) => calls \in OutputBefore(p)
  <1>1. DOMAIN chan = 1 .. Len(chan) /\ Len(chan) \in Nat
    BY Sized
  <1>2. ASSUME NEW i \in 1 .. p, chan[i].kind = "out" PROVE chan[i].call \in {Nobody, calls}
    <2>1. chan[i] \in {Prompt, Mark("out", Nobody), Mark("out", calls), Mark("unique", calls)}
      BY <1>2 DEF Own, Between
    <2>q. QED
      BY <1>2, <2>1, LineMarks
  <1>3. OutputBefore(p) \subseteq {Nobody, calls}
    BY <1>2 DEF OutputBefore
  <1>4. ASSUME NEW i \in 1 .. p, chan[i] = Mark("out", calls) PROVE calls \in OutputBefore(p)
    <2>1. chan[i].kind = "out" /\ chan[i].call = calls
      BY <1>4, LineMarks
    <2>q. QED
      BY <2>1 DEF OutputBefore
  <1>q. QED
    BY <1>3, <1>4

(* Every step of bash keeps a call's output and exit code its own. *)
LEMMA OwnBash ==
  ASSUME SessionTypeOK, OwnInv, ReadLine \/ PrintOutput \/ PrintPrompt \/ TakesInput
  PROVE  OwnInv'
  <1> SUFFICES ASSUME ~ warned PROVE OwnInv'
    BY DEF OwnInv, ReadLine, PrintOutput, PrintPrompt, TakesInput, answering
  <1>a. UNCHANGED answering
    BY DEF ReadLine, PrintOutput, PrintPrompt, TakesInput
  <1>u. /\ phase' = phase /\ mode' = mode /\ outs' = outs /\ code' = code /\ calls' = calls /\ result' = result
        /\ warned' = warned /\ (OwnResult => OwnResult')
    BY <1>a DEF answering, OwnResult
  <1>t. /\ chan \in Seq(Marks) /\ chan' \in Seq(Marks) /\ typed \in Seq(Lines) /\ typed' \in Seq(Lines)
        /\ phase \in {"idle", "body", "status", "prompt", "intr", "stop", "kill"}
        /\ shell \in [at : {"prompt", "running", "ending"}, line : Lines]
    BY SessionTypeNext DEF SessionTypeOK, SessionNext
  <1>d. /\ DOMAIN typed = 1 .. Len(typed) /\ Len(typed) \in Nat /\ (typed = << >> <=> Len(typed) = 0)
        /\ DOMAIN typed' = 1 .. Len(typed') /\ Len(typed') \in Nat /\ (typed' = << >> <=> Len(typed') = 0)
        /\ DOMAIN chan = 1 .. Len(chan) /\ Len(chan) \in Nat
        /\ DOMAIN chan' = 1 .. Len(chan') /\ Len(chan') \in Nat
    BY <1>t, Sized
  <1>b. PICK u, q : u = Uniques /\ u = Uniques' /\ u \in Tails /\ q = Queries /\ q = Queries' /\ q \in Tails
    <2>1. Uniques' = Uniques /\ Queries' = Queries
      BY <1>u DEF Uniques, Queries
    <2>2. Uniques \in Tails /\ Queries \in Tails
      BY DEF Uniques, Queries, Tails
    <2>q. QED
      BY <2>1, <2>2
  <1>w. /\ BodyToCome <=> Waits(u) \/ Runs(u) \/ (HasRun(u) /\ Given)
        /\ BodyToCome' <=> Waits(u)' \/ Runs(u)' \/ (HasRun(u)' /\ Given')
        /\ CodeToCome <=> Waits(q) \/ Runs(q) \/ (HasRun(q) /\ Given) \/ CodeSeen
        /\ CodeToCome' <=> Waits(q)' \/ Runs(q)' \/ (HasRun(q)' /\ Given') \/ CodeSeen'
    BY <1>b DEF BodyToCome, CodeToCome, Waits, Runs, HasRun
  <1>1. CASE ReadLine
    <2>1. /\ typed # << >> /\ chan' = chan /\ shell' = [at |-> "running", line |-> typed[1]]
          /\ Len(typed') = Len(typed) - 1
          /\ \A i \in 1 .. (Len(typed) - 1) : typed'[i] = typed[i + 1]
      BY <1>t, <1>1, LineRead DEF ReadLine
    <2>2. ASSUME NEW text, \A i \in DOMAIN typed : typed[i].text = text => i = Len(typed)
          PROVE  /\ \A i \in DOMAIN typed' : typed'[i].text = text => i = Len(typed')
                 /\ typed[1].text = text => typed' = << >>
      <3>1. ASSUME NEW i \in DOMAIN typed', typed'[i].text = text PROVE i = Len(typed')
        <4>1. i \in 1 .. (Len(typed) - 1) /\ i + 1 \in DOMAIN typed
          BY <1>d, <2>1
        <4>2. typed'[i] = typed[i + 1]
          BY <2>1, <4>1
        <4>3. i + 1 = Len(typed)
          BY <2>2, <3>1, <4>1, <4>2
        <4>q. QED
          BY <1>d, <2>1, <4>1, <4>3
      <3>2. 1 \in DOMAIN typed
        BY <1>d, <2>1
      <3>3. typed[1].text = text => 1 = Len(typed)
        BY <2>2, <3>2
      <3>q. QED
        BY <1>d, <2>1, <3>1, <3>3
    <2>3. UniqueLast => UniqueLast'
      BY <2>1, <2>2 DEF UniqueLast
    <2>4. StatusLast => StatusLast'
      BY <2>1, <2>2 DEF StatusLast
    <2>5. Given => Given'
      BY <1>u, <2>1 DEF Given
    <2>6. ~ CodeSeen
      BY <2>1 DEF CodeSeen
    <2>7. (BodyToCome => BodyToCome') /\ (CodeToCome => CodeToCome') /\ (Rest => Rest')
      BY <1>1, <1>w, <2>5, <2>6, OwnReadLine
    <2>q. QED
      BY <1>u, <2>1, <2>3, <2>4, <2>7 DEF OwnInv
  <1>2. CASE PrintOutput
    <2>1. /\ shell.at = "running" /\ shell'.at = "ending" /\ typed' = typed /\ shell.line \in Lines
          /\ Len(chan') = Len(chan) + (IF shell.line.text \in {"body", "status", "unique"} THEN 1 ELSE 0)
          /\ \A i \in 1 .. Len(chan) : chan'[i] = chan[i]
          /\ shell.line.text = "body" => chan'[Len(chan) + 1] = Mark("out", shell.line.call)
          /\ shell.line.text = "status" => chan'[Len(chan) + 1] = Mark("code", last)
          /\ shell.line.text = "unique" => chan'[Len(chan) + 1] = Mark("unique", shell.line.call)
      BY <1>2, OutputPrinted
    <2>2. /\ Waits(u) => Waits(u)'
          /\ Runs(u) => HasRun(u)' /\ Given'
          /\ HasRun(u) /\ shell.line.text # "status" => HasRun(u)'
          /\ Waits(q) => Waits(q)'
          /\ Runs(q) => HasRun(q)' /\ Given'
          /\ HasRun(q) /\ shell.line.text # "status" => HasRun(q)'
          /\ Given => Given'
          /\ Rest => Rest'
      BY <1>2, <1>b, OwnPrintOutput
    <2>3. \A i \in DOMAIN chan' :
             \/ i \in 1 .. Len(chan) /\ i \in DOMAIN chan /\ chan'[i] = chan[i]
             \/ i = Len(chan) + 1 /\ shell.line.text = "body" /\ chan'[i] = Mark("out", shell.line.call)
             \/ i = Len(chan) + 1 /\ shell.line.text = "status" /\ chan'[i] = Mark("code", last)
             \/ i = Len(chan) + 1 /\ shell.line.text = "unique" /\ chan'[i] = Mark("unique", shell.line.call)
      <3> TAKE i \in DOMAIN chan'
      <3>1. \/ i \in 1 .. Len(chan)
            \/ shell.line.text \in {"body", "status", "unique"} /\ i = Len(chan) + 1
        BY <1>d, <2>1
      <3>q. QED
        BY <1>d, <2>1, <3>1
    <2>4. CASE phase = "body"
      <3>1. outs = {} /\ BodyToCome /\ UniqueLast
        BY <2>4 DEF OwnInv
      <3>2. ~ (HasRun(u) /\ shell.line.text = "status")
        <4>1. \A l \in u : l.text # "status"
          BY <1>b, LineMarks DEF Uniques
        <4>q. QED
          BY <2>1, <4>1 DEF HasRun
      <3>3. BodyToCome'
        BY <1>w, <2>2, <3>1, <3>2
      <3>4. ASSUME NEW i \in DOMAIN chan', chan'[i].kind = "unique"
            PROVE  /\ typed' = << >> /\ shell'.at # "running"
                   /\ \E k \in 1 .. (i - 1) : chan'[k] = Mark("out", calls')
        <4>1. CASE i \in 1 .. Len(chan) /\ i \in DOMAIN chan /\ chan'[i] = chan[i]
          <5>1. PICK k \in 1 .. (i - 1) : typed = << >> /\ chan[k] = Mark("out", calls)
            BY <3>1, <3>4, <4>1 DEF UniqueLast
          <5>2. k \in 1 .. Len(chan)
            BY <1>d, <4>1
          <5>3. chan'[k] = Mark("out", calls')
            BY <1>u, <2>1, <5>1, <5>2
          <5>q. QED
            BY <2>1, <5>1, <5>3
        <4>2. CASE i = Len(chan) + 1 /\ shell.line.text = "unique"
          <5>1. typed = << >>
            BY <2>1, <3>1, <4>2 DEF UniqueLast
          <5>2. HasRun(u) /\ Given
            <6>1. ~ Outsider(shell.line) /\ shell.line # Line("body", calls)
              BY <4>2, LineMarks DEF Outsider
            <6>q. QED
              BY <1>w, <2>1, <3>1, <6>1 DEF Waits, Runs
          <5>3. PICK k \in DOMAIN chan : chan[k] = Mark("out", calls)
            BY <3>1, <5>2 DEF Given
          <5>4. k \in 1 .. (i - 1) /\ chan'[k] = Mark("out", calls')
            BY <1>d, <1>u, <2>1, <4>2, <5>3
          <5>q. QED
            BY <2>1, <5>1, <5>4
        <4>q. QED
          BY <2>3, <3>4, <4>1, <4>2, LineMarks
      <3>5. UniqueLast'
        BY <2>1, <3>1, <3>4 DEF UniqueLast
      <3>q. QED
        BY <1>u, <2>4, <3>1, <3>3, <3>5 DEF OwnInv
    <2>5. CASE phase = "status"
      <3>1. StatusLast /\ CodeToCome /\ ~ CodeSeen
        BY <2>1, <2>5 DEF OwnInv, CodeSeen
      <3>2. StatusLast'
        BY <2>1, <3>1 DEF StatusLast
      <3>3. CASE HasRun(q) /\ shell.line.text = "status" /\ Given
        <4>1. typed' = << >> /\ shell'.at # "running"
          BY <2>1, <3>1, <3>3 DEF StatusLast
        <4>2. PICK k : k = Len(chan) + 1
          OBVIOUS
        <4>3. k \in DOMAIN chan' /\ chan'[k] = Mark("code", calls') /\ Len(chan') = k
          BY <1>d, <1>u, <2>1, <3>3, <4>2 DEF HasRun
        <4>4. ASSUME NEW i \in 1 .. (k - 1) PROVE i \in DOMAIN chan /\ chan'[i] = chan[i] /\ Own(chan[i])'
          <5>1. i \in DOMAIN chan /\ chan'[i] = chan[i]
            BY <1>d, <2>1, <4>2
          <5>q. QED
            BY <1>u, <3>3, <5>1 DEF HasRun, Own
        <4>5. calls' \in outs' \/ \E i \in 1 .. (k - 1) : chan'[i] = Mark("out", calls')
          <5>1. CASE calls \in outs
            BY <1>u, <5>1
          <5>2. ASSUME NEW i \in DOMAIN chan, chan[i] = Mark("out", calls)
                PROVE  \E j \in 1 .. (k - 1) : chan'[j] = Mark("out", calls')
            <6>1. i \in 1 .. (k - 1)
              BY <1>d, <4>2
            <6>q. QED
              BY <1>u, <4>4, <5>2, <6>1
          <5>q. QED
            BY <3>3, <5>1, <5>2 DEF Given
        <4>6. \A i \in (k + 1) .. Len(chan') : FALSE
          BY <1>d, <4>2, <4>3
        <4>7. CodeSeen'
          BY <4>1, <4>3, <4>4, <4>5, <4>6 DEF CodeSeen
        <4>8. CodeToCome'
          BY <1>w, <4>7
        <4>q. QED
          BY <1>u, <2>5, <3>2, <4>8 DEF OwnInv
      <3>4. CASE ~ (HasRun(q) /\ shell.line.text = "status" /\ Given)
        <4>1. CodeToCome'
          BY <1>w, <2>2, <3>1, <3>4
        <4>q. QED
          BY <1>u, <2>5, <3>2, <4>1 DEF OwnInv
      <3>q. QED
        BY <3>3, <3>4
    <2>6. CASE phase = "prompt"
      BY <2>1, <2>6 DEF OwnInv
    <2>7. CASE phase \in {"idle", "intr", "stop", "kill"}
      BY <1>u, <2>2, <2>7 DEF OwnInv
    <2>q. QED
      BY <1>t, <2>4, <2>5, <2>6, <2>7
  <1>3. CASE PrintPrompt
    <2>1. /\ shell'.at = "prompt" /\ typed' = typed /\ shell.at = "ending"
          /\ Len(chan') = Len(chan) + 1 /\ chan'[Len(chan) + 1] = Prompt
          /\ \A i \in 1 .. Len(chan) : chan'[i] = chan[i]
      BY <1>3, <1>t, PromptAdded, LineMarks DEF PrintPrompt
    <2>2. (BodyToCome => BodyToCome') /\ (CodeToCome => CodeToCome') /\ (Rest => Rest') /\ (Calm => Calm')
      BY <1>3, <1>w, OwnPrintPrompt
    <2>3. StatusLast => StatusLast'
      BY <2>1 DEF StatusLast
    <2>4. ASSUME UniqueLast PROVE UniqueLast'
      <3>1. ASSUME NEW i \in DOMAIN chan', chan'[i].kind = "unique"
            PROVE  /\ typed' = << >> /\ shell'.at # "running"
                   /\ \E k \in 1 .. (i - 1) : chan'[k] = Mark("out", calls')
        <4>1. i # Len(chan) + 1
          BY <2>1, <3>1, LineMarks
        <4>2. i \in DOMAIN chan /\ chan'[i] = chan[i]
          BY <1>d, <2>1, <4>1
        <4>3. PICK k \in 1 .. (i - 1) : typed = << >> /\ chan[k] = Mark("out", calls)
          BY <2>4, <3>1, <4>2 DEF UniqueLast
        <4>4. k \in 1 .. Len(chan)
          BY <1>d, <4>2
        <4>q. QED
          BY <1>u, <2>1, <4>3, <4>4
      <3>q. QED
        BY <2>1, <2>4, <3>1 DEF UniqueLast
    <2>q. QED
      BY <1>u, <2>1, <2>2, <2>3, <2>4 DEF OwnInv
  <1>4. CASE TakesInput
    <2>1. /\ typed # << >> /\ chan' = chan /\ shell' = shell /\ shell.at = "running" /\ shell.line.text = "body"
          /\ Len(typed') = Len(typed) - 1
          /\ \A i \in 1 .. (Len(typed) - 1) : typed'[i] = typed[i + 1]
      BY <1>t, <1>4, LineRead DEF TakesInput
    <2>2. ASSUME NEW text, \A i \in DOMAIN typed : typed[i].text = text => i = Len(typed)
          PROVE  \A i \in DOMAIN typed' : typed'[i].text = text => i = Len(typed')
      <3>1. ASSUME NEW i \in DOMAIN typed', typed'[i].text = text PROVE i = Len(typed')
        <4>1. i \in 1 .. (Len(typed) - 1) /\ i + 1 \in DOMAIN typed
          BY <1>d, <2>1
        <4>2. typed'[i] = typed[i + 1]
          BY <2>1, <4>1
        <4>3. i + 1 = Len(typed)
          BY <2>2, <3>1, <4>1, <4>2
        <4>q. QED
          BY <1>d, <2>1, <4>1, <4>3
      <3>q. QED
        BY <3>1
    <2>3. UniqueLast => UniqueLast'
      BY <2>1, <2>2 DEF UniqueLast
    <2>4. StatusLast => StatusLast'
      BY <2>1, <2>2 DEF StatusLast
    <2>5. (BodyToCome => BodyToCome') /\ (CodeToCome => CodeToCome') /\ ~ Rest
      <3>1. ~ CodeSeen
        BY <2>1 DEF CodeSeen
      <3>q. QED
        BY <1>4, <1>b, <1>w, <3>1, OwnTakesInput
    <2>q. QED
      BY <1>u, <2>1, <2>3, <2>4, <2>5 DEF OwnInv
  <1>q. QED
    BY <1>1, <1>2, <1>3, <1>4

(* Every step keeps a call's output and exit code its own. *)
LEMMA OwnNext == SessionTypeOK /\ OwnInv /\ [SessionNext]_sessionVars => OwnInv'
  <1> SUFFICES ASSUME SessionTypeOK, OwnInv, [SessionNext]_sessionVars PROVE OwnInv'
    OBVIOUS
  <1>w. SUFFICES ASSUME ~ warned' PROVE OwnInv'
    BY DEF OwnInv
  <1>t. /\ chan \in Seq(Marks) /\ chan' \in Seq(Marks) /\ typed \in Seq(Lines) /\ typed' \in Seq(Lines)
        /\ phase \in {"idle", "body", "status", "prompt", "intr", "stop", "kill"}
        /\ shell \in [at : {"prompt", "running", "ending"}, line : Lines]
        /\ calls \in 0 .. MaxCalls /\ CallIds = 1 .. MaxCalls /\ Nobody = 0 /\ NoCode = MaxCalls + 1 /\ MaxCalls \in Nat
    BY SessionTypeNext, BashSessionAssumption DEF SessionTypeOK, CallIds, Nobody, NoCode
  <1>d. /\ DOMAIN typed = 1 .. Len(typed) /\ Len(typed) \in Nat /\ (typed = << >> <=> Len(typed) = 0)
        /\ DOMAIN typed' = 1 .. Len(typed') /\ Len(typed') \in Nat /\ (typed' = << >> <=> Len(typed') = 0)
        /\ DOMAIN chan = 1 .. Len(chan) /\ Len(chan) \in Nat
        /\ DOMAIN chan' = 1 .. Len(chan') /\ Len(chan') \in Nat
    BY <1>t, Sized
  <1>r. ASSUME ~ warned, NEW p \in 1 .. Len(chan), chan' \in EatFollowing(After(p)), calls' = calls, Calm
        PROVE  Calm'
    BY <1>r, <1>t, RestOfStream
  <1>1. CASE ReadLine \/ PrintOutput \/ PrintPrompt \/ TakesInput
    BY <1>1, OwnBash
  <1>5. CASE \E check \in {"raise", "silent", "ignore"}, fallback \in BOOLEAN : Run(check, fallback)
    <2> PICK check \in {"raise", "silent", "ignore"}, fallback \in BOOLEAN : Run(check, fallback)
      BY <1>5
    <2>1. /\ chan' = chan /\ shell' = shell /\ phase' = "body" /\ mode'.fallback = fallback /\ outs' = {}
          /\ calls' = calls + 1 /\ result' = NoResult /\ calls + 1 \in CallIds /\ ~ warned
          /\ typed' = typed \o CommandLines(calls + 1, fallback)
      BY <1>w, <1>t DEF Run
    <2>2. Rest
      BY <2>1 DEF OwnInv, Run
    <2>3. PICK n, c : n = Len(typed) + 1 /\ c = calls + 1 /\ c \in CallIds
      BY <2>1
    <2>4. /\ Len(typed') = Len(typed) + (IF fallback THEN 2 ELSE 1) /\ typed'[n] = Line("body", c)
          /\ \A i \in 1 .. Len(typed) : typed'[i] = typed[i]
      <3>0. typed \in Seq(Lines)
        BY <1>t
      <3>1. PICK t : t = typed' /\ t = typed \o CommandLines(c, fallback)
        BY <2>1, <2>3
      <3>2. /\ Len(t) = Len(typed) + (IF fallback THEN 2 ELSE 1)
            /\ \A i \in 1 .. Len(typed) : t[i] = typed[i]
            /\ t[Len(typed) + 1] = Line("body", c)
        BY <2>3, <3>0, <3>1, CommandTyped, Zenon
      <3>q. QED
        BY <2>3, <3>1, <3>2
    <2>5. \A i \in DOMAIN typed' : \/ i \in DOMAIN typed /\ typed'[i] = typed[i]
                                   \/ i = n /\ typed'[i] = Line("body", c)
                                   \/ fallback /\ i = n + 1 /\ typed'[i] = Line("unique", c)
      <3>0. typed \in Seq(Lines)
        BY <1>t
      <3>1. PICK t : t = typed' /\ t = typed \o CommandLines(c, fallback)
        BY <2>1, <2>3
      <3>2. \A i \in DOMAIN t : \/ i \in DOMAIN typed /\ t[i] = typed[i]
                                \/ i = Len(typed) + 1 /\ t[i] = Line("body", c)
                                \/ fallback /\ i = Len(typed) + 2 /\ t[i] = Line("unique", c)
        BY <2>3, <3>0, <3>1, CommandLine, Zenon
      <3>q. QED
        BY <1>d, <2>3, <3>1, <3>2
    <2>6. n \in DOMAIN typed'
      <3>1. Len(typed') = Len(typed) + 2 \/ Len(typed') = Len(typed) + 1
        BY <2>4
      <3>2. Len(typed) \in Nat /\ n = Len(typed) + 1
        BY <1>d, <2>3
      <3>3. n \in 1 .. Len(typed')
        BY <3>1, <3>2
      <3>q. QED
        BY <1>d, <3>3
    <2>7. Waits(Uniques)'
      <3>1. Calm' /\ (shell'.at = "running" => Outsider(shell'.line))
        BY <2>1, <2>2 DEF Rest, Calm
      <3>2. \A j \in 1 .. (n - 1) : Outsider(typed'[j])
        BY <1>d, <2>2, <2>3, <2>4 DEF Rest
      <3>3. ASSUME NEW j \in (n + 1) .. Len(typed') PROVE typed'[j] \in Uniques'
        <4>1. j \in DOMAIN typed' /\ j \notin DOMAIN typed /\ j # n
          BY <1>d, <2>3
        <4>2. fallback /\ typed'[j] = Line("unique", c)
          BY <2>5, <4>1
        <4>q. QED
          BY <2>1, <2>3, <4>2 DEF Uniques
      <3>4. typed'[n] = Line("body", calls')
        BY <2>1, <2>3, <2>4
      <3>5. PICK tail : tail = Uniques'
        OBVIOUS
      <3>6. Waits(tail)'
        BY <2>6, <3>1, <3>2, <3>3, <3>4, <3>5 DEF Waits, Outsider
      <3>q. QED
        BY <3>5, <3>6 DEF Waits
    <2>8. UniqueLast'
      <3>1. ASSUME NEW i \in DOMAIN typed', typed'[i].text = "unique" PROVE i = Len(typed')
        <4>1. ~ (i \in DOMAIN typed /\ typed'[i] = typed[i])
          BY <2>2, <3>1, LineMarks DEF Rest, Outsider
        <4>2. fallback /\ i = n + 1
          BY <2>5, <3>1, <4>1, LineMarks
        <4>3. Len(typed') = Len(typed) + 2
          BY <2>4, <4>2
        <4>q. QED
          BY <1>d, <2>3, <4>2, <4>3
      <3>2. shell'.at = "running" => shell'.line.text # "unique"
        BY <2>1, <2>2, LineMarks DEF Rest, Outsider
      <3>3. \A i \in DOMAIN chan' : chan'[i].kind # "unique"
        BY <2>1, <2>2, LineMarks DEF Rest, Calm, Between
      <3>q. QED
        BY <3>1, <3>2, <3>3 DEF UniqueLast
    <2>9. result'.how # "value"
      BY <2>1 DEF NoResult
    <2>q. QED
      BY <2>1, <2>7, <2>8, <2>9 DEF OwnInv, BodyToCome, OwnResult
  <1>f. ASSUME NEW kinds, FirstOf(kinds) # 0
        PROVE  FirstOf(kinds) \in 1 .. Len(chan) /\ chan[FirstOf(kinds)].kind \in kinds
    BY <1>t, <1>f, FirstOfMark
  <1>7. CASE BodyTimeout
    BY <1>w, <1>7 DEF BodyTimeout, Return
  <1>e. ASSUME Failed PROVE FALSE
    BY <1>w, <1>e DEF Failed, Return
  <1>9. CASE StatusTimeout
    BY <1>e, <1>9 DEF StatusTimeout
  <1>11. CASE PromptTimeout
    BY <1>e, <1>11 DEF PromptTimeout
  <1>16. CASE InterruptFails
    BY <1>w, <1>16 DEF InterruptFails
  <1>10. CASE SeePrompt
    <2>1. /\ phase = "prompt" /\ phase' = "idle" /\ ~ warned /\ calls' = calls /\ typed' = typed /\ shell' = shell
          /\ result' = [how |-> "value", call |-> calls, code |-> code, outs |-> outs]
      BY <1>w, <1>10 DEF SeePrompt, Return, terminal
    <2>2. PICK p : p \in 1 .. Len(chan) /\ chan' = After(p)
      BY <1>f, <1>10 DEF SeePrompt
    <2>3. code = calls /\ outs \ {Nobody} = {calls} /\ Calm /\ typed = << >> /\ shell.at # "running"
      BY <2>1 DEF OwnInv
    <2>4. Calm'
      BY <1>r, <2>1, <2>2, <2>3, Taken
    <2>5. Rest'
      BY <1>d, <2>1, <2>3, <2>4 DEF Rest
    <2>6. OwnResult'
      BY <2>1, <2>3 DEF OwnResult
    <2>q. QED
      BY <2>1, <2>5, <2>6 DEF OwnInv
  (* A signal empties the terminal. *)
  <1>s. ASSUME Signalled, ~ warned, Rest, chan' = chan PROVE Rest'
    <2>1. typed' = << >> /\ Calm' /\ (shell'.at = "running" => shell.at = "running" /\ shell' = shell)
      <3>1. [shell EXCEPT !.at = "ending"].at = "ending" /\ [AtPrompt EXCEPT !.at = "ending"].at = "ending"
        BY <1>t DEF AtPrompt
      <3>q. QED
        BY <1>s, <3>1 DEF Signalled, Rest, Calm, Between
    <2>q. QED
      BY <1>d, <1>s, <2>1 DEF Rest, Outsider
  <1>12. CASE SendIntr
    <2>1. /\ phase \in {"idle", "intr"} /\ phase' = "intr" /\ ~ warned /\ Signalled /\ chan' = chan
          /\ result' = result \/ result' = NoResult
      BY <1>w, <1>12 DEF SendIntr
    <2>2. Rest'
      BY <1>s, <2>1 DEF OwnInv
    <2>3. OwnResult'
      BY <2>1 DEF OwnInv, OwnResult, NoResult
    <2>q. QED
      BY <2>1, <2>2, <2>3 DEF OwnInv
  <1>14. CASE SendStop
    <2>1. phase = "intr" /\ phase' = "stop" /\ ~ warned /\ Signalled /\ chan' = chan /\ result' = result
      BY <1>w, <1>14 DEF SendStop
    <2>2. Rest'
      BY <1>s, <2>1 DEF OwnInv
    <2>q. QED
      BY <2>1, <2>2 DEF OwnInv, OwnResult
  <1>13. CASE SeeInterrupted
    <2>1. /\ phase \in {"intr", "kill"} /\ phase' = "idle" /\ ~ warned /\ calls' = calls
          /\ typed' = typed /\ shell' = shell /\ result'.how = "interrupted"
      BY <1>w, <1>13 DEF SeeInterrupted, InterruptDone, terminal
    <2>2. PICK p : p \in 1 .. Len(chan) /\ chan' \in EatFollowing(After(p))
      BY <1>f, <1>13 DEF SeeInterrupted, InterruptDone
    <2>3. Rest
      BY <2>1 DEF OwnInv
    <2>4. Calm'
      BY <1>r, <2>1, <2>2, <2>3 DEF Rest
    <2>5. Rest'
      BY <2>1, <2>3, <2>4 DEF Rest
    <2>q. QED
      BY <2>1, <2>5 DEF OwnInv, OwnResult
  <1>15. CASE SendKill
    <2>1. /\ phase = "stop" /\ phase' = "kill" /\ ~ warned /\ calls' = calls /\ shell' = shell /\ result' = result
          /\ typed' = Append(typed, Line("kill", Nobody))
      BY <1>w, <1>15 DEF SendKill
    <2>2. PICK p : p \in 1 .. Len(chan) /\ chan' = After(p)
      BY <1>f, <1>15 DEF SendKill
    <2>3. Rest
      BY <2>1 DEF OwnInv
    <2>4. Calm'
      BY <1>r, <2>1, <2>2, <2>3, Taken DEF Rest
    <2>5. ASSUME NEW i \in DOMAIN typed' PROVE Outsider(typed'[i])
      <3>1. Line("kill", Nobody) \in Lines
        BY DEF Line, Lines
      <3>2. /\ Len(typed') = Len(typed) + 1 /\ typed'[Len(typed) + 1] = Line("kill", Nobody)
            /\ \A k \in 1 .. Len(typed) : typed'[k] = typed[k]
        BY <1>t, <2>1, <3>1, LineAdded
      <3>3. i \in 1 .. Len(typed) \/ i = Len(typed) + 1
        BY <1>d, <3>2
      <3>q. QED
        BY <1>d, <2>3, <3>2, <3>3, LineMarks DEF Rest, Outsider
    <2>6. Rest'
      BY <2>1, <2>3, <2>4, <2>5 DEF Rest, Outsider
    <2>q. QED
      BY <2>1, <2>6 DEF OwnInv, OwnResult
  <1>17. CASE UNCHANGED sessionVars
    BY <1>17 DEF sessionVars, OwnInv, Rest, Calm, Outsider, BodyToCome, CodeToCome, UniqueLast, StatusLast, CodeSeen,
       Waits, Runs, HasRun, Given, Own, Uniques, Queries, OwnResult
  <1>8. CASE SeeStatus
    <2>1. PICK p : /\ p = FirstOf({"code", "torn"}) /\ p \in 1 .. Len(chan) /\ chan' = After(p)
                   /\ chan[p].kind \in {"code", "torn"}
      BY <1>f, <1>8 DEF SeeStatus
    <2>2. /\ chan[p].kind = "code" /\ phase = "status" /\ phase' = "prompt" /\ code' = chan[p].call
          /\ outs' = outs \cup OutputBefore(p) /\ ~ warned /\ result' = result
          /\ typed' = typed /\ shell' = shell /\ calls' = calls
      BY <1>e, <1>w, <1>8, <2>1 DEF SeeStatus, terminal
    <2>3. calls \in CallIds /\ outs \subseteq {Nobody, calls} /\ CodeToCome
      BY <2>2 DEF OwnInv
    <2>4. p \in DOMAIN chan /\ ~ Calm /\ \A tail : ~ Waits(tail) /\ ~ Runs(tail) /\ ~ HasRun(tail)
      <3>1. p \in DOMAIN chan
        BY <1>d, <2>1
      <3>2. chan[p] \notin Between /\ ~ Own(chan[p])
        BY <2>2, LineMarks DEF Between, Own
      <3>q. QED
        BY <3>1, <3>2 DEF Calm, Waits, Runs, HasRun
    <2>5. CodeSeen
      BY <2>3, <2>4 DEF CodeToCome
    <2>6. PICK k \in DOMAIN chan :
             /\ chan[k] = Mark("code", calls)
             /\ calls \in outs \/ \E i \in 1 .. (k - 1) : chan[i] = Mark("out", calls)
             /\ \A i \in 1 .. (k - 1) : Own(chan[i])
             /\ \A i \in (k + 1) .. Len(chan) : chan[i] \in Between
      BY <2>5 DEF CodeSeen
    <2>7. p = k
      <3>1. ~ Own(chan[p]) /\ chan[p] \notin Between
        BY <2>2, LineMarks DEF Between, Own
      <3>2. p \notin 1 .. (k - 1) /\ p \notin (k + 1) .. Len(chan)
        BY <2>6, <3>1
      <3>q. QED
        BY <1>d, <2>1, <3>2
    <2>8. \A i \in 1 .. p : Own(chan[i]) \/ chan[i].kind # "out"
      BY <1>d, <2>1, <2>2, <2>6, <2>7
    <2>9. /\ OutputBefore(p) \subseteq {Nobody, calls}
          /\ \A i \in 1 .. p : chan[i] = Mark("out", calls) => calls \in OutputBefore(p)
      <3>1. p \in 0 .. Len(chan)
        BY <1>d, <2>1
      <3>q. QED
        BY <1>t, <2>8, <3>1, OwnOutput
    <2>10. \A i \in 1 .. (k - 1) : i \in 1 .. p
      BY <1>d, <2>7
    <2>11. calls \in outs' /\ outs' \subseteq {Nobody, calls}
      BY <2>2, <2>3, <2>6, <2>9, <2>10
    <2>12. code' = calls
      BY <2>2, <2>6, <2>7, LineMarks
    <2>13. ASSUME NEW i \in DOMAIN chan' PROVE chan'[i] \in Between
      <3>1. Len(After(p)) = Len(chan) - p /\ \A j \in 1 .. (Len(chan) - p) : After(p)[j] = chan[p + j]
        BY <1>t, <2>1, AfterMarks
      <3>2. i \in 1 .. (Len(chan) - p)
        BY <1>d, <2>1, <3>1
      <3>3. p + i \in (k + 1) .. Len(chan)
        BY <1>d, <2>1, <2>7, <3>2
      <3>q. QED
        BY <2>1, <2>6, <3>1, <3>2, <3>3
    <2>14. Calm' /\ typed' = << >> /\ shell'.at # "running"
      BY <2>2, <2>5, <2>13 DEF Calm, CodeSeen, Between
    <2>15. outs' \ {Nobody} = {calls} /\ calls' \in CallIds
      BY <1>t, <2>2, <2>3, <2>11
    <2>q. QED
      BY <2>2, <2>11, <2>12, <2>14, <2>15 DEF OwnInv, OwnResult
  <1>6. CASE SeeEnd
    <2>1. PICK p : p = FirstOf(BodyEnd) /\ p \in 1 .. Len(chan) /\ chan' = After(p) /\ chan[p].kind \in BodyEnd
      BY <1>f, <1>6 DEF SeeEnd
    <2>2. /\ phase = "body" /\ phase' = "status" /\ outs' = OutputBefore(p) /\ typed' = typed \o StatusLines
          /\ ~ warned /\ result' = result /\ shell' = shell /\ calls' = calls /\ last' = last /\ mode' = mode
      BY <1>w, <1>6, <2>1 DEF SeeEnd, Return
    <2>3. calls \in CallIds /\ outs = {} /\ BodyToCome /\ UniqueLast
      BY <2>2 DEF OwnInv
    <2>4. \A i \in DOMAIN typed' : \/ i \in DOMAIN typed /\ typed'[i] = typed[i]
                                   \/ i = Len(typed) + 1 /\ typed'[i] = Line("blank", calls)
                                   \/ i = Len(typed) + 2 /\ typed'[i] = Line("status", calls)
      <3>1. PICK t : t = typed' /\ t = typed \o StatusLines
        BY <2>2
      <3>2. /\ Len(t) = Len(typed) + 2 /\ \A i \in 1 .. Len(typed) : t[i] = typed[i]
            /\ t[Len(typed) + 1] = Line("blank", calls) /\ t[Len(typed) + 2] = Line("status", calls)
        <4>1. typed \in Seq(Lines) /\ calls \in 0 .. MaxCalls
          BY <1>t
        <4>q. QED
          BY <3>1, <4>1, StatusTyped, Zenon
      <3>3. \A i \in DOMAIN typed' : i \in 1 .. Len(typed) \/ i = Len(typed) + 1 \/ i = Len(typed) + 2
        BY <1>d, <3>1, <3>2
      <3>q. QED
        BY <1>d, <3>1, <3>2, <3>3
    <2>5. Len(typed') = Len(typed) + 2 /\ \A i \in DOMAIN typed : i \in DOMAIN typed' /\ typed'[i] = typed[i]
      <3>1. PICK t : t = typed' /\ t = typed \o StatusLines
        BY <2>2
      <3>2. Len(t) = Len(typed) + 2 /\ \A i \in 1 .. Len(typed) : t[i] = typed[i]
        <4>1. typed \in Seq(Lines) /\ calls \in 0 .. MaxCalls
          BY <1>t
        <4>q. QED
          BY <3>1, <4>1, StatusTyped, Zenon
      <3>q. QED
        BY <1>d, <3>1, <3>2
    <2>6. ASSUME NEW i \in DOMAIN chan' PROVE p + i \in DOMAIN chan /\ chan'[i] = chan[p + i]
      <3>1. Len(After(p)) = Len(chan) - p /\ \A j \in 1 .. (Len(chan) - p) : After(p)[j] = chan[p + j]
        BY <1>t, <2>1, AfterMarks
      <3>2. i \in 1 .. (Len(chan) - p)
        BY <1>d, <2>1, <3>1
      <3>q. QED
        BY <1>d, <2>1, <3>1, <3>2
    <2>7. PICK u, q : u = Uniques /\ q = Queries /\ q = Queries'
      BY <2>2 DEF Queries
    <2>8. Line("blank", calls) \in q /\ Line("status", calls) \in q
      BY <2>7 DEF Queries
    <2>9. Waits(u) \/ Runs(u) \/ (HasRun(u) /\ Given)
      BY <2>3, <2>7 DEF BodyToCome, Waits, Runs, HasRun
    <2>10. p \in 0 .. Len(chan) /\ p \in DOMAIN chan
      BY <1>d, <2>1
    <2>11. ASSUME \A i \in DOMAIN chan : Own(chan[i])
           PROVE  /\ outs' \subseteq {Nobody, calls}
                  /\ \A i \in 1 .. p : chan[i] = Mark("out", calls) => calls \in outs'
      <3>1. \A i \in 1 .. p : Own(chan[i])
        BY <1>d, <2>1, <2>11
      <3>q. QED
        BY <1>t, <2>2, <2>10, <3>1, OwnOutput
    <2>12. Calm => \A i \in DOMAIN chan : Own(chan[i])
      BY DEF Calm, Own
    (* What is typed now is the only line that asks for the exit code. *)
    <2>13. ASSUME \A i \in DOMAIN typed : typed[i].text # "status",
                  shell.at = "running" => shell.line.text # "status"
           PROVE  StatusLast'
      <3>1. \A i \in DOMAIN typed' : typed'[i].text = "status" => i = Len(typed')
        BY <2>4, <2>5, <2>13, LineMarks
      <3>q. QED
        BY <2>2, <2>13, <3>1 DEF StatusLast
    (* The command has run, and its output is in outs or still to be read. *)
    <2>14. ASSUME HasRun(u), DOMAIN typed = {}, shell.at # "running", Given
           PROVE  OwnInv'
      <3>1. StatusLast'
        BY <2>13, <2>14
      <3>2. HasRun(q)'
        <4>1. \A i \in DOMAIN chan' : Own(chan[i])'
          BY <2>2, <2>6, <2>14 DEF HasRun, Own
        <4>2. \A i \in DOMAIN typed' : typed'[i] \in q
          BY <2>4, <2>8, <2>14
        <4>q. QED
          BY <2>2, <2>14, <4>1, <4>2 DEF HasRun
      <3>3. Given'
        <4>1. PICK i \in DOMAIN chan : chan[i] = Mark("out", calls)
          BY <2>3, <2>14 DEF Given
        <4>2. CASE i \in 1 .. p
          BY <2>2, <2>11, <2>14, <4>1, <4>2 DEF HasRun, Given
        <4>3. CASE i \notin 1 .. p
          <5>1. Len(After(p)) = Len(chan) - p /\ \A j \in 1 .. (Len(chan) - p) : After(p)[j] = chan[p + j]
            BY <1>t, <2>1, AfterMarks
          <5>2. i - p \in 1 .. (Len(chan) - p) /\ p + (i - p) = i
            BY <1>d, <2>1, <4>3
          <5>3. i - p \in DOMAIN chan' /\ chan'[i - p] = chan[i]
            BY <1>d, <2>1, <5>1, <5>2
          <5>q. QED
            BY <2>2, <4>1, <5>3 DEF Given
        <4>q. QED
          BY <4>2, <4>3
      <3>4. CodeToCome'
        BY <2>7, <3>2, <3>3 DEF CodeToCome, HasRun
      <3>5. outs' \subseteq {Nobody, calls}
        BY <2>11, <2>14 DEF HasRun
      <3>q. QED
        BY <2>2, <2>3, <3>1, <3>4, <3>5 DEF OwnInv, OwnResult
    <2>15. CASE mode.fallback
      <3>1. chan[p].kind = "unique"
        BY <2>1, <2>15 DEF BodyEnd
      <3>2. DOMAIN typed = {} /\ shell.at # "running"
        BY <1>d, <2>3, <2>10, <3>1 DEF UniqueLast
      <3>3. ~ Calm
        BY <2>10, <3>1, LineMarks DEF Calm, Between
      <3>q. QED
        BY <2>9, <2>14, <3>2, <3>3 DEF Waits, Runs
    <2>16. CASE ~ mode.fallback
      <3>1. u = {}
        BY <2>7, <2>16 DEF Uniques
      <3>2. CASE Waits(u)
        <4>1. PICK i \in DOMAIN typed :
                 /\ typed[i] = Line("body", calls)
                 /\ \A j \in 1 .. (i - 1) : Outsider(typed[j])
                 /\ \A j \in (i + 1) .. Len(typed) : typed[j] \in u
          BY <3>2 DEF Waits
        <4>2. i = Len(typed)
          <5>1. Len(typed) \notin (i + 1) .. Len(typed)
            BY <3>1, <4>1
          <5>q. QED
            BY <1>d, <5>1
        <4>3. ASSUME NEW j \in DOMAIN typed PROVE typed[j].text # "status"
          <5>1. j \in 1 .. (i - 1) \/ j = i
            BY <1>d, <4>2
          <5>q. QED
            BY <4>1, <5>1, LineMarks DEF Outsider
        <4>4. Calm /\ (shell.at = "running" => Outsider(shell.line))
          BY <3>2 DEF Waits
        <4>5. StatusLast'
          BY <2>13, <4>3, <4>4, LineMarks DEF Outsider
        <4>6. Calm'
          BY <1>r, <2>1, <2>2, <4>4, Taken
        <4>7. i \in DOMAIN typed' /\ typed'[i] = Line("body", calls')
          BY <2>2, <2>5, <4>1
        <4>8. \A j \in 1 .. (i - 1) : Outsider(typed'[j])
          BY <1>d, <2>5, <4>1, <4>2
        <4>9. ASSUME NEW j \in (i + 1) .. Len(typed') PROVE typed'[j] \in q
          <5>1. j \in DOMAIN typed' /\ j \notin DOMAIN typed
            BY <1>d, <4>2
          <5>q. QED
            BY <2>4, <2>8, <5>1
        <4>10. Waits(q)'
          BY <2>2, <4>4, <4>6, <4>7, <4>8, <4>9 DEF Waits, Outsider
        <4>11. CodeToCome'
          BY <2>7, <4>10 DEF CodeToCome, Waits
        <4>12. outs' \subseteq {Nobody, calls}
          BY <2>11, <2>12, <4>4
        <4>q. QED
          BY <2>2, <2>3, <4>5, <4>11, <4>12 DEF OwnInv, OwnResult
      <3>3. CASE Runs(u)
        <4>1. /\ Calm /\ shell.at = "running" /\ shell.line = Line("body", calls) /\ DOMAIN typed = {}
          BY <3>1, <3>3 DEF Runs
        <4>2. StatusLast'
          BY <2>13, <4>1, LineMarks
        <4>3. Calm'
          BY <1>r, <2>1, <2>2, <4>1, Taken
        <4>4. \A j \in DOMAIN typed' : typed'[j] \in q
          BY <2>4, <2>8, <4>1
        <4>5. Runs(q)'
          BY <2>2, <4>1, <4>3, <4>4 DEF Runs
        <4>6. CodeToCome'
          BY <2>7, <4>5 DEF CodeToCome, Runs
        <4>7. outs' \subseteq {Nobody, calls}
          BY <2>11, <2>12, <4>1
        <4>q. QED
          BY <2>2, <2>3, <4>2, <4>6, <4>7 DEF OwnInv, OwnResult
      <3>4. CASE HasRun(u) /\ Given
        BY <2>14, <3>1, <3>4 DEF HasRun
      <3>q. QED
        BY <2>9, <3>2, <3>3, <3>4
    <2>q. QED
      BY <2>15, <2>16
  <1>q. QED
    BY <1>1, <1>5, <1>6, <1>7, <1>8, <1>9, <1>10, <1>11, <1>12, <1>13, <1>14, <1>15, <1>16, <1>17 DEF SessionNext

-----------------------------------------------------------------------------
SessionInv == SessionTypeOK /\ StepInv /\ QueueInv /\ CodesInv /\ OwnInv

(* The invariant holds in every state of a session.                        *)
LEMMA SessionInvariance == SessionSpec => []SessionInv
  <1>1. SessionInit => SessionInv
    BY SessionTypeInit, StepInit, CodesInit, OwnInit DEF SessionInv
  <1>2. SessionInv /\ [SessionNext]_sessionVars => SessionInv'
    BY SessionTypeNext, StepNext, QueueNext, CodesNext, OwnNext DEF SessionInv
  <1>q. QED
    BY <1>1, <1>2, PTL DEF SessionSpec

(* The stream, the terminal and what a call has collected stay of their    *)
(* kinds, for any number of calls and interrupts.                          *)
THEOREM SessionTypeCorrect == SessionSpec => []SessionTypeOK
  BY SessionInvariance, PTL DEF SessionInv

(* A session in step has nothing unread between calls: see InStep. *)
THEOREM InStepCorrect == SessionSpec => []InStep
  <1>1. SessionInv => InStep
    BY DEF SessionInv, StepInv, InStep
  <1>q. QED
    BY <1>1, SessionInvariance, PTL

(* Exit codes are never repeated or reported out of order: see CodesInOrder. *)
THEOREM CodesInOrderCorrect == SessionSpec => []CodesInOrder
  <1>1. SessionInv => CodesInOrder
    BY DEF SessionInv, CodesInv, CodesInOrder
  <1>q. QED
    BY <1>1, SessionInvariance, PTL

(* Until a call has warned its caller, each call's output and exit code are *)
(* its own: see OwnUnlessWarned.                                            *)
THEOREM OwnUnlessWarnedCorrect == SessionSpec => []OwnUnlessWarned
  <1>1. SessionInv => OwnUnlessWarned
    BY DEF SessionInv, OwnInv, OwnResult, OwnUnlessWarned
  <1>q. QED
    BY <1>1, SessionInvariance, PTL
=============================================================================
