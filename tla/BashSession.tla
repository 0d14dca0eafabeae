---------------------------- MODULE BashSession ----------------------------
(***************************************************************************)
(* The shell session of a sandbox: BashSession of                          *)
(* SWE-ReX/src/swerex/runtime/sandbox.py, which types commands into a bash *)
(* behind a pseudo terminal and recovers each command's output and exit    *)
(* code from one stream of characters.  The stream is modelled as the      *)
(* sequence of the marks run looks for: prompts, exit codes, the unique    *)
(* string; a command is known by the number of the call that typed it.     *)
(*                                                                         *)
(* The session answers one call at a time, so a call's waits (pexpect's    *)
(* expect, each with a timeout) interleave only with bash itself.  A       *)
(* command that bash rejects (_check_bash_command) types nothing and is    *)
(* left out, as are interactive commands, which no caller uses.            *)
(***************************************************************************)
EXTENDS Naturals, Sequences, SequencesExt

CONSTANTS MaxCalls,        \* bound: commands run in the session
          MaxInterrupts,   \* bound: interrupts sent by the caller
          Retries          \* BashInterruptAction.n_retry

ASSUME BashSessionAssumption ==
    MaxCalls \in Nat /\ MaxInterrupts \in Nat /\ Retries \in Nat \ {0}

VARIABLES
    chan,     \* marks bash has printed and the session has not consumed
    typed,    \* lines the session has typed and bash has not read
    shell,    \* what bash is doing
    last,     \* the call whose command set $?, 0 when none did
    phase,    \* what the call in progress waits for, "idle" between calls
    mode,     \* the call's check, and whether its end is the unique string
    outs,     \* the calls whose output the call in progress has collected
    code,     \* the call whose exit code it has read
    calls,    \* commands run so far
    intrs,    \* interrupts: sent so far, and ^C sent for the present one
    result,   \* how the last call ended
    warned,   \* history: an earlier call raised or returned no exit code
    slip      \* history: what may have left the stream out of step

sessionVars == <<chan, typed, shell, last, phase, mode, outs, code, calls, intrs,
                result, warned, slip>>

-----------------------------------------------------------------------------
Nobody == 0
NoCode == MaxCalls + 1          \* exit_code is None
CallIds == 1 .. MaxCalls

Mark(k, c) == [kind |-> k, call |-> c]
Prompt == Mark("prompt", Nobody)
Line(t, c) == [text |-> t, call |-> c]
AtPrompt == [at |-> "prompt", line |-> Line("blank", Nobody)]

NoResult == [how |-> "none", call |-> Nobody, code |-> NoCode, outs |-> {}]

(* What a line prints, besides the prompt that follows it. *)
Prints(line) ==
    CASE line.text = "body"   -> <<Mark("out", line.call)>>
      [] line.text = "status" -> <<Mark("code", last)>>
      [] line.text = "unique" -> <<Mark("unique", line.call)>>
      [] OTHER                -> <<>>

StatusAfterUnrestored(line) == IF line.text = "body" THEN line.call ELSE Nobody
(* $? after it: the unique line ends in (exit $TMPEXITCODE). *)
StatusAfter(line) ==
    CASE line.text = "body"             -> line.call
      [] line.text \in {"status", "kill"} -> Nobody
      [] OTHER                          -> last

(* The first mark of one of these kinds, 0 when there is none. *)
FirstOf(kinds) == SelectInSeq(chan, LAMBDA m : m.kind \in kinds)
After(p) == SubSeq(chan, p + 1, Len(chan))
OutputBefore(p) == {chan[i].call : i \in {j \in 1 .. p : chan[j].kind = "out"}}

-----------------------------------------------------------------------------
(* A session is handed out after start.  start reads one prompt, the one   *)
(* the setup line prints; but where bash already prompts with the PS1 it   *)
(* was given (no system bashrc replaces it), start has read that one, and  *)
(* the setup line may still be running.                                    *)
SessionInit ==
    /\ \E twoPrompts \in BOOLEAN :
         /\ shell = IF twoPrompts
                    THEN [at |-> "running", line |-> Line("body", Nobody)]
                    ELSE AtPrompt
         /\ slip = IF twoPrompts THEN "lost" ELSE "none"
    /\ chan = <<>> /\ typed = <<>> /\ last = Nobody
    /\ phase = "idle" /\ mode = [check |-> "raise", fallback |-> FALSE]
    /\ outs = {} /\ code = NoCode
    /\ calls = 0 /\ intrs = [sent |-> 0, now |-> 0]
    /\ result = NoResult /\ warned = FALSE

-----------------------------------------------------------------------------
(* bash reads the next line, runs it, prints its output and a prompt.  A   *)
(* command that reads its standard input may take the lines meant for bash *)
answering == <<phase, mode, outs, code, calls, intrs, result, warned, slip>>

ReadLine ==
    /\ shell.at = "prompt" /\ typed # <<>>
    /\ shell' = [at |-> "running", line |-> Head(typed)]
    /\ typed' = Tail(typed)
    /\ UNCHANGED <<chan, last, answering>>

PrintOutput ==
    /\ shell.at = "running"
    /\ shell' = [shell EXCEPT !.at = "ending"]
    /\ chan' = chan \o Prints(shell.line)
    /\ last' = StatusAfter(shell.line)
    /\ UNCHANGED <<typed, answering>>

PrintPrompt ==
    /\ shell.at = "ending"
    /\ shell' = AtPrompt
    /\ chan' = Append(chan, Prompt)
    /\ UNCHANGED <<typed, last, answering>>

TakesInput ==
    /\ shell.at = "running" /\ shell.line \in [text : {"body"}, call : CallIds]
    /\ typed # <<>>
    /\ typed' = Tail(typed)
    /\ UNCHANGED <<chan, shell, last, answering>>

-----------------------------------------------------------------------------
terminal == <<typed, shell, last>>

(* The call returns or raises.  A caller notices a call without a code.    *)
Return(how, c, collected) ==
    /\ phase' = "idle" /\ outs' = {}
    /\ result' = [how |-> how, call |-> calls, code |-> c, outs |-> collected]
    /\ warned' = (warned \/ how = "raised" \/ c = NoCode)
    /\ code' = NoCode

(* run, _run_normal: the command is typed, followed by a line that prints  *)
(* the unique string when bashlex cannot split it.                         *)
CommandLines(c, fallback) ==
    IF fallback THEN <<Line("body", c), Line("unique", c)>> ELSE <<Line("body", c)>>

Run(check, fallback) ==
    /\ phase = "idle" /\ calls < MaxCalls
    /\ calls' = calls + 1
    /\ mode' = [check |-> check, fallback |-> fallback]
    /\ typed' = typed \o CommandLines(calls + 1, fallback)
    /\ phase' = "body" /\ outs' = {} /\ result' = NoResult
    /\ slip' = IF slip = "timeout" THEN "lost" ELSE slip
    /\ UNCHANGED <<chan, shell, last, code, intrs, warned>>

BodyEnd == IF mode.fallback THEN {"unique"} ELSE {"prompt"}

(* The end of the command: without a code to get, the call returns at once *)
(* (and in the fallback leaves the prompt after the unique string unread). *)
StatusLines == <<Line("blank", calls), Line("status", calls)>>

SeeEnd ==
    /\ phase = "body"
    /\ LET p == FirstOf(BodyEnd)
       IN /\ p # 0
          /\ chan' = After(p)
          /\ IF mode.check = "ignore"
             THEN /\ Return("value", NoCode, OutputBefore(p))
                  /\ slip' = IF mode.fallback THEN "lost" ELSE slip
                  /\ UNCHANGED typed
             ELSE /\ phase' = "status" /\ outs' = OutputBefore(p)
                  /\ typed' = typed \o StatusLines
                  /\ UNCHANGED <<code, result, warned, slip>>
    /\ UNCHANGED <<shell, last, mode, calls, intrs>>

BodyTimeout ==
    /\ phase = "body" /\ FirstOf(BodyEnd) = 0
    /\ Return("raised", NoCode, {})
    /\ slip' = IF slip = "none" THEN "timeout" ELSE "lost"
    /\ UNCHANGED <<chan, terminal, mode, calls, intrs>>

(* An exception while the exit code is read: only check = "raise" lets it  *)
(* out, otherwise the call returns None.                                   *)
Failed ==
    /\ Return(IF mode.check = "raise" THEN "raised" ELSE "value", NoCode, outs)
    /\ slip' = "lost"

SeeStatusUnread ==
    /\ phase = "status" /\ FirstOf({"code"}) # 0
    /\ phase' = "prompt" /\ code' = chan[FirstOf({"code"})].call
    /\ outs' = outs \cup OutputBefore(FirstOf({"code"}))
    /\ UNCHANGED <<chan, terminal, mode, calls, intrs, result, warned, slip>>

(* EXITCODEEND: what precedes it must hold one EXITCODESTART with a number *)
SeeStatus ==
    /\ phase = "status"
    /\ LET p == FirstOf({"code", "torn"})
       IN /\ p # 0
          /\ chan' = After(p)
          /\ IF chan[p].kind = "code"
             THEN /\ phase' = "prompt"
                  /\ code' = chan[p].call
                  /\ outs' = outs \cup OutputBefore(p)
                  /\ UNCHANGED <<result, warned, slip>>
             ELSE Failed
    /\ UNCHANGED <<terminal, mode, calls, intrs>>

StatusTimeout ==
    /\ phase = "status" /\ FirstOf({"code", "torn"}) = 0
    /\ Failed
    /\ UNCHANGED <<chan, terminal, mode, calls, intrs>>

SeePromptUnread ==
    /\ phase = "prompt" /\ FirstOf({"prompt"}) # 0
    /\ Return("value", code, outs)
    /\ UNCHANGED <<chan, terminal, mode, calls, intrs, slip>>

SeePrompt ==
    /\ phase = "prompt"
    /\ LET p == FirstOf({"prompt"})
       IN p # 0 /\ chan' = After(p)
    /\ Return("value", code, outs)
    /\ UNCHANGED <<terminal, mode, calls, intrs, slip>>

PromptTimeout ==
    /\ phase = "prompt" /\ FirstOf({"prompt"}) = 0
    /\ Failed
    /\ UNCHANGED <<chan, terminal, mode, calls, intrs>>

-----------------------------------------------------------------------------
(* A signal character drops the lines bash has not read.  It may end the   *)
(* command or be ignored by it; an idle bash answers ^C with a new prompt. *)
Signalled ==
    /\ typed' = <<>>
    /\ \/ /\ shell.at = "running"
          /\ shell' = [shell EXCEPT !.at = "ending"]
          /\ last' = StatusAfter(shell.line)
       \/ /\ shell.at = "running" /\ shell.line.text = "body"
          /\ UNCHANGED <<shell, last>>
       \/ /\ shell.at = "ending" /\ UNCHANGED <<shell, last>>
       \/ /\ shell.at = "prompt"
          /\ shell' = [AtPrompt EXCEPT !.at = "ending"]
          /\ last' = Nobody

(* A signal sent when bash already prompts, or has left a prompt unread,   *)
(* makes two prompts.                                                      *)
PromptOwed == shell.at = "prompt" \/ FirstOf({"prompt"}) # 0

SendIntrUncounted ==
    /\ \/ phase = "idle" /\ intrs.sent < MaxInterrupts
       \/ phase = "intr" /\ FirstOf({"prompt"}) = 0
    /\ intrs' = [intrs EXCEPT !.sent = MaxInterrupts]
    /\ phase' = "intr" /\ outs' = {} /\ result' = NoResult
    /\ Signalled
    /\ UNCHANGED <<chan, mode, code, calls, warned, slip>>

(* interrupt: ^C, up to Retries times, until a prompt is seen. *)
SendIntr ==
    /\ \/ /\ phase = "idle" /\ intrs.sent < MaxInterrupts
          /\ intrs' = [sent |-> intrs.sent + 1, now |-> 1]
          /\ result' = NoResult
       \/ /\ phase = "intr" /\ intrs.now < Retries
          /\ FirstOf({"prompt"}) = 0
          /\ intrs' = [intrs EXCEPT !.now = @ + 1]
          /\ UNCHANGED result
    /\ phase' = "intr" /\ outs' = {}
    /\ Signalled
    /\ slip' = IF \/ slip = "timeout" /\ ~PromptOwed
                  \/ slip = "none" /\ phase = "idle"
               THEN slip ELSE "lost"
    /\ UNCHANGED <<chan, mode, code, calls, warned>>

(* read_nonblocking takes one character: nothing, or the first character   *)
(* of a mark that had not been read into pexpect's buffer yet.             *)
Bitten(s, i) ==
    CASE s[i].kind \in {"prompt", "unique"} -> RemoveAt(s, i)
      [] s[i].kind = "code" -> [s EXCEPT ![i] = Mark("torn", Nobody)]
      [] OTHER -> s
EatFollowing(s) == {s} \cup {Bitten(s, i) : i \in DOMAIN s}

(* The interrupt returns exit_code=0, whatever has happened.               *)
InterruptDone(p) ==
    /\ chan' \in EatFollowing(After(p))
    /\ phase' = "idle" /\ outs' = {}
    /\ result' = [how |-> "interrupted", call |-> Nobody, code |-> NoCode,
                  outs |-> OutputBefore(p)]
    /\ slip' = IF slip = "timeout" THEN "none" ELSE slip
    /\ UNCHANGED <<terminal, mode, code, calls, intrs, warned>>

SeeInterrupted ==
    /\ phase \in {"intr", "kill"}
    /\ FirstOf({"prompt"}) # 0
    /\ InterruptDone(FirstOf({"prompt"}))

(* The fallback: ^Z, a prompt, kill -9 %1, a prompt. *)
SendStop ==
    /\ phase = "intr" /\ intrs.now = Retries /\ FirstOf({"prompt"}) = 0
    /\ phase' = "stop" /\ Signalled
    /\ slip' = IF slip = "timeout" /\ ~PromptOwed THEN slip ELSE "lost"
    /\ UNCHANGED <<chan, mode, outs, code, calls, intrs, result, warned>>

SendKill ==
    /\ phase = "stop"
    /\ LET p == FirstOf({"prompt"})
       IN p # 0 /\ chan' = After(p)
    /\ phase' = "kill" /\ typed' = Append(typed, Line("kill", Nobody))
    /\ UNCHANGED <<shell, last, mode, outs, code, calls, intrs, result, warned,
                   slip>>

InterruptFails ==
    /\ phase \in {"stop", "kill"} /\ FirstOf({"prompt"}) = 0
    /\ phase' = "idle" /\ outs' = {} /\ slip' = "lost" /\ warned' = TRUE
    /\ result' = [how |-> "raised", call |-> Nobody, code |-> NoCode,
                  outs |-> {}]
    /\ UNCHANGED <<chan, terminal, mode, code, calls, intrs>>

-----------------------------------------------------------------------------
SessionNext ==
    \/ ReadLine \/ PrintOutput \/ PrintPrompt \/ TakesInput
    \/ \E check \in {"raise", "silent", "ignore"}, fallback \in BOOLEAN :
           Run(check, fallback)
    \/ SeeEnd \/ BodyTimeout \/ SeeStatus \/ StatusTimeout
    \/ SeePrompt \/ PromptTimeout
    \/ SendIntr \/ SeeInterrupted \/ SendStop \/ SendKill \/ InterruptFails

SessionSpec == SessionInit /\ [][SessionNext]_sessionVars

(* Every wait has a timeout, so the session itself always takes its next   *)
(* step; nothing is assumed of bash, whose command may run for ever.       *)
SessionStep ==
    \/ SeeEnd \/ BodyTimeout \/ SeeStatus \/ StatusTimeout
    \/ SeePrompt \/ PromptTimeout
    \/ phase = "intr" /\ SendIntr
    \/ SeeInterrupted \/ SendStop \/ SendKill \/ InterruptFails
FairSpec == SessionSpec /\ WF_sessionVars(SessionStep)

-----------------------------------------------------------------------------
Marks == [kind : {"out", "code", "torn", "unique", "prompt"}, call : CallIds \cup {Nobody}]
Lines == [text : {"body", "unique", "blank", "status", "kill"}, call : CallIds \cup {Nobody}]

(* What the stream, the terminal and a call can hold. *)
SessionTypeOK ==
    /\ chan \in Seq(Marks) /\ typed \in Seq(Lines)
    /\ shell \in [at : {"prompt", "running", "ending"}, line : Lines]
    /\ last \in CallIds \cup {Nobody}
    /\ phase \in {"idle", "body", "status", "prompt", "intr", "stop", "kill"}
    /\ mode \in [check : {"raise", "silent", "ignore"}, fallback : BOOLEAN]
    /\ outs \subseteq CallIds \cup {Nobody} /\ code \in 0 .. NoCode
    /\ calls \in 0 .. MaxCalls
    /\ intrs \in [sent : 0 .. MaxInterrupts, now : 0 .. Retries]
    /\ result \in [how : {"none", "value", "raised", "interrupted"}, call : 0 .. MaxCalls,
                   code : 0 .. NoCode, outs : SUBSET (CallIds \cup {Nobody})]
    /\ warned \in BOOLEAN /\ slip \in {"none", "timeout", "lost"}

-----------------------------------------------------------------------------
Quiet == chan = <<>> /\ typed = <<>> /\ shell = AtPrompt

(* Between calls nothing is left unread or running, as long as start read  *)
(* the last prompt, no fallback command was run with check="ignore", no    *)
(* exception was swallowed, and every command that timed out was still     *)
(* running when it was interrupted: an interrupt that reports success then *)
(* really has put the session back in step.                                *)
InStep == phase = "idle" /\ slip = "none" => Quiet

(* A caller that has seen no call raise or come back without an exit code  *)
(* gets each command's own output and exit code, even in a session that    *)
(* start handed out with a prompt too many.                                *)
OwnUnlessWarned ==
    result.how = "value" /\ result.code # NoCode /\ ~warned
    => result.code = result.call /\ result.outs \ {Nobody} = {result.call}

Codes == {i \in DOMAIN chan : chan[i].kind = "code"}

(* However far out of step, run never reports one exit code twice, nor an  *)
(* older one after a newer one: those unread rise in the order in which    *)
(* they will be read, and are all newer than the last one reported.        *)
CodesInOrder ==
    /\ \A i, j \in Codes : i < j => chan[i].call < chan[j].call
    /\ result.code # NoCode => \A i \in Codes : result.code < chan[i].call

(* Every call comes back, also when the command ignores every signal. *)
CallsEnd == []<>(phase = "idle")

(* What BashAction promises of check: the exit code extracted is that of   *)
(* the command, or None when it could not be extracted.                    *)
OwnExitCode ==
    result.how = "value" => result.code \in {result.call, NoCode}
=============================================================================
