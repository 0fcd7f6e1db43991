--------------------------------- MODULE Shell ---------------------------------
(***************************************************************************)
(* One ShellSession (src/runner/src/runtime/shell-session.ts): callers     *)
(* that exec command lines, interrupt them and verify job control, over    *)
(* one terminal, and the shell at its other end.                           *)
(*                                                                         *)
(* A line written while a command still runs kills the shell's job         *)
(* control, silently: commands run on, Ctrl-C does nothing any more.       *)
(* The shell (jsh) is not in src/; it behaves as docs/persistent-runner.md *)
(* 2.3 measured it.                                                        *)
(***************************************************************************)
EXTENDS Naturals, Sequences, SequencesExt

CONSTANTS
  Commands,       \* exec calls of the session's users
  Probe, Check,   \* the two exec calls of verifyJobControl
  MaxInterrupts,  \* bound on interrupts
  Faults,         \* see FaultNames
  None

(* "timeout"  a command outruns its timeout                                  *)
(* "ignored"  a command catches Ctrl-C and goes on                           *)
(* "damage"   job control dies for another reason (two lines in one command) *)
(* "close"    the session is closed                                          *)
(* "late"     the shell prints a marker and is not back at its prompt yet    *)
FaultNames == {"timeout", "ignored", "damage", "close", "late"}

Execs == Commands \cup {Probe, Check}

CtrlC == "^C"
Returning == "returning"    \* to the prompt, from a command that has printed its marker

ASSUME ShellAssumption ==
  /\ Probe \notin Commands /\ Check \notin Commands /\ Probe # Check
  /\ None \notin Execs /\ CtrlC \notin Execs \cup {None}
  /\ Returning \notin Execs \cup {None}
  /\ MaxInterrupts \in Nat /\ Faults \subseteq FaultNames

VARIABLES
  (* the session *)
  queue,       \* exec calls waiting for their turn
  current,     \* the one whose turn it is
  state,       \* of each exec call
  lock,        \* who holds the input's writer: an exec, CtrlC or None
  interrupts,
  before,      \* interruptsBefore of each exec
  since,       \* what the transcript holds since the current exec's start
  broken, closed,
  verify,      \* where verifyJobControl is
  (* the terminal and the shell *)
  input,       \* written, not yet read by the shell
  foreground,  \* the running command, Returning, or None: the shell is at its prompt
  typed,       \* lines read while a command was running
  jobControl,
  (* history *)
  output,      \* of each finished exec: whose printing its result contains
  upset        \* what has happened: fault names, "collision", "crossfire"

sessionVars == <<queue, current, state, lock, interrupts, before, since, broken, closed, verify>>
shellVars   == <<input, foreground, typed, jobControl>>
vars        == <<sessionVars, shellVars, output, upset>>

Over == {"done", "interrupted", "failed"}

Init ==
  /\ queue = <<>> /\ current = None
  /\ state = [i \in Execs |-> "new"]
  /\ lock = None
  /\ interrupts = 0 /\ before = [i \in Execs |-> 0]
  /\ since = {}
  /\ broken = FALSE /\ closed = FALSE
  /\ verify = "idle"
  /\ input = <<>> /\ foreground = None /\ typed = <<>> /\ jobControl = TRUE
  /\ output = [i \in Execs |-> {}]
  /\ upset = {}

(* What the shell prints: that a command runs, that it ended (its marker). *)
Printing(i) == <<"print", i>>
Marker(i)   == <<"marker", i>>
Tokens == {Printing(i) : i \in Execs} \cup {Marker(i) : i \in Execs} \cup {<<CtrlC>>}

(* The transcript from the current exec's start on; nobody looks at the rest. *)
Heard(tokens) == since' = IF current = None THEN since ELSE since \cup tokens

Usable == ~closed /\ ~broken

-----------------------------------------------------------------------------
(* exec *)

(* enqueue *)
Enqueue(i) ==
  /\ state' = [state EXCEPT ![i] = "queued"]
  /\ queue' = Append(queue, i)

Exec(i) ==
  /\ state[i] = "new"
  /\ Enqueue(i)
  /\ UNCHANGED <<current, lock, interrupts, before, since, broken, closed, verify,
                 shellVars, output, upset>>

(* An item's turn comes when the one before it is over, however it ended.    *)
TurnAtOnce          == queue # <<>>
TurnUnlessFailed    == queue # <<>> /\ current = None /\ \A i \in Execs : state[i] # "failed"
Turn                == queue # <<>> /\ current = None

BeforeNone == 0
Before     == interrupts

(* verifyJobControl hears of its own exec before the next one's turn comes.  *)
VerifyIsNext ==
  \/ verify = "probe" /\ state[Probe] \in Over
  \/ verify = "check" /\ state[Check] \in Over

(* getWriter throws while somebody else is writing. *)
Start(i) ==
  /\ Turn /\ ~VerifyIsNext
  /\ i = Head(queue)
  /\ queue' = Tail(queue)
  /\ \/ /\ Usable /\ lock = None
        /\ current' = i
        /\ state' = [state EXCEPT ![i] = "writing"]
        /\ lock' = i
        /\ before' = [before EXCEPT ![i] = Before]
        /\ since' = {}
        /\ input' = Append(input, i)
        /\ UNCHANGED upset
     \/ /\ ~Usable \/ lock # None
        /\ state' = [state EXCEPT ![i] = "failed"]
        /\ upset' = upset \cup (IF Usable THEN {"collision"} ELSE {})
        /\ UNCHANGED <<current, lock, before, since, input>>
  /\ UNCHANGED <<interrupts, broken, closed, verify, foreground, typed, jobControl, output>>

Written(i) ==
  /\ state[i] = "writing"
  /\ state' = [state EXCEPT ![i] = "waiting"]
  /\ lock' = None
  /\ UNCHANGED <<queue, current, interrupts, before, since, broken, closed, verify,
                 shellVars, output, upset>>

(* The exec is over, and with it its turn. *)
Ends(i, how) ==
  /\ state' = [state EXCEPT ![i] = how]
  /\ current' = None
  /\ output' = [output EXCEPT ![i] = IF how = "failed" THEN {}
                  ELSE {j \in Execs : Printing(j) \in since}]
  /\ before' = [before EXCEPT ![i] = 0] /\ since' = {}
  /\ UNCHANGED <<queue, lock, interrupts, closed, verify, shellVars>>

(* waitForEither: the marker first, ... *)
Completed(i) ==
  /\ state[i] = "waiting"
  /\ Marker(i) \in since
  /\ Ends(i, "done")
  /\ UNCHANGED <<broken, upset>>

(* ... then an interrupt, ... *)
CutShort(i) == interrupts > before[i]

Cut(i) ==
  /\ state[i] = "waiting"
  /\ Marker(i) \notin since /\ CutShort(i)
  /\ state' = [state EXCEPT ![i] = "proving"]
  /\ UNCHANGED <<queue, current, lock, interrupts, before, since, broken, closed, verify,
                 shellVars, output, upset>>

(* ... then the deadline.  Nothing else ends an exec whose shell was closed, *)
(* nor a probe whose interrupt came before it.                              *)
Timeout(i) ==
  /\ state[i] = "waiting"
  /\ Marker(i) \notin since /\ ~CutShort(i)
  /\ \/ closed
     \/ i = Probe /\ verify # "settle"
     \/ i # Probe /\ "timeout" \in Faults
  /\ Ends(i, "failed")
  /\ upset' = upset \cup (IF closed \/ i = Probe THEN {} ELSE {"timeout"})
  /\ UNCHANGED broken

(* requireInterruptTookEffect *)
ProofIsSending(i) == TRUE
Proof(i) == <<CtrlC>> \in since \/ Marker(i) \in since

TookEffect(i) ==
  /\ state[i] = "proving"
  /\ Proof(i)
  /\ Ends(i, IF Marker(i) \in since THEN "done" ELSE "interrupted")
  /\ UNCHANGED <<broken, upset>>

(* The grace is long: what was written has been read when it is over. *)
TookNone(i) ==
  /\ state[i] = "proving"
  /\ ~Proof(i)
  /\ CtrlC \notin ToSet(input)
  /\ Ends(i, "failed")
  /\ broken' = TRUE
  /\ UNCHANGED upset

-----------------------------------------------------------------------------
(* interrupt does not queue.  It is counted before the write is tried, and   *)
(* the write fails while an exec is writing its line.                        *)
Interrupts ==
  /\ interrupts' = interrupts + 1
  /\ IF lock = None
       THEN lock' = CtrlC /\ input' = Append(input, CtrlC)
       ELSE UNCHANGED <<lock, input>>

Interrupt ==
  /\ Usable
  /\ interrupts < MaxInterrupts
  /\ Interrupts
  /\ upset' = upset \cup (IF lock = None THEN {} ELSE {"collision"})
                    \cup (IF current = Check THEN {"crossfire"} ELSE {})
  /\ UNCHANGED <<queue, current, state, before, since, broken, closed, verify,
                 foreground, typed, jobControl, output>>

InterruptWritten ==
  /\ lock = CtrlC
  /\ lock' = None
  /\ UNCHANGED <<queue, current, state, interrupts, before, since, broken, closed, verify,
                 shellVars, output, upset>>

(* close *)
Close ==
  /\ "close" \in Faults
  /\ ~closed
  /\ closed' = TRUE
  /\ input' = <<>> /\ foreground' = None /\ typed' = <<>>
  /\ UNCHANGED <<queue, current, state, lock, interrupts, before, since, broken, verify,
                 jobControl, output, upset>>

-----------------------------------------------------------------------------
(* verifyJobControl: exec(VERIFY_FOREGROUND), ... *)
Verify ==
  /\ verify = "idle"
  /\ Usable
  /\ Enqueue(Probe)
  /\ verify' = "settle"
  /\ UNCHANGED <<current, lock, interrupts, before, since, broken, closed, shellVars,
                 output, upset>>

(* ... an interrupt 1.5 s later, which is long enough for a probe that has   *)
(* started to reach the foreground, and says nothing of one that has not, ...*)
VerifyInterrupt ==
  /\ verify = "settle"
  /\ state[Probe] # "writing" /\ Probe \notin ToSet(input)
  /\ IF ~Usable
       THEN /\ verify' = "false" /\ broken' = TRUE
            /\ UNCHANGED <<interrupts, lock, input, upset>>
       ELSE /\ Interrupts
            /\ IF lock = None THEN verify' = "probe" /\ UNCHANGED broken
                              ELSE verify' = "false" /\ broken' = TRUE
            /\ upset' = upset \cup (IF lock = None THEN {} ELSE {"collision"})
                              \cup (IF foreground = Probe THEN {} ELSE {"crossfire"})
  /\ UNCHANGED <<queue, current, state, before, since, closed, foreground, typed,
                 jobControl, output>>

(* ... then a command that must complete. *)
VerifyCheck ==
  /\ verify = "probe" /\ VerifyIsNext
  /\ IF state[Probe] = "failed"
       THEN verify' = "false" /\ broken' = TRUE /\ UNCHANGED <<queue, state>>
       ELSE verify' = "check" /\ Enqueue(Check) /\ UNCHANGED broken
  /\ UNCHANGED <<current, lock, interrupts, before, since, closed, shellVars, output, upset>>

VerifyEnd ==
  /\ verify = "check" /\ VerifyIsNext
  /\ IF state[Check] # "failed" /\ Check \in output[Check]
       THEN verify' = "true" /\ UNCHANGED broken
       ELSE verify' = "false" /\ broken' = TRUE
  /\ UNCHANGED <<queue, current, state, lock, interrupts, before, since, closed, shellVars,
                 output, upset>>

-----------------------------------------------------------------------------
(* The shell *)

ReadLine ==
  /\ input # <<>> /\ Head(input) # CtrlC
  /\ input' = Tail(input)
  /\ IF foreground = None
       THEN foreground' = Head(input) /\ UNCHANGED <<typed, jobControl, broken>>
       ELSE /\ typed' = Append(typed, Head(input))
            /\ jobControl' = FALSE
            /\ broken' \in {broken, TRUE}    \* it may print an error or not
            /\ UNCHANGED foreground
  /\ UNCHANGED <<queue, current, state, lock, interrupts, before, since, closed, verify,
                 output, upset>>

(* The running command ends, and the next line that was typed runs. *)
NextForeground ==
  IF typed = <<>> THEN foreground' = None /\ UNCHANGED typed
                  ELSE foreground' = Head(typed) /\ typed' = Tail(typed)

(* Ctrl-C is echoed and obeyed if there is a job to control. *)
ReadCtrlC ==
  /\ input # <<>> /\ Head(input) = CtrlC
  /\ input' = Tail(input)
  /\ IF foreground \in Execs /\ jobControl
       THEN /\ Heard({<<CtrlC>>})
            /\ \/ NextForeground /\ UNCHANGED upset
               \/ /\ "ignored" \in Faults /\ foreground \in Commands
                  /\ upset' = upset \cup {"ignored"}
                  /\ UNCHANGED <<foreground, typed>>
       ELSE UNCHANGED <<since, foreground, typed, upset>>
  /\ UNCHANGED <<queue, current, state, lock, interrupts, before, broken, closed, verify,
                 jobControl, output>>

(* A command ends by itself, but for the probe, and has printed then.        *)
Finish ==
  /\ foreground \in Execs \ {Probe}
  /\ Heard({Printing(foreground), Marker(foreground)})
  /\ NextForeground
  /\ UNCHANGED <<queue, current, state, lock, interrupts, before, broken, closed, verify,
                 input, jobControl, output, upset>>

(* The marker is a command of the line like any other: the shell has yet to  *)
(* find out that the line is over.                                          *)
FinishLate ==
  /\ "late" \in Faults
  /\ foreground \in Execs \ {Probe}
  /\ Heard({Printing(foreground), Marker(foreground)})
  /\ foreground' = Returning
  /\ upset' = upset \cup {"late"}
  /\ UNCHANGED <<queue, current, state, lock, interrupts, before, broken, closed, verify,
                 input, typed, jobControl, output>>

Prompt ==
  /\ foreground = Returning
  /\ NextForeground
  /\ UNCHANGED <<queue, current, state, lock, interrupts, before, since, broken, closed,
                 verify, input, jobControl, output, upset>>

Damage ==
  /\ "damage" \in Faults
  /\ foreground # None /\ jobControl
  /\ jobControl' = FALSE
  /\ upset' = upset \cup {"damage"}
  /\ broken' \in {broken, TRUE}
  /\ UNCHANGED <<queue, current, state, lock, interrupts, before, since, closed, verify,
                 input, foreground, typed, output>>

-----------------------------------------------------------------------------
SessionStep ==
  \/ \E i \in Execs :
       Start(i) \/ Written(i) \/ Completed(i) \/ Cut(i) \/ Timeout(i) \/ TookEffect(i) \/ TookNone(i)
  \/ InterruptWritten
  \/ VerifyInterrupt \/ VerifyCheck \/ VerifyEnd

ShellStep == ReadLine \/ ReadCtrlC \/ Finish \/ FinishLate \/ Prompt

Next ==
  \/ \E i \in Commands : Exec(i)
  \/ Interrupt \/ Close \/ Verify
  \/ SessionStep
  \/ ShellStep \/ Damage

Spec == Init /\ [][Next]_vars
FairSpec == Spec /\ WF_vars(SessionStep) /\ WF_vars(ShellStep)
-----------------------------------------------------------------------------
(* Properties *)

(* Session and shell have their types; the exec calls wait in a queue without *)
(* duplicates, and one that is neither waiting nor over has its turn.        *)
TypeOK ==
  /\ state \in [Execs -> {"new", "queued", "writing", "waiting", "proving"} \cup Over]
  /\ queue \in Seq(Execs) /\ IsInjective(queue)
  /\ ToSet(queue) = {i \in Execs : state[i] = "queued"}
  /\ {i \in Execs : state[i] \in {"writing", "waiting", "proving"}} = {current} \ {None}
  /\ lock \in Execs \cup {None, CtrlC}
  /\ interrupts \in Nat /\ before \in [Execs -> Nat]
  /\ since \subseteq Tokens
  /\ broken \in BOOLEAN /\ closed \in BOOLEAN /\ jobControl \in BOOLEAN
  /\ verify \in {"idle", "settle", "probe", "check", "true", "false"}
  /\ input \in Seq(Execs \cup {CtrlC}) /\ typed \in Seq(Execs)
  /\ foreground \in Execs \cup {None, Returning}
  /\ output \in [Execs -> SUBSET Execs]

(* What the session has no answer to: the command may still hold the         *)
(* terminal, or the shell not be ready, when the next line is written.       *)
StillBusy == {"timeout", "ignored", "late"}

(* "a second command line can never be written before the first has          *)
(* finished": the shell never reads a line while a command runs, unless a    *)
(* command outran its timeout or ignored an interrupt, or the shell dawdles  *)
(* between a marker and its prompt.  Not even when job control is dead or    *)
(* interrupts go astray.                                                    *)
OneLineAtATime == upset \cap StillBusy = {} => typed = <<>>

(* "one writer per session, and wait for the prompt": what a slow shell      *)
(* needs besides, and exec, which waits for the marker, does not give it.    *)
PromptAwaited == upset \cap {"timeout", "ignored"} = {} => typed = <<>>

(* An exec reported as interrupted is not "in fact still running": the shell *)
(* neither runs its command nor has it before it.                            *)
CancelledIsGone ==
  upset \cap StillBusy = {} =>
    \A i \in Execs :
      state[i] = "interrupted" => foreground # i /\ i \notin ToSet(input)

(* The output of an exec is its own command's, although the transcript is    *)
(* one for all.                                                              *)
OwnOutput ==
  upset \cap StillBusy = {} => \A i \in Execs : output[i] \subseteq {i}

(* A healthy session is not thrown away: it is only marked broken when job   *)
(* control is dead, in spite of interrupts at an idle prompt, and of several  *)
(* interrupts for one command.  An interrupt that collides with a write and  *)
(* a verification that interrupts somebody else's command do mark it.        *)
BrokenForAReason ==
  broken /\ ~closed /\ upset \cap ({"collision", "crossfire"} \cup StillBusy) = {} => ~jobControl

(* Every exec ends, and so does a verification: again and again there is     *)
(* nobody who waits for a marker the shell has dropped, behind a failed exec *)
(* or for a shell that was closed.                                           *)
ExecsEnd ==
  []<>( /\ \A i \in Execs : state[i] \in {"new"} \cup Over
        /\ verify \in {"idle", "true", "false"} )
================================================================================
