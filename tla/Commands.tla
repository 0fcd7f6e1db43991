------------------------------- MODULE Commands -------------------------------
(***************************************************************************)
(* Commands and shells the host starts in the page by a name of its own    *)
(* choosing: runCommand with its timeout, killCommand, resizeCommand,      *)
(* openShell and closeShell of src/core/runner-client.ts, against the      *)
(* `running` and `shells` maps of src/runner/src/main.ts.                  *)
(*                                                                         *)
(* Calls go down one event stream, in order.  Every answer is a POST of    *)
(* its own.  The page starts a call's handler when its frame arrives; what *)
(* the handler awaits (a spawn, an exit, a shell's prompt) comes later.    *)
(***************************************************************************)
EXTENDS OutputBuffer, FiniteSets, SequencesExt

CONSTANTS
  Cmds,        \* calls of runCommand; an unnamed one is named after itself
  Names,       \* handles callers choose
  Openers,     \* calls of openShell, all with the same id
  Chatty,      \* the commands that print
  MaxChars,    \* bound on what a command prints
  MaxCalls,    \* bound on commands and shells together
  MaxSignals,  \* bound on kills and resizes by callers
  Faults,      \* see FaultNames
  None

(* "slowSpawn"    a timeout elapses before the command is spawned            *)
(* "latePost"     an answer overtakes an earlier one                         *)
(* "sharedHandle" a handle is used again before the command that had it is   *)
(*                over in the page: at the same time, or after its timeout   *)
(* "openTogether" a shell is opened while another with its id is opening     *)
FaultNames == {"slowSpawn", "latePost", "sharedHandle", "openTogether"}

Handles == Names \cup Cmds

ASSUME CommandsAssumption ==
  /\ Chatty \subseteq Cmds /\ Names \cap Cmds = {} /\ Names \cap Openers = {}
  /\ Cmds \cap Openers = {}
  /\ MaxChars \in Nat /\ MaxCalls \in Nat /\ MaxSignals \in Nat
  /\ Faults \subseteq FaultNames
  /\ None \notin Handles \cup Openers

VARIABLES
  (* the host *)
  handle,    \* of each command, or None
  verdict,   \* what runCommand's promise came to
  timer,     \* its timeout
  opening,   \* what openShell's promise came to
  listener,  \* the opener whose onData hears the shell id
  signals,   \* kills and resizes sent by callers
  (* the link *)
  frames,    \* calls on the stream
  posts,     \* answers on their way
  attached,  \* the client is open, and its page holds the stream
  (* the page *)
  proc,      \* each command's process
  running,   \* handle -> command
  read,      \* how many characters its output pipe has handed on
  buffer,    \* OutputBuffer
  shell,     \* each opener's ShellSession
  shells,    \* the opener whose session the map holds, or None
  (* history *)
  cut        \* who killed the command: its own timeout (itself) or a caller

hostVars == <<handle, verdict, timer, opening, listener, signals>>
linkVars == <<frames, posts, attached>>
outputVars == <<read, buffer>>
shellVars == <<shell, shells>>
vars == <<hostVars, linkVars, proc, running, outputVars, shellVars, cut>>

ExitCodes == {"zero", "nonzero", "signal"}
Verdicts == ExitCodes \cup {"RunnerTimeout", "RunnerGone", "UnknownFailure"}
Over == {"exited", "unspawned", "gone"}
InFlight(c) == verdict[c] = "waiting"
MayCall == Cardinality({c \in Cmds : verdict[c] # "unsent"}
                       \cup {o \in Openers : opening[o] # "unsent"}) < MaxCalls

Init ==
  /\ handle = [c \in Cmds |-> None]
  /\ verdict = [c \in Cmds |-> "unsent"]
  /\ timer = [c \in Cmds |-> "off"]
  /\ opening = [o \in Openers |-> "unsent"]
  /\ listener = None /\ signals = 0
  /\ frames = <<>> /\ posts = <<>> /\ attached = TRUE
  /\ proc = [c \in Cmds |-> "none"]
  /\ running = [h \in Handles |-> None]
  /\ read = [c \in Cmds |-> 0]
  /\ buffer = [c \in Cmds |-> EmptyBuffer]
  /\ shell = [o \in Openers |-> "none"]
  /\ shells = None
  /\ cut = [c \in Cmds |-> {}]

-----------------------------------------------------------------------------
(* The host *)

Frame(op, by, h) == [op |-> op, by |-> by, handle |-> h]
Send(frame) == frames' = Append(frames, frame)

(* runCommand: a timeout needs something to cancel, so it names the command *)
(* when the caller did not.                                                 *)
RunCommand(c, name, timed) ==
  LET h == IF name = None /\ timed THEN c ELSE name IN
  /\ attached /\ MayCall /\ verdict[c] = "unsent"
  /\ "sharedHandle" \in Faults \/ h = None
       \/ \A d \in Cmds : handle[d] = h => proc[d] \in Over
  /\ handle' = [handle EXCEPT ![c] = h]
  /\ verdict' = [verdict EXCEPT ![c] = "waiting"]
  /\ timer' = [timer EXCEPT ![c] = IF timed THEN "armed" ELSE "off"]
  /\ Send(Frame("run", c, h))
  /\ UNCHANGED <<opening, listener, signals, posts, attached, proc, running, outputVars,
                 shellVars, cut>>

(* The timeout elapses: "kill before rejecting".  The promise is rejected   *)
(* when the kill is answered, see Deliver.                                  *)
RejectAtOnce(c) == verdict' = [verdict EXCEPT ![c] = "RunnerTimeout"]
AwaitKill(c) == UNCHANGED verdict

TimeoutElapses(c) ==
  /\ timer[c] = "armed" /\ InFlight(c)
  /\ proc[c] \in {"none", "spawning"} => "slowSpawn" \in Faults
  /\ timer' = [timer EXCEPT ![c] = "killing"]
  /\ AwaitKill(c)
  /\ Send(Frame("kill", c, handle[c]))
  /\ UNCHANGED <<handle, opening, listener, signals, posts, attached, proc, running,
                 outputVars, shellVars, cut>>

(* killCommand or resizeCommand by a caller who knows the handle. *)
Signal(op, h) ==
  /\ attached /\ signals < MaxSignals
  /\ \E c \in Cmds : InFlight(c) /\ handle[c] = h
  /\ signals' = signals + 1
  /\ Send(Frame(op, None, h))
  /\ UNCHANGED <<handle, verdict, timer, opening, listener, posts, attached, proc,
                 running, outputVars, shellVars, cut>>

(* openShell, with onData: the listener is set before the page is asked. *)
OpenShell(o) ==
  /\ attached /\ MayCall /\ opening[o] = "unsent"
  /\ \/ "openTogether" \in Faults
     \/ \A p \in Openers : opening[p] # "waiting"
  /\ opening' = [opening EXCEPT ![o] = "waiting"]
  /\ listener' = o
  /\ Send(Frame("open", o, None))
  /\ UNCHANGED <<handle, verdict, timer, signals, posts, attached, proc, running,
                 outputVars, shellVars, cut>>

(* closeShell, by an opener that has the shell. *)
CloseShell(o) ==
  /\ attached /\ opening[o] = "open"
  /\ opening' = [opening EXCEPT ![o] = "closed"]
  /\ Send(Frame("close", o, None))
  /\ UNCHANGED <<handle, verdict, timer, listener, signals, posts, attached, proc,
                 running, outputVars, shellVars, cut>>

(* An answer arrives.  runCommand races its own answer against the rejection *)
(* that follows the kill's; the loser is ignored.  A client that was closed *)
(* knows of no call any more, and answers 404.                              *)
SettleAgain(c, outcome) == verdict' = [verdict EXCEPT ![c] = outcome]
Settle(c, outcome) ==
  verdict' = IF InFlight(c) THEN [verdict EXCEPT ![c] = outcome] ELSE verdict

Deliver(i) ==
  LET m == posts[i] IN
  /\ attached
  /\ i > 1 => "latePost" \in Faults
  /\ posts' = RemoveAt(posts, i)
  /\ CASE m.op = "run" ->
            /\ Settle(m.by, m.value)
            /\ timer' = [timer EXCEPT ![m.by] = IF @ = "armed" THEN "off" ELSE @]
            /\ UNCHANGED opening
       [] m.op = "kill" ->
            /\ Settle(m.by, "RunnerTimeout")
            /\ timer' = [timer EXCEPT ![m.by] = "off"]
            /\ UNCHANGED opening
       [] m.op = "open" ->
            /\ opening' = [opening EXCEPT ![m.by] = m.value]
            /\ UNCHANGED <<verdict, timer>>
  /\ UNCHANGED <<handle, listener, signals, frames, attached, proc, running, outputVars,
                 shellVars, cut>>

-----------------------------------------------------------------------------
(* The page *)

(* A caller's own kill or resize is answered too, to nobody modelled here. *)
Post(op, by, value) ==
  posts' = IF by = None THEN posts
                        ELSE Append(posts, [op |-> op, by |-> by, value |-> value])

(* runCommand, up to the spawn it awaits. *)
ReceiveRun(m) ==
  /\ m.op = "run"
  /\ proc' = [proc EXCEPT ![m.by] = "spawning"]
  /\ UNCHANGED <<posts, running, shellVars, cut>>

(* killCommand: a handle that names nothing is a miss, not an error; a hit  *)
(* is answered without waiting for the process to be gone.                  *)
AnswerWhenGone(by) == UNCHANGED posts
AnswerHit(by) == Post("kill", by, "hit")

ReceiveKill(m) ==
  /\ m.op = "kill"
  /\ LET c == running[m.handle] IN
     IF c = None
       THEN /\ Post("kill", m.by, "miss")
            /\ UNCHANGED <<proc, cut>>
       ELSE /\ AnswerHit(m.by)
            /\ proc' = [proc EXCEPT ![c] = "dying"]
            /\ cut' = [cut EXCEPT ![c] = @ \cup {m.by}]
  /\ UNCHANGED <<running, shellVars>>

ReceiveResize(m) ==
  /\ m.op = "resize"
  /\ UNCHANGED <<posts, proc, running, shellVars, cut>>

(* openShell: an id in use is refused before the session is opened. *)
IdIsFreeAlways == TRUE
IdIsFree == shells = None

ReceiveOpen(m) ==
  /\ m.op = "open"
  /\ IF IdIsFree
       THEN shell' = [shell EXCEPT ![m.by] = "opening"] /\ UNCHANGED posts
       ELSE Post("open", m.by, "refused") /\ UNCHANGED shell
  /\ UNCHANGED <<proc, running, shells, cut>>

(* closeShell: whatever session the map holds. *)
ReceiveClose(m) ==
  /\ m.op = "close"
  /\ shell' = IF shells = None THEN shell ELSE [shell EXCEPT ![shells] = "closed"]
  /\ shells' = None
  /\ UNCHANGED <<posts, proc, running, cut>>

Receive ==
  /\ frames # <<>>
  /\ frames' = Tail(frames)
  /\ LET m == Head(frames) IN
       \/ ReceiveRun(m) \/ ReceiveKill(m) \/ ReceiveResize(m)
       \/ ReceiveOpen(m) \/ ReceiveClose(m)
  /\ UNCHANGED <<hostVars, attached, outputVars>>

(* The spawn resolves: only now does the handle name the command. *)
Spawned(c) ==
  /\ proc[c] = "spawning"
  /\ proc' = [proc EXCEPT ![c] = "running"]
  /\ running' = IF handle[c] = None THEN running ELSE [running EXCEPT ![handle[c]] = c]
  /\ UNCHANGED <<hostVars, linkVars, outputVars, shellVars, cut>>

SpawnFails(c) ==
  /\ proc[c] = "spawning"
  /\ proc' = [proc EXCEPT ![c] = "unspawned"]
  /\ Post("run", c, "UnknownFailure")
  /\ UNCHANGED <<hostVars, frames, attached, running, outputVars, shellVars, cut>>

(* The process exits: on its own, or because it was killed.  The result is  *)
(* posted, and the handle is freed, whichever command holds it by now.      *)
Exit(c, code) ==
  /\ proc[c] \in {"running", "dying"}
  /\ code = "signal" => proc[c] = "dying"
  /\ proc' = [proc EXCEPT ![c] = "exited"]
  /\ running' = IF handle[c] = None THEN running ELSE [running EXCEPT ![handle[c]] = None]
  /\ Post("run", c, code)
  /\ UNCHANGED <<hostVars, frames, attached, outputVars, shellVars, cut>>

(* The pipe hands on a chunk a process printed, in its own time, which may  *)
(* be after the exit.                                                       *)
Read(c, n) ==
  /\ c \in Chatty /\ proc[c] \in {"running", "dying", "exited"}
  /\ read[c] + n <= MaxChars
  /\ read' = [read EXCEPT ![c] = @ + n]
  /\ buffer' = [buffer EXCEPT ![c] = Push(@, [k \in 1..n |-> read[c] + k])]
  /\ UNCHANGED <<hostVars, linkVars, proc, running, shellVars, cut>>

(* ShellSession.open resolves, and only now is the id taken; or it fails. *)
Opened(o) ==
  /\ shell[o] = "opening"
  /\ \/ /\ shell' = [shell EXCEPT ![o] = "live"]
        /\ shells' = o
        /\ Post("open", o, "open")
     \/ /\ shell' = [shell EXCEPT ![o] = "closed"]
        /\ UNCHANGED shells
        /\ Post("open", o, "failed")
  /\ UNCHANGED <<hostVars, frames, attached, proc, running, outputVars, cut>>

-----------------------------------------------------------------------------
(* The end.  Every call still open fails, a command's before the kill that  *)
(* was sent after it.                                                       *)
FailOpenCalls ==
  /\ attached' = FALSE
  /\ verdict' = [c \in Cmds |-> IF InFlight(c) THEN "RunnerGone" ELSE verdict[c]]
  /\ timer' = [c \in Cmds |-> "off"]
  /\ opening' = [o \in Openers |->
                   IF opening[o] = "waiting" THEN "RunnerGone" ELSE opening[o]]
  /\ UNCHANGED <<handle, listener, signals, outputVars, cut>>

(* The client is closed.  "The tab is left open": the calls written to it   *)
(* still arrive there, and its container goes on.                           *)
Close ==
  /\ attached
  /\ FailOpenCalls
  /\ UNCHANGED <<frames, posts, proc, running, shellVars>>

(* The page goes, and nothing it was doing goes on. *)
Gone ==
  /\ FailOpenCalls
  /\ frames' = <<>> /\ posts' = <<>>
  /\ proc' = [c \in Cmds |-> IF proc[c] = "none" THEN "none" ELSE "gone"]
  /\ running' = [h \in Handles |-> None]
  /\ shell' = [o \in Openers |-> IF shell[o] = "none" THEN "none" ELSE "closed"]
  /\ shells' = None

Next ==
  \/ \E c \in Cmds, name \in Names \cup {None}, timed \in BOOLEAN : RunCommand(c, name, timed)
  \/ \E op \in {"kill", "resize"}, h \in Handles : Signal(op, h)
  \/ \E o \in Openers : OpenShell(o) \/ CloseShell(o) \/ Opened(o)
  \/ \E i \in DOMAIN posts : Deliver(i)
  \/ Receive
  \/ \E c \in Cmds :
       \/ TimeoutElapses(c) \/ Spawned(c) \/ SpawnFails(c)
       \/ \E code \in ExitCodes : Exit(c, code)
       \/ \E n \in 1..MaxChars : Read(c, n)
  \/ Close \/ Gone

Spec == Init /\ [][Next]_vars

(* The host's timers fire, frames and answers arrive while the page is      *)
(* there, and a spawn that was asked for resolves.  No command is assumed   *)
(* to exit by itself.                                                       *)
Fairness ==
  /\ \A c \in Cmds : WF_vars(TimeoutElapses(c)) /\ WF_vars(Spawned(c) \/ SpawnFails(c))
  /\ WF_vars(Receive)
  /\ WF_vars(\E i \in DOMAIN posts : Deliver(i))

FairSpec == Spec /\ Fairness

-----------------------------------------------------------------------------
(* Properties *)

(* Every call, frame, answer, process and map has its type. *)
TypeOK ==
  /\ handle \in [Cmds -> Handles \cup {None}]
  /\ verdict \in [Cmds -> {"unsent", "waiting"} \cup Verdicts]
  /\ timer \in [Cmds -> {"off", "armed", "killing"}]
  /\ opening \in [Openers -> {"unsent", "waiting", "open", "refused", "failed", "closed",
                            "RunnerGone"}]
  /\ listener \in Openers \cup {None}
  /\ signals \in 0..MaxSignals
  /\ frames \in Seq([op : {"run", "kill", "resize", "open", "close"},
                     by : Cmds \cup Openers \cup {None}, handle : Handles \cup {None}])
  /\ posts \in Seq([op : {"run", "kill", "open"}, by : Cmds \cup Openers,
                    value : Verdicts \cup {"hit", "miss", "open", "refused", "failed"}])
  /\ attached \in BOOLEAN
  /\ proc \in [Cmds -> {"none", "spawning", "running", "dying"} \cup Over]
  /\ running \in [Handles -> Cmds \cup {None}]
  /\ read \in [Cmds -> 0..MaxChars]
  /\ shell \in [Openers -> {"none", "opening", "live", "closed"}]
  /\ shells \in Openers \cup {None}
  /\ cut \in [Cmds -> SUBSET (Cmds \cup {None})]

(* "Kill before rejecting, otherwise the command runs on invisibly": when   *)
(* the caller is told of a timeout, the command is over or has been killed, *)
(* and a caller that retries does not get two of them.                      *)
TimeoutMeansStopped ==
  \A c \in Cmds : verdict[c] = "RunnerTimeout" => proc[c] \in {"dying"} \cup Over

(* A command its own timeout killed was cut "at whatever point the clock    *)
(* ran out": the caller never hears of it as a command that exited, which   *)
(* would let the session reuse the container.                               *)
CutShortIsTimeout ==
  \A c \in Cmds : verdict[c] = "signal" => \E by \in cut[c] : by # c

(* What the buffer holds is the end of what was read, and it says exactly   *)
(* how much is missing before it, whatever the chunks were.                 *)
OutputIsTail ==
  \A c \in Chatty :
    LET text == Text(buffer[c])
    IN /\ Len(text) = IF read[c] < Limit THEN read[c] ELSE Limit
       /\ buffer[c].dropped = read[c] - Len(text)
       /\ Truncated(buffer[c]) <=> read[c] > Limit
       /\ \A k \in DOMAIN text : text[k] = buffer[c].dropped + k

(* A shell that is alive can be reached by its id: no session is replaced   *)
(* in the map and left running where no closeShell finds it.                *)
LiveShellsAreReachable == \A o \in Openers : shell[o] = "live" => shells = o

(* A command with a timeout comes to an end for its caller, even one that   *)
(* never exits.                                                             *)
TimedCommandsEnd ==
  \A c \in Cmds : (InFlight(c) /\ timer[c] # "off") ~> ~InFlight(c)
=============================================================================
