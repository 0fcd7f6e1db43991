------------------------------- MODULE Discovery -------------------------------
(***************************************************************************)
(* How clients find a daemon, and how daemons come and go: the record file *)
(* (src/daemon/discovery.ts), the clients that read, write off and replace *)
(* a daemon (src/daemon/client.ts), and a daemon's start, maintenance pass *)
(* and shutdown (src/daemon/daemon.ts, maintenance.ts).                    *)
(*                                                                         *)
(* Every client and every daemon is a process of the operating system.     *)
(* They share one file and one port and no lock.  A shutdown awaits only   *)
(* what is settled already, so it is one step.                             *)
(***************************************************************************)
CONSTANTS
  Clients,    \* runs of the CLI
  Daemons,    \* daemon processes, by pid
  Old,        \* those of another, older version of wc-exe
  OldClients, \* runs of that version's CLI, where both are installed
  Faults,     \* see FaultNames
  None

(* "crash"       a daemon dies without its shutdown                          *)
(* "signal"      a daemon is sent SIGINT or SIGTERM                          *)
(* "stopCommand" a client runs `wc-exe daemon stop`                          *)
(* "idle"        idleMs passes without a request                             *)
(* "quietBuild"  it passes while a build runs that makes no request          *)
(* "oneShot"     a build without the daemon takes the fixed port             *)
(* "leftover"    at the start there is an old daemon, or a crashed one's     *)
(*               record                                                      *)
FaultNames == {"crash", "signal", "stopCommand", "idle", "quietBuild", "oneShot", "leftover"}

ASSUME DiscoveryAssumption ==
  /\ Old \subseteq Daemons /\ OldClients \subseteq Clients
  /\ None \notin Daemons
  /\ Faults \subseteq FaultNames

VARIABLES
  record,     \* the pid in daemon.json, or None
  phase,      \* of each daemon process
  taken,      \* a one-shot build's server holds the port
  pc, cmd,    \* of each client: what it does next, and what it was run for
  rec,        \* the record each client last read
  calm        \* history: no fault has happened

daemonVars == <<phase, taken>>
clientVars == <<pc, cmd, rec>>
vars == <<record, daemonVars, clientVars, calm>>

Up      == {"serving", "stopping"}
Running == {"starting"} \cup Up

Answers(d)  == phase[d] \in Up
Listening   == {d \in Daemons : phase[d] \in Up}
PortFree    == ~taken /\ Listening = {}

Polling == {"poll", "pollProbe"}
InRequest == {"probe", "pollProbe", "have", "building"}
Engaged == InRequest \cup {"clear", "stopRead", "stopPost", "stopClear", "spawn", "poll"}

(* health.version is not the VERSION of the client that asks. *)
Mismatch(c, d) == (c \in OldClients) # (d \in Old)

(* Nothing at all, a daemon that serves, or what another version or a crash *)
(* left.                                                                    *)
Found(d, p) ==
  /\ record = d
  /\ phase = [e \in Daemons |-> IF e = d THEN p ELSE "unborn"]

Init ==
  /\ taken = FALSE
  /\ pc = [c \in Clients |-> "idle"]
  /\ cmd = [c \in Clients |-> "build"]
  /\ rec = [c \in Clients |-> None]
  /\ \/ /\ calm = TRUE
        /\ record = None
        /\ phase = [d \in Daemons |-> "unborn"]
     \/ /\ calm = TRUE
        /\ \E d \in Daemons \ Old : Found(d, "serving")
     \/ /\ calm = FALSE
        /\ "leftover" \in Faults
        /\ \/ \E d \in Old : Found(d, "serving")
           \/ \E d \in Daemons : Found(d, "dead")

Goto(c, where) == pc' = [pc EXCEPT ![c] = where]

-----------------------------------------------------------------------------
(* A client: ensureDaemon, then buildViaDaemon *)

(* readRecord and isProcessAlive; a process that dies between the two is    *)
(* one that dies before the probe.                                          *)
WhenAbsentClear == "clear"
WhenAbsent      == "spawn"

Ensure(c) ==
  /\ pc[c] = "idle"
  /\ rec' = [rec EXCEPT ![c] = record]
  /\ Goto(c, IF record = None THEN WhenAbsent
             ELSE IF phase[record] \in Running THEN "probe" ELSE "clear")
  /\ UNCHANGED <<record, daemonVars, cmd, calm>>

(* The token makes sure it is the recorded daemon that answers. *)
Probe(c) ==
  /\ pc[c] = "probe"
  /\ Goto(c, IF ~Answers(rec[c]) THEN "clear"
             ELSE IF Mismatch(c, rec[c]) THEN "stopRead" ELSE "have")
  /\ UNCHANGED <<record, daemonVars, cmd, rec, calm>>

(* clearRecord asks not whose record it removes. *)
Clear(c) ==
  /\ pc[c] = "clear"
  /\ record' = None
  /\ Goto(c, "spawn")
  /\ UNCHANGED <<daemonVars, cmd, rec, calm>>

(* spawnDaemon: the process, of the client's own version, and the poll for   *)
(* whichever record answers: the poll asks nothing about its version.       *)
Spawn(c) ==
  /\ pc[c] = "spawn"
  /\ \E d \in Daemons :
       /\ phase[d] = "unborn" /\ ~Mismatch(c, d)
       /\ phase' = [phase EXCEPT ![d] = "starting"]
  /\ Goto(c, "poll")
  /\ UNCHANGED <<record, taken, cmd, rec, calm>>

Poll(c) ==
  /\ pc[c] = "poll"
  /\ record # None
  /\ rec' = [rec EXCEPT ![c] = record]
  /\ Goto(c, "pollProbe")
  /\ UNCHANGED <<record, daemonVars, cmd, calm>>

PollProbe(c) ==
  /\ pc[c] = "pollProbe"
  /\ Goto(c, IF Answers(rec[c]) THEN "have" ELSE "poll")
  /\ UNCHANGED <<record, daemonVars, cmd, rec, calm>>

(* START_TIMEOUT_MS passes; it is longer than a daemon takes to start and a *)
(* client to see its record.                                                *)
PollTimeout(c) ==
  /\ pc[c] = "poll"
  /\ \A d \in Daemons : phase[d] # "starting"
  /\ record # None => ~Answers(record)
  /\ Goto(c, "failed")
  /\ UNCHANGED <<record, daemonVars, cmd, rec, calm>>

Request(c) ==
  /\ pc[c] = "have"
  /\ Goto(c, IF Answers(rec[c]) THEN "building" ELSE "failed")
  /\ UNCHANGED <<record, daemonVars, cmd, rec, calm>>

Finish(c) ==
  /\ pc[c] = "building" /\ Answers(rec[c])
  /\ Goto(c, "done")
  /\ UNCHANGED <<record, daemonVars, cmd, rec, calm>>

-----------------------------------------------------------------------------
(* stopDaemon, as a command of its own or called by ensureDaemon. *)

AfterStopSpawn(c) == IF cmd[c] = "build" THEN "spawn" ELSE "done"
AfterStop(c)      == IF cmd[c] = "build" THEN "clear" ELSE "done"

StopCommand(c) ==
  /\ "stopCommand" \in Faults
  /\ pc[c] = "idle"
  /\ cmd' = [cmd EXCEPT ![c] = "stop"]
  /\ Goto(c, "stopRead")
  /\ calm' = FALSE
  /\ UNCHANGED <<record, daemonVars, rec>>

(* The record is read again: it may be another one by now. *)
StopRead(c) ==
  /\ pc[c] = "stopRead"
  /\ rec' = [rec EXCEPT ![c] = record]
  /\ Goto(c, IF record = None THEN AfterStop(c) ELSE "stopPost")
  /\ UNCHANGED <<record, daemonVars, cmd, calm>>

StopPost(c) ==
  /\ pc[c] = "stopPost"
  /\ IF Answers(rec[c])
       THEN /\ phase' = [phase EXCEPT ![rec[c]] = "stopping"]
            /\ Goto(c, AfterStop(c))
       ELSE /\ Goto(c, "stopClear")
            /\ UNCHANGED phase
  /\ UNCHANGED <<record, taken, cmd, rec, calm>>

StopClear(c) ==
  /\ pc[c] = "stopClear"
  /\ record' = None
  /\ Goto(c, AfterStop(c))
  /\ UNCHANGED <<daemonVars, cmd, rec, calm>>

-----------------------------------------------------------------------------
(* A daemon *)

(* writeRecord: a temporary file is renamed, nobody reads half of one. *)
RecordedHalf(d) == {d}
Recorded(d)     == d

(* startDaemon: the record is written as soon as the port is bound. *)
Listen(d) ==
  /\ phase[d] = "starting"
  /\ PortFree
  /\ phase' = [phase EXCEPT ![d] = "serving"]
  /\ record' = Recorded(d)
  /\ UNCHANGED <<taken, clientVars, calm>>

RecordAfterRefusalWritten(d) == d
RecordAfterRefusal(d)        == record

ListenFails(d) ==
  /\ phase[d] = "starting"
  /\ ~PortFree
  /\ phase' = [phase EXCEPT ![d] = "dead"]
  /\ record' = RecordAfterRefusal(d)
  /\ UNCHANGED <<taken, clientVars, calm>>

(* closeAllConnections, or the end of the process: builds are cut off. *)
CutNone(d) == pc
Cut(d)     == [c \in Clients |-> IF pc[c] = "building" /\ rec[c] = d THEN "failed" ELSE pc[c]]

Shutdown(d) ==
  /\ phase[d] \in Up
  /\ phase' = [phase EXCEPT ![d] = "dead"]
  /\ record' = None
  /\ pc' = Cut(d)
  /\ UNCHANGED <<taken, cmd, rec>>

(* The 50 ms after the answer to /control/stop are over. *)
StopTimer(d) ==
  /\ phase[d] = "stopping"
  /\ Shutdown(d) /\ UNCHANGED calm

Signal(d) ==
  /\ "signal" \in Faults
  /\ Shutdown(d) /\ calm' = FALSE

(* maintain: nextMaintenanceAction's first reason to stop, ... *)
OrphanedElsewhere(d) == record # None /\ record # d
Orphaned(d)          == record # d

MaintainOrphan(d) ==
  /\ Orphaned(d)
  /\ Shutdown(d) /\ UNCHANGED calm

(* ... and the second.  A build touches lastActivity when it starts and     *)
(* ends; in between only the page's requests do.                            *)
MaintainIdle(d) ==
  /\ "idle" \in Faults
  /\ \A c \in Clients : pc[c] \in InRequest /\ rec[c] = d
                          => pc[c] = "building" /\ "quietBuild" \in Faults
  /\ Shutdown(d) /\ calm' = FALSE

Crash(d) ==
  /\ "crash" \in Faults
  /\ phase[d] \in Running
  /\ phase' = [phase EXCEPT ![d] = "dead"]
  /\ pc' = Cut(d)
  /\ calm' = FALSE
  /\ UNCHANGED <<record, taken, cmd, rec>>

-----------------------------------------------------------------------------
(* A build without the daemon: startServerWithFallback, and its shutdown. *)
OneShotOpens ==
  /\ "oneShot" \in Faults
  /\ PortFree
  /\ taken' = TRUE /\ calm' = FALSE
  /\ UNCHANGED <<record, phase, clientVars>>

OneShotCloses ==
  /\ taken
  /\ taken' = FALSE
  /\ UNCHANGED <<record, phase, clientVars, calm>>

-----------------------------------------------------------------------------
ClientStep(c) ==
  \/ Probe(c) \/ Clear(c) \/ Spawn(c) \/ Poll(c) \/ PollProbe(c)
  \/ Request(c) \/ Finish(c)
  \/ StopRead(c) \/ StopPost(c) \/ StopClear(c)

DaemonStep(d) == Listen(d) \/ ListenFails(d) \/ StopTimer(d) \/ MaintainOrphan(d)

Next ==
  \/ \E c \in Clients : Ensure(c) \/ StopCommand(c) \/ ClientStep(c) \/ PollTimeout(c)
  \/ \E d \in Daemons : DaemonStep(d) \/ Signal(d) \/ MaintainIdle(d) \/ Crash(d)
  \/ OneShotOpens \/ OneShotCloses

Spec == Init /\ [][Next]_vars

(* Processes run on, daemons' timers fire, builds end, and so does the      *)
(* client's patience, which is looked at between two probes.                *)
Fairness ==
  /\ \A c \in Clients : WF_vars(ClientStep(c)) /\ SF_vars(PollTimeout(c))
  /\ \A d \in Daemons : WF_vars(DaemonStep(d))

FairSpec == Spec /\ Fairness

-----------------------------------------------------------------------------
(* Properties *)

(* Record, processes and clients have their types. *)
TypeOK ==
  /\ record \in Daemons \cup {None}
  /\ phase \in [Daemons -> {"unborn", "dead"} \cup Running]
  /\ taken \in BOOLEAN /\ calm \in BOOLEAN
  /\ pc \in [Clients -> {"idle", "done", "failed"} \cup Engaged]
  /\ cmd \in [Clients -> {"build", "stop"}]
  /\ rec \in [Clients -> Daemons \cup {None}]

(* The record "says which process owns the advertisement": while a daemon   *)
(* answers, the record names it or nothing, never a daemon that crashed,    *)
(* lost the port or has not got it yet.                                     *)
OwnAdvertisement == \A d \in Daemons : Answers(d) => record \in {d, None}

(* A daemon of another version "would keep serving the old" runner bundle:  *)
(* no client builds with one, though it answers for a while after it was    *)
(* told to stop, and though other clients replace it at the same time.      *)
(* This is claimed for clients of one version (OldClients = {}): of two     *)
(* installed versions, one takes what the other's client has just started.  *)
NoSupersededDaemon ==
  \A c \in Clients : pc[c] \in {"have", "building"} => ~Mismatch(c, rec[c])

(* However clients of one version overlap, one that finds, starts or shares *)
(* a daemon gets its build as long as nobody stops a daemon and none fails. *)
FailsForAReason == \A c \in Clients : pc[c] = "failed" => ~calm

(* "Left running, this daemon keeps the port while every CLI reports that   *)
(* no daemon exists": a daemon the record does not name stops by itself.    *)
OrphansStop ==
  \A d \in Daemons : (Answers(d) /\ record # d) ~> ~Answers(d)

(* Every client that is run ends, whatever happens to its daemon. *)
ClientsEnd ==
  \A c \in Clients : (pc[c] \in Engaged) ~> (pc[c] \in {"done", "failed"})
=============================================================================
