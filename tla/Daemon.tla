-------------------------------- MODULE Daemon --------------------------------
(***************************************************************************)
(* The daemon as a whole: the map of sessions of src/daemon/daemon.ts, the  *)
(* build requests that share it, and the maintenance pass of                *)
(* src/daemon/maintenance.ts, which closes sessions and stops the daemon    *)
(* while builds are at work.                                                *)
(*                                                                         *)
(* The control route up to session.build, a maintenance pass and a shutdown *)
(* await nothing but promises already settled, so each is one step.  What   *)
(* happens inside a build is the subject of Session; here it attaches to a  *)
(* page, works, and ends.                                                   *)
(***************************************************************************)
EXTENDS Integers, FiniteSets

CONSTANTS
  Projects,     \* directories that exist; any other source is refused
  Requests,     \* POSTs to /control/build
  MaxSessions,  \* bound on the sessions ever made
  None

ASSUME DaemonAssumption == MaxSessions \in Nat /\ None \notin Nat \cup Projects

VARIABLES
  (* the map of sessions, and each session ever made *)
  sessions,   \* project -> id of its session, or None
  nextSessionId,
  source,     \* id -> the project it was made for, or None
  link,       \* id -> "open" or "closed"
  page,       \* id -> link.isConnected
  runner,     \* id -> runner # null, which goes with booted
  poisoned,   \* id -> poisonedReason # null
  unused,     \* id -> lastUsed is more than idleMs ago
  (* the requests *)
  at,         \* how far each has come
  proj,       \* its project
  session,    \* the id of the session that builds it
  (* the daemon *)
  idle,       \* lastActivity is more than idleMs ago
  up,         \* listening
  advertised, \* the discovery record is there and names this process
  (* history *)
  excused     \* builds that met another of their project, or outlasted idleMs

sessionVars == <<sessions, nextSessionId, source, link, page, runner, poisoned, unused>>
requestVars == <<at, proj, session>>
daemonVars == <<idle, up, advertised>>
vars == <<sessionVars, requestVars, daemonVars, excused>>

Ids == 0..(MaxSessions - 1)

(* What a build comes to, as far as the daemon goes: "failed" is any failure *)
(* after which the runtime's state is known, "poisonous" any other.          *)
Outcomes == {"ok", "failed", "poisonous", "RunnerGone", "RunnerUnavailable"}
Refusals == {"Forbidden", "Unauthorized", "InvalidProject"}

InFlight(b) == at[b] \in {"attaching", "working"}
Building(p) == {b \in Requests : InFlight(b) /\ proj[b] = p}
Listed(s) == \E p \in Projects : sessions[p] = s

Init ==
  /\ sessions = [p \in Projects |-> None]
  /\ nextSessionId = 0
  /\ source = [s \in Ids |-> None]
  /\ link = [s \in Ids |-> "open"]
  /\ page = [s \in Ids |-> FALSE]
  /\ runner = [s \in Ids |-> FALSE]
  /\ poisoned = [s \in Ids |-> FALSE]
  /\ unused = [s \in Ids |-> FALSE]
  /\ at = [b \in Requests |-> "unsent"]
  /\ proj = [b \in Requests |-> None]
  /\ session = [b \in Requests |-> None]
  /\ idle = FALSE /\ up = TRUE /\ advertised = TRUE
  /\ excused = {}

-----------------------------------------------------------------------------
(* The control plane *)

(* What the guard and resolveProject turn away.  The guard comes first, and *)
(* what it refuses does not count as activity; a bad project does.          *)
Refuse(b, why) ==
  /\ up /\ at[b] = "unsent"
  /\ at' = [at EXCEPT ![b] = "over"]
  /\ idle' = (idle /\ why # "InvalidProject")
  /\ UNCHANGED <<sessionVars, proj, session, up, advertised, excused>>

(* Session.close: the runner, if there is one, closes the link, and with it *)
(* the page's stream; a session that is still attaching keeps its link.     *)
LinkAfterClose(S) == [s \in Ids |-> IF s \in S /\ runner[s] THEN "closed" ELSE link[s]]
PageAfterClose(S) == [s \in Ids |-> page[s] /\ ~(s \in S /\ runner[s])]
RunnerAfterClose(S) == [s \in Ids |-> runner[s] /\ s \notin S]

(* ensureBooted at once when the container is up. *)
Start(s) == IF runner[s] THEN "working" ELSE "attaching"

(* An id is never used twice, "a recycled id could route one project's      *)
(* files to another's page".                                                *)
CountOfSessions == Cardinality({p \in Projects : sessions[p] # None})
NewId == nextSessionId

(* session.build notes the time it starts at. *)
UsedOnlyAtEnd(s) == UNCHANGED unused
UsedAtStart(s) == unused' = [unused EXCEPT ![s] = FALSE]

(* The request counts as activity when it arrives. *)
TouchOnAnswer == UNCHANGED idle
TouchOnArrival == idle' = FALSE

Meets(b, p) == IF Building(p) = {} THEN excused ELSE excused \cup Building(p) \cup {b}

Reuse(b, p, fresh) ==
  LET s == sessions[p] IN
  /\ s # None /\ ~poisoned[s] /\ ~fresh
  /\ at' = [at EXCEPT ![b] = Start(s)]
  /\ session' = [session EXCEPT ![b] = s]
  /\ UsedAtStart(s)
  /\ UNCHANGED <<sessions, nextSessionId, source, link, page, runner, poisoned>>

(* A poisoned session, or any when the request is `fresh`, is closed and    *)
(* replaced, whoever is building in it.                                     *)
Replace(b, p, fresh) ==
  LET old == sessions[p]
      closed == {old} \ {None}
      s == NewId
  IN
  /\ old # None => (poisoned[old] \/ fresh)
  /\ nextSessionId < MaxSessions
  /\ link' = LinkAfterClose(closed)
  /\ page' = PageAfterClose(closed)
  /\ runner' = RunnerAfterClose(closed)
  /\ source' = [source EXCEPT ![s] = p]
  /\ sessions' = [sessions EXCEPT ![p] = s]
  /\ nextSessionId' = nextSessionId + 1
  /\ at' = [at EXCEPT ![b] = "attaching"]
  /\ session' = [session EXCEPT ![b] = s]
  /\ UsedAtStart(s)
  /\ UNCHANGED poisoned

Build(b, p, fresh) ==
  /\ up /\ at[b] = "unsent"
  /\ proj' = [proj EXCEPT ![b] = p]
  /\ excused' = Meets(b, p)
  /\ TouchOnArrival
  /\ Reuse(b, p, fresh) \/ Replace(b, p, fresh)
  /\ UNCHANGED <<up, advertised>>

(* GET /control/health, and the page's own requests for a listed session's  *)
(* files and artifacts.  The control channel does not count as activity.    *)
Touch ==
  /\ up /\ idle
  /\ idle' = FALSE
  /\ UNCHANGED <<sessionVars, requestVars, up, advertised, excused>>

-----------------------------------------------------------------------------
(* A session's page, and its builds *)

(* A page reaches a session only while it is listed: its requests are 404s  *)
(* otherwise, and a closed link answers with a 204.                         *)
PageOpens(s) ==
  /\ up /\ Listed(s) /\ link[s] = "open" /\ ~page[s]
  /\ page' = [page EXCEPT ![s] = TRUE]
  /\ UNCHANGED <<sessions, nextSessionId, source, link, runner, poisoned, unused,
                 requestVars, daemonVars, excused>>

(* These builds are over, answered or cut off. *)
End(B) ==
  /\ at' = [b \in Requests |-> IF b \in B THEN "over" ELSE at[b]]
  /\ proj' = [b \in Requests |-> IF b \in B THEN None ELSE proj[b]]
  /\ session' = [b \in Requests |-> IF b \in B THEN None ELSE session[b]]
  /\ excused' = excused \ B

(* The link gives up on its page: the session forgets its container, and    *)
(* builds that waited for it to be ready hear that it is gone and end.      *)
PageLeaves(s) ==
  /\ page[s]
  /\ page' = [page EXCEPT ![s] = FALSE]
  /\ runner' = [runner EXCEPT ![s] = FALSE]
  /\ LET waiting == {b \in Requests : at[b] = "attaching" /\ session[b] = s} IN
     /\ End(waiting)
     /\ IF waiting = {} THEN UNCHANGED <<unused, idle>>
                        ELSE unused' = [unused EXCEPT ![s] = FALSE] /\ idle' = FALSE
  /\ UNCHANGED <<sessions, nextSessionId, source, link, poisoned, up, advertised>>

AttachResolves(b) ==
  /\ at[b] = "attaching" /\ page[session[b]]
  /\ at' = [at EXCEPT ![b] = "working"]
  /\ runner' = [runner EXCEPT ![session[b]] = TRUE]
  /\ UNCHANGED <<sessions, nextSessionId, source, link, page, poisoned, unused, proj,
                 session, daemonVars, excused>>

(* The end of session.build and of the route that awaited it. *)
Answer(b, outcome) ==
  /\ End({b})
  /\ poisoned' = [poisoned EXCEPT ![session[b]] = @ \/ outcome = "poisonous"]
  /\ unused' = [unused EXCEPT ![session[b]] = FALSE]
  /\ idle' = FALSE
  /\ UNCHANGED <<sessions, nextSessionId, source, link, page, runner, up, advertised>>

(* Nobody opened the page within sixty seconds, or the link was closed.     *)
NoDeadline(b) == page[session[b]]
Deadline(b) == TRUE

AttachFails(b, outcome) ==
  /\ at[b] = "attaching"
  /\ \/ outcome = "RunnerUnavailable" /\ Deadline(b)
     \/ outcome = "RunnerGone" /\ link[session[b]] = "closed"
  /\ Answer(b, outcome)

(* A build ends in its own way while it has a page, and for want of one.    *)
Finish(b, outcome) ==
  /\ at[b] = "working"
  /\ \/ outcome \in {"ok", "failed", "poisonous"} /\ page[session[b]]
     \/ outcome = "RunnerGone" /\ ~page[session[b]]
  /\ Answer(b, outcome)

-----------------------------------------------------------------------------
(* Time, the record, and maintenance *)

(* More than idleMs passes in which nothing touches the daemon and no build *)
(* starts or ends; an attach is over in far less.                           *)
Lapse ==
  /\ up /\ \A b \in Requests : at[b] # "attaching"
  /\ ~idle \/ \E s \in Ids : ~unused[s] /\ source[s] # None
  /\ idle' = TRUE
  /\ unused' = [s \in Ids |-> source[s] # None]
  /\ excused' = excused \cup {b \in Requests : at[b] = "working"}
  /\ UNCHANGED <<sessions, nextSessionId, source, link, page, runner, poisoned,
                 requestVars, up, advertised>>

(* Somebody else writes or removes the discovery record. *)
RecordLost ==
  /\ up /\ advertised
  /\ advertised' = FALSE
  /\ UNCHANGED <<sessionVars, requestVars, idle, up, excused>>

(* shutdown(): every listed session is closed and forgotten, the record is  *)
(* removed whoever wrote it, and every socket is destroyed, with a build's  *)
(* answer on it or without.                                                 *)
Shutdown ==
  LET closed == {s \in Ids : Listed(s)} IN
  /\ up' = FALSE
  /\ advertised' = FALSE
  /\ link' = LinkAfterClose(closed)
  /\ page' = [s \in Ids |-> FALSE]
  /\ runner' = RunnerAfterClose(closed)
  /\ sessions' = [p \in Projects |-> None]
  /\ End({b \in Requests : InFlight(b)})
  /\ UNCHANGED <<nextSessionId, source, poisoned, unused, idle>>

(* POST /control/stop, whose shutdown runs from a timer after the answer and *)
(* may so find builds that came since, or SIGINT or SIGTERM.                 *)
Stop == up /\ Shutdown

(* nextMaintenanceAction, in its order: reasons to stop before sessions to  *)
(* close, an unusable session before an abandoned one, one action per pass. *)
MustStop == ~advertised \/ idle
UnusableAlone == {s \in Ids : Listed(s) /\ poisoned[s] /\ ~page[s]}
Unusable == {s \in Ids : Listed(s) /\ poisoned[s]}
Abandoned == {s \in Ids : Listed(s) /\ ~page[s] /\ unused[s]}
ToClose == IF Unusable # {} THEN Unusable ELSE Abandoned

MaintainStops == up /\ MustStop /\ Shutdown

(* Dropped from the map first, then closed. *)
MaintainCloses(s) ==
  /\ up /\ ~MustStop
  /\ s \in ToClose /\ \A t \in ToClose : s <= t
  /\ sessions' = [p \in Projects |-> IF sessions[p] = s THEN None ELSE sessions[p]]
  /\ link' = LinkAfterClose({s})
  /\ page' = PageAfterClose({s})
  /\ runner' = RunnerAfterClose({s})
  /\ UNCHANGED <<nextSessionId, source, poisoned, unused, requestVars, daemonVars, excused>>

Maintain == MaintainStops \/ \E s \in Ids : MaintainCloses(s)

Next ==
  \/ \E b \in Requests :
       \/ \E why \in Refusals : Refuse(b, why)
       \/ \E p \in Projects, fresh \in BOOLEAN : Build(b, p, fresh)
       \/ AttachResolves(b)
       \/ \E outcome \in Outcomes : AttachFails(b, outcome) \/ Finish(b, outcome)
  \/ Touch \/ Lapse \/ RecordLost
  \/ \E s \in Ids : PageOpens(s) \/ PageLeaves(s)
  \/ Stop \/ Maintain

Spec == Init /\ [][Next]_vars

(* The maintenance timer ticks; the sixty seconds of an attach run out; a   *)
(* call on a closed link fails.  No command is assumed to exit.             *)
Fairness ==
  /\ WF_vars(Maintain)
  /\ \A b \in Requests :
       /\ WF_vars(AttachResolves(b) \/ \E outcome \in Outcomes : AttachFails(b, outcome))
       /\ WF_vars(at[b] = "working" /\ link[session[b]] = "closed" /\ Finish(b, "RunnerGone"))

FairSpec == Spec /\ Fairness

-----------------------------------------------------------------------------
(* Properties *)

(* The map, the sessions, the requests and the daemon have their types. *)
TypeOK ==
  /\ sessions \in [Projects -> Ids \cup {None}]
  /\ nextSessionId \in 0..MaxSessions
  /\ source \in [Ids -> Projects \cup {None}]
  /\ link \in [Ids -> {"open", "closed"}]
  /\ page \in [Ids -> BOOLEAN] /\ runner \in [Ids -> BOOLEAN]
  /\ poisoned \in [Ids -> BOOLEAN] /\ unused \in [Ids -> BOOLEAN]
  /\ at \in [Requests -> {"unsent", "attaching", "working", "over"}]
  /\ proj \in [Requests -> Projects \cup {None}]
  /\ session \in [Requests -> Ids \cup {None}]
  /\ idle \in BOOLEAN /\ up \in BOOLEAN
  /\ advertised \in BOOLEAN
  /\ excused \subseteq Requests

(* "Correctness beats the saved boot": a build at work runs in the session  *)
(* the map has for its project, made for that project and not poisoned, and *)
(* no other route, pass or failure takes it away, unless another build of   *)
(* the same project came while it ran, or it ran for longer than idleMs.    *)
WorkIsListed ==
  \A b \in Requests \ excused :
    InFlight(b) => /\ sessions[proj[b]] = session[b]
                   /\ source[session[b]] = proj[b]
                   /\ ~poisoned[session[b]]

(* A maintenance pass of a daemon that is still advertised never ends a     *)
(* build, neither by stopping nor by closing a session, with the same       *)
(* exceptions.                                                              *)
MaintenanceSparesBuilds ==
  [][(Maintain /\ advertised) =>
       \A b \in Requests \ excused :
         InFlight(b) => at'[b] = at[b] /\ link'[session[b]] = link[session[b]]]_vars

(* "An id is never reused after a session is evicted": what an id was made  *)
(* for never changes, so a page left open cannot come to serve another      *)
(* project.                                                                 *)
OneIdOneProject ==
  [][\A s \in Ids : source[s] # None => source'[s] = source[s]]_vars

(* A session that can never serve another build does not stay: a pass       *)
(* closes it, or a build replaces it, or the daemon stops.                  *)
UnusableReclaimed ==
  \A s \in Ids : (poisoned[s] /\ Listed(s)) ~> ~Listed(s)

(* A build whose page never came, or whose session was closed under it, is  *)
(* answered or cut off; it does not wait for ever.                          *)
BuildsReleased ==
  \A b \in Requests :
    (at[b] = "attaching" \/ (at[b] = "working" /\ link[session[b]] = "closed"))
      ~> (~InFlight(b) \/ (at[b] = "working" /\ link[session[b]] = "open"))
=============================================================================
