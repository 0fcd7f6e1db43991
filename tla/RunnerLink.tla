------------------------------ MODULE RunnerLink ------------------------------
(***************************************************************************)
(* The host's end of the control channel (src/core/rpc.ts, RunnerLink),    *)
(* the page's end (src/runner/src/rpc.ts), and the two places of a daemon  *)
(* session that live off it: ensureBooted and the onDisconnect listener.   *)
(*                                                                         *)
(* A page is one loaded document with its own container: reloading a tab   *)
(* makes one page leave and another appear.  A stream is one               *)
(* EventSource connection.  A grace timer is named by the stream whose     *)
(* abort armed it, which is unique: a stream aborts at most once.          *)
(*                                                                         *)
(* What the environment may do beyond one well-behaved tab is listed in    *)
(* Faults, so that each run says what it assumes.                          *)
(***************************************************************************)
EXTENDS Naturals, Sequences

CONSTANTS
  Pages,      \* documents that can be loaded
  Streams,    \* event-stream connections that can be made
  MaxCalls,   \* bound on the calls a behaviour issues
  Faults,     \* what the environment is allowed to do, see FaultNames
  None        \* no stream, no page, no timer

(* "reload"    a page is replaced before the host gave up on the old one    *)
(* "secondTab" somebody else than the session opens the session's URL       *)
(* "lossyDrop" a connection breaks silently, with frames still on it        *)
(* "lostPost"  the POST carrying a result never arrives                     *)
(* "longSleep" a live page fails to reconnect within the grace window       *)
(* "latePost"  a page's "ready" arrives after the page has left             *)
(* "slowBoot"  a live page takes longer to boot than waitForReady allows    *)
(* "slowHello" other tasks run while the stream's first frame is written    *)
FaultNames == {"reload", "secondTab", "lossyDrop", "lostPost",
               "longSleep", "latePost", "slowBoot", "slowHello"}

ASSUME RunnerLinkAssumption ==
  /\ MaxCalls \in Nat
  /\ Faults \subseteq FaultNames
  /\ None \notin Pages
  /\ None \notin Streams

Calls == 1..MaxCalls

VARIABLES
  (* RunnerLink's fields *)
  sequence,    \* last call id handed out
  pending,     \* ids in the pending map
  queue,       \* ids waiting for a stream
  push,        \* the stream calls are written to, or None
  ready,       \* state of readyPromise
  closed,
  graceTimer,  \* the slot: the timer a new stream would clear, or None
  timers,      \* every grace timer still ticking
  endStream,   \* the stream close() would end, or None
  promise,     \* what call()'s caller holds, per id
  (* the session's side *)
  session,     \* "down", "attaching" (in attach) or "up" (booted and runner set)
  (* connections and pages *)
  sock,        \* the host handler of each stream
  owner,       \* the page that made the stream
  linked,      \* whether the page's end of the stream is still there
  page,        \* life of each page
  wire,        \* frames on their way to a page
  running,     \* calls a page is executing
  results,     \* result POSTs on their way to the host
  readyPosts,  \* pages whose "ready" POST is on its way
  (* history *)
  starts       \* how often a page began to run each call

host  == <<sequence, pending, queue, push, ready, closed, graceTimer, timers,
           endStream, promise>>
conn  == <<sock, owner, linked>>
tab   == <<page, running, readyPosts>>
vars  == <<host, session, conn, tab, wire, results, starts>>

PromiseStates == {"none", "pending", "resolved", "gone"}
Frames == [to : Streams, id : Calls]
Runs   == [at : Pages, id : Calls]

Live(p)   == page[p] \in {"loading", "booted"}
Queued    == {queue[k] : k \in DOMAIN queue}
OnWire    == {m.id : m \in wire}
Executing == {r.id : r \in running}

(* A page has left and the host has not given up on it yet. *)
Undecided ==
  \/ timers # {}
  \/ \E s \in Streams : sock[s] \in {"hello", "open"} /\ ~linked[s]

NoHello == \A s \in Streams : sock[s] # "hello"
(* The await on the hello frame is a point where other tasks may run. *)
TaskMayRun == NoHello \/ "slowHello" \in Faults

-----------------------------------------------------------------------------
(* Pieces of the handlers below that a slip would most likely hit; each     *)
(* stands next to the faulty variant the properties are tested with.        *)

(* The id a call gets: ++sequence. *)
NextIdPostIncrement == sequence
NextId == sequence + 1

(* What is left of the queue once a stream has drained it: splice, not slice. *)
RestNotSpliced == queue
Rest == <<>>

(* Rejecting every promise in the pending map. *)
GiveUpOnMapOnly(p) == p
GiveUp(p) == [i \in DOMAIN p |-> IF p[i] = "pending" THEN "gone" ELSE p[i]]

(* The ready promise after armReady(). *)
RearmedOnce == ready
Rearmed == "armed"

(* The timers left ticking after clearTimeout(graceTimer). *)
TimersLeftNoClear == timers
TimersLeft == timers \ {graceTimer}

(* The handlers after close() has called endStream. *)
SockReleasedLater == sock
SockReleased == IF endStream # None THEN [sock EXCEPT ![endStream] = "ended"] ELSE sock

(* The onAbort callback of stream s. *)
OnAbortNoTimer(s) ==
  /\ sock' = [sock EXCEPT ![s] = "ended"]
  /\ push' = None
  /\ UNCHANGED <<graceTimer, timers>>
OnAbortKeepsPush(s) ==
  /\ sock' = [sock EXCEPT ![s] = "ended"]
  /\ IF closed
       THEN UNCHANGED <<graceTimer, timers>>
       ELSE graceTimer' = s /\ timers' = timers \cup {s}
  /\ UNCHANGED push
OnAbort(s) ==
  /\ sock' = [sock EXCEPT ![s] = "ended"]
  /\ push' = None
  /\ IF closed
       THEN UNCHANGED <<graceTimer, timers>>
       ELSE graceTimer' = s /\ timers' = timers \cup {s}

-----------------------------------------------------------------------------
Init ==
  /\ sequence = 0 /\ pending = {} /\ queue = <<>> /\ push = None
  /\ ready = "armed" /\ closed = FALSE
  /\ graceTimer = None /\ timers = {} /\ endStream = None
  /\ promise = [i \in Calls |-> "none"]
  /\ session = "down"
  /\ sock = [s \in Streams |-> "unused"]
  /\ owner = [s \in Streams |-> None]
  /\ linked = [s \in Streams |-> FALSE]
  /\ page = [p \in Pages |-> "unopened"]
  /\ wire = {} /\ running = {} /\ results = {} /\ readyPosts = {}
  /\ starts = [i \in Calls |-> 0]

-----------------------------------------------------------------------------
(* The host *)

(* call(): a stream gets the invocation at once, otherwise it is queued.    *)
(* A frame written to a stream whose page has left is lost.                 *)
Call ==
  /\ TaskMayRun
  /\ ~closed
  /\ sequence < MaxCalls
  /\ LET id == NextId IN
     /\ sequence' = id
     /\ pending' = pending \cup {id}
     /\ promise' = [promise EXCEPT ![id] = "pending"]
     /\ IF push # None
          THEN /\ wire' = IF linked[push] THEN wire \cup {[to |-> push, id |-> id]}
                                          ELSE wire
               /\ UNCHANGED queue
          ELSE /\ queue' = Append(queue, id)
               /\ UNCHANGED wire
  /\ UNCHANGED <<push, ready, closed, graceTimer, timers, endStream, session,
                 conn, tab, results, starts>>

(* events(), up to its await: a closed link answers 204; otherwise the      *)
(* timer in the slot is cleared, whoever the stream comes from.             *)
Connect(p, s) ==
  /\ TaskMayRun
  /\ ~closed
  /\ Live(p)
  /\ \A t \in Streams : owner[t] = p => ~linked[t]
  /\ sock[s] = "unused"
  /\ sock' = [sock EXCEPT ![s] = "hello"]
  /\ owner' = [owner EXCEPT ![s] = p]
  /\ linked' = [linked EXCEPT ![s] = TRUE]
  /\ timers' = TimersLeft
  /\ graceTimer' = None
  /\ UNCHANGED <<sequence, pending, queue, push, ready, closed, endStream,
                 promise, session, tab, wire, results, starts>>

(* events(), after the await: this stream takes over, the queue is drained  *)
(* into it, and onAbort is registered.  closed is not looked at again.  An  *)
(* abort reported before that is never heard of: the handler stays, deaf.   *)
Attach(s) ==
  /\ sock[s] = "hello"
  /\ \E h \in {"open", "deaf"} :
       /\ h = "deaf" => ~linked[s]
       /\ sock' = [sock EXCEPT ![s] = h]
  /\ push' = s
  /\ wire' = IF linked[s] THEN wire \cup {[to |-> s, id |-> i] : i \in Queued}
                          ELSE wire
  /\ queue' = Rest
  /\ endStream' = s
  /\ UNCHANGED <<sequence, pending, ready, closed, graceTimer, timers, promise,
                 session, owner, linked, tab, results, starts>>

(* The host learns that a connection has ended.  The callback was only      *)
(* registered once the stream was open.                                     *)
Abort(s) ==
  /\ TaskMayRun
  /\ sock[s] = "open" /\ ~linked[s]
  /\ OnAbort(s)
  /\ UNCHANGED <<sequence, pending, queue, ready, closed, endStream, promise,
                 session, owner, linked, tab, wire, results, starts>>

(* handleGone(), with the session's listener.  The queue is left as it is.  *)
(* A page that is still there reconnects after RECONNECT_MS, well inside    *)
(* the window, unless it slept.                                             *)
HandleGone(t) ==
  /\ TaskMayRun
  /\ t \in timers
  /\ Live(owner[t]) => "longSleep" \in Faults
  /\ graceTimer' = None
  /\ timers' = timers \ {t}
  /\ pending' = {}
  /\ promise' = GiveUp(promise)
  /\ ready' = Rearmed
  /\ session' = "down"
  /\ UNCHANGED <<sequence, queue, push, closed, endStream, conn, tab, wire,
                 results, starts>>

(* result(): an id that is no longer pending is answered 404 and dropped.   *)
Result(i) ==
  /\ TaskMayRun
  /\ i \in results
  /\ results' = results \ {i}
  /\ pending' = pending \ {i}
  /\ promise' = IF i \in pending THEN [promise EXCEPT ![i] = "resolved"]
                                 ELSE promise
  /\ UNCHANGED <<sequence, queue, push, ready, closed, graceTimer, timers,
                 endStream, session, conn, tab, wire, starts>>

(* event('ready'): resolves the promise waitForReady races, whichever page  *)
(* it comes from.  A session inside attach is then booted.                  *)
Ready(p) ==
  /\ TaskMayRun
  /\ p \in readyPosts
  /\ readyPosts' = readyPosts \ {p}
  /\ ready' = IF ready = "armed" THEN "resolved" ELSE ready
  /\ session' = IF session = "attaching" /\ ready = "armed" THEN "up" ELSE session
  /\ UNCHANGED <<sequence, pending, queue, push, closed, graceTimer, timers,
                 endStream, promise, conn, page, running, wire, results, starts>>

(* close().  The stream ends behind the frames already written to it.       *)
Close ==
  /\ TaskMayRun
  /\ ~closed
  /\ closed' = TRUE
  /\ timers' = TimersLeft
  /\ graceTimer' = None
  /\ pending' = {}
  /\ promise' = GiveUp(promise)
  /\ ready' = IF ready = "armed" THEN "rejected" ELSE ready
  /\ session' = "down"
  /\ push' = None
  /\ sock' = SockReleased
  /\ linked' = IF endStream # None THEN [linked EXCEPT ![endStream] = FALSE] ELSE linked
  /\ endStream' = None
  /\ UNCHANGED <<sequence, queue, owner, tab, wire, results, starts>>

(* ensureBooted() -> attach -> launch(): opens a tab, then waits for ready. *)
Launch(p) ==
  /\ TaskMayRun
  /\ ~closed
  /\ session = "down"
  /\ page[p] = "unopened"
  /\ page' = [page EXCEPT ![p] = "loading"]
  /\ session' = IF ready = "resolved" THEN "up" ELSE "attaching"
  /\ UNCHANGED <<host, conn, running, readyPosts, wire, results, starts>>

(* waitForReady's deadline: sixty seconds, against three for the verdict on *)
(* a page that left, so only a page still there can outlast it.             *)
LaunchTimesOut ==
  /\ TaskMayRun
  /\ session = "attaching"
  /\ Undecided \/ (\E p \in Pages : Live(p)) => "slowBoot" \in Faults
  /\ session' = "down"
  /\ UNCHANGED <<host, conn, tab, wire, results, starts>>

-----------------------------------------------------------------------------
(* Pages, and the connection between *)

(* A page appears that the session did not open. *)
OtherPage(p) ==
  /\ page[p] = "unopened"
  /\ \/ "secondTab" \in Faults
     \/ "reload" \in Faults /\ Undecided /\ \A q \in Pages : ~Live(q)
  /\ page' = [page EXCEPT ![p] = "loading"]
  /\ UNCHANGED <<host, session, conn, running, readyPosts, wire, results, starts>>

(* boot() succeeds and announces it. *)
Boot(p) ==
  /\ page[p] = "loading"
  /\ page' = [page EXCEPT ![p] = "booted"]
  /\ readyPosts' = readyPosts \cup {p}
  /\ UNCHANGED <<host, session, conn, running, wire, results, starts>>

(* onmessage: the call starts at once, beside any that are running. *)
Receive(m) ==
  /\ m \in wire
  /\ wire' = wire \ {m}
  /\ running' = running \cup {[at |-> owner[m.to], id |-> m.id]}
  /\ starts' = [starts EXCEPT ![m.id] = @ + 1]
  /\ UNCHANGED <<host, session, conn, page, readyPosts, results>>

(* handle(): the call is over and its result is posted. *)
Answer(r) ==
  /\ r \in running
  /\ running' = running \ {r}
  /\ results' = results \cup {r.id}
  /\ UNCHANGED <<host, session, conn, page, readyPosts, wire, starts>>

(* A failed POST is swallowed and not retried. *)
LosePost(i) ==
  /\ "lostPost" \in Faults
  /\ i \in results
  /\ results' = results \ {i}
  /\ UNCHANGED <<host, session, conn, tab, wire, starts>>

(* The tab is closed, navigated or reloaded: its streams, the frames on     *)
(* them and everything it was running go with it.                           *)
Leave(p) ==
  /\ Live(p)
  /\ TaskMayRun
  /\ p \in readyPosts => "latePost" \in Faults
  /\ page' = [page EXCEPT ![p] = "gone"]
  /\ linked' = [s \in Streams |-> linked[s] /\ owner[s] # p]
  /\ wire' = {m \in wire : owner[m.to] # p}
  /\ running' = {r \in running : r.at # p}
  /\ UNCHANGED <<host, session, sock, owner, readyPosts, results, starts>>

(* A transient drop the host hears of at once, with nothing on the wire; as  *)
(* many happen as there are streams left for the page to come back with.     *)
Drop(s) ==
  /\ TaskMayRun
  /\ sock[s] = "open" /\ linked[s]
  /\ \E t \in Streams : sock[t] = "unused"
  /\ \A m \in wire : m.to # s
  /\ linked' = [linked EXCEPT ![s] = FALSE]
  /\ OnAbort(s)
  /\ UNCHANGED <<sequence, pending, queue, ready, closed, endStream, promise,
                 session, owner, tab, wire, results, starts>>

(* A drop the host hears of later: the frames on the stream are lost. *)
LossyDrop(s) ==
  /\ "lossyDrop" \in Faults
  /\ TaskMayRun
  /\ linked[s]
  /\ linked' = [linked EXCEPT ![s] = FALSE]
  /\ wire' = {m \in wire : m.to # s}
  /\ UNCHANGED <<host, session, sock, owner, tab, results, starts>>

-----------------------------------------------------------------------------
HostStep ==
  \/ Call
  \/ \E s \in Streams : Attach(s) \/ Abort(s) \/ HandleGone(s)
  \/ \E i \in Calls : Result(i)
  \/ \E p \in Pages : Ready(p) \/ Launch(p)
  \/ \E p \in Pages, s \in Streams : Connect(p, s)
  \/ Close
  \/ LaunchTimesOut

PageStep ==
  \/ \E p \in Pages : OtherPage(p) \/ Boot(p) \/ Leave(p)
  \/ \E m \in Frames : Receive(m)
  \/ \E r \in Runs : Answer(r)
  \/ \E i \in Calls : LosePost(i)
  \/ \E s \in Streams : Drop(s) \/ LossyDrop(s)

Next == HostStep \/ PageStep

Spec == Init /\ [][Next]_vars

(* Only what the host's own event loop and timers guarantee: a handler      *)
(* goes on after its await, a socket's end is reported, a timer fires.      *)
(* No page is assumed to answer, boot, or come back.                        *)
Fairness ==
  \A s \in Streams : WF_vars(Attach(s)) /\ WF_vars(Abort(s)) /\ WF_vars(HandleGone(s))

FairSpec == Spec /\ Fairness
-----------------------------------------------------------------------------
(* Properties *)

(* Every field, connection, page and message has its type; in particular    *)
(* ids are handed out from 1 on, one per call.                              *)
TypeOK ==
  /\ sequence \in 0..MaxCalls
  /\ pending \subseteq Calls
  /\ queue \in Seq(Calls)
  /\ push \in Streams \cup {None}
  /\ ready \in {"armed", "resolved", "rejected"}
  /\ closed \in BOOLEAN
  /\ graceTimer \in Streams \cup {None}
  /\ timers \subseteq Streams
  /\ endStream \in Streams \cup {None}
  /\ promise \in [Calls -> PromiseStates]
  /\ session \in {"down", "attaching", "up"}
  /\ sock \in [Streams -> {"unused", "hello", "open", "deaf", "ended"}]
  /\ owner \in [Streams -> Pages \cup {None}]
  /\ linked \in [Streams -> BOOLEAN]
  /\ page \in [Pages -> {"unopened", "loading", "booted", "gone"}]
  /\ wire \subseteq Frames
  /\ running \subseteq Runs
  /\ results \subseteq Calls
  /\ readyPosts \subseteq Pages
  /\ starts \in [Calls -> Nat]

(* Whatever the network, the tabs and the timers do, the link keeps the     *)
(* ledger's promises: a call starts on at most one page however often       *)
(* streams come and go, settles once, is never resolved by anything but a   *)
(* page that ran it, and none is open once the link is closed.              *)
Ledger == INSTANCE CallLedger WITH issued <- sequence, sealed <- closed
ImplementsLedger == Ledger!LedgerSpec

(* A pending call nobody can answer any more. *)
Orphan(i) ==
  /\ promise[i] = "pending"
  /\ i \notin Queued \cup OnWire \cup Executing \cup results

(* "a build whose tab was closed mid-run would simply never return": while  *)
(* a call has no page left to answer it, a grace timer is ticking or the    *)
(* host has an abort still to hear of.                                      *)
OrphansAwaitVerdict == \A i \in Calls : Orphan(i) => Undecided

(* Under the timers' fairness: such a call is given up on in the end. *)
OrphansSettle == \A i \in Calls : Orphan(i) ~> promise[i] # "pending"

(* A session that counts on a booted container has one: the page the calls  *)
(* go to has itself reported ready, not some page before it.                *)
UpMeansBooted ==
  session = "up" /\ push # None /\ linked[push] => page[owner[push]] = "booted"

(* isConnected says whether a page holds the event stream open: the host's  *)
(* idea of a connected page is an open handler, and an open handler is      *)
(* reported as a connected page, until close() stops looking.               *)
ConnectedMeansOpen == ~closed => (push # None <=> \E s \in Streams : sock[s] = "open")

(* Calls are never given up on under a page that holds a stream open, other *)
(* than by close(): a timer armed for an earlier drop is gone by then.      *)
NeverGivesUpOnAttached ==
  [][ (\E i \in Calls : promise[i] = "pending" /\ promise'[i] = "gone") /\ ~closed'
      => \A s \in Streams : ~(sock[s] = "open" /\ linked[s]) ]_vars

(* A closed link lets go: no caller waits on it, no timer keeps ticking and *)
(* no stream is held open, which would keep the server from shutting down.  *)
ReleasedWhenClosed ==
  closed => /\ pending = {} /\ timers = {} /\ push = None
            /\ \A s \in Streams : sock[s] \notin {"hello", "open"}

(* What the host believes of its streams is so, with one tab at a time: a   *)
(* booted session has a booted page, a connected page an open stream, and a *)
(* closed link neither callers, nor timers, nor streams.                    *)
StreamBookkeeping == UpMeansBooted /\ ConnectedMeansOpen /\ ReleasedWhenClosed
=============================================================================
