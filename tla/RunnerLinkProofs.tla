--------------------------- MODULE RunnerLinkProofs ---------------------------
(***************************************************************************)
(* What the control channel guarantees for every number of pages, streams  *)
(* and calls.  The ledger's promises hold whatever the environment does    *)
(* (Faults is arbitrary); the bookkeeping of streams and timers, at the    *)
(* end, with one tab at a time, and each theorem names the faults it bears. *)
(***************************************************************************)
EXTENDS RunnerLink, TLAPS

(* A stream some handler has seen belongs to a page, and frames travel only *)
(* on such streams.                                                         *)
Owned ==
  /\ \A s \in Streams : sock[s] # "unused" => owner[s] \in Pages
  /\ push # None => sock[push] # "unused"
  /\ endStream # None => sock[endStream] # "unused"
  /\ \A m \in wire : sock[m.to] # "unused"

(* Initially the link has its types, and no stream is held. *)
LEMMA TypeInit == Init => TypeOK /\ Owned
<1> SUFFICES ASSUME Init PROVE TypeOK /\ Owned
  OBVIOUS
<1>1. sequence \in 0..MaxCalls
  BY RunnerLinkAssumption DEF Init
<1>2. queue \in Seq(Calls)
  BY DEF Init
<1>3. QED
  BY <1>1, <1>2 DEF Init, TypeOK, Owned, PromiseStates

(* Every step keeps the types, and keeps frames on streams that have an     *)
(* owner.                                                                   *)
LEMMA TypeStep == TypeOK /\ Owned /\ [Next]_vars => TypeOK' /\ Owned'
<1> SUFFICES ASSUME TypeOK, Owned, [Next]_vars
             PROVE  TypeOK' /\ Owned'
  OBVIOUS
<1> USE RunnerLinkAssumption DEF TypeOK, Owned, PromiseStates, Frames, Runs,
        host, conn, tab
<1>1. CASE Call
  <2>1. sequence + 1 \in Calls /\ sequence' \in 0..MaxCalls
    BY <1>1 DEF Call, NextId, Calls
  <2>2. queue' \in Seq(Calls)
    <3>1. Append(queue, sequence + 1) \in Seq(Calls)
      BY <2>1
    <3>2. QED
      BY <1>1, <3>1 DEF Call, NextId
  <2>3. wire' \subseteq Frames /\ \A m \in wire' : sock[m.to] # "unused"
    BY <1>1, <2>1 DEF Call, NextId
  <2>4. promise' \in [Calls -> PromiseStates] /\ pending' \subseteq Calls
    BY <1>1, <2>1 DEF Call, NextId
  <2>5. QED
    BY <1>1, <2>1, <2>2, <2>3, <2>4 DEF Call
<1>2. ASSUME NEW p \in Pages, NEW s \in Streams, Connect(p, s)
      PROVE  TypeOK' /\ Owned'
  BY <1>2 DEF Connect, TimersLeft
<1>3. ASSUME NEW s \in Streams, Attach(s)
      PROVE  TypeOK' /\ Owned'
  <2>1. Queued \subseteq Calls
    BY DEF Queued
  <2>2. wire' \subseteq Frames
    BY <1>3, <2>1 DEF Attach
  <2>3. \A m \in wire' : sock'[m.to] # "unused"
    BY <1>3 DEF Attach
  <2>4. QED
    BY <1>3, <2>2, <2>3 DEF Attach, Rest
<1>4. ASSUME NEW s \in Streams, Abort(s)
      PROVE  TypeOK' /\ Owned'
  BY <1>4 DEF Abort, OnAbort
<1>5. ASSUME NEW t \in Streams, HandleGone(t)
      PROVE  TypeOK' /\ Owned'
  BY <1>5 DEF HandleGone, GiveUp, Rearmed
<1>6. ASSUME NEW i \in Calls, Result(i)
      PROVE  TypeOK' /\ Owned'
  BY <1>6 DEF Result
<1>7. ASSUME NEW p \in Pages, Ready(p)
      PROVE  TypeOK' /\ Owned'
  BY <1>7 DEF Ready
<1>8. CASE Close
  BY <1>8 DEF Close, GiveUp, TimersLeft, SockReleased
<1>9. ASSUME NEW p \in Pages, Launch(p)
      PROVE  TypeOK' /\ Owned'
  BY <1>9 DEF Launch
<1>10. CASE LaunchTimesOut
  BY <1>10 DEF LaunchTimesOut
<1>11. ASSUME NEW p \in Pages, OtherPage(p) \/ Boot(p)
       PROVE  TypeOK' /\ Owned'
  BY <1>11 DEF OtherPage, Boot
<1>12. ASSUME NEW m \in Frames, Receive(m)
       PROVE  TypeOK' /\ Owned'
  <2>1. [at |-> owner[m.to], id |-> m.id] \in Runs
    BY <1>12 DEF Receive
  <2>2. QED
    BY <1>12, <2>1 DEF Receive
<1>13. ASSUME NEW r \in Runs, Answer(r)
       PROVE  TypeOK' /\ Owned'
  BY <1>13 DEF Answer
<1>14. ASSUME NEW i \in Calls, LosePost(i)
       PROVE  TypeOK' /\ Owned'
  BY <1>14 DEF LosePost
<1>15. ASSUME NEW p \in Pages, Leave(p)
       PROVE  TypeOK' /\ Owned'
  BY <1>15 DEF Leave
<1>16. ASSUME NEW s \in Streams, Drop(s) \/ LossyDrop(s)
       PROVE  TypeOK' /\ Owned'
  <2>1. CASE Drop(s)
    BY <2>1 DEF Drop, OnAbort
  <2>2. CASE LossyDrop(s)
    BY <2>2 DEF LossyDrop
  <2>3. QED
    BY <1>16, <2>1, <2>2
<1>17. CASE UNCHANGED vars
  BY <1>17 DEF vars
<1>18. QED
  BY <1>1, <1>2, <1>3, <1>4, <1>5, <1>6, <1>7, <1>8, <1>9, <1>10, <1>11, <1>12,
     <1>13, <1>14, <1>15, <1>16, <1>17 DEF Next, HostStep, PageStep

(* Queue, pending map, streams, timers and pages have their types after      *)
(* every step of host and page, whatever the tabs and the network do.        *)
THEOREM TypeCorrect == Spec => [](TypeOK /\ Owned)
  BY TypeInit, TypeStep, PTL DEF Spec

-----------------------------------------------------------------------------
(* The strengthening under which the ledger's promises are inductive.       *)

(* The ids handed out are the calls with a promise, and the pending map     *)
(* holds those whose promise is open; a closed link holds none.             *)
Accounted ==
  /\ \A i \in Calls : promise[i] = "none" <=> i > sequence
  /\ \A i \in Calls : i \in pending <=> promise[i] = "pending"
  /\ closed => pending = {}

(* Until a call starts it is in one place, the queue or one frame; then in  *)
(* neither, for good.                                                       *)
InOnePlace ==
  /\ \A i \in Calls : starts[i] <= 1 /\ (i > sequence => starts[i] = 0)
  /\ \A i \in Queued : i <= sequence /\ starts[i] = 0 /\ i \notin OnWire
  /\ \A m \in wire : m.id <= sequence /\ starts[m.id] = 0
  /\ \A m, n \in wire : m.id = n.id => m = n
  /\ \A r \in running : starts[r.id] = 1
  /\ \A i \in results : starts[i] = 1

IInv == TypeOK /\ Owned /\ Accounted /\ InOnePlace

(* Initially no call is anywhere. *)
LEMMA InvInit == Init => IInv
<1> SUFFICES ASSUME Init PROVE IInv
  OBVIOUS
<1>1. TypeOK /\ Owned
  BY TypeInit
<1>2. Accounted /\ InOnePlace
  BY RunnerLinkAssumption DEF Init, Accounted, InOnePlace, Queued, OnWire, Calls
<1>3. QED
  BY <1>1, <1>2 DEF IInv

(* Giving up settles exactly the open promises. *)
LEMMA GiveUpSettles ==
  ASSUME promise \in [Calls -> PromiseStates]
  PROVE  /\ DOMAIN promise = Calls
         /\ \A i \in Calls : GiveUp(promise)[i] # "pending"
         /\ \A i \in Calls : GiveUp(promise)[i] = "none" <=> promise[i] = "none"
  BY DEF GiveUp, PromiseStates

(* Every step keeps pending map and open promises together. *)
LEMMA AccountedStep == IInv /\ [Next]_vars => Accounted'
<1> SUFFICES ASSUME IInv, [Next]_vars
             PROVE  Accounted'
  OBVIOUS
<1> USE RunnerLinkAssumption DEF IInv, Accounted, host, conn, tab
<1>t. TypeOK
  OBVIOUS
<1>1. CASE Call
  BY <1>1 DEF Call, NextId, TypeOK, Calls
<1>2. ASSUME NEW s \in Streams, HandleGone(s)
      PROVE  Accounted'
  BY <1>2, GiveUpSettles DEF HandleGone, TypeOK
<1>3. CASE Close
  BY <1>3, GiveUpSettles DEF Close, TypeOK
<1>4. ASSUME NEW i \in Calls, Result(i)
      PROVE  Accounted'
  BY <1>4 DEF Result, TypeOK
<1>5. CASE UNCHANGED <<sequence, pending, promise, closed>>
  BY <1>5
<1>6. ASSUME NEW s \in Streams, Attach(s) \/ Abort(s) \/ Drop(s) \/ LossyDrop(s)
      PROVE  UNCHANGED <<sequence, pending, promise, closed>>
  BY <1>6 DEF Attach, Abort, Drop, LossyDrop
<1>7. ASSUME NEW p \in Pages, \/ Ready(p) \/ Launch(p) \/ OtherPage(p) \/ Boot(p)
                              \/ Leave(p) \/ \E s \in Streams : Connect(p, s)
      PROVE  UNCHANGED <<sequence, pending, promise, closed>>
  BY <1>7 DEF Ready, Launch, OtherPage, Boot, Leave, Connect
<1>8. ASSUME \/ \E m \in Frames : Receive(m)
             \/ \E r \in Runs : Answer(r)
             \/ \E i \in Calls : LosePost(i)
             \/ LaunchTimesOut
      PROVE  UNCHANGED <<sequence, pending, promise, closed>>
  BY <1>8 DEF Receive, Answer, LosePost, LaunchTimesOut
<1>9. CASE UNCHANGED vars
  BY <1>9 DEF vars
<1>10. QED
  BY <1>1, <1>2, <1>3, <1>4, <1>5, <1>6, <1>7, <1>8, <1>9
     DEF Next, HostStep, PageStep

(* Every step moves a call from one place to another (queue, wire, page,     *)
(* result POST), copies none.                                                *)
LEMMA InOnePlaceStep == IInv /\ [Next]_vars => InOnePlace'
<1> SUFFICES ASSUME IInv, [Next]_vars
             PROVE  InOnePlace'
  OBVIOUS
<1> USE RunnerLinkAssumption DEF IInv, InOnePlace, host, conn, tab
<1>1. CASE Call
  <2>1. sequence + 1 \in Calls /\ sequence \in Nat /\ starts[sequence + 1] = 0
    BY <1>1 DEF Call, NextId, TypeOK, Calls
  <2>2. sequence + 1 \notin Queued /\ sequence + 1 \notin OnWire
    BY <2>1 DEF OnWire, TypeOK
  <2>3. CASE push # None
    <3>1. UNCHANGED <<queue, running, results, starts>> /\ sequence' = sequence + 1
      BY <1>1, <2>3 DEF Call, NextId
    <3>2. wire' \in {wire, wire \cup {[to |-> push, id |-> sequence + 1]}}
      BY <1>1, <2>3 DEF Call, NextId
    <3>3. Queued' = Queued
      BY <3>1 DEF Queued
    <3>4. \A i \in Queued : i \in Nat
      BY DEF Queued, TypeOK, Calls
    <3>5. \A m \in wire : m.id \in Nat
      BY DEF TypeOK, Frames, Calls
    <3>6. QED
      BY <2>1, <2>2, <3>1, <3>2, <3>3, <3>4, <3>5 DEF OnWire, TypeOK, Calls
  <2>4. CASE push = None
    <3>1. /\ UNCHANGED <<wire, running, results, starts>>
          /\ sequence' = sequence + 1
          /\ queue' = Append(queue, sequence + 1)
      BY <1>1, <2>4 DEF Call, NextId
    <3>2. Queued' = Queued \cup {sequence + 1}
      <4>1. /\ queue \in Seq(Calls) /\ Len(queue) \in Nat
            /\ DOMAIN queue = 1..Len(queue)
        BY DEF TypeOK
      <4>2. /\ DOMAIN queue' = 1..(Len(queue) + 1)
            /\ queue'[Len(queue) + 1] = sequence + 1
            /\ \A k \in 1..Len(queue) : queue'[k] = queue[k]
        BY <2>1, <3>1, <4>1
      <4>3. DOMAIN queue' = DOMAIN queue \cup {Len(queue) + 1}
        BY <4>1, <4>2
      <4>4. QED
        BY <4>1, <4>2, <4>3 DEF Queued
    <3>3. \A i \in Queued : i \in Nat
      BY DEF Queued, TypeOK, Calls
    <3>4. \A m \in wire : m.id \in Nat
      BY DEF TypeOK, Frames, Calls
    <3>5. QED
      BY <2>1, <2>2, <3>1, <3>2, <3>3, <3>4 DEF OnWire, TypeOK, Calls
  <2>5. QED
    BY <2>3, <2>4
<1>2. ASSUME NEW s \in Streams, Attach(s)
      PROVE  InOnePlace'
  <2>1. Queued' = {} /\ UNCHANGED <<sequence, running, results, starts>>
    BY <1>2 DEF Attach, Rest, Queued
  <2>2. \/ wire' = wire
        \/ wire' = wire \cup {[to |-> s, id |-> i] : i \in Queued}
    BY <1>2 DEF Attach
  <2>3. QED
    BY <2>1, <2>2 DEF OnWire
<1>3. ASSUME NEW m \in Frames, Receive(m)
      PROVE  InOnePlace'
  <2>1. /\ UNCHANGED <<sequence, queue, results>>
        /\ m \in wire
        /\ wire' = wire \ {m}
        /\ running' = running \cup {[at |-> owner[m.to], id |-> m.id]}
        /\ starts' = [starts EXCEPT ![m.id] = @ + 1]
    BY <1>3 DEF Receive
  <2>2. m.id \in Calls /\ starts[m.id] = 0 /\ m.id <= sequence /\ m.id \notin Queued
    BY <2>1 DEF Frames, OnWire
  <2>3. starts'[m.id] = 1 /\ \A i \in Calls : i # m.id => starts'[i] = starts[i]
    BY <2>1, <2>2 DEF TypeOK
  <2>4. Queued' = Queued /\ Queued \subseteq Calls /\ OnWire' \subseteq OnWire
    BY <2>1 DEF Queued, OnWire, TypeOK
  <2>5. \A n \in wire' : n.id \in Calls /\ n.id # m.id
    BY <2>1 DEF TypeOK, Frames
  <2>6. \A r \in running : r.id \in Calls /\ r.id # m.id
    BY <2>2 DEF TypeOK, Runs
  <2>7. \A i \in results : i \in Calls /\ i # m.id
    BY <2>2 DEF TypeOK
  <2>8. \A i \in Calls : i > sequence => i # m.id
    BY <2>2 DEF TypeOK, Calls
  <2>9. QED
    BY <2>1, <2>2, <2>3, <2>4, <2>5, <2>6, <2>7, <2>8
<1>4. ASSUME NEW r \in Runs, Answer(r)
      PROVE  InOnePlace'
  BY <1>4 DEF Answer, Queued, OnWire
<1>5. ASSUME /\ UNCHANGED <<sequence, queue, starts>>
             /\ wire' \subseteq wire /\ running' \subseteq running
             /\ results' \subseteq results
      PROVE  InOnePlace'
  <2>1. Queued' = Queued /\ OnWire' \subseteq OnWire
    BY <1>5 DEF Queued, OnWire
  <2>2. QED
    BY <1>5, <2>1
<1>6. ASSUME NEW s \in Streams, Abort(s) \/ HandleGone(s) \/ Drop(s) \/ LossyDrop(s)
      PROVE  InOnePlace'
  BY <1>5, <1>6 DEF Abort, HandleGone, Drop, LossyDrop
<1>7. ASSUME NEW p \in Pages, \/ Ready(p) \/ Launch(p) \/ OtherPage(p) \/ Boot(p)
                              \/ Leave(p) \/ \E s \in Streams : Connect(p, s)
      PROVE  InOnePlace'
  BY <1>5, <1>7 DEF Ready, Launch, OtherPage, Boot, Leave, Connect
<1>8. ASSUME NEW i \in Calls, Result(i) \/ LosePost(i)
      PROVE  InOnePlace'
  BY <1>5, <1>8 DEF Result, LosePost
<1>9. CASE Close \/ LaunchTimesOut
  BY <1>5, <1>9 DEF Close, LaunchTimesOut
<1>10. CASE UNCHANGED vars
  BY <1>5, <1>10 DEF vars
<1>11. QED
  BY <1>1, <1>2, <1>3, <1>4, <1>6, <1>7, <1>8, <1>9, <1>10
     DEF Next, HostStep, PageStep

(* The inductive invariant holds throughout. *)
THEOREM LinkInvariant == Spec => []IInv
<1>1. IInv /\ [Next]_vars => IInv'
  BY TypeStep, AccountedStep, InOnePlaceStep DEF IInv
<1>2. QED
  BY InvInit, <1>1, PTL DEF Spec

-----------------------------------------------------------------------------
(* Refinement: each step of the link is a step of the ledger, or none.      *)

(* Initially no call is made. *)
LEMMA LedgerInitial == Init => Ledger!LedgerInit
  BY DEF Init, Ledger!LedgerInit, Calls, Ledger!Calls

(* Issuing, starting and settling are steps of the ledger; the rest of the   *)
(* link changes nothing in it.                                               *)
LEMMA LedgerStep == IInv /\ [Next]_vars => [Ledger!LedgerNext]_(Ledger!ledger)
<1> SUFFICES ASSUME IInv, [Next]_vars
             PROVE  [Ledger!LedgerNext]_(Ledger!ledger)
  OBVIOUS
<1> USE DEF IInv, Ledger!ledger, host, conn, tab
<1>1. CASE Call
  <2>1. Ledger!Issue
    BY <1>1 DEF Call, NextId, Ledger!Issue
  <2>2. QED
    BY <2>1 DEF Ledger!LedgerNext
<1>2. ASSUME NEW m \in Frames, Receive(m)
      PROVE  [Ledger!LedgerNext]_(Ledger!ledger)
  <2>1. m.id \in Calls /\ m.id <= sequence /\ starts[m.id] = 0
    BY <1>2 DEF Receive, Frames, InOnePlace
  <2>2. starts' = [starts EXCEPT ![m.id] = 1] /\ UNCHANGED <<sequence, promise, closed>>
    BY <1>2, <2>1 DEF Receive, TypeOK
  <2>3. Ledger!Start(m.id)
    BY <2>1, <2>2 DEF Ledger!Start
  <2>4. QED
    BY <2>1, <2>3 DEF Ledger!LedgerNext, Calls, Ledger!Calls
<1>3. ASSUME NEW i \in Calls, Result(i)
      PROVE  [Ledger!LedgerNext]_(Ledger!ledger)
  <2>1. CASE i \in pending
    <3>1. Ledger!Resolve(i)
      BY <1>3, <2>1 DEF Result, Ledger!Resolve, Accounted, InOnePlace
    <3>2. QED
      BY <3>1 DEF Ledger!LedgerNext, Calls, Ledger!Calls
  <2>2. CASE i \notin pending
    BY <1>3, <2>2 DEF Result
  <2>3. QED
    BY <2>1, <2>2
<1>4. ASSUME NEW s \in Streams, HandleGone(s)
      PROVE  [Ledger!LedgerNext]_(Ledger!ledger)
  <2>1. Ledger!Abandon
    BY <1>4 DEF HandleGone, Ledger!Abandon, GiveUp, Ledger!GiveUp
  <2>2. QED
    BY <2>1 DEF Ledger!LedgerNext
<1>5. CASE Close
  <2>1. Ledger!Seal
    BY <1>5 DEF Close, Ledger!Seal, GiveUp, Ledger!GiveUp
  <2>2. QED
    BY <2>1 DEF Ledger!LedgerNext
<1>6. ASSUME NEW s \in Streams, Attach(s) \/ Abort(s) \/ Drop(s) \/ LossyDrop(s)
      PROVE  UNCHANGED <<sequence, promise, starts, closed>>
  BY <1>6 DEF Attach, Abort, Drop, LossyDrop
<1>7. ASSUME NEW p \in Pages, \/ Ready(p) \/ Launch(p) \/ OtherPage(p) \/ Boot(p)
                              \/ Leave(p) \/ \E s \in Streams : Connect(p, s)
      PROVE  UNCHANGED <<sequence, promise, starts, closed>>
  BY <1>7 DEF Ready, Launch, OtherPage, Boot, Leave, Connect
<1>8. ASSUME \/ \E r \in Runs : Answer(r)
             \/ \E i \in Calls : LosePost(i)
             \/ LaunchTimesOut
      PROVE  UNCHANGED <<sequence, promise, starts, closed>>
  BY <1>8 DEF Answer, LosePost, LaunchTimesOut
<1>9. CASE UNCHANGED vars
  BY <1>9 DEF vars
<1>10. QED
  BY <1>1, <1>2, <1>3, <1>4, <1>5, <1>6, <1>7, <1>8, <1>9
     DEF Next, HostStep, PageStep

(* The link keeps the ledger's promises for every set of pages and streams, *)
(* every number of calls and every subset of the faults: a call starts at   *)
(* most once, settles once, and only a started call is resolved.            *)
THEOREM LinkImplementsLedger == Spec => ImplementsLedger
  BY LedgerInitial, LedgerStep, LinkInvariant, PTL
     DEF Spec, ImplementsLedger, Ledger!LedgerSpec

(* In particular no call is ever run twice, by one page or by two, and a    *)
(* closed link has no caller left waiting.                                  *)
AtMostOneStart == \A i \in Calls : starts[i] <= 1
NobodyWaitsOnClosed == closed => \A i \in Calls : promise[i] # "pending"

(* What a caller sees: the page starts no call twice (takeover of a stream,  *)
(* requeueing), and a link that was closed leaves no promise open.           *)
THEOREM CallsRunOnce == Spec => [](AtMostOneStart /\ NobodyWaitsOnClosed)
<1>1. IInv => AtMostOneStart /\ NobodyWaitsOnClosed
  BY DEF IInv, InOnePlace, Accounted, AtMostOneStart, NobodyWaitsOnClosed
<1>2. QED
  BY LinkInvariant, <1>1, PTL

-----------------------------------------------------------------------------
(* The bookkeeping of streams and timers, with one tab at a time.           *)

(* What the rest of this module assumes of the environment: nobody reloads   *)
(* or duplicates the tab, connections break loudly, pages wake and boot in   *)
(* time.  POSTs may get lost or come late, where a part does not exclude it. *)
OneTab == Faults \subseteq {"lostPost", "latePost"}

(* The host holds the connection. *)
Held(s) == sock[s] \in {"hello", "open"}

(* There is one page at a time; what is linked, on the wire or running is    *)
(* its own, and so is any stream or timer the host has while it lives.       *)
Tenancy ==
  /\ \A p, q \in Pages : Live(p) /\ Live(q) => p = q
  /\ \A s \in Streams : linked[s] <=> Held(s) /\ Live(owner[s])
  /\ \A s \in Streams : sock[s] = "hello" => linked[s]
  /\ \A m \in wire : Live(owner[m.to]) /\ (~closed => linked[m.to])
  /\ \A r \in running : Live(r.at)
  /\ \A s \in Streams, p \in Pages :
       (Held(s) \/ s \in timers) /\ Live(p) => owner[s] = p

(* The host has one stream or one timer, in its slot, or neither, and        *)
(* nothing once it is closed.                                               *)
Slots ==
  /\ timers = {graceTimer} \ {None}
  /\ \A s, t \in Streams : Held(s) /\ Held(t) => s = t
  /\ \A s \in Streams : push = s <=> sock[s] = "open"
  /\ push # None => endStream = push
  /\ \A s \in Streams : Held(s) => timers = {}
  /\ \A t \in timers : sock[t] = "ended"
  /\ closed => timers = {} /\ \A s \in Streams : ~Held(s)

(* A session that is down has nothing left of a page. *)
Vacancy ==
  /\ closed => session = "down"
  /\ session = "down" /\ ~closed =>
       timers = {} /\ (\A p \in Pages : ~Live(p)) /\ \A s \in Streams : ~Held(s)

(* A "ready" on its way or heard is the present page's own. *)
BootHeard ==
  /\ \A p \in readyPosts : page[p] = "booted"
  /\ session # "up" /\ ~closed => ready = "armed"
  /\ session = "up" => \A p \in Pages : Live(p) => page[p] = "booted"

(* A call is only out of reach after the page has left, until the verdict.   *)
Reach ==
  /\ running # {} /\ ~closed => timers # {} \/ \E s \in Streams : Held(s)
  /\ (\E p \in Pages : Live(p)) => \A i \in Calls : ~Orphan(i)
  /\ session = "down" => \A i \in Calls : ~Orphan(i)
  /\ OrphansAwaitVerdict

TabInv ==
  /\ IInv /\ Tenancy /\ Slots /\ Vacancy
  /\ "latePost" \notin Faults => BootHeard
  /\ "lostPost" \notin Faults => Reach

TabCore == IInv /\ Tenancy /\ Slots /\ Vacancy

(* What one tab rules out: another page, a silent break, a task inside the   *)
(* hello await, and a verdict on a page that is there.                      *)
LEMMA Excluded ==
  ASSUME OneTab
  PROVE  /\ TaskMayRun => NoHello
         /\ \A p \in Pages : ~OtherPage(p)
         /\ \A s \in Streams : ~LossyDrop(s)
         /\ \A t \in Streams : HandleGone(t) => ~Live(owner[t])
         /\ LaunchTimesOut => ~Undecided /\ \A p \in Pages : ~Live(p)
  BY DEF OneTab, TaskMayRun, OtherPage, LossyDrop, HandleGone, LaunchTimesOut

(* At the start there is nothing to keep a book of. *)
LEMMA TabInit == Init => TabInv
<1> SUFFICES ASSUME Init PROVE TabInv
  OBVIOUS
<1>1. IInv
  BY InvInit
<1>2. Tenancy /\ Slots /\ Vacancy
  BY RunnerLinkAssumption DEF Init, Tenancy, Slots, Vacancy, Live, Held
<1>3. BootHeard /\ Reach
  BY DEF Init, BootHeard, Reach, Orphan, OrphansAwaitVerdict, Live
<1>4. QED
  BY <1>1, <1>2, <1>3 DEF TabInv

(* Whose the streams, frames and runs are stays so in every step. *)
LEMMA TenancyStep == OneTab /\ TabCore /\ TypeOK' /\ Owned' /\ [Next]_vars => Tenancy'
<1> SUFFICES ASSUME OneTab, TabCore, TypeOK', Owned', [Next]_vars
             PROVE  Tenancy'
  OBVIOUS
<1> USE RunnerLinkAssumption DEF Tenancy, Held, Live, host, conn, tab
<1>t. TypeOK /\ Owned /\ Tenancy /\ Slots /\ Vacancy
  BY DEF TabCore, IInv
<1>1. CASE Call
  <2>1. UNCHANGED <<conn, tab, timers, closed>> /\ ~closed
    BY <1>1 DEF Call
  <2>2. \A m \in wire' : linked[m.to]
    BY <1>1, <1>t DEF Call
  <2>4. \A m \in wire' : Live(owner[m.to])
    BY <2>2, <1>1, <1>t DEF Call, TypeOK, Frames
  <2>3. QED
    BY <2>1, <2>2, <2>4, <1>t
<1>2. ASSUME NEW p \in Pages, NEW s \in Streams, Connect(p, s)
      PROVE  Tenancy'
  <2>1. /\ ~closed /\ UNCHANGED closed /\ NoHello /\ Live(p) /\ sock[s] = "unused" /\ UNCHANGED <<tab, wire>>
        /\ sock' = [sock EXCEPT ![s] = "hello"] /\ owner' = [owner EXCEPT ![s] = p]
        /\ linked' = [linked EXCEPT ![s] = TRUE] /\ timers' \subseteq timers
    BY <1>2, Excluded DEF Connect, TimersLeft
  <2>2. \A t \in Streams : t # s => /\ sock'[t] = sock[t] /\ owner'[t] = owner[t]
                                    /\ linked'[t] = linked[t]
    BY <2>1, <1>t DEF TypeOK
  <2>3. sock'[s] = "hello" /\ owner'[s] = p /\ linked'[s]
    BY <2>1, <1>t DEF TypeOK
  <2>4. \A m \in wire : linked'[m.to] /\ Live(owner'[m.to])
    BY <2>1, <2>2, <2>3, <1>t DEF TypeOK, Frames
  <2>5. QED
    BY <2>1, <2>2, <2>3, <2>4, <1>t
<1>3. ASSUME NEW s \in Streams, Attach(s)
      PROVE  Tenancy'
  <2>1. /\ sock[s] = "hello" /\ linked[s]
        /\ UNCHANGED <<owner, linked, tab, timers, closed>>
        /\ sock' = [sock EXCEPT ![s] = "open"]
        /\ wire' \subseteq wire \cup {[to |-> s, id |-> i] : i \in Queued}
    BY <1>3, <1>t DEF Attach
  <2>2. \A t \in Streams : Held(t)' => Held(t)
    BY <2>1, <1>t DEF TypeOK
  <2>3. \A t \in Streams : (sock'[t] = "hello" => sock[t] = "hello") /\ (Held(t) => Held(t)')
    BY <2>1, <1>t DEF TypeOK
  <2>4. \A m \in wire' : Live(owner[m.to]) /\ (~closed => linked[m.to])
    BY <2>1, <1>t
  <2>5. QED
    BY <2>1, <2>2, <2>3, <2>4, <1>t
<1>4. ASSUME NEW s \in Streams, Abort(s)
      PROVE  Tenancy'
  <2>1. /\ ~linked[s] /\ sock[s] = "open" /\ UNCHANGED <<owner, linked, tab, wire, closed>>
        /\ sock' = [sock EXCEPT ![s] = "ended"] /\ timers' \subseteq timers \cup {s}
    BY <1>4 DEF Abort, OnAbort
  <2>2. QED
    BY <2>1, <1>t DEF TypeOK
<1>5. ASSUME NEW s \in Streams, Drop(s)
      PROVE  Tenancy'
  <2>1. /\ sock[s] = "open" /\ UNCHANGED <<owner, tab, wire, closed>> /\ \A m \in wire : m.to # s
        /\ linked' = [linked EXCEPT ![s] = FALSE]
        /\ sock' = [sock EXCEPT ![s] = "ended"] /\ timers' \subseteq timers \cup {s}
    BY <1>5 DEF Drop, OnAbort
  <2>2. \A m \in wire : m.to \in Streams
    BY <1>t DEF TypeOK, Frames
  <2>3. QED
    BY <2>1, <2>2, <1>t DEF TypeOK
<1>6. ASSUME NEW t \in Streams, HandleGone(t)
      PROVE  Tenancy'
  BY <1>6, <1>t DEF HandleGone
<1>7. CASE Close
  <2>1. /\ UNCHANGED <<owner, tab, wire>> /\ timers' \subseteq timers
        /\ NoHello /\ closed'
        /\ sock' = IF endStream # None THEN [sock EXCEPT ![endStream] = "ended"] ELSE sock
        /\ linked' = IF endStream # None THEN [linked EXCEPT ![endStream] = FALSE] ELSE linked
    BY <1>7, Excluded DEF Close, SockReleased, TimersLeft
  <2>2. \A m \in wire : m.to \in Streams
    BY <1>t DEF TypeOK, Frames
  <2>3. QED
    BY <2>1, <2>2, <1>t DEF TypeOK
<1>8. ASSUME NEW p \in Pages, Launch(p)
      PROVE  Tenancy'
  <2>1. /\ ~closed /\ session = "down" /\ page' = [page EXCEPT ![p] = "loading"]
        /\ UNCHANGED <<conn, timers, running, wire, closed>>
    BY <1>8 DEF Launch
  <2>2. /\ timers = {} /\ (\A q \in Pages : ~Live(q)) /\ \A s \in Streams : ~Held(s)
    BY <2>1, <1>t DEF Vacancy
  <2>3. \A q \in Pages : q # p => page'[q] = page[q]
    BY <2>1, <1>t DEF TypeOK
  <2>4. \A s \in Streams : ~linked[s]
    BY <2>2, <1>t
  <2>6. wire = {}
    BY <2>1, <2>4, <1>t DEF TypeOK, Frames
  <2>7. running = {}
    BY <2>2, <1>t DEF TypeOK, Runs
  <2>5. QED
    BY <2>1, <2>2, <2>3, <2>4, <2>6, <2>7
<1>9. ASSUME NEW p \in Pages, Leave(p)
      PROVE  Tenancy'
  <2>1. /\ UNCHANGED <<sock, owner, timers, closed>> /\ NoHello
        /\ page' = [page EXCEPT ![p] = "gone"]
        /\ linked' = [s \in Streams |-> linked[s] /\ owner[s] # p]
        /\ wire' = {m \in wire : owner[m.to] # p}
        /\ running' = {r \in running : r.at # p}
    BY <1>9, Excluded DEF Leave
  <2>2. \A q \in Pages : Live(q)' <=> Live(q) /\ q # p
    BY <2>1, <1>t DEF TypeOK
  <2>3. \A m \in wire : m.to \in Streams
    BY <1>t DEF TypeOK, Frames
  <2>4. \A s \in Streams : linked'[s] <=> linked[s] /\ owner[s] # p
    BY <2>1, <1>t DEF TypeOK
  <2>7. \A s \in Streams : Held(s) => owner[s] \in Pages
    BY <1>t DEF Owned
  <2>5. \A r \in running : r.at \in Pages
    BY <1>t DEF TypeOK, Runs
  <2>8. \A m \in wire' : Live(owner[m.to])' /\ (~closed' => linked'[m.to])
    <3>1. \A m \in wire : owner[m.to] \in Pages
      BY <2>3, <1>t DEF Owned
    <3>2. QED
      BY <2>1, <2>2, <2>3, <2>4, <3>1, <1>t
  <2>6. QED
    BY <2>1, <2>2, <2>3, <2>4, <2>5, <2>7, <2>8, <1>t DEF NoHello
<1>10. ASSUME NEW p \in Pages, Ready(p) \/ Boot(p)
       PROVE  Tenancy'
  <2>1. UNCHANGED <<conn, running, wire, timers, closed>>
    BY <1>10 DEF Ready, Boot
  <2>2. \A q \in Pages : Live(q)' <=> Live(q)
    BY <1>10, <1>t DEF Ready, Boot, TypeOK
  <2>3. \A s \in Streams : Held(s) => owner[s] \in Pages
    BY <1>t DEF Owned
  <2>4. \A r \in running : r.at \in Pages
    BY <1>t DEF TypeOK, Runs
  <2>6. \A m \in wire : owner[m.to] \in Pages
    BY <1>t DEF Owned, TypeOK, Frames
  <2>5. QED
    BY <2>1, <2>2, <2>3, <2>4, <2>6, <1>t
<1>11. ASSUME NEW m \in Frames, Receive(m)
       PROVE  Tenancy'
  <2>1. /\ UNCHANGED <<conn, page, timers, closed>> /\ m \in wire /\ wire' = wire \ {m}
        /\ running' = running \cup {[at |-> owner[m.to], id |-> m.id]}
    BY <1>11 DEF Receive
  <2>2. Live(owner[m.to])
    BY <2>1, <1>t DEF Frames
  <2>3. QED
    BY <2>1, <2>2, <1>t
<1>12. ASSUME NEW r \in Runs, Answer(r)
       PROVE  Tenancy'
  BY <1>12, <1>t DEF Answer
<1>13. ASSUME NEW i \in Calls, Result(i) \/ LosePost(i)
       PROVE  Tenancy'
  BY <1>13, <1>t DEF Result, LosePost
<1>14. CASE LaunchTimesOut \/ UNCHANGED vars
  BY <1>14, <1>t DEF LaunchTimesOut, vars
<1>15. QED
  BY <1>1, <1>2, <1>3, <1>4, <1>5, <1>6, <1>7, <1>8, <1>9, <1>10, <1>11, <1>12, <1>13,
     <1>14, Excluded DEF Next, HostStep, PageStep

(* The slot, the push and the end of the stream stay those of the one        *)
(* stream the host holds.                                                   *)
LEMMA SlotsStep == OneTab /\ TabCore /\ [Next]_vars => Slots'
<1> SUFFICES ASSUME OneTab, TabCore, [Next]_vars
             PROVE  Slots'
  OBVIOUS
<1> USE RunnerLinkAssumption DEF Slots, Held, host, conn, tab
<1>t. TypeOK /\ Owned /\ Tenancy /\ Slots /\ Vacancy
  BY DEF TabCore, IInv
<1>0. ASSUME UNCHANGED <<timers, graceTimer, sock, push, endStream, closed>>
      PROVE  Slots'
  BY <1>0, <1>t
<1>1. ASSUME NEW p \in Pages, NEW s \in Streams, Connect(p, s)
      PROVE  Slots'
  <2>1. /\ NoHello /\ Live(p) /\ sock[s] = "unused" /\ ~closed
        /\ \A t \in Streams : owner[t] = p => ~linked[t]
        /\ sock' = [sock EXCEPT ![s] = "hello"]
        /\ timers' = timers \ {graceTimer} /\ graceTimer' = None
        /\ UNCHANGED <<push, endStream, closed>>
    BY <1>1, Excluded DEF Connect, TimersLeft
  <2>2. \A t \in Streams : ~Held(t)
    <3> SUFFICES ASSUME NEW t \in Streams, Held(t) PROVE FALSE
      OBVIOUS
    <3>1. owner[t] = p
      BY <2>1, <1>t DEF Tenancy
    <3>2. QED
      BY <3>1, <2>1, <1>t DEF Tenancy
  <2>3. timers' = {}
    BY <2>1, <1>t
  <2>4. sock'[s] = "hello" /\ \A t \in Streams : t # s => sock'[t] = sock[t]
    BY <2>1, <1>t DEF TypeOK
  <2>5. push' # s
    BY <2>1, <1>t
  <2>6. QED
    BY <2>1, <2>2, <2>3, <2>4, <2>5, <1>t
<1>2. ASSUME NEW s \in Streams, Attach(s)
      PROVE  Slots'
  <2>1. /\ sock[s] = "hello" /\ sock' = [sock EXCEPT ![s] = "open"] /\ push' = s
        /\ endStream' = s /\ UNCHANGED <<timers, graceTimer, closed>>
    BY <1>2, <1>t DEF Attach, Tenancy
  <2>2. sock'[s] = "open" /\ \A t \in Streams : t # s => sock'[t] = sock[t]
    BY <2>1, <1>t DEF TypeOK
  <2>3. \A t \in Streams : Held(t)' <=> t = s
    BY <2>1, <2>2, <1>t
  <2>4. \A t \in timers : t # s
    BY <2>1, <1>t
  <2>5. timers \subseteq Streams
    BY <1>t DEF TypeOK
  <2>6. QED
    BY <2>1, <2>2, <2>3, <2>4, <2>5, <1>t
<1>3. ASSUME NEW s \in Streams, Abort(s) \/ Drop(s)
      PROVE  Slots'
  <2>1. sock[s] = "open" /\ OnAbort(s) /\ UNCHANGED <<endStream, closed>>
    BY <1>3 DEF Abort, Drop
  <2>2. sock' = [sock EXCEPT ![s] = "ended"] /\ push' = None
    BY <2>1 DEF OnAbort
  <2>3. ~closed /\ timers = {} /\ \A t \in Streams : Held(t) => t = s
    BY <2>1, <1>t
  <2>4. timers' = {s} /\ graceTimer' = s
    BY <2>1, <2>3 DEF OnAbort
  <2>5. sock'[s] = "ended" /\ \A t \in Streams : t # s => sock'[t] = sock[t]
    BY <2>2, <1>t DEF TypeOK
  <2>6. \A t \in Streams : ~Held(t)'
    BY <2>3, <2>5
  <2>7. s # None /\ None \notin Streams
    OBVIOUS
  <2>8. QED
    BY <2>1, <2>2, <2>3, <2>4, <2>5, <2>6, <2>7
<1>4. ASSUME NEW t \in Streams, HandleGone(t)
      PROVE  Slots'
  <2>1. /\ t \in timers /\ graceTimer' = None /\ timers' = timers \ {t}
        /\ UNCHANGED <<sock, push, endStream, closed>>
    BY <1>4 DEF HandleGone
  <2>2. timers' = {}
    BY <2>1, <1>t
  <2>3. QED
    BY <2>1, <2>2, <1>t
<1>5. CASE Close
  <2>1. /\ NoHello /\ closed' /\ timers' = timers \ {graceTimer} /\ graceTimer' = None
        /\ push' = None /\ endStream' = None
        /\ sock' = IF endStream # None THEN [sock EXCEPT ![endStream] = "ended"] ELSE sock
    BY <1>5, Excluded DEF Close, SockReleased, TimersLeft
  <2>2. timers' = {}
    BY <2>1, <1>t
  <2>3. \A s \in Streams : Held(s) => s = endStream
    BY <2>1, <1>t DEF NoHello
  <2>4. \A s \in Streams : ~Held(s)'
    BY <2>1, <2>3, <1>t DEF TypeOK
  <2>5. QED
    BY <2>1, <2>2, <2>4
<1>6. ASSUME NEW p \in Pages, Ready(p) \/ Launch(p) \/ Boot(p) \/ Leave(p)
      PROVE  Slots'
  BY <1>0, <1>6 DEF Ready, Launch, Boot, Leave
<1>7. CASE Call \/ LaunchTimesOut \/ UNCHANGED vars
  BY <1>0, <1>7 DEF Call, LaunchTimesOut, vars
<1>8. ASSUME NEW i \in Calls, Result(i) \/ LosePost(i)
      PROVE  Slots'
  BY <1>0, <1>8 DEF Result, LosePost
<1>9. ASSUME \/ \E m \in Frames : Receive(m)
             \/ \E r \in Runs : Answer(r)
      PROVE  Slots'
  BY <1>0, <1>9 DEF Receive, Answer
<1>10. QED
  BY <1>1, <1>2, <1>3, <1>4, <1>5, <1>6, <1>7, <1>8, <1>9, Excluded
     DEF Next, HostStep, PageStep

(* When the session gives up on a page, nothing of the page is left.         *)
LEMMA VacancyStep ==
  OneTab /\ TabCore /\ Tenancy' /\ Slots' /\ [Next]_vars => Vacancy'
<1> SUFFICES ASSUME OneTab, TabCore, Tenancy', Slots', [Next]_vars
             PROVE  Vacancy'
  OBVIOUS
<1> USE RunnerLinkAssumption DEF Vacancy, Held, Live, host, conn, tab
<1>t. TypeOK /\ Owned /\ Tenancy /\ Slots /\ Vacancy
  BY DEF TabCore, IInv
<1>1. CASE closed'
  <2>1. session' = "down"
    <3>1. CASE Close
      BY <3>1 DEF Close
    <3>2. CASE ~Close
      <4>1. closed /\ session = "down"
        BY <3>2, <1>1, <1>t DEF Next, HostStep, PageStep, vars, Call, Connect, Attach,
           Abort, HandleGone, Result, Ready, Launch, LaunchTimesOut, OtherPage, Boot,
           Receive, Answer, LosePost, Leave, Drop, LossyDrop
      <4>2. QED
        BY <4>1, <3>2, <1>1 DEF Next, HostStep, PageStep, vars, Call, Connect, Attach,
           Abort, HandleGone, Result, Ready, Launch, LaunchTimesOut, OtherPage, Boot,
           Receive, Answer, LosePost, Leave, Drop, LossyDrop
    <3>3. QED
      BY <3>1, <3>2
  <2>2. QED
    BY <1>1, <2>1
<1>2. CASE ~closed' /\ session' = "down" /\ session # "down"
  <2>1. LaunchTimesOut \/ \E t \in Streams : HandleGone(t)
    BY <1>2 DEF Next, HostStep, PageStep, vars, Call, Connect, Attach,
           Abort, HandleGone, Result, Ready, Launch, LaunchTimesOut, OtherPage, Boot,
           Receive, Answer, LosePost, Leave, Drop, LossyDrop, Close
  <2>2. ASSUME NEW t \in Streams, HandleGone(t)
        PROVE  Vacancy'
    <3>1. /\ t \in timers /\ ~Live(owner[t]) /\ timers' = timers \ {t}
          /\ UNCHANGED <<sock, owner, page>>
      BY <2>2, Excluded DEF HandleGone
    <3>2. timers' = {} /\ \A s \in Streams : ~Held(s)
      BY <3>1, <1>t DEF Slots
    <3>3. \A p \in Pages : ~Live(p)
      BY <3>1, <1>t DEF Tenancy
    <3>4. QED
      BY <3>1, <3>2, <3>3, <1>2
  <2>3. CASE LaunchTimesOut
    <3>1. ~Undecided /\ (\A p \in Pages : ~Live(p)) /\ UNCHANGED <<sock, page, timers>>
      BY <2>3, Excluded DEF LaunchTimesOut
    <3>2. timers = {} /\ \A s \in Streams : ~Held(s)
      <4>1. \A s \in Streams : Held(s) => linked[s]
        BY <3>1 DEF Undecided
      <4>2. \A s \in Streams : linked[s] => owner[s] \in Pages
        BY <1>t DEF Tenancy, Owned
      <4>3. QED
        BY <4>1, <4>2, <3>1, <1>t DEF Undecided, Tenancy
    <3>3. QED
      BY <3>1, <3>2, <1>2
  <2>4. QED
    BY <2>1, <2>2, <2>3
<1>3. CASE ~closed' /\ session' = "down" /\ session = "down"
  <2>1. ~closed
    BY <1>3 DEF Next, HostStep, PageStep, vars, Call, Connect, Attach,
           Abort, HandleGone, Result, Ready, Launch, LaunchTimesOut, OtherPage, Boot,
           Receive, Answer, LosePost, Leave, Drop, LossyDrop, Close
  <2>2. timers = {} /\ (\A p \in Pages : ~Live(p)) /\ \A s \in Streams : ~Held(s)
    BY <2>1, <1>3, <1>t
  <2>3. UNCHANGED <<timers, page, sock>>
    <3>1. \A t \in Streams : ~Attach(t) /\ ~Abort(t) /\ ~HandleGone(t) /\ ~Drop(t)
      BY <2>2 DEF Attach, Abort, HandleGone, Drop
    <3>2. \A p \in Pages : /\ ~Launch(p) /\ ~Boot(p) /\ ~Leave(p) /\ ~OtherPage(p)
                            /\ \A t \in Streams : ~Connect(p, t)
      BY <2>2, <1>3, Excluded DEF Launch, Boot, Leave, Connect
    <3>3. ~Close /\ ~LaunchTimesOut /\ \A t \in Streams : ~LossyDrop(t)
      BY <1>3, Excluded DEF Close, LaunchTimesOut
    <3>4. QED
      BY <3>1, <3>2, <3>3 DEF Next, HostStep, PageStep, vars, Call, Result, Ready,
         Receive, Answer, LosePost
  <2>4. QED
    BY <2>2, <2>3, <1>3
<1>4. QED
  BY <1>1, <1>2, <1>3

(* A "ready" only ever comes from the page that is there.                    *)
LEMMA BootHeardStep ==
  ASSUME OneTab, "latePost" \notin Faults, TabCore, BootHeard, [Next]_vars
  PROVE  BootHeard'
<1> USE DEF BootHeard, Live, host, conn, tab
<1>t. TypeOK /\ Tenancy /\ Vacancy
  BY DEF TabCore, IInv
<1>0. ASSUME UNCHANGED <<readyPosts, page, session, closed, ready>>
      PROVE  BootHeard'
  BY <1>0
<1>1. ASSUME NEW p \in Pages, Ready(p)
      PROVE  BootHeard'
  <2>1. /\ p \in readyPosts /\ readyPosts' = readyPosts \ {p} /\ UNCHANGED <<page, closed>>
        /\ ready' = IF ready = "armed" THEN "resolved" ELSE ready
        /\ session' = IF session = "attaching" /\ ready = "armed" THEN "up" ELSE session
    BY <1>1 DEF Ready
  <2>2. page[p] = "booted" /\ \A q \in Pages : Live(q) => q = p
    BY <2>1, <1>t DEF Tenancy
  <2>3. closed \/ session # "down"
    BY <2>2, <1>t DEF Vacancy
  <2>4. session \in {"down", "attaching", "up"} /\ (closed => session = "down")
    BY <1>t DEF TypeOK, Vacancy
  <2>5. \A q \in readyPosts' : page'[q] = "booted"
    BY <2>1
  <2>6. session' # "up" /\ ~closed' => ready' = "armed"
    BY <2>1, <2>3, <2>4
  <2>7. session' = "up" => \A q \in Pages : Live(q)' => page'[q] = "booted"
    BY <2>1, <2>2
  <2>8. QED
    BY <2>5, <2>6, <2>7
<1>2. ASSUME NEW p \in Pages, Launch(p)
      PROVE  BootHeard'
  BY <1>2, <1>t DEF Launch, TypeOK
<1>3. ASSUME NEW p \in Pages, Boot(p)
      PROVE  BootHeard'
  BY <1>3, <1>t DEF Boot, TypeOK
<1>4. ASSUME NEW p \in Pages, Leave(p)
      PROVE  BootHeard'
  BY <1>4, <1>t DEF Leave, TypeOK
<1>5. CASE LaunchTimesOut \/ Close
  BY <1>5, <1>t DEF LaunchTimesOut, Close, Vacancy
<1>6. ASSUME NEW t \in Streams, HandleGone(t)
      PROVE  BootHeard'
  BY <1>6 DEF HandleGone, Rearmed
<1>7. ASSUME NEW s \in Streams, Attach(s) \/ Abort(s) \/ Drop(s)
                                \/ \E p \in Pages : Connect(p, s)
      PROVE  BootHeard'
  BY <1>0, <1>7 DEF Attach, Abort, Drop, Connect
<1>8. ASSUME NEW i \in Calls, Result(i) \/ LosePost(i)
      PROVE  BootHeard'
  BY <1>0, <1>8 DEF Result, LosePost
<1>9. CASE \/ \E m \in Frames : Receive(m)
           \/ \E r \in Runs : Answer(r)
           \/ Call \/ UNCHANGED vars
  BY <1>0, <1>9 DEF Receive, Answer, Call, vars
<1>10. QED
  BY <1>1, <1>2, <1>3, <1>4, <1>5, <1>6, <1>7, <1>8, <1>9, Excluded
     DEF Next, HostStep, PageStep

(* As long as no result is lost on its way, a call stays in reach of its     *)
(* page, or the verdict on the page is still to come.                        *)
LEMMA ReachStep ==
  ASSUME OneTab, "lostPost" \notin Faults, TabCore, IInv', Tenancy', Slots', Vacancy',
         Reach, [Next]_vars
  PROVE  Reach'
<1> USE RunnerLinkAssumption DEF Reach, OrphansAwaitVerdict, Held, Live, host, conn, tab
<1>t. /\ TypeOK /\ Owned /\ Accounted /\ InOnePlace /\ Tenancy /\ Slots /\ Vacancy
      /\ TypeOK' /\ Accounted'
  BY DEF TabCore, IInv
<1>0. ASSUME UNCHANGED <<timers, sock, linked, page>>,
             closed' = closed, session' = "down" => session = "down",
             running' # {} /\ ~closed => running # {} \/ \E s \in Streams : Held(s),
             \A i \in Calls : Orphan(i)' => Orphan(i)
      PROVE  Reach'
  BY <1>0 DEF Undecided
<1>p. ASSUME UNCHANGED <<promise, queue, wire, running, results>>
      PROVE  \A i \in Calls : Orphan(i)' <=> Orphan(i)
  BY <1>p DEF Orphan, Queued, OnWire, Executing
<1>n. (closed' => pending' = {}) /\ \A i \in Calls : Orphan(i)' => i \in pending'
  BY <1>t DEF Accounted, Orphan
<1>1. CASE Call
  <2>1. /\ sequence + 1 \in Calls /\ ~closed
        /\ promise' = [promise EXCEPT ![sequence + 1] = "pending"]
        /\ UNCHANGED <<conn, tab, timers, results, closed, session, push>>
    BY <1>1, <1>t DEF Call, NextId, TypeOK, Calls
  <2>2. \A i \in Calls : i # sequence + 1 => promise'[i] = promise[i]
    BY <2>1, <1>t DEF TypeOK
  <2>3. Queued \subseteq Queued' /\ OnWire \subseteq OnWire'
    <3>1. CASE push # None
      BY <3>1, <1>1 DEF Call, Queued, OnWire
    <3>2. CASE push = None
      <4>1. wire' = wire /\ queue' = Append(queue, sequence + 1)
        BY <3>2, <1>1 DEF Call, NextId
      <4>2. /\ DOMAIN queue \subseteq DOMAIN queue'
            /\ \A k \in DOMAIN queue : queue'[k] = queue[k]
        BY <4>1, <2>1, <1>t DEF TypeOK
      <4>3. QED
        BY <4>1, <4>2 DEF Queued, OnWire
    <3>3. QED
      BY <3>1, <3>2
  <2>4. CASE push = None \/ linked[push]
    <3>1. sequence + 1 \in Queued' \cup OnWire'
      <4>1. CASE push = None
        <5>1. queue' = Append(queue, sequence + 1) /\ queue \in Seq(Calls)
          BY <4>1, <1>1, <1>t DEF Call, NextId, TypeOK
        <5>2. Len(queue) + 1 \in DOMAIN queue' /\ queue'[Len(queue) + 1] = sequence + 1
          BY <5>1, <2>1
        <5>3. QED
          BY <5>2 DEF Queued
      <4>2. CASE push # None
        <5>1. [to |-> push, id |-> sequence + 1] \in wire'
          BY <4>2, <2>4, <1>1 DEF Call, NextId
        <5>2. QED
          BY <5>1 DEF OnWire
      <4>3. QED
        BY <4>1, <4>2
    <3>2. \A i \in Calls : Orphan(i)' => Orphan(i)
      BY <2>1, <2>2, <2>3, <3>1 DEF Orphan, Executing
    <3>3. QED
      BY <1>0, <2>1, <3>2
  <2>5. CASE push # None /\ ~linked[push]
    <3>1. push \in Streams /\ sock[push] = "open"
      BY <2>5, <1>t DEF Slots, TypeOK
    <3>2. Undecided' /\ Held(push)
      BY <2>1, <2>5, <3>1 DEF Undecided
    <3>3. session # "down"
      BY <2>1, <3>1, <3>2, <1>t DEF Vacancy
    <3>4. \A p \in Pages : ~Live(p)
      BY <2>5, <3>1, <3>2, <1>t DEF Tenancy
    <3>5. QED
      BY <2>1, <3>1, <3>2, <3>3, <3>4
  <2>6. QED
    BY <2>4, <2>5
<1>2. ASSUME NEW p \in Pages, NEW s \in Streams, Connect(p, s)
      PROVE  Reach'
  <2>1. Live(p) /\ UNCHANGED <<promise, queue, wire, running, results>>
    BY <1>2 DEF Connect
  <2>2. \A i \in Calls : ~Orphan(i)'
    BY <2>1, <1>p
  <2>3. Held(s)'
    BY <1>2, <1>t DEF Connect, TypeOK
  <2>4. QED
    BY <2>2, <2>3
<1>3. ASSUME NEW s \in Streams, Attach(s)
      PROVE  Reach'
  <2>1. /\ sock[s] = "hello" /\ linked[s] /\ Live(owner[s])
        /\ UNCHANGED <<promise, running, results>>
    BY <1>3, <1>t DEF Attach, Tenancy
  <2>2. owner[s] \in Pages
    BY <2>1, <1>t DEF Owned
  <2>3. wire' = wire \cup {[to |-> s, id |-> i] : i \in Queued}
    BY <1>3, <2>1 DEF Attach
  <2>4. Queued \cup OnWire \subseteq OnWire'
    <3>1. wire \subseteq wire' /\ \A i \in Queued : [to |-> s, id |-> i] \in wire'
      BY <2>3
    <3>2. ASSUME NEW i \in Queued PROVE i \in OnWire'
      <4>1. [to |-> s, id |-> i] \in wire' /\ [to |-> s, id |-> i].id = i
        BY <3>1
      <4>2. QED
        BY <4>1 DEF OnWire
    <3>3. QED
      BY <3>1, <3>2 DEF OnWire
  <2>5. \A i \in Calls : ~Orphan(i)'
    BY <2>1, <2>2, <2>4 DEF Orphan, Executing
  <2>6. Held(s)'
    BY <1>3, <2>1, <1>t DEF Attach, TypeOK
  <2>7. QED
    BY <2>5, <2>6
<1>4. ASSUME NEW s \in Streams, Abort(s) \/ Drop(s)
      PROVE  Reach'
  <2>1. /\ sock[s] = "open" /\ OnAbort(s)
        /\ UNCHANGED <<promise, queue, wire, running, results, page, session, closed>>
    BY <1>4 DEF Abort, Drop
  <2>2. timers' # {}
    BY <2>1, <1>t DEF OnAbort, Slots
  <2>3. \A i \in Calls : Orphan(i)' <=> Orphan(i)
    BY <2>1, <1>p
  <2>4. QED
    BY <2>1, <2>2, <2>3 DEF Undecided
<1>5. ASSUME NEW t \in Streams, HandleGone(t)
      PROVE  Reach'
  <2>1. t \in timers /\ ~Live(owner[t]) /\ UNCHANGED <<page, running>> /\ pending' = {}
    BY <1>5, Excluded DEF HandleGone
  <2>2. \A p \in Pages : ~Live(p)
    BY <2>1, <1>t DEF Tenancy
  <2>3. running' = {}
    BY <2>1, <2>2, <1>t DEF Tenancy, TypeOK, Runs
  <2>4. QED
    BY <2>1, <2>3, <1>n
<1>6. ASSUME NEW i \in Calls, Result(i)
      PROVE  Reach'
  <2>1. /\ UNCHANGED <<conn, tab, timers, closed, session, queue, wire>>
        /\ results' = results \ {i}
        /\ promise' = IF i \in pending THEN [promise EXCEPT ![i] = "resolved"] ELSE promise
    BY <1>6 DEF Result
  <2>2. promise'[i] # "pending"
    BY <2>1, <1>t DEF TypeOK, Accounted
  <2>3. \A j \in Calls : j # i => promise'[j] = promise[j]
    BY <2>1, <1>t DEF TypeOK
  <2>4. \A j \in Calls : Orphan(j)' => Orphan(j)
    BY <2>1, <2>2, <2>3 DEF Orphan, Queued, OnWire, Executing
  <2>5. QED
    BY <1>0, <2>1, <2>4
<1>7. ASSUME NEW p \in Pages, Ready(p) \/ Boot(p)
      PROVE  Reach'
  <2>1. /\ UNCHANGED <<promise, queue, wire, running, results, timers, sock, linked, closed>>
        /\ session' = "down" => session = "down"
    BY <1>7 DEF Ready, Boot
  <2>2. \A q \in Pages : Live(q)' <=> Live(q)
    BY <1>7, <1>t DEF Ready, Boot, TypeOK
  <2>3. \A i \in Calls : Orphan(i)' <=> Orphan(i)
    BY <2>1, <1>p
  <2>4. QED
    BY <2>1, <2>2, <2>3 DEF Undecided
<1>8. CASE Close
  <2>1. closed' /\ pending' = {}
    BY <1>8 DEF Close
  <2>2. QED
    BY <2>1, <1>n
<1>9. ASSUME NEW p \in Pages, Launch(p)
      PROVE  Reach'
  <2>1. /\ session = "down" /\ UNCHANGED <<promise, queue, wire, running, results>>
        /\ UNCHANGED <<timers, sock, closed>>
    BY <1>9 DEF Launch
  <2>2. \A i \in Calls : ~Orphan(i)'
    BY <2>1, <1>p
  <2>3. QED
    BY <2>1, <2>2
<1>10. CASE LaunchTimesOut
  <2>1. /\ ~Undecided /\ UNCHANGED <<promise, queue, wire, running, results>>
        /\ UNCHANGED <<timers, sock, closed>>
    BY <1>10, Excluded DEF LaunchTimesOut
  <2>2. \A i \in Calls : ~Orphan(i)'
    BY <2>1, <1>p
  <2>3. QED
    BY <2>1, <2>2
<1>11. ASSUME NEW m \in Frames, Receive(m)
       PROVE  Reach'
  <2>1. /\ m \in wire /\ wire' = wire \ {m} /\ m.to \in Streams
        /\ running' = running \cup {[at |-> owner[m.to], id |-> m.id]}
        /\ UNCHANGED <<promise, queue, results, timers, sock, linked, page, closed, session>>
    BY <1>11 DEF Receive, Frames
  <2>2. ~closed => Held(m.to)
    BY <2>1, <1>t DEF Tenancy
  <2>3. OnWire \subseteq OnWire' \cup {m.id} /\ Executing \subseteq Executing'
    BY <2>1 DEF OnWire, Executing
  <2>6. m.id \in Executing'
    <3>1. [at |-> owner[m.to], id |-> m.id] \in running'
      BY <2>1
    <3>2. QED
      BY <3>1 DEF Executing
  <2>4. \A i \in Calls : Orphan(i)' => Orphan(i)
    BY <2>1, <2>3, <2>6 DEF Orphan, Queued
  <2>5. QED
    BY <1>0, <2>1, <2>2, <2>4
<1>12. ASSUME NEW r \in Runs, Answer(r)
       PROVE  Reach'
  <2>1. /\ r \in running /\ running' = running \ {r} /\ results' = results \cup {r.id}
        /\ UNCHANGED <<promise, queue, wire, timers, sock, linked, page, closed, session>>
    BY <1>12 DEF Answer
  <2>2. Executing \subseteq Executing' \cup {r.id}
    BY <2>1 DEF Executing
  <2>3. \A i \in Calls : Orphan(i)' => Orphan(i)
    BY <2>1, <2>2 DEF Orphan, Queued, OnWire
  <2>4. QED
    BY <1>0, <2>1, <2>3
<1>13. ASSUME NEW p \in Pages, Leave(p)
       PROVE  Reach'
  <2>1. /\ UNCHANGED <<promise, queue, results, sock, owner, timers, session, closed>>
        /\ Live(p) /\ NoHello
        /\ page' = [page EXCEPT ![p] = "gone"]
        /\ linked' = [s \in Streams |-> linked[s] /\ owner[s] # p]
        /\ wire' = {m \in wire : owner[m.to] # p}
        /\ running' = {r \in running : r.at # p}
    BY <1>13, Excluded DEF Leave
  <2>2. \A q \in Pages : ~Live(q)'
    BY <2>1, <1>t DEF TypeOK, Tenancy
  <2>3. CASE closed
    BY <2>1, <2>3, <1>n
  <2>4. CASE ~closed
    <3>1. session' # "down"
      BY <2>1, <2>4, <1>t DEF Vacancy
    <3>2. \A s \in Streams : Held(s) => sock[s] = "open" /\ ~linked'[s]
      BY <2>1, <1>t DEF NoHello, Tenancy
    <3>3. ASSUME NEW s \in Streams, Held(s)
          PROVE  Undecided'
      BY <2>1, <3>2, <3>3 DEF Undecided
    <3>4. ASSUME NEW i \in Calls, Orphan(i)'
          PROVE  Undecided'
      <4>1. i \in OnWire \cup Executing
        <5>1. ~Orphan(i)
          BY <2>1
        <5>2. QED
          BY <2>1, <3>4, <5>1 DEF Orphan, Queued
      <4>2. ASSUME NEW m \in wire PROVE Undecided'
        BY <2>4, <3>3, <1>t DEF Tenancy, TypeOK, Frames
      <4>3. CASE i \in Executing
        <5>1. running # {}
          BY <4>3 DEF Executing
        <5>2. timers # {} \/ \E s \in Streams : Held(s)
          BY <5>1, <2>4
        <5>3. QED
          BY <5>2, <3>3, <2>1 DEF Undecided
      <4>4. QED
        BY <4>1, <4>2, <4>3 DEF OnWire
    <3>5. running' # {} => timers' # {} \/ \E s \in Streams : Held(s)'
      BY <2>1, <2>4
    <3>6. QED
      BY <2>2, <3>1, <3>4, <3>5
  <2>5. QED
    BY <2>3, <2>4
<1>14. CASE UNCHANGED vars
  <2>1. \A i \in Calls : Orphan(i)' <=> Orphan(i)
    BY <1>14, <1>p DEF vars
  <2>2. QED
    BY <1>0, <1>14, <2>1 DEF vars
<1>15. ASSUME NEW i \in Calls
       PROVE  ~LosePost(i)
  BY DEF LosePost
<1>16. QED
  BY <1>1, <1>2, <1>3, <1>4, <1>5, <1>6, <1>7, <1>8, <1>9, <1>10, <1>11, <1>12, <1>13,
     <1>14, <1>15, Excluded DEF Next, HostStep, PageStep

(* The whole invariant: the parts above in the order they depend on.         *)
LEMMA TabStep == OneTab /\ TabInv /\ IInv' /\ [Next]_vars => TabInv'
<1> SUFFICES ASSUME OneTab, TabInv, IInv', [Next]_vars
             PROVE  TabInv'
  OBVIOUS
<1>1. TabCore /\ TypeOK' /\ Owned'
  BY DEF TabInv, TabCore, IInv
<1>2. Tenancy'
  BY <1>1, TenancyStep
<1>3. Slots'
  BY <1>1, SlotsStep
<1>4. Vacancy'
  BY <1>1, <1>2, <1>3, VacancyStep
<1>5. "latePost" \notin Faults => BootHeard'
  BY <1>1, BootHeardStep DEF TabInv
<1>6. "lostPost" \notin Faults => Reach'
  BY <1>1, <1>2, <1>3, <1>4, ReachStep DEF TabInv
<1>7. QED
  BY <1>2, <1>3, <1>4, <1>5, <1>6 DEF TabInv

(* It holds throughout, with one tab.                                        *)
LEMMA TabInvariant == OneTab => (Spec => []TabInv)
<1> SUFFICES ASSUME OneTab PROVE Spec => []TabInv
  OBVIOUS
<1>1. TabInv /\ IInv' /\ [Next]_vars => TabInv'
  BY TabStep
<1>2. QED
  BY TabInit, LinkInvariant, <1>1, PTL DEF Spec

(* With one tab that boots in time, what the host believes of its streams is *)
(* so, whether or not results get lost on their way: a booted session has a  *)
(* booted page, a connected page an open stream, and a closed link neither   *)
(* callers, nor timers, nor streams.                                        *)
THEOREM BookkeepingHolds == Faults \subseteq {"lostPost"} => (Spec => []StreamBookkeeping)
<1> SUFFICES ASSUME Faults \subseteq {"lostPost"} PROVE Spec => []StreamBookkeeping
  OBVIOUS
<1>1. OneTab /\ "latePost" \notin Faults
  BY DEF OneTab
<1>2. TabInv => StreamBookkeeping
  <2> SUFFICES ASSUME TabInv PROVE StreamBookkeeping
    OBVIOUS
  <2>1. TypeOK /\ Owned /\ Accounted /\ Tenancy /\ Slots /\ BootHeard
    BY <1>1 DEF TabInv, IInv
  <2>2. UpMeansBooted
    BY <2>1 DEF UpMeansBooted, TypeOK, Tenancy, BootHeard, Owned, Held
  <2>3. ConnectedMeansOpen
    <3>1. push # None => push \in Streams
      BY <2>1 DEF TypeOK
    <3>2. QED
      BY <3>1, <2>1, RunnerLinkAssumption DEF ConnectedMeansOpen, Slots
  <2>4. ReleasedWhenClosed
    <3>1. push # None => push \in Streams /\ Held(push)
      BY <2>1 DEF TypeOK, Slots, Held
    <3>2. QED
      BY <3>1, <2>1 DEF ReleasedWhenClosed, Slots, Held, Accounted
  <2>5. QED
    BY <2>2, <2>3, <2>4 DEF StreamBookkeeping
<1>3. QED
  BY <1>1, <1>2, TabInvariant, PTL

(* With one tab, and results and announcements that may get lost or come     *)
(* late, nothing but close() gives up on calls under a page that holds a     *)
(* stream open: the grace timer of an earlier drop is cleared by then.       *)
THEOREM NoVerdictOnAttached == OneTab => (Spec => NeverGivesUpOnAttached)
<1> SUFFICES ASSUME OneTab PROVE Spec => NeverGivesUpOnAttached
  OBVIOUS
<1>1. TabInv /\ [Next]_vars =>
        [ (\E i \in Calls : promise[i] = "pending" /\ promise'[i] = "gone") /\ ~closed'
          => \A s \in Streams : ~(sock[s] = "open" /\ linked[s]) ]_vars
  <2> SUFFICES ASSUME TabInv, [Next]_vars, ~closed',
                      NEW i \in Calls, promise[i] = "pending", promise'[i] = "gone",
                      NEW s \in Streams, sock[s] = "open"
               PROVE  FALSE
    OBVIOUS
  <2>1. TypeOK /\ Slots
    BY DEF TabInv, IInv
  <2>2. timers = {}
    BY <2>1 DEF Slots, Held
  <2>3. promise' = promise \/ Call \/ \E j \in Calls : Result(j)
    <3>1. \A t \in Streams : ~HandleGone(t)
      BY <2>2 DEF HandleGone
    <3>2. ~Close
      BY DEF Close
    <3>3. QED
      BY <3>1, <3>2 DEF Next, HostStep, PageStep, vars, host, conn, tab, Connect, Attach,
         Abort, Ready, Launch, LaunchTimesOut, OtherPage, Boot, Receive, Answer,
         LosePost, Leave, Drop, LossyDrop
  <2>4. CASE Call
    BY <2>4, <2>1 DEF Call, TypeOK
  <2>5. ASSUME NEW j \in Calls, Result(j)
        PROVE  FALSE
    BY <2>5, <2>1 DEF Result, TypeOK
  <2>6. QED
    BY <2>3, <2>4, <2>5
<1>2. QED
  BY <1>1, TabInvariant, PTL DEF Spec, NeverGivesUpOnAttached

(* With one tab that loses no result, though its announcements may come      *)
(* late: while a call has no page left to answer it, a grace timer is        *)
(* ticking or the host has an abort still to hear of.                       *)
THEOREM OrphansAreDecided ==
  Faults \subseteq {"latePost"} => (Spec => []OrphansAwaitVerdict)
<1> SUFFICES ASSUME Faults \subseteq {"latePost"} PROVE Spec => []OrphansAwaitVerdict
  OBVIOUS
<1>1. OneTab /\ "lostPost" \notin Faults
  BY DEF OneTab
<1>2. TabInv => OrphansAwaitVerdict
  BY <1>1 DEF TabInv, Reach
<1>3. QED
  BY <1>1, <1>2, TabInvariant, PTL

=============================================================================
