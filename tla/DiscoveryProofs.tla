---------------------------- MODULE DiscoveryProofs ----------------------------
(***************************************************************************)
(* Theorems about Discovery, for any number of clients and daemons and any *)
(* faults.                                                                 *)
(***************************************************************************)
EXTENDS Discovery, TLAPS

-----------------------------------------------------------------------------
(* Types *)

(* The types hold for whatever record and daemon are found at first. *)
LEMMA TypeInit == Init => TypeOK
<1> SUFFICES ASSUME Init
             PROVE  TypeOK
  OBVIOUS
<1> USE DEF Engaged, InRequest, Running, Up
<1>1. /\ pc \in [Clients -> {"idle", "done", "failed"} \cup Engaged]
      /\ cmd \in [Clients -> {"build", "stop"}]
      /\ rec \in [Clients -> Daemons \cup {None}]
  BY DEF Init
<1>2. taken \in BOOLEAN /\ calm \in BOOLEAN
  BY DEF Init
<1>3. ASSUME NEW d \in Daemons, NEW p \in {"serving", "dead"}, Found(d, p)
      PROVE  /\ record \in Daemons \cup {None}
             /\ phase \in [Daemons -> {"unborn", "dead"} \cup Running]
  BY <1>3 DEF Found
<1>4. /\ record \in Daemons \cup {None}
      /\ phase \in [Daemons -> {"unborn", "dead"} \cup Running]
  <2>1. CASE record = None /\ phase = [d \in Daemons |-> "unborn"]
    BY <2>1
  <2>2. CASE \E d \in Daemons, p \in {"serving", "dead"} : Found(d, p)
    BY <1>3, <2>2
  <2>3. QED
    BY <2>1, <2>2, DiscoveryAssumption DEF Init
<1>5. QED
  BY <1>1, <1>2, <1>4 DEF TypeOK

(* A daemon that leaves keeps the types. *)
LEMMA ShutdownTypes ==
  ASSUME TypeOK, NEW d \in Daemons, Shutdown(d), calm' \in BOOLEAN
  PROVE  TypeOK'
  BY DEF TypeOK, Shutdown, Cut, Engaged, InRequest

(* Every step of clients, daemons and system keeps the types. *)
LEMMA TypeStep == TypeOK /\ [Next]_vars => TypeOK'
<1> SUFFICES ASSUME TypeOK, [Next]_vars
             PROVE  TypeOK'
  OBVIOUS
<1> USE DiscoveryAssumption DEF TypeOK, Engaged, InRequest, Running, Up, Goto
<1>1. ASSUME NEW c \in Clients, Ensure(c) \/ StopCommand(c)
      PROVE  TypeOK'
  <2>1. CASE Ensure(c)
    <3>1. \E where \in {"spawn", "probe", "clear"} : pc' = [pc EXCEPT ![c] = where]
      BY <2>1 DEF Ensure, WhenAbsent
    <3>2. rec' = [rec EXCEPT ![c] = record] /\ UNCHANGED <<record, phase, taken, cmd, calm>>
      BY <2>1 DEF Ensure, daemonVars
    <3>3. QED
      BY <3>1, <3>2
  <2>2. CASE StopCommand(c)
    BY <2>2 DEF StopCommand, daemonVars
  <2>3. QED
    BY <1>1, <2>1, <2>2
<1>2. ASSUME NEW c \in Clients,
             Probe(c) \/ Clear(c) \/ Poll(c) \/ PollProbe(c) \/ PollTimeout(c)
      PROVE  TypeOK'
  BY <1>2 DEF Probe, Clear, Poll, PollProbe, PollTimeout, daemonVars
<1>3. ASSUME NEW c \in Clients, Spawn(c) \/ Request(c) \/ Finish(c)
      PROVE  TypeOK'
  BY <1>3 DEF Spawn, Request, Finish, daemonVars
<1>4. ASSUME NEW c \in Clients, StopRead(c) \/ StopPost(c) \/ StopClear(c)
      PROVE  TypeOK'
  BY <1>4 DEF StopRead, StopPost, StopClear, AfterStop, daemonVars
<1>5. ASSUME NEW d \in Daemons, Listen(d) \/ ListenFails(d)
      PROVE  TypeOK'
  BY <1>5 DEF Listen, ListenFails, Recorded, RecordAfterRefusal, clientVars
<1>6. ASSUME NEW d \in Daemons,
             StopTimer(d) \/ Signal(d) \/ MaintainOrphan(d) \/ MaintainIdle(d)
      PROVE  TypeOK'
  <2>1. Shutdown(d) /\ calm' \in BOOLEAN
    BY <1>6 DEF StopTimer, Signal, MaintainOrphan, MaintainIdle
  <2>2. QED
    BY <2>1, ShutdownTypes
<1>7. ASSUME NEW d \in Daemons, Crash(d)
      PROVE  TypeOK'
  BY <1>7 DEF Crash, Cut
<1>8. CASE OneShotOpens \/ OneShotCloses
  BY <1>8 DEF OneShotOpens, OneShotCloses, clientVars
<1>9. CASE UNCHANGED vars
  BY <1>9 DEF vars, daemonVars, clientVars
<1>10. QED
  BY <1>1, <1>2, <1>3, <1>4, <1>5, <1>6, <1>7, <1>8, <1>9 DEF Next, ClientStep, DaemonStep

(* Record, processes and clients have their types. *)
THEOREM DiscoveryTypeCorrect == Spec => []TypeOK
  BY TypeInit, TypeStep, PTL DEF Spec

-----------------------------------------------------------------------------
(* The port is the lock the record file lacks: who answers holds it, whoever *)
(* writes or removes the record in a daemon's name holds it, and clients only *)
(* remove.                                                                  *)
OneAnswers == \A d, e \in Daemons : Answers(d) /\ Answers(e) => d = e

PortInv == TypeOK /\ OneAnswers /\ OwnAdvertisement

(* Initially the record names the daemon that answers, if one does. *)
LEMMA PortInit == Init => PortInv
  BY TypeInit DEF Init, Found, PortInv, OneAnswers, OwnAdvertisement, Answers, Up

(* The port is taken before the record is written and left after it is       *)
(* removed.                                                                  *)
LEMMA PortStep == PortInv /\ [Next]_vars => PortInv'
<1> SUFFICES ASSUME PortInv, [Next]_vars
             PROVE  PortInv'
  OBVIOUS
<1>t. TypeOK'
  BY TypeStep DEF PortInv
<1> USE DEF PortInv, TypeOK, OneAnswers, OwnAdvertisement, Answers, Up
<1>1. ASSUME NEW c \in Clients,
             \/ Ensure(c) \/ StopCommand(c) \/ Probe(c) \/ Poll(c) \/ PollProbe(c)
             \/ PollTimeout(c) \/ Request(c) \/ Finish(c) \/ StopRead(c)
      PROVE  (OneAnswers /\ OwnAdvertisement)'
  <2>1. UNCHANGED <<phase, record>>
    BY <1>1 DEF Ensure, StopCommand, Probe, Poll, PollProbe, PollTimeout, Request, Finish,
                StopRead, daemonVars
  <2>2. QED
    BY <2>1
<1>2. ASSUME NEW c \in Clients, Clear(c) \/ StopClear(c)
      PROVE  (OneAnswers /\ OwnAdvertisement)'
  BY <1>2 DEF Clear, StopClear, daemonVars
<1>3. ASSUME NEW c \in Clients, Spawn(c) \/ StopPost(c)
      PROVE  (OneAnswers /\ OwnAdvertisement)'
  <2>1. record' = record /\ \A d \in Daemons : Answers(d)' => Answers(d)
    BY <1>3 DEF Spawn, StopPost
  <2>2. QED
    BY <2>1
<1>4. ASSUME NEW d \in Daemons, Listen(d)
      PROVE  (OneAnswers /\ OwnAdvertisement)'
  BY <1>4 DEF Listen, Recorded, PortFree, Listening
<1>5. ASSUME NEW d \in Daemons, ListenFails(d)
      PROVE  (OneAnswers /\ OwnAdvertisement)'
  BY <1>5 DEF ListenFails, RecordAfterRefusal
<1>6. ASSUME NEW d \in Daemons,
             StopTimer(d) \/ Signal(d) \/ MaintainOrphan(d) \/ MaintainIdle(d)
      PROVE  (OneAnswers /\ OwnAdvertisement)'
  <2>1. Shutdown(d)
    BY <1>6 DEF StopTimer, Signal, MaintainOrphan, MaintainIdle
  <2>2. QED
    BY <2>1 DEF Shutdown
<1>7. ASSUME NEW d \in Daemons, Crash(d)
      PROVE  (OneAnswers /\ OwnAdvertisement)'
  BY <1>7 DEF Crash
<1>8. CASE OneShotOpens \/ OneShotCloses \/ UNCHANGED vars
  <2>1. UNCHANGED <<phase, record>>
    BY <1>8 DEF OneShotOpens, OneShotCloses, vars, daemonVars
  <2>2. QED
    BY <1>t, <2>1
<1>9. QED
  BY <1>t, <1>1, <1>2, <1>3, <1>4, <1>5, <1>6, <1>7, <1>8 DEF Next, ClientStep, DaemonStep

(* While a daemon answers, the record names it or nothing: no shutdown      *)
(* removes the advertisement of a successor, and no daemon that answers is  *)
(* hidden behind the record of another.                                     *)
THEOREM AdvertisementIsOwn == Spec => []OwnAdvertisement
<1>1. PortInv => OwnAdvertisement
  BY DEF PortInv
<1>2. QED
  BY <1>1, PortInit, PortStep, PTL DEF Spec

-----------------------------------------------------------------------------
(* Superseded daemons.  The facts below are about clients of one version:   *)
(* with two, discovery_versions.cfg shows one that builds with the other's  *)
(* daemon.                                                                  *)

(* A daemon of another version than the client's is then an old one. *)
LEMMA OneVersion ==
  ASSUME OldClients = {}, NEW c \in Clients, NEW d
  PROVE  Mismatch(c, d) <=> d \in Old
  BY DEF Mismatch

(* Once a client has written the record off, or found none, no record names *)
(* a superseded daemon any more: only new ones are started.                 *)
Superseded ==
  /\ \A d \in Old : phase[d] # "starting"
  /\ \A c \in Clients :
       /\ pc[c] \in {"spawn"} \cup Polling => record \notin Old
       /\ pc[c] \in {"pollProbe", "have", "building"} => rec[c] \notin Old

(* Initially no client trusts a record. *)
LEMMA SupersededInit == Init => Superseded
  BY DiscoveryAssumption DEF Init, Found, Superseded, Polling

(* Once a client has written a daemon off, no record of its version comes    *)
(* back.                                                                     *)
LEMMA SupersededStep ==
  ASSUME OldClients = {}
  PROVE  TypeOK /\ Superseded /\ [Next]_vars => Superseded'
<1> SUFFICES ASSUME TypeOK, Superseded, [Next]_vars
             PROVE  Superseded'
  OBVIOUS
<1> USE DiscoveryAssumption DEF TypeOK, Superseded, Polling, Goto
<1>0. None \notin Old
  OBVIOUS
<1>1. ASSUME NEW c \in Clients,
             \/ Ensure(c) \/ StopCommand(c) \/ Probe(c) \/ Poll(c) \/ PollProbe(c)
             \/ PollTimeout(c) \/ Request(c) \/ Finish(c) \/ StopRead(c)
      PROVE  Superseded'
  <2>1. UNCHANGED <<phase, record>>
    BY <1>1 DEF Ensure, StopCommand, Probe, Poll, PollProbe, PollTimeout, Request, Finish,
                StopRead, daemonVars
  <2>2. \A e \in Clients : e # c => pc'[e] = pc[e] /\ rec'[e] = rec[e]
    BY <1>1 DEF Ensure, StopCommand, Probe, Poll, PollProbe, PollTimeout, Request, Finish,
                StopRead
  <2>3. pc'[c] \in {"spawn"} \cup Polling => record \notin Old
    BY <1>0, <1>1 DEF Ensure, StopCommand, Probe, Poll, PollProbe, PollTimeout, Request,
                      Finish, StopRead, WhenAbsent, AfterStop
  <2>4. pc'[c] \in {"pollProbe", "have", "building"} => rec'[c] \notin Old
    BY <1>1, OneVersion DEF Ensure, StopCommand, Probe, Poll, PollProbe, PollTimeout,
                            Request, Finish, StopRead, WhenAbsent, AfterStop
  <2>5. QED
    BY <2>1, <2>2, <2>3, <2>4
<1>2. ASSUME NEW c \in Clients, Clear(c) \/ StopClear(c)
      PROVE  Superseded'
  BY <1>0, <1>2 DEF Clear, StopClear, AfterStop, daemonVars
<1>3. ASSUME NEW c \in Clients, Spawn(c)
      PROVE  Superseded'
  BY <1>3, OneVersion DEF Spawn
<1>4. ASSUME NEW c \in Clients, StopPost(c)
      PROVE  Superseded'
  BY <1>4 DEF StopPost, AfterStop
<1>5. ASSUME NEW d \in Daemons, Listen(d) \/ ListenFails(d)
      PROVE  Superseded'
  BY <1>5 DEF Listen, ListenFails, Recorded, RecordAfterRefusal, clientVars
<1>6. ASSUME NEW d \in Daemons,
             StopTimer(d) \/ Signal(d) \/ MaintainOrphan(d) \/ MaintainIdle(d)
      PROVE  Superseded'
  <2>1. Shutdown(d)
    BY <1>6 DEF StopTimer, Signal, MaintainOrphan, MaintainIdle
  <2>2. QED
    BY <1>0, <2>1 DEF Shutdown, Cut
<1>7. ASSUME NEW d \in Daemons, Crash(d)
      PROVE  Superseded'
  BY <1>7 DEF Crash, Cut
<1>8. CASE OneShotOpens \/ OneShotCloses \/ UNCHANGED vars
  BY <1>8 DEF OneShotOpens, OneShotCloses, vars, daemonVars, clientVars
<1>9. QED
  BY <1>1, <1>2, <1>3, <1>4, <1>5, <1>6, <1>7, <1>8 DEF Next, ClientStep, DaemonStep

(* Whatever clients of one version and daemons do at the same time, no      *)
(* client builds with a daemon of another version.                          *)
THEOREM NeverSuperseded ==
  ASSUME OldClients = {}
  PROVE  Spec => []NoSupersededDaemon
<1>1. Superseded => NoSupersededDaemon
  BY OneVersion DEF Superseded, NoSupersededDaemon
<1>2. QED
  BY <1>1, TypeInit, TypeStep, SupersededInit, SupersededStep, PTL DEF Spec

-----------------------------------------------------------------------------
(* Calm weather *)

(* As long as no fault happens the record and the daemon that answers are   *)
(* the same, clients know it, and one that waits for a daemon waits for one *)
(* that is starting or recorded.                                            *)
CalmInv ==
  calm =>
    /\ ~taken
    /\ \A d \in Old : phase[d] # "starting"
    /\ record \notin Old
    /\ \A d \in Daemons : phase[d] = "serving" <=> record = d
    /\ \A d \in Daemons : phase[d] # "stopping"
    /\ \A c \in Clients : pc[c] \in {"idle", "probe", "spawn", "have", "building", "done"}
                                      \cup Polling
    /\ \A c \in Clients : pc[c] \in InRequest => rec[c] = record /\ record # None
    /\ (\E c \in Clients : pc[c] \in Polling)
         => record # None \/ \E d \in Daemons : phase[d] = "starting"

(* Initially the record is right. *)
LEMMA CalmInit == Init => CalmInv
  BY DiscoveryAssumption DEF Init, Found, CalmInv, InRequest, Polling

(* While nothing has failed, the record stays right and no client takes a    *)
(* failing path.                                                             *)
LEMMA CalmStep ==
  ASSUME OldClients = {}
  PROVE  TypeOK /\ CalmInv /\ [Next]_vars => CalmInv'
<1> SUFFICES ASSUME TypeOK, CalmInv, [Next]_vars, calm'
             PROVE  CalmInv'
  BY DEF CalmInv
<1> USE DiscoveryAssumption DEF TypeOK, Goto, InRequest, Polling, Answers, Up
<1>0. calm
  BY DEF Next, ClientStep, DaemonStep, vars, Ensure, StopCommand, Probe, Clear, Spawn, Poll,
         PollProbe, PollTimeout, Request, Finish, StopRead, StopPost, StopClear, Listen,
         ListenFails, StopTimer, Signal, MaintainOrphan, MaintainIdle, Crash, OneShotOpens,
         OneShotCloses
<1>1. ASSUME NEW c \in Clients,
             Ensure(c) \/ Probe(c) \/ Request(c) \/ Finish(c)
      PROVE  CalmInv'
  <2>1. UNCHANGED <<phase, record, taken>>
    BY <1>1 DEF Ensure, Probe, Request, Finish, daemonVars
  <2>2. \A e \in Clients : e # c => pc'[e] = pc[e] /\ rec'[e] = rec[e]
    BY <1>1 DEF Ensure, Probe, Request, Finish
  <2>3. /\ pc'[c] \in {"probe", "spawn", "have", "building", "done"}
        /\ pc'[c] \in InRequest => rec'[c] = record /\ record # None
    BY <1>0, <1>1, OneVersion DEF Ensure, Probe, Request, Finish, WhenAbsent, CalmInv,
                                  Running
  <2>4. QED
    BY <1>0, <2>1, <2>2, <2>3 DEF CalmInv
<1>2. ASSUME NEW c \in Clients, Poll(c) \/ PollProbe(c)
      PROVE  CalmInv'
  <2>1. UNCHANGED <<phase, record, taken>>
    BY <1>2 DEF Poll, PollProbe, daemonVars
  <2>2. \A e \in Clients : e # c => pc'[e] = pc[e] /\ rec'[e] = rec[e]
    BY <1>2 DEF Poll, PollProbe
  <2>3. pc'[c] \in {"pollProbe", "have"} /\ rec'[c] = record /\ record # None
    BY <1>0, <1>2 DEF Poll, PollProbe, CalmInv
  <2>4. QED
    BY <1>0, <2>1, <2>2, <2>3 DEF CalmInv
<1>3. ASSUME NEW c \in Clients,
             StopCommand(c) \/ Clear(c) \/ StopRead(c) \/ StopPost(c) \/ StopClear(c)
      PROVE  FALSE
  BY <1>0, <1>3 DEF StopCommand, Clear, StopRead, StopPost, StopClear, CalmInv
<1>4. ASSUME NEW c \in Clients, PollTimeout(c)
      PROVE  FALSE
  BY <1>0, <1>4 DEF PollTimeout, CalmInv
<1>5. ASSUME NEW c \in Clients, Spawn(c)
      PROVE  CalmInv'
  <2>1. PICK d \in Daemons \ Old : phase[d] = "unborn" /\ phase' = [phase EXCEPT ![d] = "starting"]
    BY <1>5, OneVersion DEF Spawn
  <2>2. UNCHANGED <<record, taken, rec>> /\ pc' = [pc EXCEPT ![c] = "poll"]
    BY <1>5 DEF Spawn
  <2>3. phase'[d] = "starting"
    BY <2>1
  <2>4. QED
    BY <1>0, <2>1, <2>2, <2>3 DEF CalmInv
<1>6. ASSUME NEW d \in Daemons, Listen(d)
      PROVE  CalmInv'
  <2>1. \A e \in Daemons : phase[e] \notin Up
    BY <1>6 DEF Listen, PortFree, Listening
  <2>2. record = None
    BY <1>0, <2>1 DEF CalmInv
  <2>3. /\ phase' = [phase EXCEPT ![d] = "serving"] /\ record' = d
        /\ UNCHANGED <<taken, pc, rec>> /\ phase[d] = "starting"
    BY <1>6 DEF Listen, Recorded, clientVars
  <2>4. QED
    BY <1>0, <2>1, <2>2, <2>3 DEF CalmInv
<1>7. ASSUME NEW d \in Daemons, ListenFails(d)
      PROVE  CalmInv'
  <2>1. record # None
    BY <1>0, <1>7 DEF ListenFails, PortFree, Listening, CalmInv
  <2>2. /\ phase' = [phase EXCEPT ![d] = "dead"] /\ phase[d] = "starting"
        /\ UNCHANGED <<record, taken, pc, rec>>
    BY <1>7 DEF ListenFails, RecordAfterRefusal, clientVars
  <2>3. QED
    BY <1>0, <2>1, <2>2 DEF CalmInv
<1>8. ASSUME NEW d \in Daemons,
             StopTimer(d) \/ Signal(d) \/ MaintainOrphan(d) \/ MaintainIdle(d) \/ Crash(d)
      PROVE  FALSE
  BY <1>0, <1>8 DEF StopTimer, Signal, MaintainOrphan, MaintainIdle, Crash, Shutdown,
                    Orphaned, CalmInv
<1>9. CASE OneShotOpens \/ OneShotCloses \/ UNCHANGED vars
  BY <1>0, <1>9 DEF OneShotOpens, OneShotCloses, vars, daemonVars, clientVars, CalmInv
<1>10. QED
  BY <1>1, <1>2, <1>3, <1>4, <1>5, <1>6, <1>7, <1>8, <1>9 DEF Next, ClientStep, DaemonStep

(* However many clients of one version run at once and however they         *)
(* overlap, none fails while nobody stops a daemon and nothing breaks.      *)
THEOREM CalmNeverFails ==
  ASSUME OldClients = {}
  PROVE  Spec => []FailsForAReason
<1>1. CalmInv => FailsForAReason
  BY DEF CalmInv, FailsForAReason, Polling
<1>2. QED
  BY <1>1, TypeInit, TypeStep, CalmInit, CalmStep, PTL DEF Spec
=============================================================================
