----------------------------- MODULE DaemonProofs -----------------------------
(***************************************************************************)
(* Theorems about Daemon, for any number of projects, requests and         *)
(* sessions.                                                               *)
(***************************************************************************)
EXTENDS Daemon, TLAPS

USE DaemonAssumption DEF Ids

-----------------------------------------------------------------------------
(* Types *)

(* The daemon starts with its types. *)
LEMMA TypeInit == Init => TypeOK
<1> SUFFICES ASSUME Init
             PROVE  TypeOK
  OBVIOUS
<1>1. nextSessionId \in 0..MaxSessions /\ excused \subseteq Requests
  BY DEF Init
<1>2. /\ sessions \in [Projects -> Ids \cup {None}]
      /\ source \in [Ids -> Projects \cup {None}]
      /\ link \in [Ids -> {"open", "closed"}]
      /\ proj \in [Requests -> Projects \cup {None}]
      /\ session \in [Requests -> Ids \cup {None}]
  BY DEF Init
<1>3. QED
  BY <1>1, <1>2 DEF Init, TypeOK

(* A request in flight has the session it works in. *)
Routed == \A b \in Requests : InFlight(b) => proj[b] \in Projects /\ session[b] \in Ids

Typed == TypeOK /\ Routed

(* Ending builds keeps the requests' types, and routes no other anywhere. *)
LEMMA EndTypes ==
  ASSUME Typed, NEW B \in SUBSET Requests, End(B)
  PROVE  /\ at' \in [Requests -> {"unsent", "attaching", "working", "over"}]
         /\ proj' \in [Requests -> Projects \cup {None}]
         /\ session' \in [Requests -> Ids \cup {None}]
         /\ excused' \subseteq Requests
         /\ Routed'
<1> USE DEF Typed, TypeOK
<1>1. \A b \in Requests : at'[b] = IF b \in B THEN "over" ELSE at[b]
  BY DEF End
<1>2. \A b \in Requests \ B : proj'[b] = proj[b] /\ session'[b] = session[b]
  BY DEF End
<1>3. Routed'
  BY <1>1, <1>2 DEF Routed, InFlight
<1>4. QED
  BY <1>3 DEF End

(* Closing sessions keeps the types. *)
LEMMA CloseTypes ==
  ASSUME TypeOK, NEW S
  PROVE  /\ LinkAfterClose(S) \in [Ids -> {"open", "closed"}]
         /\ PageAfterClose(S) \in [Ids -> BOOLEAN]
         /\ RunnerAfterClose(S) \in [Ids -> BOOLEAN]
  BY DEF TypeOK, LinkAfterClose, PageAfterClose, RunnerAfterClose

(* A stop, whoever asks for it, keeps them. *)
LEMMA ShutdownTypes ==
  ASSUME Typed, Shutdown
  PROVE  Typed'
<1> DEFINE closed == {s \in Ids : Listed(s)}
           B == {b \in Requests : InFlight(b)}
<1>1. /\ link' = LinkAfterClose(closed) /\ runner' = RunnerAfterClose(closed)
      /\ page' = [s \in Ids |-> FALSE] /\ sessions' = [p \in Projects |-> None]
      /\ up' = FALSE /\ advertised' = FALSE
      /\ UNCHANGED <<nextSessionId, source, poisoned, unused, idle>>
  BY DEF Shutdown
<1>2. End(B)
  BY DEF Shutdown
<1>3. /\ link' \in [Ids -> {"open", "closed"}]
      /\ runner' \in [Ids -> BOOLEAN]
  BY <1>1, CloseTypes DEF Typed
<1>4. /\ at' \in [Requests -> {"unsent", "attaching", "working", "over"}]
      /\ proj' \in [Requests -> Projects \cup {None}]
      /\ session' \in [Requests -> Ids \cup {None}]
      /\ excused' \subseteq Requests
      /\ Routed'
  <2>1. B \in SUBSET Requests
    OBVIOUS
  <2> HIDE DEF B
  <2>2. QED
    BY <1>2, <2>1, EndTypes
<1> HIDE DEF closed, B
<1>5. QED
  BY <1>1, <1>3, <1>4 DEF Typed, TypeOK

(* A build's end keeps them. *)
LEMMA AnswerTypes ==
  ASSUME Typed, NEW b \in Requests, NEW outcome, Answer(b, outcome)
  PROVE  Typed'
<1>1. End({b})
  BY DEF Answer
<1>2. /\ at' \in [Requests -> {"unsent", "attaching", "working", "over"}]
      /\ proj' \in [Requests -> Projects \cup {None}]
      /\ session' \in [Requests -> Ids \cup {None}]
      /\ excused' \subseteq Requests
      /\ Routed'
  BY <1>1, EndTypes
<1>3. poisoned' \in [Ids -> BOOLEAN] /\ unused' \in [Ids -> BOOLEAN]
  BY DEF Answer, Typed, TypeOK
<1>4. idle' = FALSE /\ UNCHANGED <<sessions, nextSessionId, source, link, page, runner,
                                   up, advertised>>
  BY DEF Answer
<1>5. QED
  BY <1>2, <1>3, <1>4 DEF Typed, TypeOK

(* A build that arrives keeps them: it is given a session that is there, or *)
(* a new one.                                                               *)
LEMMA BuildTypes ==
  ASSUME Typed, NEW b \in Requests, NEW p \in Projects, NEW fresh \in BOOLEAN,
         Build(b, p, fresh)
  PROVE  Typed'
<1> USE DEF Typed, TypeOK
<1>1. /\ proj' = [proj EXCEPT ![b] = p] /\ excused' = Meets(b, p)
      /\ idle' = FALSE /\ UNCHANGED <<up, advertised>>
  BY DEF Build, TouchOnArrival
<1>2. proj' \in [Requests -> Projects \cup {None}] /\ excused' \subseteq Requests
  BY <1>1 DEF Meets, Building
<1>3. CASE Reuse(b, p, fresh)
  <2>1. /\ sessions[p] \in Ids
        /\ at' = [at EXCEPT ![b] = Start(sessions[p])]
        /\ session' = [session EXCEPT ![b] = sessions[p]]
        /\ unused' = [unused EXCEPT ![sessions[p]] = FALSE]
        /\ UNCHANGED <<sessions, nextSessionId, source, link, page, runner, poisoned>>
    BY <1>3 DEF Reuse, UsedAtStart
  <2>2. Start(sessions[p]) \in {"working", "attaching"}
    BY DEF Start
  <2>3. TypeOK'
    BY <1>1, <1>2, <2>1, <2>2
  <2>4. Routed'
    BY <1>1, <2>1, <2>2 DEF Routed, InFlight
  <2>5. QED
    BY <2>3, <2>4
<1>4. CASE Replace(b, p, fresh)
  <2> DEFINE closed == {sessions[p]} \ {None}
  <2>1. /\ nextSessionId \in Ids
        /\ link' = LinkAfterClose(closed) /\ page' = PageAfterClose(closed)
        /\ runner' = RunnerAfterClose(closed)
        /\ source' = [source EXCEPT ![nextSessionId] = p]
        /\ sessions' = [sessions EXCEPT ![p] = nextSessionId]
        /\ nextSessionId' = nextSessionId + 1
        /\ at' = [at EXCEPT ![b] = "attaching"]
        /\ session' = [session EXCEPT ![b] = nextSessionId]
        /\ unused' = [unused EXCEPT ![nextSessionId] = FALSE]
        /\ UNCHANGED poisoned
    BY <1>4 DEF Replace, UsedAtStart, NewId
  <2>2. nextSessionId' \in 0..MaxSessions
    BY <2>1
  <2>3. /\ link' \in [Ids -> {"open", "closed"}]
        /\ page' \in [Ids -> BOOLEAN] /\ runner' \in [Ids -> BOOLEAN]
    BY <2>1, CloseTypes
  <2> HIDE DEF closed
  <2>4. TypeOK'
    BY <1>1, <1>2, <2>1, <2>2, <2>3
  <2>5. Routed'
    BY <1>1, <2>1 DEF Routed, InFlight
  <2>6. QED
    BY <2>4, <2>5
<1>5. QED
  BY <1>3, <1>4 DEF Build

(* Every step of the routes, the pages, time and maintenance keeps them. *)
LEMMA TypeStep == Typed /\ [Next]_vars => Typed'
<1> SUFFICES ASSUME Typed, [Next]_vars
             PROVE  Typed'
  OBVIOUS
<1>1. ASSUME NEW b \in Requests, NEW why \in Refusals, Refuse(b, why)
      PROVE  Typed'
  BY <1>1 DEF Refuse, sessionVars, Typed, TypeOK, Routed, InFlight
<1>2. ASSUME NEW b \in Requests, AttachResolves(b)
      PROVE  Typed'
  BY <1>2 DEF AttachResolves, daemonVars, Typed, TypeOK, Routed, InFlight
<1>3. ASSUME NEW b \in Requests, NEW outcome \in Outcomes,
             AttachFails(b, outcome) \/ Finish(b, outcome)
      PROVE  Typed'
  BY <1>3, AnswerTypes DEF AttachFails, Finish
<1>4. CASE Touch \/ RecordLost
  BY <1>4 DEF Touch, RecordLost, sessionVars, requestVars, Typed, TypeOK, Routed, InFlight
<1>5. CASE Lapse
  BY <1>5 DEF Lapse, requestVars, Typed, TypeOK, Routed, InFlight
<1>6. ASSUME NEW s \in Ids, PageOpens(s)
      PROVE  Typed'
  BY <1>6 DEF PageOpens, requestVars, daemonVars, Typed, TypeOK, Routed, InFlight
<1>7. ASSUME NEW s \in Ids, PageLeaves(s)
      PROVE  Typed'
  <2> DEFINE waiting == {b \in Requests : at[b] = "attaching" /\ session[b] = s}
  <2>1. /\ page' \in [Ids -> BOOLEAN] /\ runner' \in [Ids -> BOOLEAN]
        /\ UNCHANGED <<sessions, nextSessionId, source, link, poisoned, up, advertised>>
    BY <1>7 DEF PageLeaves, Typed, TypeOK
  <2>2. unused' \in [Ids -> BOOLEAN] /\ idle' \in BOOLEAN
    <3>1. CASE waiting = {}
      BY <1>7, <3>1 DEF PageLeaves, Typed, TypeOK
    <3>2. CASE waiting # {}
      BY <1>7, <3>2 DEF PageLeaves, Typed, TypeOK
    <3>3. QED
      BY <3>1, <3>2
  <2>3. End(waiting)
    BY <1>7 DEF PageLeaves
  <2>4. waiting \in SUBSET Requests
    OBVIOUS
  <2> HIDE DEF waiting
  <2>5. /\ at' \in [Requests -> {"unsent", "attaching", "working", "over"}]
        /\ proj' \in [Requests -> Projects \cup {None}]
        /\ session' \in [Requests -> Ids \cup {None}]
        /\ excused' \subseteq Requests
        /\ Routed'
    BY <2>3, <2>4, EndTypes
  <2>6. QED
    BY <2>1, <2>2, <2>5 DEF Typed, TypeOK
<1>8. CASE Stop \/ MaintainStops
  BY <1>8, ShutdownTypes DEF Stop, MaintainStops
<1>9. ASSUME NEW s \in Ids, MaintainCloses(s)
      PROVE  Typed'
  <2>1. /\ sessions' = [p \in Projects |-> IF sessions[p] = s THEN None ELSE sessions[p]]
        /\ link' = LinkAfterClose({s}) /\ page' = PageAfterClose({s})
        /\ runner' = RunnerAfterClose({s})
        /\ UNCHANGED <<nextSessionId, source, poisoned, unused, at, proj, session, idle,
                       up, advertised, excused>>
    BY <1>9 DEF MaintainCloses, requestVars, daemonVars
  <2>2. /\ link' \in [Ids -> {"open", "closed"}]
        /\ page' \in [Ids -> BOOLEAN] /\ runner' \in [Ids -> BOOLEAN]
    BY <2>1, CloseTypes DEF Typed
  <2>3. QED
    BY <2>1, <2>2 DEF Typed, TypeOK, Routed, InFlight
<1>10. CASE UNCHANGED vars
  BY <1>10 DEF vars, sessionVars, requestVars, daemonVars, Typed, TypeOK, Routed, InFlight
<1>11. QED
  BY BuildTypes, <1>1, <1>2, <1>3, <1>4, <1>5, <1>6, <1>7, <1>8, <1>9, <1>10
  DEF Next, Maintain

(* The map, the sessions, the requests and the daemon have their types. *)
THEOREM DaemonTypeCorrect == Spec => []TypeOK
<1>1. Init => Routed
  BY DEF Init, Routed, InFlight
<1>2. Init => Typed
  BY <1>1, TypeInit DEF Typed
<1>3. Typed => TypeOK
  BY DEF Typed
<1>4. QED
  BY <1>2, <1>3, TypeStep, PTL DEF Spec

-----------------------------------------------------------------------------
(* Ids are handed out once: what is known of a session beyond the last id   *)
(* is nothing, and the map names sessions by the project they were made for. *)
IdsAreFresh ==
  /\ \A s \in Ids : s >= nextSessionId => source[s] = None /\ ~poisoned[s]
  /\ \A p \in Projects : sessions[p] # None => source[sessions[p]] = p
  /\ \A b \in Requests : InFlight(b) => source[session[b]] = proj[b]

(* What a build may count on that met no other of its project and did not   *)
(* outlast idleMs: it is alone, its session is the listed one, neither the  *)
(* session nor the daemon looks unused, and nothing has poisoned it.        *)
Undisturbed(b) ==
  /\ \A c \in Requests : InFlight(c) /\ proj[c] = proj[b] => c = b
  /\ sessions[proj[b]] = session[b]
  /\ ~poisoned[session[b]] /\ ~unused[session[b]] /\ ~idle

DaemonInv ==
  /\ Typed /\ IdsAreFresh
  /\ \A b \in Requests : InFlight(b) /\ b \notin excused => Undisturbed(b)

(* A daemon starts without sessions and without builds. *)
LEMMA DaemonInit == Init => DaemonInv
<1>1. Init => Routed /\ IdsAreFresh
  BY DEF Init, Routed, IdsAreFresh, InFlight
<1>2. QED
  BY <1>1, TypeInit DEF Init, DaemonInv, Typed, InFlight

(* Sessions are made for one project, and forgotten under no other. *)
LEMMA FreshBuild ==
  ASSUME Typed, IdsAreFresh, NEW b \in Requests, NEW p \in Projects,
         NEW fresh \in BOOLEAN, Build(b, p, fresh)
  PROVE  IdsAreFresh'
<1> USE DEF Typed, TypeOK, Routed, InFlight
<1>1. proj' = [proj EXCEPT ![b] = p]
  BY DEF Build
<1>2. CASE Reuse(b, p, fresh)
  <2>1. /\ sessions[p] \in Ids
        /\ at' = [at EXCEPT ![b] = Start(sessions[p])]
        /\ session' = [session EXCEPT ![b] = sessions[p]]
        /\ UNCHANGED <<sessions, nextSessionId, source, poisoned>>
    BY <1>2 DEF Reuse
  <2>2. \A c \in Requests : c # b => /\ at'[c] = at[c] /\ proj'[c] = proj[c]
                                     /\ session'[c] = session[c]
    BY <1>1, <2>1
  <2>3. proj'[b] = p /\ session'[b] = sessions[p] /\ source[sessions[p]] = p
    BY <1>1, <2>1 DEF IdsAreFresh
  <2>4. QED
    BY <2>1, <2>2, <2>3 DEF IdsAreFresh
<1>3. CASE Replace(b, p, fresh)
  <2>1. /\ nextSessionId \in Ids
        /\ source' = [source EXCEPT ![nextSessionId] = p]
        /\ sessions' = [sessions EXCEPT ![p] = nextSessionId]
        /\ nextSessionId' = nextSessionId + 1
        /\ at' = [at EXCEPT ![b] = "attaching"]
        /\ session' = [session EXCEPT ![b] = nextSessionId]
        /\ UNCHANGED poisoned
    BY <1>3 DEF Replace, NewId
  <2>2. source[nextSessionId] = None
    BY <2>1 DEF IdsAreFresh
  <2>3. \A s \in Ids : source[s] # None => source'[s] = source[s]
    BY <2>1, <2>2
  <2>4. \A s \in Ids : s >= nextSessionId' => source'[s] = None /\ ~poisoned'[s]
    <3>1. \A s \in Ids : s >= nextSessionId + 1 => s >= nextSessionId /\ s # nextSessionId
      OBVIOUS
    <3>2. QED
      BY <2>1, <3>1 DEF IdsAreFresh
  <2>5. \A q \in Projects : sessions'[q] # None => source'[sessions'[q]] = q
    <3> SUFFICES ASSUME NEW q \in Projects, sessions'[q] # None
                 PROVE  source'[sessions'[q]] = q
      OBVIOUS
    <3>1. CASE q = p
      BY <2>1, <3>1
    <3>2. CASE q # p
      BY <2>1, <2>3, <3>2 DEF IdsAreFresh
    <3>3. QED
      BY <3>1, <3>2
  <2>6. \A c \in Requests : InFlight(c)' => source'[session'[c]] = proj'[c]
    <3> SUFFICES ASSUME NEW c \in Requests, InFlight(c)'
                 PROVE  source'[session'[c]] = proj'[c]
      OBVIOUS
    <3>1. CASE c = b
      BY <1>1, <2>1, <3>1
    <3>2. CASE c # b
      <4>1. InFlight(c) /\ session'[c] = session[c] /\ proj'[c] = proj[c]
        BY <1>1, <2>1, <3>2
      <4>2. source[session[c]] = proj[c] /\ session[c] \in Ids /\ proj[c] \in Projects
        BY <4>1 DEF IdsAreFresh
      <4>3. QED
        BY <2>3, <4>1, <4>2
    <3>3. QED
      BY <3>1, <3>2
  <2>7. QED
    BY <2>4, <2>5, <2>6 DEF IdsAreFresh
<1>4. QED
  BY <1>2, <1>3 DEF Build

(* What ending builds leaves of the others. *)
LEMMA EndLeaves ==
  ASSUME Typed, NEW B \in SUBSET Requests, End(B)
  PROVE  /\ \A c \in Requests : InFlight(c)' =>
              InFlight(c) /\ c \notin B /\ proj'[c] = proj[c] /\ session'[c] = session[c]
         /\ \A c \in Requests : c \notin excused' => c \in B \/ c \notin excused
<1>1. \A b \in Requests : at'[b] = IF b \in B THEN "over" ELSE at[b]
  BY DEF End
<1>2. \A b \in Requests \ B : proj'[b] = proj[b] /\ session'[b] = session[b]
  BY DEF End
<1>3. excused' = excused \ B
  BY DEF End
<1>4. QED
  BY <1>1, <1>2, <1>3 DEF InFlight

(* A step that makes no session and puts no build in flight keeps the ids   *)
(* fresh, as long as it poisons none but a session a build works in.        *)
LEMMA FreshFrame ==
  ASSUME Typed, IdsAreFresh,
         UNCHANGED <<nextSessionId, source>>,
         \A p \in Projects : sessions'[p] \in {sessions[p], None},
         \A s \in Ids : poisoned'[s] => poisoned[s] \/ source[s] # None,
         \A c \in Requests : InFlight(c)' =>
           InFlight(c) /\ proj'[c] = proj[c] /\ session'[c] = session[c]
  PROVE  IdsAreFresh'
  BY DEF IdsAreFresh

(* The other steps that leave an undisturbed build undisturbed: they end it, *)
(* or they touch neither its session, nor the map's entry for it, nor make   *)
(* anything look unused.                                                     *)
LEMMA UndisturbedFrame ==
  ASSUME DaemonInv,
         \A c \in Requests : InFlight(c)' =>
           InFlight(c) /\ proj'[c] = proj[c] /\ session'[c] = session[c],
         NEW b \in Requests, InFlight(b)', b \notin excused,
         sessions'[proj[b]] = sessions[proj[b]],
         ~poisoned'[session[b]], ~unused'[session[b]], ~idle'
  PROVE  Undisturbed(b)'
<1>1. Undisturbed(b) /\ InFlight(b)
  BY DEF DaemonInv
<1>2. QED
  BY <1>1 DEF Undisturbed

(* A build that arrives alone is undisturbed, and disturbs nobody. *)
LEMMA BuildStep ==
  ASSUME DaemonInv, NEW b \in Requests, NEW p \in Projects, NEW fresh \in BOOLEAN,
         Build(b, p, fresh)
  PROVE  DaemonInv'
<1>1. Typed' /\ IdsAreFresh'
  BY BuildTypes, FreshBuild DEF DaemonInv
<1> USE DEF Typed, TypeOK, Routed, InFlight
<1>2. /\ proj' = [proj EXCEPT ![b] = p] /\ excused' = Meets(b, p) /\ ~idle'
      /\ at[b] = "unsent"
  BY DEF Build, TouchOnArrival
<1>3. \A c \in Requests : c # b => /\ at'[c] = at[c] /\ proj'[c] = proj[c]
                                   /\ session'[c] = session[c]
  <2>1. CASE Reuse(b, p, fresh)
    BY <1>2, <2>1 DEF Reuse, DaemonInv
  <2>2. CASE Replace(b, p, fresh)
    BY <1>2, <2>2 DEF Replace, DaemonInv
  <2>3. QED
    BY <2>1, <2>2 DEF Build
<1>4. /\ sessions'[p] = session'[b] /\ proj'[b] = p
      /\ ~poisoned'[session'[b]] /\ ~unused'[session'[b]]
  <2>1. CASE Reuse(b, p, fresh)
    BY <1>2, <2>1 DEF Reuse, UsedAtStart, DaemonInv
  <2>2. CASE Replace(b, p, fresh)
    <3>1. nextSessionId \in Ids
      BY <2>2 DEF Replace, DaemonInv
    <3>2. ~poisoned[nextSessionId]
      BY <3>1 DEF DaemonInv, IdsAreFresh
    <3>3. QED
      BY <1>2, <2>2, <3>1, <3>2 DEF Replace, UsedAtStart, NewId, DaemonInv
  <2>3. QED
    BY <2>1, <2>2 DEF Build
<1>5. /\ \A q \in Projects : q # p => sessions'[q] = sessions[q]
      /\ poisoned' = poisoned
      /\ \A s \in Ids : ~unused[s] => ~unused'[s]
  <2>1. CASE Reuse(b, p, fresh)
    BY <2>1 DEF Reuse, UsedAtStart, DaemonInv
  <2>2. CASE Replace(b, p, fresh)
    BY <2>2 DEF Replace, UsedAtStart, DaemonInv
  <2>3. QED
    BY <2>1, <2>2 DEF Build
<1>6. ASSUME NEW c \in Requests, InFlight(c)', c \notin excused'
      PROVE  Undisturbed(c)'
  <2>1. CASE c = b
    <3>1. Building(p) = {}
      BY <1>2, <1>6, <2>1 DEF Meets
    <3>2. \A d \in Requests : InFlight(d)' /\ proj'[d] = p => d = b
      BY <1>3, <3>1 DEF Building
    <3>3. QED
      BY <1>2, <1>4, <2>1, <3>2 DEF Undisturbed
  <2>2. CASE c # b
    <3>1. InFlight(c) /\ proj'[c] = proj[c] /\ session'[c] = session[c]
      BY <1>3, <1>6, <2>2
    <3>2. c \notin excused /\ c \notin Building(p)
      BY <1>2, <1>6 DEF Meets
    <3>3. proj[c] # p
      BY <3>1, <3>2 DEF Building
    <3>4. Undisturbed(c)
      BY <3>1, <3>2 DEF DaemonInv
    <3>5. \A d \in Requests : InFlight(d)' /\ proj'[d] = proj[c] => d = c
      BY <1>2, <1>3, <3>3, <3>4 DEF Undisturbed, DaemonInv
    <3>6. /\ sessions'[proj[c]] = session[c] /\ ~poisoned'[session[c]]
          /\ ~unused'[session[c]]
      BY <1>5, <3>1, <3>3, <3>4 DEF Undisturbed, DaemonInv
    <3>7. QED
      BY <1>2, <3>1, <3>5, <3>6 DEF Undisturbed
  <2>3. QED
    BY <2>1, <2>2
<1>7. QED
  BY <1>1, <1>6 DEF DaemonInv

(* A build that ends, and what it may have done to its session, leaves the  *)
(* undisturbed builds of other projects alone.                              *)
LEMMA AnswerStep ==
  ASSUME DaemonInv, NEW b \in Requests, InFlight(b), NEW outcome, Answer(b, outcome)
  PROVE  DaemonInv'
<1>1. Typed' /\ session[b] \in Ids /\ source[session[b]] = proj[b] /\ proj[b] \in Projects
  BY AnswerTypes DEF DaemonInv, Typed, Routed, IdsAreFresh
<1>2. /\ \A c \in Requests : InFlight(c)' =>
           InFlight(c) /\ c # b /\ proj'[c] = proj[c] /\ session'[c] = session[c]
      /\ \A c \in Requests : c \notin excused' => c = b \/ c \notin excused
  <2>1. End({b}) /\ {b} \in SUBSET Requests
    BY DEF Answer
  <2>2. QED
    BY <2>1, EndLeaves DEF DaemonInv
<1>3. /\ \A s \in Ids : s # session[b] => poisoned'[s] = poisoned[s]
      /\ \A s \in Ids : ~unused[s] => ~unused'[s]
      /\ ~idle' /\ UNCHANGED <<sessions, nextSessionId, source>>
  BY DEF Answer, DaemonInv, Typed, TypeOK
<1>4. IdsAreFresh'
  <2>1. \A s \in Ids : poisoned'[s] => poisoned[s] \/ source[s] # None
    BY <1>1, <1>3
  <2>2. QED
    BY <1>2, <1>3, <2>1, FreshFrame DEF DaemonInv
<1>5. ASSUME NEW c \in Requests, InFlight(c)', c \notin excused'
      PROVE  Undisturbed(c)'
  <2>1. InFlight(c) /\ c # b /\ c \notin excused
    BY <1>2, <1>5
  <2>2. Undisturbed(c) /\ session[c] \in Ids /\ source[session[c]] = proj[c]
    BY <2>1 DEF DaemonInv, Typed, Routed, IdsAreFresh
  <2>3. session[c] # session[b]
    BY <1>1, <2>1, <2>2 DEF Undisturbed
  <2>4. ~poisoned'[session[c]] /\ ~unused'[session[c]]
    BY <1>3, <2>2, <2>3 DEF Undisturbed
  <2>5. QED
    BY <1>2, <1>3, <1>5, <2>1, <2>4, UndisturbedFrame
<1>6. QED
  BY <1>1, <1>4, <1>5 DEF DaemonInv

(* So does a page that leaves, with the builds that waited for it. *)
LEMMA PageLeavesStep ==
  ASSUME DaemonInv, Typed', NEW s \in Ids, PageLeaves(s)
  PROVE  DaemonInv'
<1> DEFINE waiting == {b \in Requests : at[b] = "attaching" /\ session[b] = s}
<1>1. /\ \A c \in Requests : InFlight(c)' =>
           InFlight(c) /\ c \notin waiting /\ proj'[c] = proj[c] /\ session'[c] = session[c]
      /\ \A c \in Requests : c \notin excused' => c \in waiting \/ c \notin excused
  <2>1. End(waiting) /\ waiting \in SUBSET Requests
    BY DEF PageLeaves
  <2> HIDE DEF waiting
  <2>2. QED
    BY <2>1, EndLeaves DEF DaemonInv
<1>2. /\ \A t \in Ids : ~unused[t] => ~unused'[t]
      /\ ~idle => ~idle'
  <2>1. CASE waiting = {}
    BY <2>1 DEF PageLeaves
  <2>2. CASE waiting # {}
    BY <2>2 DEF PageLeaves, DaemonInv, Typed, TypeOK
  <2>3. QED
    BY <2>1, <2>2
<1>3. UNCHANGED <<sessions, nextSessionId, source, poisoned>>
  BY DEF PageLeaves
<1> HIDE DEF waiting
<1>4. IdsAreFresh'
  BY <1>1, <1>3, FreshFrame DEF DaemonInv
<1>5. ASSUME NEW c \in Requests, InFlight(c)', c \notin excused'
      PROVE  Undisturbed(c)'
  <2>1. InFlight(c) /\ c \notin excused
    BY <1>1, <1>5
  <2>2. Undisturbed(c) /\ session[c] \in Ids
    BY <2>1 DEF DaemonInv, Typed, Routed
  <2>3. QED
    BY <1>1, <1>2, <1>3, <1>5, <2>1, <2>2, UndisturbedFrame DEF Undisturbed
<1>6. QED
  BY <1>4, <1>5 DEF DaemonInv

(* A pass that closes a session closes none that an undisturbed build works *)
(* in: it is neither poisoned nor abandoned.                                *)
LEMMA ClosesNoneAtWork ==
  ASSUME DaemonInv, NEW s \in Ids, MaintainCloses(s),
         NEW b \in Requests, InFlight(b), b \notin excused
  PROVE  session[b] # s
<1>1. Undisturbed(b)
  BY DEF DaemonInv
<1>2. s \in ToClose
  BY DEF MaintainCloses
<1>3. QED
  BY <1>1, <1>2 DEF ToClose, Unusable, Abandoned, Undisturbed

(* Such a pass keeps the invariant. *)
LEMMA MaintainClosesStep ==
  ASSUME DaemonInv, Typed', NEW s \in Ids, MaintainCloses(s)
  PROVE  DaemonInv'
<1>1. /\ sessions' = [p \in Projects |-> IF sessions[p] = s THEN None ELSE sessions[p]]
      /\ UNCHANGED <<nextSessionId, source, poisoned, unused, at, proj, session, idle, excused>>
  BY DEF MaintainCloses, requestVars, daemonVars
<1>2. \A c \in Requests : InFlight(c)' =>
        InFlight(c) /\ proj'[c] = proj[c] /\ session'[c] = session[c]
  BY <1>1 DEF InFlight
<1>3. IdsAreFresh'
  BY <1>1, <1>2, FreshFrame DEF DaemonInv
<1>4. ASSUME NEW c \in Requests, InFlight(c)', c \notin excused'
      PROVE  Undisturbed(c)'
  <2>1. InFlight(c) /\ c \notin excused
    BY <1>1, <1>2, <1>4
  <2>2. Undisturbed(c) /\ proj[c] \in Projects
    BY <2>1 DEF DaemonInv, Typed, Routed
  <2>3. session[c] # s
    BY <2>1, ClosesNoneAtWork
  <2>4. sessions'[proj[c]] = sessions[proj[c]]
    BY <1>1, <2>2, <2>3 DEF Undisturbed
  <2>5. QED
    BY <1>1, <1>2, <1>4, <2>1, <2>2, <2>4, UndisturbedFrame DEF Undisturbed
<1>5. QED
  BY <1>3, <1>4 DEF DaemonInv

(* A stop leaves no build. *)
LEMMA ShutdownStep ==
  ASSUME DaemonInv, Shutdown
  PROVE  DaemonInv'
<1>1. Typed'
  BY ShutdownTypes DEF DaemonInv
<1>2. \A c \in Requests : ~InFlight(c)'
  BY DEF Shutdown, End, InFlight
<1>3. sessions' = [p \in Projects |-> None] /\ UNCHANGED <<nextSessionId, source, poisoned>>
  BY DEF Shutdown
<1>4. IdsAreFresh'
  BY <1>2, <1>3, FreshFrame DEF DaemonInv
<1>5. QED
  BY <1>1, <1>2, <1>4 DEF DaemonInv

(* When time passes, every build at work is excused, and none is attaching. *)
LEMMA LapseStep ==
  ASSUME DaemonInv, Typed', Lapse
  PROVE  DaemonInv'
<1>1. /\ \A b \in Requests : InFlight(b) => b \in excused'
      /\ UNCHANGED <<sessions, nextSessionId, source, poisoned, at, proj, session>>
  BY DEF Lapse, requestVars, InFlight
<1>2. \A c \in Requests : InFlight(c)' => InFlight(c)
  BY <1>1 DEF InFlight
<1>3. IdsAreFresh'
  BY <1>1, <1>2, FreshFrame DEF DaemonInv
<1>4. QED
  BY <1>1, <1>2, <1>3 DEF DaemonInv

(* Every step of the daemon keeps the invariant. *)
LEMMA DaemonStep == DaemonInv /\ [Next]_vars => DaemonInv'
<1> SUFFICES ASSUME DaemonInv, [Next]_vars
             PROVE  DaemonInv'
  OBVIOUS
<1>t. Typed'
  BY TypeStep DEF DaemonInv
<1>1. ASSUME UNCHANGED <<sessions, nextSessionId, source, poisoned, unused, proj, session, excused>>,
             idle' => idle,
             \A c \in Requests : InFlight(c)' => InFlight(c)
      PROVE  DaemonInv'
  <2>1. IdsAreFresh'
    BY <1>1, FreshFrame DEF DaemonInv
  <2>2. ASSUME NEW c \in Requests, InFlight(c)', c \notin excused'
        PROVE  Undisturbed(c)'
    <3>1. Undisturbed(c) /\ InFlight(c) /\ c \notin excused
      BY <1>1, <2>2 DEF DaemonInv
    <3>2. QED
      BY <1>1, <2>2, <3>1, UndisturbedFrame DEF Undisturbed
  <2>3. QED
    BY <1>t, <2>1, <2>2 DEF DaemonInv
<1>2. ASSUME NEW b \in Requests, NEW why \in Refusals, Refuse(b, why)
      PROVE  DaemonInv'
  BY <1>1, <1>2 DEF Refuse, sessionVars, InFlight, DaemonInv, Typed, TypeOK
<1>3. ASSUME NEW b \in Requests, AttachResolves(b)
      PROVE  DaemonInv'
  BY <1>1, <1>3 DEF AttachResolves, daemonVars, InFlight, DaemonInv, Typed, TypeOK
<1>4. ASSUME NEW b \in Requests, NEW outcome \in Outcomes,
             AttachFails(b, outcome) \/ Finish(b, outcome)
      PROVE  DaemonInv'
  BY <1>4, AnswerStep DEF AttachFails, Finish, InFlight
<1>5. CASE Touch \/ RecordLost
  BY <1>1, <1>5 DEF Touch, RecordLost, sessionVars, requestVars, InFlight
<1>6. ASSUME NEW s \in Ids, PageOpens(s)
      PROVE  DaemonInv'
  BY <1>1, <1>6 DEF PageOpens, requestVars, daemonVars, InFlight
<1>7. ASSUME NEW s \in Ids, PageLeaves(s) \/ MaintainCloses(s)
      PROVE  DaemonInv'
  BY <1>t, <1>7, PageLeavesStep, MaintainClosesStep
<1>8. CASE Stop \/ MaintainStops
  BY <1>8, ShutdownStep DEF Stop, MaintainStops
<1>9. CASE Lapse
  BY <1>t, <1>9, LapseStep
<1>10. CASE UNCHANGED vars
  BY <1>1, <1>10 DEF vars, sessionVars, requestVars, daemonVars, InFlight
<1>11. QED
  BY BuildStep, <1>2, <1>3, <1>4, <1>5, <1>6, <1>7, <1>8, <1>9, <1>10 DEF Next, Maintain

(* The invariant holds throughout. *)
THEOREM DaemonInvariant == Spec => []DaemonInv
  BY DaemonInit, DaemonStep, PTL DEF Spec

(* A build at work keeps the session the map has for its project, made for  *)
(* that project and not poisoned, for any number of projects and builds,    *)
(* unless another build of the project met it or it outlasted idleMs.       *)
THEOREM WorkStaysListed == Spec => []WorkIsListed
<1>1. DaemonInv => WorkIsListed
  BY DEF DaemonInv, IdsAreFresh, Undisturbed, WorkIsListed
<1>2. QED
  BY <1>1, DaemonInvariant, PTL

(* No maintenance pass of an advertised daemon ends such a build. *)
THEOREM MaintenanceIsSafe == Spec => MaintenanceSparesBuilds
<1> DEFINE Spares == (Maintain /\ advertised) =>
             \A b \in Requests \ excused :
               InFlight(b) => at'[b] = at[b] /\ link'[session[b]] = link[session[b]]
<1>1. DaemonInv => Spares
  <2> SUFFICES ASSUME DaemonInv, Maintain, advertised,
                      NEW b \in Requests \ excused, InFlight(b)
               PROVE  at'[b] = at[b] /\ link'[session[b]] = link[session[b]]
    OBVIOUS
  <2>1. Undisturbed(b) /\ session[b] \in Ids
    BY DEF DaemonInv, Typed, Routed
  <2>2. ~MustStop
    BY <2>1 DEF MustStop, Undisturbed
  <2>3. PICK s \in Ids : MaintainCloses(s)
    BY <2>2 DEF Maintain, MaintainStops
  <2>4. session[b] # s
    BY <2>3, ClosesNoneAtWork
  <2>5. QED
    BY <2>1, <2>3, <2>4 DEF MaintainCloses, LinkAfterClose, requestVars
<1>2. DaemonInv /\ [Next]_vars => [Spares]_vars
  BY <1>1
<1> HIDE DEF Spares
<1>3. Spec => [][Spares]_vars
  BY <1>2, DaemonInvariant, PTL DEF Spec
<1>4. QED
  BY <1>3 DEF Spares, MaintenanceSparesBuilds

(* What an id was made for never changes: a page left open cannot come to   *)
(* serve another project.                                                   *)
THEOREM IdsAreNotRecycled == Spec => OneIdOneProject
<1> DEFINE Keeps == \A s \in Ids : source[s] # None => source'[s] = source[s]
<1>1. ASSUME DaemonInv, NEW b \in Requests, NEW p \in Projects, NEW fresh \in BOOLEAN,
             Build(b, p, fresh)
      PROVE  Keeps
  <2>1. CASE Reuse(b, p, fresh)
    BY <2>1 DEF Reuse
  <2>2. CASE Replace(b, p, fresh)
    <3>1. nextSessionId \in Ids /\ source' = [source EXCEPT ![nextSessionId] = p]
      BY <1>1, <2>2 DEF Replace, NewId, DaemonInv, Typed, TypeOK
    <3>2. source[nextSessionId] = None
      BY <1>1, <3>1 DEF DaemonInv, IdsAreFresh
    <3>3. QED
      BY <1>1, <3>1, <3>2 DEF DaemonInv, Typed, TypeOK
  <2>3. QED
    BY <1>1, <2>1, <2>2 DEF Build
<1>2. ASSUME DaemonInv, Next,
             ~\E b \in Requests, p \in Projects, fresh \in BOOLEAN : Build(b, p, fresh)
      PROVE  Keeps
  <2>1. source' = source
    BY <1>2 DEF Next, Maintain, MaintainStops, MaintainCloses, Stop, Shutdown, Refuse,
                AttachResolves, AttachFails, Finish, Answer, Touch, Lapse, RecordLost,
                PageOpens, PageLeaves, sessionVars
  <2>2. QED
    BY <2>1
<1>3. DaemonInv /\ [Next]_vars => [Keeps]_vars
  BY <1>1, <1>2
<1> HIDE DEF Keeps
<1>4. Spec => [][Keeps]_vars
  BY <1>3, DaemonInvariant, PTL DEF Spec
<1>5. QED
  BY <1>4 DEF Keeps, OneIdOneProject
=============================================================================
