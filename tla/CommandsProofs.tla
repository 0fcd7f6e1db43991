---------------------------- MODULE CommandsProofs ----------------------------
(***************************************************************************)
(* Theorems about Commands, for any commands, handles and shells.          *)
(***************************************************************************)
EXTENDS Commands, SequenceTheorems, WellFoundedInduction, TLAPS

-----------------------------------------------------------------------------
(* Calls and answers on their way *)

(* Some message in s is of kind op and by that caller; and at most one is.  *)
On(s, op, by) == \E i \in DOMAIN s : s[i].op = op /\ s[i].by = by
Once(s, op, by) ==
  \A i, j \in DOMAIN s :
    s[i].op = op /\ s[i].by = by /\ s[j].op = op /\ s[j].by = by => i = j

(* A message put at the end of a sequence. *)
LEMMA AppendFacts ==
  ASSUME NEW S, NEW s \in Seq(S), NEW m \in S
  PROVE  /\ Append(s, m) \in Seq(S)
         /\ \A op, by : On(Append(s, m), op, by) <=> On(s, op, by) \/ (m.op = op /\ m.by = by)
         /\ \A op, by : Once(s, op, by) /\ ~(On(s, op, by) /\ m.op = op /\ m.by = by)
                          => Once(Append(s, m), op, by)
         /\ ToSet(Append(s, m)) = ToSet(s) \cup {m}
<1> DEFINE t == Append(s, m)
<1>1. t \in Seq(S) /\ DOMAIN t = 1..(Len(s) + 1) /\ DOMAIN s = 1..Len(s) /\ Len(s) \in Nat
  OBVIOUS
<1>2. t[Len(s) + 1] = m /\ \A i \in 1..Len(s) : t[i] = s[i]
  OBVIOUS
<1> HIDE DEF t
<1>3. \A op, by : On(t, op, by) <=> On(s, op, by) \/ (m.op = op /\ m.by = by)
  BY <1>1, <1>2 DEF On
<1>4. ASSUME NEW op, NEW by, Once(s, op, by), ~(On(s, op, by) /\ m.op = op /\ m.by = by)
      PROVE  Once(t, op, by)
  <2> SUFFICES ASSUME NEW i \in DOMAIN t, NEW j \in DOMAIN t,
                      t[i].op = op, t[i].by = by, t[j].op = op, t[j].by = by
               PROVE  i = j
    BY DEF Once
  <2>1. CASE i \in DOMAIN s /\ j \in DOMAIN s
    BY <1>1, <1>2, <1>4, <2>1 DEF Once
  <2>2. CASE i \notin DOMAIN s \/ j \notin DOMAIN s
    <3>1. i = Len(s) + 1 \/ j = Len(s) + 1
      BY <1>1, <2>2
    <3>2. m.op = op /\ m.by = by
      BY <1>2, <3>1
    <3>3. i \notin DOMAIN s /\ j \notin DOMAIN s
      BY <1>1, <1>2, <1>4, <3>2 DEF On
    <3>4. QED
      BY <1>1, <3>3
  <2>3. QED
    BY <2>1, <2>2
<1>5. ToSet(t) = ToSet(s) \cup {m}
  BY <1>1, <1>2 DEF ToSet
<1>6. QED
  BY <1>1, <1>3, <1>4, <1>5 DEF t

(* A message taken out of a sequence, at the front or further back. *)
LEMMA RemoveFacts ==
  ASSUME NEW S, NEW s \in Seq(S), NEW k \in DOMAIN s
  PROVE  /\ RemoveAt(s, k) \in Seq(S) /\ s[k] \in S /\ s[k] \in ToSet(s)
         /\ \A op, by : On(RemoveAt(s, k), op, by) => On(s, op, by)
         /\ \A op, by : Once(s, op, by) => Once(RemoveAt(s, k), op, by)
         /\ \A op, by : Once(s, op, by) /\ s[k].op = op /\ s[k].by = by
                          => ~On(RemoveAt(s, k), op, by)
         /\ ToSet(RemoveAt(s, k)) \subseteq ToSet(s)
<1> DEFINE t == RemoveAt(s, k)
           from(i) == IF i < k THEN i ELSE i + 1
<1>1. DOMAIN s = 1..Len(s) /\ Len(s) \in Nat /\ k \in 1..Len(s)
  OBVIOUS
<1> DEFINE A == SubSeq(s, 1, k - 1)
           B == SubSeq(s, k + 1, Len(s))
<1>2. /\ A \in Seq(S) /\ Len(A) = k - 1
      /\ \A i \in 1..(k - 1) : A[i] = s[i]
  <2>1. \A i \in 1..(k - 1) : s[i] \in S
    BY <1>1
  <2>2. 1 \in Int /\ k - 1 \in Int /\ (k - 1) - 1 + 1 = k - 1 /\ (1 <= k - 1 \/ k - 1 = 0)
    BY <1>1
  <2>3. \A i \in 1..(k - 1) : 1 + i - 1 = i
    BY <1>1
  <2>4. QED
    BY <2>1, <2>2, <2>3, SubSeqProperties
<1>3. /\ B \in Seq(S) /\ Len(B) = Len(s) - k
      /\ \A i \in 1..(Len(s) - k) : B[i] = s[k + i]
  <2>1. \A i \in (k + 1)..Len(s) : s[i] \in S
    BY <1>1
  <2>2. /\ k + 1 \in Int /\ Len(s) \in Int /\ Len(s) - (k + 1) + 1 = Len(s) - k
        /\ k + 1 <= Len(s) \/ Len(s) - k = 0
    BY <1>1
  <2>3. \A i \in 1..(Len(s) - k) : (k + 1) + i - 1 = k + i
    BY <1>1
  <2>4. QED
    BY <2>1, <2>2, <2>3, SubSeqProperties
<1>4. /\ t \in Seq(S) /\ DOMAIN t = 1..(Len(s) - 1)
      /\ \A i \in 1..(Len(s) - 1) : t[i] = IF i <= k - 1 THEN A[i] ELSE B[i - (k - 1)]
  <2>1. t = A \o B
    BY DEF RemoveAt
  <2>a. A \in Seq(S) /\ B \in Seq(S)
    BY <1>2, <1>3
  <2> HIDE DEF t, A, B
  <2>2. /\ t \in Seq(S) /\ Len(t) = Len(A) + Len(B)
        /\ \A i \in 1..(Len(A) + Len(B)) : t[i] = IF i <= Len(A) THEN A[i] ELSE B[i - Len(A)]
    BY <2>a, <2>1, ConcatProperties
  <2>3. Len(A) + Len(B) = Len(s) - 1
    BY <1>1, <1>2, <1>3
  <2>4. QED
    BY <1>2, <1>3, <2>2, <2>3
<1> HIDE DEF t, A, B
<1>5. /\ \A i \in DOMAIN t : from(i) \in DOMAIN s /\ from(i) # k /\ t[i] = s[from(i)]
      /\ \A i, j \in DOMAIN t : from(i) = from(j) => i = j
  <2>1. ASSUME NEW i \in DOMAIN t
        PROVE  from(i) \in DOMAIN s /\ from(i) # k /\ t[i] = s[from(i)]
    <3>1. CASE i < k
      BY <1>1, <1>2, <1>4, <2>1, <3>1
    <3>2. CASE i >= k
      <4>1. t[i] = B[i - (k - 1)] /\ i - (k - 1) \in 1..(Len(s) - k)
        BY <1>1, <1>4, <2>1, <3>2
      <4>2. k + (i - (k - 1)) = i + 1
        BY <1>1, <1>4, <2>1
      <4>3. B[i - (k - 1)] = s[i + 1]
        BY <1>3, <4>1, <4>2
      <4>4. QED
        BY <1>1, <1>4, <2>1, <3>2, <4>1, <4>3
    <3>3. QED
      BY <1>1, <1>4, <2>1, <3>1, <3>2
  <2>2. QED
    BY <1>1, <1>4, <2>1
<1> HIDE DEF from
<1>6. \A op, by : On(t, op, by) => On(s, op, by)
  BY <1>5 DEF On
<1>7. \A op, by : Once(s, op, by) => Once(t, op, by)
  BY <1>5 DEF Once
<1>8. ASSUME NEW op, NEW by, Once(s, op, by), s[k].op = op, s[k].by = by, On(t, op, by)
      PROVE  FALSE
  BY <1>1, <1>5, <1>8 DEF On, Once
<1>9. ToSet(t) \subseteq ToSet(s)
  BY <1>5 DEF ToSet
<1>10. s[k] \in S /\ s[k] \in ToSet(s)
  BY DEF ToSet
<1>11. QED
  BY <1>4, <1>6, <1>7, <1>8, <1>9, <1>10 DEF t

(* The front is where a sequence is received from. *)
LEMMA TailRemovesFirst ==
  ASSUME NEW S, NEW s \in Seq(S), s # <<>>
  PROVE  1 \in DOMAIN s /\ Tail(s) = RemoveAt(s, 1) /\ Head(s) = s[1]
<1>1. Len(s) \in Nat /\ Len(s) > 0 /\ DOMAIN s = 1..Len(s) /\ Head(s) = s[1]
  OBVIOUS
<1>2. Tail(s) = SubSeq(s, 2, Len(s)) /\ SubSeq(s, 2, Len(s)) \in Seq(S)
  BY TailIsSubSeq, HeadTailProperties
<1>3. SubSeq(s, 1, 0) = <<>>
  BY SubSeqEmpty
<1>4. <<>> \o SubSeq(s, 2, Len(s)) = SubSeq(s, 2, Len(s))
  BY <1>2, ConcatEmptySeq
<1>5. QED
  BY <1>1, <1>2, <1>3, <1>4 DEF RemoveAt

-----------------------------------------------------------------------------
(* Types *)

FrameSet == [op : {"run", "kill", "resize", "open", "close"},
             by : Cmds \cup Openers \cup {None}, handle : Handles \cup {None}]
PostSet == [op : {"run", "kill", "open"}, by : Cmds \cup Openers,
            value : Verdicts \cup {"hit", "miss", "open", "refused", "failed"}]

(* What each kind of call and of answer carries. *)
FrameShape(m) ==
  /\ m.op = "run" => m.by \in Cmds
  /\ m.op = "kill" => m.by \in Cmds \cup {None} /\ m.handle \in Handles
  /\ m.op \in {"open", "close"} => m.by \in Openers
PostShape(m) ==
  /\ m.op = "run" => m.by \in Cmds /\ m.value \in ExitCodes \cup {"UnknownFailure"}
  /\ m.op = "kill" => m.by \in Cmds
  /\ m.op = "open" => m.by \in Openers /\ m.value \in {"open", "refused", "failed"}

Frames == frames \in Seq(FrameSet) /\ \A m \in ToSet(frames) : FrameShape(m)
Posts == posts \in Seq(PostSet) /\ \A m \in ToSet(posts) : PostShape(m)
(* Only a command with a name has a timer. *)
Armed == \A c \in Cmds : timer[c] = "armed" => handle[c] \in Handles

HostTypes ==
  /\ handle \in [Cmds -> Handles \cup {None}]
  /\ verdict \in [Cmds -> {"unsent", "waiting"} \cup Verdicts]
  /\ timer \in [Cmds -> {"off", "armed", "killing"}]
  /\ opening \in [Openers -> {"unsent", "waiting", "open", "refused", "failed", "closed",
                            "RunnerGone"}]
  /\ listener \in Openers \cup {None}
  /\ signals \in 0..MaxSignals
PageTypes ==
  /\ attached \in BOOLEAN
  /\ proc \in [Cmds -> {"none", "spawning", "running", "dying"} \cup Over]
  /\ running \in [Handles -> Cmds \cup {None}]
  /\ read \in [Cmds -> 0..MaxChars]
  /\ shell \in [Openers -> {"none", "opening", "live", "closed"}]
  /\ shells \in Openers \cup {None}
  /\ cut \in [Cmds -> SUBSET (Cmds \cup {None})]

Typed == Frames /\ Posts /\ Armed /\ HostTypes /\ PageTypes

(* These are the model's types. *)
LEMMA TypedIsTypeOK == Typed => TypeOK
  BY DEF Typed, Frames, Posts, HostTypes, PageTypes, FrameSet, PostSet, TypeOK

(* Nothing is on its way at first, and no handle is in use. *)
LEMMA TypeInit == Init => Typed
<1> SUFFICES ASSUME Init
             PROVE  Typed
  OBVIOUS
<1>1. Frames /\ Posts /\ Armed
  BY DEF Init, Frames, Posts, Armed, ToSet
<1>2. HostTypes
  BY CommandsAssumption DEF Init, HostTypes
<1>3. PageTypes
  BY CommandsAssumption DEF Init, PageTypes
<1>4. QED
  BY <1>1, <1>2, <1>3 DEF Typed

(* A well-formed call that is sent, and one that is received. *)
LEMMA SendTypes ==
  ASSUME Frames, NEW m \in FrameSet, FrameShape(m), Send(m)
  PROVE  /\ Frames' /\ ToSet(frames') = ToSet(frames) \cup {m}
         /\ \A op, by : On(frames', op, by) <=> On(frames, op, by) \/ (m.op = op /\ m.by = by)
         /\ \A op, by : Once(frames, op, by) /\ ~(On(frames, op, by) /\ m.op = op /\ m.by = by)
                          => Once(frames', op, by)
<1>1. frames' = Append(frames, m) /\ frames \in Seq(FrameSet)
  BY DEF Frames, Send
<1>2. /\ frames' \in Seq(FrameSet) /\ ToSet(frames') = ToSet(frames) \cup {m}
      /\ \A op, by : On(frames', op, by) <=> On(frames, op, by) \/ (m.op = op /\ m.by = by)
      /\ \A op, by : Once(frames, op, by) /\ ~(On(frames, op, by) /\ m.op = op /\ m.by = by)
                       => Once(frames', op, by)
  BY <1>1, AppendFacts
<1>3. QED
  BY <1>2 DEF Frames, FrameShape

(* What is received is well-formed, and so is what is left. *)
LEMMA ReceiveTypes ==
  ASSUME Frames, Receive
  PROVE  /\ Frames' /\ Head(frames) \in FrameSet /\ FrameShape(Head(frames))
         /\ \A op, by : On(frames', op, by) => On(frames, op, by)
         /\ \A op, by : Once(frames, op, by) => Once(frames', op, by)
         /\ \A op, by : Once(frames, op, by) /\ Head(frames).op = op /\ Head(frames).by = by
                          => ~On(frames', op, by)
         /\ Head(frames) \in ToSet(frames) /\ On(frames, Head(frames).op, Head(frames).by)
         /\ ToSet(frames') \subseteq ToSet(frames)
<1>1. frames # <<>> /\ frames' = Tail(frames) /\ frames \in Seq(FrameSet)
  BY DEF Receive, Frames
<1>2. 1 \in DOMAIN frames /\ frames' = RemoveAt(frames, 1) /\ Head(frames) = frames[1]
  BY <1>1, TailRemovesFirst
<1> DEFINE t == RemoveAt(frames, 1)
<1>3. /\ t \in Seq(FrameSet) /\ frames[1] \in FrameSet /\ frames[1] \in ToSet(frames)
      /\ \A op, by : On(t, op, by) => On(frames, op, by)
      /\ \A op, by : Once(frames, op, by) => Once(t, op, by)
      /\ \A op, by : Once(frames, op, by) /\ frames[1].op = op /\ frames[1].by = by
                       => ~On(t, op, by)
      /\ ToSet(t) \subseteq ToSet(frames)
  BY <1>1, <1>2, RemoveFacts
<1>4. frames' = t
  BY <1>2
<1> HIDE DEF t
<1>5. Frames' /\ FrameShape(frames[1])
  BY <1>3, <1>4 DEF Frames, FrameShape
<1>6. On(frames, frames[1].op, frames[1].by)
  BY <1>2 DEF On
<1>7. QED
  BY <1>2, <1>3, <1>4, <1>5, <1>6

(* A well-formed answer that is posted, and one that is delivered. *)
LEMMA PostTypes ==
  ASSUME Posts, NEW op, NEW by, NEW value,
         LET m == [op |-> op, by |-> by, value |-> value]
         IN by # None => m \in PostSet /\ PostShape(m),
         Post(op, by, value)
  PROVE  /\ Posts'
         /\ \A o, b : On(posts', o, b) =>
              On(posts, o, b) \/ (by # None /\ op = o /\ by = b)
         /\ \A o, b : Once(posts, o, b) /\ ~(On(posts, o, b) /\ op = o /\ by = b)
                        => Once(posts', o, b)
<1> DEFINE m == [op |-> op, by |-> by, value |-> value]
<1>1. CASE by = None
  <2>1. posts' = posts
    BY <1>1 DEF Post
  <2>2. QED
    BY <1>1, <2>1 DEF Posts, PostShape
<1>2. CASE by # None
  <2>1. posts' = Append(posts, m) /\ posts \in Seq(PostSet) /\ m \in PostSet /\ PostShape(m)
    BY <1>2 DEF Post, Posts
  <2>2. m.op = op /\ m.by = by
    OBVIOUS
  <2> HIDE DEF m
  <2>3. /\ posts' \in Seq(PostSet) /\ ToSet(posts') = ToSet(posts) \cup {m}
        /\ \A o, b : On(posts', o, b) <=> On(posts, o, b) \/ (m.op = o /\ m.by = b)
        /\ \A o, b : Once(posts, o, b) /\ ~(On(posts, o, b) /\ m.op = o /\ m.by = b)
                       => Once(posts', o, b)
    BY <2>1, AppendFacts
  <2>4. Posts'
    BY <2>1, <2>3 DEF Posts, PostShape
  <2>5. QED
    BY <1>2, <2>2, <2>3, <2>4
<1>3. QED
  BY <1>1, <1>2

(* The same of a delivery, from anywhere in the sequence. *)
LEMMA DeliverTypes ==
  ASSUME Posts, NEW i \in DOMAIN posts, Deliver(i)
  PROVE  /\ Posts' /\ posts[i] \in PostSet /\ PostShape(posts[i])
         /\ \A op, by : On(posts', op, by) => On(posts, op, by)
         /\ \A op, by : Once(posts, op, by) => Once(posts', op, by)
         /\ \A op, by : Once(posts, op, by) /\ posts[i].op = op /\ posts[i].by = by
                          => ~On(posts', op, by)
         /\ On(posts, posts[i].op, posts[i].by)
<1> DEFINE t == RemoveAt(posts, i)
<1>1. posts' = t /\ posts \in Seq(PostSet)
  BY DEF Deliver, Posts
<1>2. /\ t \in Seq(PostSet) /\ posts[i] \in PostSet /\ posts[i] \in ToSet(posts)
      /\ \A op, by : On(t, op, by) => On(posts, op, by)
      /\ \A op, by : Once(posts, op, by) => Once(t, op, by)
      /\ \A op, by : Once(posts, op, by) /\ posts[i].op = op /\ posts[i].by = by
                       => ~On(t, op, by)
      /\ ToSet(t) \subseteq ToSet(posts)
  BY <1>1, RemoveFacts
<1> HIDE DEF t
<1>3. Posts' /\ PostShape(posts[i])
  BY <1>1, <1>2 DEF Posts, PostShape
<1>4. On(posts, posts[i].op, posts[i].by)
  BY DEF On
<1>5. QED
  BY <1>1, <1>2, <1>3, <1>4

(* What a delivery does to the host. *)
LEMMA DeliverEffect ==
  ASSUME Typed, NEW i \in DOMAIN posts, Deliver(i)
  PROVE  LET m == posts[i] IN
         \/ /\ m.op = "run" /\ m.by \in Cmds
            /\ verdict' = IF InFlight(m.by) THEN [verdict EXCEPT ![m.by] = m.value] ELSE verdict
            /\ m.value \in ExitCodes \cup {"UnknownFailure"}
            /\ timer' = [timer EXCEPT ![m.by] = IF @ = "armed" THEN "off" ELSE @]
            /\ opening' = opening
         \/ /\ m.op = "kill" /\ m.by \in Cmds
            /\ verdict' = IF InFlight(m.by) THEN [verdict EXCEPT ![m.by] = "RunnerTimeout"]
                                            ELSE verdict
            /\ timer' = [timer EXCEPT ![m.by] = "off"]
            /\ opening' = opening
         \/ /\ m.op = "open" /\ m.by \in Openers
            /\ opening' = [opening EXCEPT ![m.by] = m.value]
            /\ m.value \in {"open", "refused", "failed"}
            /\ UNCHANGED <<verdict, timer>>
<1> DEFINE m == posts[i]
<1>1. m \in PostSet /\ PostShape(m)
  BY DeliverTypes DEF Typed
<1>2. m.op \in {"run", "kill", "open"}
  BY <1>1 DEF PostSet
<1>3. /\ m.op = "run" => m.by \in Cmds /\ m.value \in ExitCodes \cup {"UnknownFailure"}
      /\ m.op = "kill" => m.by \in Cmds
      /\ m.op = "open" => m.by \in Openers /\ m.value \in {"open", "refused", "failed"}
  BY <1>1 DEF PostShape
<1>4. CASE m.op = "run"
  BY <1>3, <1>4 DEF Deliver, Settle
<1>5. CASE m.op = "kill"
  BY <1>3, <1>5 DEF Deliver, Settle
<1>6. CASE m.op = "open"
  BY <1>3, <1>6 DEF Deliver
<1>7. QED
  BY <1>2, <1>4, <1>5, <1>6

(* The handlers of the page keep the types. *)
LEMMA ReceiveKeepsTypes ==
  ASSUME Typed, Receive
  PROVE  Typed'
<1> DEFINE m == Head(frames)
<1>1. Frames' /\ m \in FrameSet /\ FrameShape(m)
  BY ReceiveTypes DEF Typed
<1>2. HostTypes' /\ Armed' /\ UNCHANGED <<attached, read>>
  BY DEF Receive, hostVars, outputVars, Typed, HostTypes, Armed
<1>3. Posts' /\ PageTypes'
  <2> USE DEF Typed, PageTypes
  <2> HIDE DEF m
  <2>1. CASE ReceiveRun(m)
    <3>1. m.by \in Cmds
      BY <1>1, <2>1 DEF ReceiveRun, FrameShape
    <3>2. QED
      BY <1>2, <2>1, <3>1 DEF ReceiveRun, Posts, PostShape, shellVars
  <2>2. CASE ReceiveKill(m)
    <3>1. m.by \in Cmds \cup {None} /\ m.handle \in Handles
      BY <1>1, <2>2 DEF ReceiveKill, FrameShape
    <3>2. CASE running[m.handle] = None
      <4>1. Post("kill", m.by, "miss") /\ UNCHANGED <<proc, cut, running, shell, shells>>
        BY <2>2, <3>2 DEF ReceiveKill, shellVars
      <4>2. Posts'
        BY <3>1, <4>1, PostTypes DEF PostSet, PostShape
      <4>3. QED
        BY <1>2, <4>1, <4>2
    <3>3. CASE running[m.handle] # None
      <4>1. /\ Post("kill", m.by, "hit")
            /\ proc' = [proc EXCEPT ![running[m.handle]] = "dying"]
            /\ cut' = [cut EXCEPT ![running[m.handle]] = @ \cup {m.by}]
            /\ UNCHANGED <<running, shell, shells>>
        BY <2>2, <3>3 DEF ReceiveKill, AnswerHit, shellVars
      <4>2. Posts'
        BY <3>1, <4>1, PostTypes DEF PostSet, PostShape
      <4>3. running[m.handle] \in Cmds
        BY <3>1, <3>3
      <4>4. QED
        BY <1>2, <3>1, <4>1, <4>2, <4>3
    <3>4. QED
      BY <3>2, <3>3
  <2>3. CASE ReceiveResize(m)
    BY <1>2, <2>3 DEF ReceiveResize, Posts, PostShape, shellVars
  <2>4. CASE ReceiveOpen(m)
    <3>1. m.by \in Openers
      BY <1>1, <2>4 DEF ReceiveOpen, FrameShape
    <3>2. CASE IdIsFree
      BY <1>2, <2>4, <3>1, <3>2 DEF ReceiveOpen, Posts, PostShape
    <3>3. CASE ~IdIsFree
      <4>1. Post("open", m.by, "refused") /\ UNCHANGED <<proc, cut, running, shell, shells>>
        BY <2>4, <3>3 DEF ReceiveOpen
      <4>2. Posts'
        BY <3>1, <4>1, PostTypes DEF PostSet, PostShape
      <4>3. QED
        BY <1>2, <4>1, <4>2
    <3>4. QED
      BY <3>2, <3>3
  <2>5. CASE ReceiveClose(m)
    <3>1. posts' = posts /\ PageTypes'
      BY <1>2, <2>5 DEF ReceiveClose
    <3>2. QED
      BY <3>1 DEF Posts, PostShape
  <2>6. QED
    BY <2>1, <2>2, <2>3, <2>4, <2>5 DEF Receive, m
<1>4. QED
  BY <1>1, <1>2, <1>3 DEF Typed

(* Every step keeps the types. *)
LEMMA TypeStep == Typed /\ [Next]_vars => Typed'
<1> SUFFICES ASSUME Typed, [Next]_vars
             PROVE  Typed'
  OBVIOUS
<1> USE CommandsAssumption
<1>p. ASSUME UNCHANGED <<posts, attached, proc, running, read, shell, shells, cut>>
      PROVE  Posts' /\ PageTypes'
  BY <1>p DEF Typed, Posts, PageTypes
<1>h. ASSUME UNCHANGED <<handle, verdict, timer, opening, listener, signals>>
      PROVE  HostTypes' /\ Armed'
  BY <1>h DEF Typed, HostTypes, Armed
<1>f. ASSUME UNCHANGED frames
      PROVE  Frames'
  BY <1>f DEF Typed, Frames
<1>1. ASSUME NEW c \in Cmds, NEW name \in Names \cup {None}, NEW timed \in BOOLEAN,
             RunCommand(c, name, timed)
      PROVE  Typed'
  <2> DEFINE h == IF name = None /\ timed THEN c ELSE name
             m == Frame("run", c, h)
  <2>1. h \in Handles \cup {None} /\ (timed => h \in Handles)
    BY DEF Handles
  <2>2. m \in FrameSet /\ FrameShape(m)
    BY <2>1 DEF FrameSet, FrameShape, Frame
  <2>3. Send(m) /\ UNCHANGED <<posts, attached, proc, running, read, shell, shells, cut>>
    BY <1>1 DEF RunCommand, outputVars, shellVars
  <2> HIDE DEF m
  <2>4. Frames'
    BY <2>2, <2>3, SendTypes DEF Typed
  <2>5. HostTypes' /\ Armed'
    BY <1>1, <2>1 DEF RunCommand, Typed, HostTypes, Armed
  <2>6. QED
    BY <1>p, <2>3, <2>4, <2>5 DEF Typed
<1>2. ASSUME NEW c \in Cmds, TimeoutElapses(c)
      PROVE  Typed'
  <2> DEFINE m == Frame("kill", c, handle[c])
  <2>1. handle[c] \in Handles
    BY <1>2 DEF TimeoutElapses, Typed, Armed
  <2>2. m \in FrameSet /\ FrameShape(m)
    BY <2>1 DEF FrameSet, FrameShape, Frame
  <2>3. Send(m) /\ UNCHANGED <<posts, attached, proc, running, read, shell, shells, cut>>
    BY <1>2 DEF TimeoutElapses, outputVars, shellVars
  <2> HIDE DEF m
  <2>4. Frames'
    BY <2>2, <2>3, SendTypes DEF Typed
  <2>5. HostTypes' /\ Armed'
    BY <1>2 DEF TimeoutElapses, AwaitKill, Typed, HostTypes, Armed
  <2>6. QED
    BY <1>p, <2>3, <2>4, <2>5 DEF Typed
<1>3. ASSUME NEW op \in {"kill", "resize"}, NEW h \in Handles, Signal(op, h)
      PROVE  Typed'
  <2> DEFINE m == Frame(op, None, h)
  <2>1. m \in FrameSet /\ FrameShape(m)
    BY DEF FrameSet, FrameShape, Frame
  <2>2. Send(m) /\ UNCHANGED <<posts, attached, proc, running, read, shell, shells, cut>>
    BY <1>3 DEF Signal, outputVars, shellVars
  <2> HIDE DEF m
  <2>3. Frames'
    BY <2>1, <2>2, SendTypes DEF Typed
  <2>4. HostTypes' /\ Armed'
    BY <1>3 DEF Signal, Typed, HostTypes, Armed
  <2>5. QED
    BY <1>p, <2>2, <2>3, <2>4 DEF Typed
<1>4. ASSUME NEW o \in Openers, OpenShell(o) \/ CloseShell(o)
      PROVE  Typed'
  <2>1. PICK op \in {"open", "close"} : Send(Frame(op, o, None))
    BY <1>4 DEF OpenShell, CloseShell
  <2> DEFINE m == Frame(op, o, None)
  <2>2. m \in FrameSet /\ FrameShape(m)
    BY <2>1 DEF FrameSet, FrameShape, Frame
  <2> HIDE DEF m
  <2>3. Frames'
    BY <2>1, <2>2, SendTypes DEF Typed, m
  <2>4. UNCHANGED <<posts, attached, proc, running, read, shell, shells, cut>>
    BY <1>4 DEF OpenShell, CloseShell, outputVars, shellVars
  <2>5. HostTypes' /\ Armed'
    BY <1>4 DEF OpenShell, CloseShell, Typed, HostTypes, Armed
  <2>6. QED
    BY <1>p, <2>3, <2>4, <2>5 DEF Typed
<1>5. ASSUME NEW i \in DOMAIN posts, Deliver(i)
      PROVE  Typed'
  <2>1. /\ UNCHANGED <<handle, listener, signals, frames, attached, proc, running, read,
                       shell, shells, cut>>
        /\ Posts'
    BY <1>5, DeliverTypes DEF Deliver, outputVars, shellVars, Typed
  <2>2. /\ verdict' \in [Cmds -> {"unsent", "waiting"} \cup Verdicts]
        /\ timer' \in [Cmds -> {"off", "armed", "killing"}]
        /\ opening' \in [Openers -> {"unsent", "waiting", "open", "refused", "failed",
                                     "closed", "RunnerGone"}]
        /\ \A c \in Cmds : timer'[c] = "armed" => timer[c] = "armed"
    <3> USE DEF Typed, HostTypes, Verdicts, InFlight
    <3>1. CASE posts[i].op = "run"
      BY <1>5, <3>1, DeliverEffect
    <3>2. CASE posts[i].op = "kill"
      BY <1>5, <3>2, DeliverEffect
    <3>3. CASE posts[i].op = "open"
      BY <1>5, <3>3, DeliverEffect
    <3>4. QED
      BY <1>5, <3>1, <3>2, <3>3, DeliverEffect
  <2>3. HostTypes' /\ Armed' /\ PageTypes'
    BY <2>1, <2>2 DEF Typed, HostTypes, Armed, PageTypes
  <2>4. QED
    BY <1>f, <2>1, <2>3 DEF Typed
<1>6. ASSUME NEW c \in Cmds, Spawned(c)
      PROVE  Typed'
  <2>1. PageTypes' /\ Posts'
    BY <1>6 DEF Spawned, outputVars, linkVars, shellVars, Typed, PageTypes, Posts
  <2>2. QED
    BY <1>f, <1>h, <1>6, <2>1 DEF Spawned, hostVars, linkVars, Typed
<1>7. ASSUME NEW c \in Cmds, SpawnFails(c)
      PROVE  Typed'
  <2>1. Posts'
    BY <1>7, PostTypes DEF SpawnFails, PostSet, PostShape, Verdicts, Typed
  <2>2. PageTypes'
    BY <1>7 DEF SpawnFails, outputVars, shellVars, Typed, PageTypes, Over
  <2>3. QED
    BY <1>f, <1>h, <1>7, <2>1, <2>2 DEF SpawnFails, hostVars, Typed
<1>8. ASSUME NEW c \in Cmds, NEW code \in ExitCodes, Exit(c, code)
      PROVE  Typed'
  <2>1. Posts'
    BY <1>8, PostTypes DEF Exit, PostSet, PostShape, Verdicts, Typed
  <2>2. PageTypes'
    BY <1>8 DEF Exit, outputVars, shellVars, Typed, PageTypes, Over
  <2>3. QED
    BY <1>f, <1>h, <1>8, <2>1, <2>2 DEF Exit, hostVars, Typed
<1>9. ASSUME NEW c \in Cmds, NEW n \in 1..MaxChars, Read(c, n)
      PROVE  Typed'
  <2>1. read' \in [Cmds -> 0..MaxChars]
    BY <1>9 DEF Read, Typed, PageTypes
  <2>2. QED
    BY <1>f, <1>h, <1>9, <2>1
    DEF Read, hostVars, linkVars, shellVars, Typed, Posts, PageTypes
<1>10. ASSUME NEW o \in Openers, Opened(o)
      PROVE  Typed'
  <2>1. Posts'
    <3>1. Post("open", o, "open") \/ Post("open", o, "failed")
      BY <1>10 DEF Opened
    <3>2. CASE Post("open", o, "open")
      BY <3>2, PostTypes DEF PostSet, PostShape, Typed
    <3>3. CASE Post("open", o, "failed")
      BY <3>3, PostTypes DEF PostSet, PostShape, Typed
    <3>4. QED
      BY <3>1, <3>2, <3>3
  <2>2. PageTypes'
    BY <1>10 DEF Opened, outputVars, Typed, PageTypes
  <2>3. QED
    BY <1>f, <1>h, <1>10, <2>1, <2>2 DEF Opened, hostVars, Typed
<1>11. CASE Gone
  <2>1. frames' = <<>> /\ posts' = <<>>
    BY <1>11 DEF Gone
  <2>2. Frames' /\ Posts'
    BY <2>1 DEF Frames, Posts, ToSet
  <2>3. HostTypes' /\ Armed'
    BY <1>11 DEF Gone, FailOpenCalls, Typed, HostTypes, Armed, Verdicts
  <2>4. PageTypes'
    BY <1>11 DEF Gone, FailOpenCalls, outputVars, Typed, PageTypes, Over
  <2>5. QED
    BY <2>2, <2>3, <2>4 DEF Typed
<1>14. CASE Close
  <2>1. HostTypes' /\ Armed'
    BY <1>14 DEF Close, FailOpenCalls, Typed, HostTypes, Armed, Verdicts
  <2>2. Posts' /\ PageTypes'
    BY <1>14 DEF Close, FailOpenCalls, outputVars, shellVars, Typed, PageTypes, Posts
  <2>3. Frames'
    BY <1>f, <1>14 DEF Close
  <2>4. QED
    BY <2>1, <2>2, <2>3 DEF Typed
<1>12. CASE UNCHANGED vars
  BY <1>p, <1>h, <1>f, <1>12 DEF vars, hostVars, linkVars, outputVars, shellVars, Typed
<1>13. QED
  BY ReceiveKeepsTypes, <1>1, <1>2, <1>3, <1>4, <1>5, <1>6, <1>7, <1>8, <1>9, <1>10, <1>11,
     <1>12, <1>14 DEF Next

(* Calls, frames, answers, processes and maps have their types. *)
THEOREM CommandsTypeCorrect == Spec => []TypeOK
<1>1. Spec => []Typed
  BY TypeInit, TypeStep, PTL DEF Spec
<1>2. QED
  BY <1>1, TypedIsTypeOK, PTL

-----------------------------------------------------------------------------
(* A timeout stops its command.  This takes that the timeout does not elapse *)
(* before the spawn, when the kill finds nobody of that name, and that a    *)
(* handle is not used again before the command that had it is over.         *)
Prompt == "slowSpawn" \notin Faults /\ "sharedHandle" \notin Faults

Stopped(c) == proc[c] \in {"dying"} \cup Over
AtWork(c) == proc[c] \in {"running", "dying"}

(* A command that was not sent yet is nowhere; one on the stream is there   *)
(* once, and not in the page; and a timeout's kill names its command, which *)
(* has been spawned.                                                        *)
SentOnce ==
  /\ \A c \in Cmds : verdict[c] = "unsent" => proc[c] = "none" /\ handle[c] = None
  /\ \A c \in Cmds : On(frames, "run", c) => proc[c] = "none" /\ verdict[c] # "unsent"
  /\ \A c \in Cmds : Once(frames, "run", c)
  /\ \A m \in ToSet(frames) : m.op = "kill" /\ m.by \in Cmds =>
       m.handle = handle[m.by] /\ proc[m.by] \notin {"none", "spawning"}

(* The page's map names exactly the commands at work that have a handle:    *)
(* two commands have the same one only when one of them is over.            *)
Named ==
  /\ \A c \in Cmds : AtWork(c) /\ handle[c] # None => running[handle[c]] = c
  /\ \A c, d \in Cmds : c # d /\ handle[c] = handle[d] /\ handle[c] # None
                          => proc[c] \in Over \/ proc[d] \in Over
  /\ \A h \in Handles : running[h] # None => handle[running[h]] = h /\ AtWork(running[h])

(* The answer to a kill, and the verdict it leads to, come after the kill.  *)
KilledFirst ==
  /\ \A c \in Cmds : On(posts, "kill", c) => Stopped(c)
  /\ \A c \in Cmds : verdict[c] = "RunnerTimeout" => Stopped(c)

CommandInv == Typed /\ SentOnce /\ Named /\ KilledFirst

(* Nothing has been sent at first. *)
LEMMA CommandInit == Init => CommandInv
<1> SUFFICES ASSUME Init
             PROVE  SentOnce /\ Named /\ KilledFirst
  BY TypeInit DEF CommandInv
<1>1. SentOnce
  BY DEF Init, SentOnce, On, Once, ToSet
<1>2. Named
  BY DEF Init, Named, AtWork
<1>3. KilledFirst
  BY DEF Init, KilledFirst, On
<1>4. QED
  BY <1>1, <1>2, <1>3

(* Steps that are about neither a command nor its timeout. *)
LEMMA CommandFrame ==
  ASSUME CommandInv, Typed', UNCHANGED <<handle, verdict, proc, running>>,
         \A c \in Cmds : On(frames', "run", c) => On(frames, "run", c),
         \A c \in Cmds : Once(frames', "run", c),
         \A m \in ToSet(frames') : m.op = "kill" /\ m.by \in Cmds => m \in ToSet(frames),
         \A c \in Cmds : On(posts', "kill", c) => On(posts, "kill", c)
  PROVE  CommandInv'
<1>1. SentOnce'
  BY DEF CommandInv, SentOnce
<1>2. Named'
  BY DEF CommandInv, Named, AtWork
<1>3. KilledFirst'
  BY DEF CommandInv, KilledFirst, Stopped
<1>4. QED
  BY <1>1, <1>2, <1>3 DEF CommandInv

(* A command is sent, under a name no command at work has. *)
LEMMA RunCommandStep ==
  ASSUME Prompt, CommandInv, Typed', NEW c \in Cmds, NEW name \in Names \cup {None},
         NEW timed \in BOOLEAN, RunCommand(c, name, timed)
  PROVE  CommandInv'
<1> USE CommandsAssumption
<1> DEFINE h == IF name = None /\ timed THEN c ELSE name
           m == Frame("run", c, h)
<1>1. /\ h \in Handles \cup {None}
      /\ verdict[c] = "unsent" /\ verdict' = [verdict EXCEPT ![c] = "waiting"]
      /\ handle' = [handle EXCEPT ![c] = h]
      /\ h = None \/ \A d \in Cmds : handle[d] = h => proc[d] \in Over
      /\ UNCHANGED <<posts, proc, running>>
  BY DEF RunCommand, Handles, Prompt, outputVars, shellVars
<1>2. m \in FrameSet /\ FrameShape(m) /\ Send(m) /\ m.op = "run" /\ m.by = c
  BY <1>1 DEF RunCommand, FrameSet, FrameShape, Frame
<1> HIDE DEF h, m
<1>3. /\ ToSet(frames') = ToSet(frames) \cup {m}
      /\ \A d \in Cmds : On(frames', "run", d) => On(frames, "run", d) \/ d = c
      /\ ~On(frames, "run", c)
      /\ \A d \in Cmds : Once(frames', "run", d)
  BY <1>1, <1>2, SendTypes DEF CommandInv, Typed, SentOnce
<1>4. proc[c] = "none" /\ handle[c] = None
  BY <1>1 DEF CommandInv, SentOnce
<1>5. /\ \A d \in Cmds : handle'[d] = IF d = c THEN h ELSE handle[d]
      /\ \A d \in Cmds : verdict'[d] = IF d = c THEN "waiting" ELSE verdict[d]
  BY <1>1 DEF CommandInv, Typed, HostTypes
<1>6. SentOnce'
  <2>1. \A x \in ToSet(frames') : x.op = "kill" /\ x.by \in Cmds =>
          x \in ToSet(frames) /\ x.by # c
    BY <1>2, <1>3, <1>4 DEF CommandInv, SentOnce
  <2>2. QED
    BY <1>1, <1>3, <1>4, <1>5, <2>1 DEF CommandInv, SentOnce
<1>7. Named'
  <2>1. \A d \in Cmds : AtWork(d)' => AtWork(d) /\ d # c
    BY <1>1, <1>4 DEF AtWork
  <2>2. \A x \in Handles : running[x] # None => running[x] \in Cmds /\ running[x] # c
    BY <1>4 DEF CommandInv, Named, AtWork, Typed, PageTypes
  <2>3. \A d, e \in Cmds : d # e /\ handle'[d] = handle'[e] /\ handle'[d] # None
                          => proc[d] \in Over \/ proc[e] \in Over
    BY <1>1, <1>5 DEF CommandInv, Named
  <2>4. QED
    BY <1>1, <1>5, <2>1, <2>2, <2>3 DEF CommandInv, Named, AtWork
<1>8. KilledFirst'
  BY <1>1, <1>5 DEF CommandInv, KilledFirst, Stopped
<1>9. QED
  BY <1>6, <1>7, <1>8 DEF CommandInv

(* A timeout elapses after the spawn. *)
LEMMA TimeoutStep ==
  ASSUME Prompt, CommandInv, Typed', NEW c \in Cmds, TimeoutElapses(c)
  PROVE  CommandInv'
<1> DEFINE m == Frame("kill", c, handle[c])
<1>1. /\ handle[c] \in Handles /\ proc[c] \notin {"none", "spawning"} /\ Send(m)
      /\ UNCHANGED <<handle, verdict, posts, proc, running>>
  BY DEF TimeoutElapses, AwaitKill, Prompt, CommandInv, Typed, Armed, outputVars, shellVars
<1>2. /\ m \in FrameSet /\ FrameShape(m) /\ m.op = "kill" /\ m.by = c
      /\ m.handle = handle[c]
  BY <1>1 DEF FrameSet, FrameShape, Frame
<1> HIDE DEF m
<1>3. /\ ToSet(frames') = ToSet(frames) \cup {m}
      /\ \A d \in Cmds : On(frames', "run", d) => On(frames, "run", d)
      /\ \A d \in Cmds : Once(frames', "run", d)
  BY <1>1, <1>2, SendTypes DEF CommandInv, Typed, SentOnce
<1>4. SentOnce'
  BY <1>1, <1>2, <1>3 DEF CommandInv, SentOnce
<1>5. Named' /\ KilledFirst'
  BY <1>1 DEF CommandInv, Named, KilledFirst, AtWork, Stopped
<1>6. QED
  BY <1>4, <1>5 DEF CommandInv

(* An answer arrives: a timeout is reported on a kill's answer only. *)
LEMMA DeliverStep ==
  ASSUME CommandInv, Typed', NEW i \in DOMAIN posts, Deliver(i)
  PROVE  CommandInv'
<1>1. UNCHANGED <<frames, handle, proc, running>>
  BY DEF Deliver, outputVars, shellVars
<1>2. /\ \A c \in Cmds : On(posts', "kill", c) => On(posts, "kill", c)
      /\ On(posts, posts[i].op, posts[i].by)
  BY DeliverTypes DEF CommandInv, Typed
<1>3. \A c \in Cmds : /\ verdict'[c] = "unsent" <=> verdict[c] = "unsent"
                      /\ verdict'[c] = "RunnerTimeout" =>
                           verdict[c] = "RunnerTimeout" \/ On(posts, "kill", c)
  <2> USE DEF CommandInv, Typed, HostTypes, InFlight
  <2>1. CASE posts[i].op = "run"
    BY <2>1, DeliverEffect DEF ExitCodes
  <2>2. CASE posts[i].op = "kill"
    BY <1>2, <2>2, DeliverEffect
  <2>3. CASE posts[i].op = "open"
    BY <2>3, DeliverEffect
  <2>4. QED
    BY <2>1, <2>2, <2>3, DeliverEffect
<1>4. SentOnce' /\ Named'
  BY <1>1, <1>3 DEF CommandInv, SentOnce, Named, AtWork
<1>5. KilledFirst'
  BY <1>1, <1>2, <1>3 DEF CommandInv, KilledFirst, Stopped
<1>6. QED
  BY <1>4, <1>5 DEF CommandInv

(* The handlers of the page.  A kill finds the command it was sent for, or  *)
(* one that is over.                                                        *)
LEMMA ReceiveStep ==
  ASSUME CommandInv, Typed', Receive
  PROVE  CommandInv'
<1> DEFINE m == Head(frames)
<1>1. /\ m \in FrameSet /\ FrameShape(m) /\ m \in ToSet(frames) /\ On(frames, m.op, m.by)
      /\ \A c \in Cmds : On(frames', "run", c) => On(frames, "run", c)
      /\ \A c \in Cmds : Once(frames', "run", c)
      /\ \A c \in Cmds : m.op = "run" /\ m.by = c => ~On(frames', "run", c)
      /\ ToSet(frames') \subseteq ToSet(frames)
  BY ReceiveTypes DEF CommandInv, Typed, SentOnce
<1>2. UNCHANGED <<handle, verdict>>
  BY DEF Receive, hostVars
<1>3. ReceiveRun(m) \/ ReceiveKill(m) \/ ReceiveResize(m) \/ ReceiveOpen(m) \/ ReceiveClose(m)
  BY DEF Receive
<1> HIDE DEF m
<1>4. CASE ReceiveRun(m)
  <2>1. m.op = "run" /\ m.by \in Cmds
    BY <1>1, <1>4 DEF ReceiveRun, FrameShape
  <2>2. proc[m.by] = "none" /\ verdict[m.by] # "unsent"
    BY <1>1, <2>1 DEF CommandInv, SentOnce
  <2>3. /\ \A c \in Cmds : proc'[c] = IF c = m.by THEN "spawning" ELSE proc[c]
        /\ UNCHANGED <<posts, running>>
    BY <1>4, <2>1 DEF ReceiveRun, CommandInv, Typed, PageTypes
  <2>4. SentOnce'
    BY <1>1, <1>2, <2>1, <2>2, <2>3 DEF CommandInv, SentOnce
  <2>5. Named'
    BY <1>2, <2>2, <2>3 DEF CommandInv, Named, AtWork, Typed, PageTypes, Over
  <2>6. KilledFirst'
    BY <1>2, <2>2, <2>3 DEF CommandInv, KilledFirst, Stopped, Over
  <2>7. QED
    BY <2>4, <2>5, <2>6 DEF CommandInv
<1>5. CASE ReceiveKill(m)
  <2>1. m.op = "kill" /\ m.by \in Cmds \cup {None} /\ m.handle \in Handles
    BY <1>1, <1>5 DEF ReceiveKill, FrameShape
  <2> DEFINE v == running[m.handle]
  <2>2. PICK value \in {"hit", "miss"} : Post("kill", m.by, value)
    BY <1>5 DEF ReceiveKill, AnswerHit
  <2>3. \A c \in Cmds : On(posts', "kill", c) => On(posts, "kill", c) \/ c = m.by
    BY <2>1, <2>2, PostTypes DEF PostSet, PostShape, CommandInv, Typed
  <2>4. v # None => v \in Cmds /\ handle[v] = m.handle /\ AtWork(v)
    BY <2>1 DEF CommandInv, Named, Typed, PageTypes
  <2>5. m.by \in Cmds => m.handle = handle[m.by] /\ proc[m.by] \notin {"none", "spawning"}
    BY <1>1, <2>1 DEF CommandInv, SentOnce
  <2>6. /\ running' = running
        /\ \A c \in Cmds : proc'[c] = IF c = v THEN "dying" ELSE proc[c]
    <3>1. CASE v = None
      BY <1>5, <3>1, CommandsAssumption DEF ReceiveKill, Handles
    <3>2. CASE v # None
      BY <1>5, <2>4, <3>2 DEF ReceiveKill, CommandInv, Typed, PageTypes
    <3>3. QED
      BY <3>1, <3>2
  <2> HIDE DEF v
  <2>7. \A c \in Cmds : c = v => AtWork(c)
    BY <2>4, CommandsAssumption DEF Handles
  <2>8. \A c \in Cmds :
          /\ proc'[c] = proc[c] \/ (proc[c] \in {"running", "dying"} /\ proc'[c] = "dying")
          /\ c = v => proc'[c] = "dying"
    BY <2>6, <2>7 DEF AtWork
  <2>9. m.by \in Cmds => proc'[m.by] \in {"dying"} \cup Over
    <3>1. CASE m.by \in Cmds /\ AtWork(m.by)
      <4>1. m.by = v
        BY <2>1, <2>5, <3>1, CommandsAssumption DEF CommandInv, Named, Handles, v
      <4>2. QED
        BY <2>8, <3>1, <4>1
    <3>2. CASE m.by \in Cmds /\ ~AtWork(m.by)
      <4>1. proc[m.by] \in {"none", "spawning", "running", "dying"} \cup Over
        BY <3>2 DEF CommandInv, Typed, PageTypes
      <4>2. QED
        BY <2>5, <2>8, <3>2, <4>1 DEF AtWork
    <3>3. QED
      BY <3>1, <3>2
  <2>10. SentOnce'
    <3>1. \A c \in Cmds : /\ proc'[c] = "none" <=> proc[c] = "none"
                          /\ proc'[c] = "spawning" <=> proc[c] = "spawning"
      BY <2>8
    <3>2. QED
      BY <1>1, <1>2, <3>1 DEF CommandInv, SentOnce
  <2>11. Named'
    <3>1. \A h \in Handles : running[h] # None => running[h] \in Cmds
      BY DEF CommandInv, Typed, PageTypes
    <3>2. \A c \in Cmds : /\ proc'[c] \in {"running", "dying"} <=> AtWork(c)
                          /\ proc'[c] \in Over <=> proc[c] \in Over
      BY <2>8 DEF AtWork, Over
    <3>3. QED
      BY <1>2, <2>6, <3>1, <3>2 DEF CommandInv, Named, AtWork
  <2>12. KilledFirst'
    <3>1. \A c \in Cmds : Stopped(c) => proc'[c] \in {"dying"} \cup Over
      BY <2>8 DEF Stopped
    <3>2. QED
      BY <1>2, <2>3, <2>9, <3>1 DEF CommandInv, KilledFirst, Stopped
  <2>13. QED
    BY <2>10, <2>11, <2>12 DEF CommandInv
<1>6. CASE ReceiveResize(m) \/ ReceiveOpen(m) \/ ReceiveClose(m)
  <2>1. UNCHANGED <<proc, running>>
    BY <1>6 DEF ReceiveResize, ReceiveOpen, ReceiveClose
  <2>2. \A c \in Cmds : On(posts', "kill", c) => On(posts, "kill", c)
    <3>1. CASE UNCHANGED posts
      BY <3>1
    <3>2. CASE m.op = "open" /\ Post("open", m.by, "refused")
      <4>1. m.by \in Openers
        BY <1>1, <3>2 DEF FrameShape
      <4>2. QED
        BY <3>2, <4>1, PostTypes DEF PostSet, PostShape, CommandInv, Typed
    <3>3. QED
      BY <1>6, <3>1, <3>2 DEF ReceiveResize, ReceiveOpen, ReceiveClose
  <2>3. QED
    BY <1>1, <1>2, <2>1, <2>2, CommandFrame
<1>7. QED
  BY <1>3, <1>4, <1>5, <1>6

(* The spawn resolves: nobody at work has the handle. *)
LEMMA SpawnedStep ==
  ASSUME CommandInv, Typed', NEW c \in Cmds, Spawned(c)
  PROVE  CommandInv'
<1>1. /\ UNCHANGED <<handle, verdict, frames, posts>> /\ proc[c] = "spawning"
      /\ \A d \in Cmds : proc'[d] = IF d = c THEN "running" ELSE proc[d]
  BY DEF Spawned, hostVars, linkVars, CommandInv, Typed, PageTypes
<1>2. \A h \in Handles : running'[h] = IF h = handle[c] THEN c ELSE running[h]
  BY CommandsAssumption DEF Spawned, CommandInv, Typed, HostTypes, PageTypes
<1>3. \A d \in Cmds : d # c /\ handle[d] = handle[c] /\ handle[c] # None => proc[d] \in Over
  BY <1>1 DEF CommandInv, Named, Over
<1>4. SentOnce'
  BY <1>1 DEF CommandInv, SentOnce
<1>5. Named'
  <2>1. \A d \in Cmds : proc'[d] \in {"running", "dying"} => d = c \/ AtWork(d)
    BY <1>1 DEF AtWork
  <2>2. \A d \in Cmds : AtWork(d) => proc'[d] \in {"running", "dying"} /\ d # c
    BY <1>1 DEF AtWork
  <2>3. \A d \in Cmds : handle'[d] = handle[d] /\ handle[d] \in Handles \cup {None}
    BY <1>1 DEF CommandInv, Typed, HostTypes
  <2>4. \A d \in Cmds : (d = c \/ AtWork(d)) /\ handle[d] # None => running'[handle[d]] = d
    <3>1. \A d \in Cmds : AtWork(d) /\ handle[d] = handle[c] /\ handle[c] # None => FALSE
      BY <1>1, <1>3 DEF AtWork, Over
    <3>2. QED
      BY <1>2, <2>3, <3>1 DEF CommandInv, Named
  <2>5. \A h \in Handles : running'[h] # None =>
          handle[running'[h]] = h /\ proc'[running'[h]] \in {"running", "dying"}
    BY <1>1, <1>2, <2>2 DEF CommandInv, Named, Typed, PageTypes
  <2>6. \A d, e \in Cmds : d # e /\ handle[d] = handle[e] /\ handle[d] # None
                          => proc'[d] \in Over \/ proc'[e] \in Over
    <3>1. \A d \in Cmds : proc[d] \in Over => proc'[d] \in Over
      BY <1>1 DEF Over
    <3>2. QED
      BY <3>1 DEF CommandInv, Named
  <2>7. QED
    BY <1>1, <2>1, <2>3, <2>4, <2>5, <2>6 DEF Named, AtWork
<1>6. KilledFirst'
  BY <1>1 DEF CommandInv, KilledFirst, Stopped, Over
<1>7. QED
  BY <1>4, <1>5, <1>6 DEF CommandInv

(* A command is over: it exited, and its handle is free, or it was never    *)
(* spawned, and had none in the page.                                       *)
LEMMA OverStep ==
  ASSUME CommandInv, Typed', NEW c \in Cmds,
         SpawnFails(c) \/ \E code \in ExitCodes : Exit(c, code)
  PROVE  CommandInv'
<1>1. PICK end \in Over : \A d \in Cmds : proc'[d] = IF d = c THEN end ELSE proc[d]
  BY DEF SpawnFails, Exit, Over, CommandInv, Typed, PageTypes
<1>2. UNCHANGED <<handle, verdict, frames>> /\ proc[c] \in {"spawning", "running", "dying"}
  BY DEF SpawnFails, Exit, hostVars
<1>3. PICK value \in ExitCodes \cup {"UnknownFailure"} : Post("run", c, value)
  BY DEF SpawnFails, Exit
<1>4. \A d \in Cmds : On(posts', "kill", d) => On(posts, "kill", d)
  BY <1>3, PostTypes DEF PostSet, PostShape, Verdicts, CommandInv, Typed
<1>5. \A h \in Handles : running'[h] = IF running[h] = c THEN None ELSE running[h]
  <2>1. CASE SpawnFails(c)
    <3>1. \A h \in Handles : running[h] # c
      BY <2>1, CommandsAssumption DEF SpawnFails, CommandInv, Named, AtWork, Handles
    <3>2. QED
      BY <2>1, <3>1 DEF SpawnFails
  <2>2. CASE \E code \in ExitCodes : Exit(c, code)
    <3>1. AtWork(c)
      BY <2>2 DEF Exit, AtWork
    <3>2. \A h \in Handles : running[h] = c <=> h = handle[c]
      BY <3>1, CommandsAssumption DEF CommandInv, Named, Handles
    <3>3. QED
      BY <2>2, <3>2, CommandsAssumption DEF Exit, CommandInv, Typed, HostTypes, PageTypes
  <2>3. QED
    BY <2>1, <2>2
<1>6. SentOnce'
  BY <1>1, <1>2 DEF CommandInv, SentOnce, Over
<1>7. Named'
  <2>1. \A d \in Cmds : proc'[d] \in {"running", "dying"} <=> AtWork(d) /\ d # c
    BY <1>1 DEF AtWork, Over
  <2>2. \A d \in Cmds : proc[d] \in Over => proc'[d] \in Over
    BY <1>1
  <2>3. \A d \in Cmds : handle[d] \in Handles \cup {None}
    BY DEF CommandInv, Typed, HostTypes
  <2>4. \A h \in Handles : running[h] \in Cmds \cup {None}
    BY DEF CommandInv, Typed, PageTypes
  <2>5. QED
    BY <1>2, <1>5, <2>1, <2>2, <2>3, <2>4 DEF CommandInv, Named, AtWork
<1>8. KilledFirst'
  <2>1. \A d \in Cmds : Stopped(d) => proc'[d] \in {"dying"} \cup Over
    BY <1>1 DEF Stopped, Over
  <2>2. QED
    BY <1>2, <1>4, <2>1 DEF CommandInv, KilledFirst, Stopped
<1>9. QED
  BY <1>6, <1>7, <1>8 DEF CommandInv

(* The client is closed: what was sent and answered stays on its way, and   *)
(* no caller is told of a timeout for it.                                   *)
LEMMA CloseStep ==
  ASSUME CommandInv, Typed', Close
  PROVE  CommandInv'
<1>1. /\ UNCHANGED <<frames, posts, handle, proc, running>>
      /\ \A c \in Cmds : verdict'[c] = IF verdict[c] = "waiting" THEN "RunnerGone" ELSE verdict[c]
  BY DEF Close, FailOpenCalls, InFlight
<1>2. SentOnce' /\ Named'
  BY <1>1 DEF CommandInv, SentOnce, Named, AtWork
<1>3. KilledFirst'
  BY <1>1 DEF CommandInv, KilledFirst, Stopped
<1>4. QED
  BY <1>2, <1>3 DEF CommandInv

(* The page goes, and every command with it. *)
LEMMA GoneStep ==
  ASSUME CommandInv, Typed', Gone
  PROVE  CommandInv'
<1>1. /\ frames' = <<>> /\ posts' = <<>> /\ UNCHANGED handle
      /\ \A c \in Cmds : proc'[c] = IF proc[c] = "none" THEN "none" ELSE "gone"
      /\ \A c \in Cmds : verdict'[c] = IF verdict[c] = "waiting" THEN "RunnerGone" ELSE verdict[c]
      /\ \A h \in Handles : running'[h] = None
  BY DEF Gone, FailOpenCalls, InFlight
<1>2. SentOnce'
  BY <1>1 DEF CommandInv, SentOnce, On, Once, ToSet
<1>3. Named'
  <2>1. \A c, d \in Cmds : c # d /\ handle[c] = handle[d] /\ handle[c] # None
                          => proc'[c] \in Over \/ proc'[d] \in Over
    BY <1>1 DEF CommandInv, Named, Over
  <2>2. \A c \in Cmds : proc'[c] \notin {"running", "dying"}
    BY <1>1
  <2>3. QED
    BY <1>1, <2>1, <2>2 DEF Named, AtWork
<1>4. KilledFirst'
  BY <1>1 DEF CommandInv, KilledFirst, Stopped, Over, On
<1>5. QED
  BY <1>2, <1>3, <1>4 DEF CommandInv

(* Every step keeps the invariant. *)
LEMMA CommandStep == Prompt /\ CommandInv /\ [Next]_vars => CommandInv'
<1> SUFFICES ASSUME Prompt, CommandInv, [Next]_vars
             PROVE  CommandInv'
  OBVIOUS
<1>1. Typed'
  BY TypeStep DEF CommandInv
<1>s. ASSUME NEW m \in FrameSet, FrameShape(m), Send(m), m.op # "run",
             ~(m.op = "kill" /\ m.by \in Cmds),
             UNCHANGED <<handle, verdict, proc, running, posts>>
      PROVE  CommandInv'
  <2>1. ToSet(frames') = ToSet(frames) \cup {m}
    BY <1>s, SendTypes DEF CommandInv, Typed
  <2>2. \A c \in Cmds : On(frames', "run", c) => On(frames, "run", c)
    BY <1>s, SendTypes DEF CommandInv, Typed
  <2>3. \A c \in Cmds : Once(frames', "run", c)
    BY <1>s, SendTypes DEF CommandInv, Typed, SentOnce
  <2>4. QED
    BY <1>1, <1>s, <2>1, <2>2, <2>3, CommandFrame
<1>2. ASSUME NEW op \in {"kill", "resize"}, NEW h \in Handles, Signal(op, h)
      PROVE  CommandInv'
  <2> DEFINE m == Frame(op, None, h)
  <2>1. m \in FrameSet /\ FrameShape(m) /\ m.op = op /\ m.by = None
    BY DEF FrameSet, FrameShape, Frame
  <2>2. Send(m) /\ UNCHANGED <<handle, verdict, proc, running, posts>>
    BY <1>2 DEF Signal
  <2>3. m.op # "run" /\ None \notin Cmds
    BY <2>1, CommandsAssumption DEF Handles
  <2> HIDE DEF m
  <2>4. QED
    BY <1>s, <2>1, <2>2, <2>3
<1>3. ASSUME NEW o \in Openers, OpenShell(o) \/ CloseShell(o)
      PROVE  CommandInv'
  <2>1. PICK op \in {"open", "close"} : Send(Frame(op, o, None))
    BY <1>3 DEF OpenShell, CloseShell
  <2> DEFINE m == Frame(op, o, None)
  <2>2. m \in FrameSet /\ FrameShape(m) /\ m.op = op
    BY DEF FrameSet, FrameShape, Frame
  <2>3. UNCHANGED <<handle, verdict, proc, running, posts>>
    BY <1>3 DEF OpenShell, CloseShell
  <2>4. Send(m) /\ m.op # "run" /\ m.op # "kill"
    BY <2>1, <2>2
  <2> HIDE DEF m
  <2>5. QED
    BY <1>s, <2>2, <2>3, <2>4
<1>4. ASSUME NEW o \in Openers, Opened(o)
      PROVE  CommandInv'
  <2>1. PICK value \in {"open", "failed"} : Post("open", o, value)
    BY <1>4 DEF Opened
  <2>2. \A c \in Cmds : On(posts', "kill", c) => On(posts, "kill", c)
    BY <2>1, PostTypes DEF PostSet, PostShape, CommandInv, Typed
  <2>3. UNCHANGED <<handle, verdict, proc, running, frames>>
    BY <1>4 DEF Opened, hostVars
  <2>4. QED
    BY <1>1, <2>2, <2>3, CommandFrame DEF CommandInv, SentOnce
<1>5. ASSUME NEW c \in Cmds, NEW n \in 1..MaxChars, Read(c, n)
      PROVE  CommandInv'
  <2>1. UNCHANGED <<handle, verdict, proc, running, frames, posts>>
    BY <1>5 DEF Read, hostVars, linkVars
  <2>2. QED
    BY <1>1, <2>1, CommandFrame DEF CommandInv, SentOnce
<1>6. CASE UNCHANGED vars
  <2>1. UNCHANGED <<handle, verdict, proc, running, frames, posts>>
    BY <1>6 DEF vars, hostVars, linkVars
  <2>2. QED
    BY <1>1, <2>1, CommandFrame DEF CommandInv, SentOnce
<1>7. QED
  BY <1>1, <1>2, <1>3, <1>4, <1>5, <1>6, RunCommandStep, TimeoutStep, DeliverStep, ReceiveStep,
     SpawnedStep, OverStep, CloseStep, GoneStep DEF Next

(* A caller told of a timeout is told of a command that is over or killed:  *)
(* with the two assumptions, for any number of commands under any handles,  *)
(* and even when answers overtake each other.                               *)
THEOREM TimeoutsAreKept == Prompt => (Spec => []TimeoutMeansStopped)
<1>1. ASSUME Prompt
      PROVE  Spec => []TimeoutMeansStopped
  <2>1. CommandInv => TimeoutMeansStopped
    BY DEF CommandInv, KilledFirst, Stopped, TimeoutMeansStopped, Over
  <2>2. CommandInv /\ [Next]_vars => CommandInv'
    BY <1>1, CommandStep
  <2>3. QED
    BY CommandInit, <2>1, <2>2, PTL DEF Spec
<1>2. QED
  BY <1>1

-----------------------------------------------------------------------------
(* A live shell is the one its id names.  This takes that no shell is       *)
(* opened while another with its id is opening: the page checks the id      *)
(* before it awaits the session and takes it after.                         *)

InTurn == "openTogether" \notin Faults

(* At most one openShell is waited for, or was when the client was closed; its call, or its session, or its    *)
(* answer, is somewhere, and no two of them are.                            *)
Asked(o) == opening[o] \in {"waiting", "RunnerGone"}
OneOpening ==
  /\ \A o, p \in Openers : Asked(o) /\ Asked(p) => o = p
  /\ attached => \A o \in Openers : opening[o] # "RunnerGone"
  /\ \A o \in Openers : Once(frames, "open", o) /\ Once(posts, "open", o)
  /\ \A o \in Openers : On(frames, "open", o) =>
       Asked(o) /\ shell[o] = "none" /\ ~On(posts, "open", o)
  /\ \A o \in Openers : shell[o] = "opening" =>
       Asked(o) /\ shells = None /\ ~On(posts, "open", o)
  /\ \A o \in Openers : On(posts, "open", o) => Asked(o)
  /\ \A o \in Openers : opening[o] = "unsent" => shell[o] = "none"

(* The id names a shell that was opened, and every live one. *)
IdTaken ==
  /\ \A o \in Openers : shells = o => shell[o] # "none"
  /\ \A o \in Openers : shell[o] = "live" => shells = o

ShellInv == Typed /\ OneOpening /\ IdTaken

(* No shell has been opened at first. *)
LEMMA ShellInit == Init => ShellInv
<1> SUFFICES ASSUME Init
             PROVE  OneOpening /\ IdTaken
  BY TypeInit DEF ShellInv
<1>1. QED
  BY CommandsAssumption DEF Init, OneOpening, Asked, IdTaken, On, Once

(* Steps that are not about shells. *)
LEMMA ShellFrame ==
  ASSUME ShellInv, Typed', UNCHANGED <<attached, opening, shell, shells>>,
         \A o \in Openers : On(frames', "open", o) => On(frames, "open", o),
         \A o \in Openers : Once(frames', "open", o) /\ Once(posts', "open", o),
         \A o \in Openers : On(posts', "open", o) => On(posts, "open", o)
  PROVE  ShellInv'
<1>1. OneOpening'
  BY DEF ShellInv, OneOpening, Asked
<1>2. IdTaken'
  BY DEF ShellInv, IdTaken
<1>3. QED
  BY <1>1, <1>2 DEF ShellInv

(* A call of another kind is sent. *)
LEMMA ShellUnsent ==
  ASSUME ShellInv, Typed', NEW m \in FrameSet, FrameShape(m), Send(m), m.op # "open",
         UNCHANGED <<attached, opening, shell, shells, posts>>
  PROVE  ShellInv'
<1>1. \A o \in Openers : On(frames', "open", o) => On(frames, "open", o)
  BY SendTypes DEF ShellInv, Typed
<1>2. \A o \in Openers : Once(frames', "open", o)
  BY SendTypes DEF ShellInv, Typed, OneOpening
<1>3. QED
  BY <1>1, <1>2, ShellFrame DEF ShellInv, OneOpening, Asked

(* A shell is asked for when none is opening. *)
LEMMA OpenShellStep ==
  ASSUME InTurn, ShellInv, Typed', NEW o \in Openers, OpenShell(o)
  PROVE  ShellInv'
<1> DEFINE m == Frame("open", o, None)
<1>1. /\ opening[o] = "unsent" /\ \A p \in Openers : opening[p] # "waiting"
      /\ \A p \in Openers : opening'[p] = IF p = o THEN "waiting" ELSE opening[p]
      /\ attached /\ UNCHANGED <<attached, posts, shell, shells>>
  BY DEF OpenShell, InTurn, shellVars, ShellInv, Typed, HostTypes
<1>2. m \in FrameSet /\ FrameShape(m) /\ Send(m) /\ m.op = "open" /\ m.by = o
  BY DEF OpenShell, FrameSet, FrameShape, Frame
<1> HIDE DEF m
<1>3. /\ \A p \in Openers : On(frames', "open", p) <=> On(frames, "open", p) \/ p = o
      /\ ~On(frames, "open", o)
      /\ \A p \in Openers : Once(frames', "open", p)
  BY <1>1, <1>2, SendTypes DEF ShellInv, Typed, OneOpening, Asked
<1>4. OneOpening'
  BY <1>1, <1>3 DEF ShellInv, OneOpening, Asked
<1>5. IdTaken'
  BY <1>1 DEF ShellInv, IdTaken
<1>6. QED
  BY <1>4, <1>5 DEF ShellInv

(* The answer to an openShell arrives: nothing is left of the call. *)
LEMMA OpenAnswered ==
  ASSUME ShellInv, Typed', NEW i \in DOMAIN posts, Deliver(i)
  PROVE  ShellInv'
<1>1. /\ \A o \in Openers : On(posts', "open", o) => On(posts, "open", o)
      /\ \A o \in Openers : Once(posts', "open", o)
      /\ attached /\ UNCHANGED <<attached, frames, shell, shells>>
  BY DeliverTypes DEF Deliver, shellVars, ShellInv, Typed, OneOpening
<1>2. CASE posts[i].op # "open"
  <2>1. UNCHANGED opening
    BY <1>2, DeliverEffect DEF ShellInv
  <2>2. QED
    BY <1>1, <2>1, ShellFrame DEF ShellInv, OneOpening, Asked
<1>3. CASE posts[i].op = "open"
  <2>1. PICK o \in Openers : posts[i].by = o
    BY <1>3, DeliverEffect DEF ShellInv
  <2>2. PICK value \in {"open", "refused", "failed"} :
          \A p \in Openers : opening'[p] = IF p = o THEN value ELSE opening[p]
    BY <1>3, <2>1, DeliverEffect DEF ShellInv, Typed, HostTypes
  <2>3. On(posts, "open", o) /\ ~On(posts', "open", o)
    BY <1>3, <2>1, DeliverTypes DEF ShellInv, Typed, OneOpening
  <2>4. ~On(frames, "open", o) /\ shell[o] # "opening"
    BY <2>3 DEF ShellInv, OneOpening, Asked
  <2>5. OneOpening'
    BY <1>1, <2>2, <2>3, <2>4 DEF ShellInv, OneOpening, Asked
  <2>6. IdTaken'
    BY <1>1 DEF ShellInv, IdTaken
  <2>7. QED
    BY <2>5, <2>6 DEF ShellInv
<1>4. QED
  BY <1>2, <1>3

(* The page's handlers: a session is opened when the id is free, and any    *)
(* session the map holds is closed.                                         *)
LEMMA ShellReceived ==
  ASSUME ShellInv, Typed', Receive
  PROVE  ShellInv'
<1> DEFINE m == Head(frames)
<1>1. /\ m \in FrameSet /\ FrameShape(m) /\ On(frames, m.op, m.by)
      /\ \A o \in Openers : On(frames', "open", o) => On(frames, "open", o)
      /\ \A o \in Openers : Once(frames', "open", o)
      /\ \A o \in Openers : m.op = "open" /\ m.by = o => ~On(frames', "open", o)
  BY ReceiveTypes DEF ShellInv, Typed, OneOpening
<1>2. UNCHANGED <<attached, opening>>
  BY DEF Receive, hostVars
<1>3. ReceiveRun(m) \/ ReceiveKill(m) \/ ReceiveResize(m) \/ ReceiveOpen(m) \/ ReceiveClose(m)
  BY DEF Receive
<1> HIDE DEF m
<1>4. CASE ReceiveRun(m) \/ ReceiveKill(m) \/ ReceiveResize(m)
  <2>1. UNCHANGED <<shell, shells>>
    BY <1>4 DEF ReceiveRun, ReceiveKill, ReceiveResize, shellVars
  <2>2. /\ \A o \in Openers : On(posts', "open", o) => On(posts, "open", o)
        /\ \A o \in Openers : Once(posts', "open", o)
    <3>1. CASE UNCHANGED posts
      BY <3>1 DEF ShellInv, OneOpening, Asked
    <3>2. CASE ReceiveKill(m)
      <4>1. PICK value \in {"hit", "miss"} : Post("kill", m.by, value)
        BY <3>2 DEF ReceiveKill, AnswerHit
      <4>2. m.by \in Cmds \cup {None}
        BY <1>1, <3>2 DEF ReceiveKill, FrameShape
      <4>3. QED
        BY <4>1, <4>2, PostTypes DEF PostSet, PostShape, ShellInv, Typed, OneOpening
    <3>3. QED
      BY <1>4, <3>1, <3>2 DEF ReceiveRun, ReceiveResize
  <2>3. QED
    BY <1>1, <1>2, <2>1, <2>2, ShellFrame
<1>5. CASE ReceiveOpen(m)
  <2>1. PICK o \in Openers : m.by = o /\ m.op = "open"
    BY <1>1, <1>5 DEF ReceiveOpen, FrameShape
  <2>2. /\ Asked(o) /\ shell[o] = "none"
        /\ ~On(posts, "open", o) /\ ~On(frames', "open", o)
    BY <1>1, <2>1 DEF ShellInv, OneOpening, Asked
  <2>3. CASE IdIsFree
    <3>1. /\ shells = None /\ UNCHANGED <<posts, shells>>
          /\ \A p \in Openers : shell'[p] = IF p = o THEN "opening" ELSE shell[p]
      BY <1>5, <2>1, <2>3 DEF ReceiveOpen, IdIsFree, ShellInv, Typed, PageTypes
    <3>2. OneOpening'
      BY <1>1, <1>2, <2>2, <3>1 DEF ShellInv, OneOpening, Asked
    <3>3. IdTaken'
      BY <3>1 DEF ShellInv, IdTaken
    <3>4. QED
      BY <3>2, <3>3 DEF ShellInv
  <2>4. CASE ~IdIsFree
    <3>1. UNCHANGED <<shell, shells>> /\ Post("open", o, "refused")
      BY <1>5, <2>1, <2>4 DEF ReceiveOpen
    <3>2. /\ \A p \in Openers : On(posts', "open", p) => On(posts, "open", p) \/ p = o
          /\ \A p \in Openers : Once(posts', "open", p)
      BY <2>2, <3>1, PostTypes DEF PostSet, PostShape, ShellInv, Typed, OneOpening
    <3>3. OneOpening'
      BY <1>1, <1>2, <2>2, <3>1, <3>2 DEF ShellInv, OneOpening, Asked
    <3>4. IdTaken'
      BY <3>1 DEF ShellInv, IdTaken
    <3>5. QED
      BY <3>3, <3>4 DEF ShellInv
  <2>5. QED
    BY <2>3, <2>4
<1>6. CASE ReceiveClose(m)
  <2>1. /\ UNCHANGED posts /\ shells' = None
        /\ \A o \in Openers : shell'[o] = IF o = shells THEN "closed" ELSE shell[o]
    BY <1>6, CommandsAssumption DEF ReceiveClose, ShellInv, Typed, PageTypes
  <2>2. OneOpening'
    BY <1>1, <1>2, <2>1 DEF ShellInv, OneOpening, Asked, IdTaken
  <2>3. IdTaken'
    BY <2>1, CommandsAssumption DEF ShellInv, IdTaken
  <2>4. QED
    BY <2>2, <2>3 DEF ShellInv
<1>7. QED
  BY <1>3, <1>4, <1>5, <1>6

(* ShellSession.open resolves or fails: no other session has the id. *)
LEMMA OpenedStep ==
  ASSUME ShellInv, Typed', NEW o \in Openers, Opened(o)
  PROVE  ShellInv'
<1>1. PICK value \in {"open", "failed"} : Post("open", o, value)
  BY DEF Opened
<1>2. /\ UNCHANGED <<attached, opening, frames>> /\ shell[o] = "opening" /\ Asked(o)
      /\ shells = None /\ ~On(posts, "open", o)
      /\ \A p \in Openers : p # o => shell[p] # "opening"
  BY DEF Opened, hostVars, ShellInv, OneOpening, Asked
<1>3. /\ \A p \in Openers : On(posts', "open", p) => On(posts, "open", p) \/ p = o
      /\ \A p \in Openers : Once(posts', "open", p)
  BY <1>1, <1>2, PostTypes DEF PostSet, PostShape, ShellInv, Typed, OneOpening
<1>4. PICK end \in {"live", "closed"} :
        /\ \A p \in Openers : shell'[p] = IF p = o THEN end ELSE shell[p]
        /\ shells' = IF end = "live" THEN o ELSE None
  BY <1>2 DEF Opened, ShellInv, Typed, PageTypes
<1>5. OneOpening'
  BY <1>2, <1>3, <1>4 DEF ShellInv, OneOpening, Asked
<1>6. IdTaken'
  BY <1>2, <1>4, CommandsAssumption DEF ShellInv, IdTaken
<1>7. QED
  BY <1>5, <1>6 DEF ShellInv

(* Every step keeps the invariant. *)
LEMMA ShellStep == InTurn /\ ShellInv /\ [Next]_vars => ShellInv'
<1> SUFFICES ASSUME InTurn, ShellInv, [Next]_vars
             PROVE  ShellInv'
  OBVIOUS
<1>1. Typed'
  BY TypeStep DEF ShellInv
<1>2. ASSUME NEW c \in Cmds, NEW name \in Names \cup {None}, NEW timed \in BOOLEAN,
             RunCommand(c, name, timed)
      PROVE  ShellInv'
  <2> DEFINE m == Frame("run", c, IF name = None /\ timed THEN c ELSE name)
  <2>1. m \in FrameSet /\ FrameShape(m) /\ m.op # "open"
    BY DEF FrameSet, FrameShape, Frame, Handles
  <2>2. Send(m) /\ UNCHANGED <<attached, opening, shell, shells, posts>>
    BY <1>2 DEF RunCommand, shellVars
  <2> HIDE DEF m
  <2>3. QED
    BY <1>1, <2>1, <2>2, ShellUnsent
<1>3. ASSUME NEW c \in Cmds, TimeoutElapses(c)
      PROVE  ShellInv'
  <2> DEFINE m == Frame("kill", c, handle[c])
  <2>1. handle[c] \in Handles
    BY <1>3 DEF TimeoutElapses, ShellInv, Typed, Armed
  <2>2. m \in FrameSet /\ FrameShape(m) /\ m.op # "open"
    BY <2>1 DEF FrameSet, FrameShape, Frame
  <2>3. Send(m) /\ UNCHANGED <<attached, opening, shell, shells, posts>>
    BY <1>3 DEF TimeoutElapses, shellVars
  <2> HIDE DEF m
  <2>4. QED
    BY <1>1, <2>2, <2>3, ShellUnsent
<1>4. ASSUME NEW op \in {"kill", "resize"}, NEW h \in Handles, Signal(op, h)
      PROVE  ShellInv'
  <2> DEFINE m == Frame(op, None, h)
  <2>1. m \in FrameSet /\ FrameShape(m) /\ m.op # "open"
    BY DEF FrameSet, FrameShape, Frame
  <2>2. Send(m) /\ UNCHANGED <<attached, opening, shell, shells, posts>>
    BY <1>4 DEF Signal, shellVars
  <2> HIDE DEF m
  <2>3. QED
    BY <1>1, <2>1, <2>2, ShellUnsent
<1>5. ASSUME NEW o \in Openers, CloseShell(o)
      PROVE  ShellInv'
  <2> DEFINE m == Frame("close", o, None)
  <2>1. m \in FrameSet /\ FrameShape(m) /\ m.op = "close"
    BY DEF FrameSet, FrameShape, Frame
  <2>2. /\ Send(m) /\ opening[o] = "open" /\ UNCHANGED <<attached, shell, shells, posts>>
        /\ \A p \in Openers : opening'[p] = IF p = o THEN "closed" ELSE opening[p]
    BY <1>5 DEF CloseShell, shellVars, ShellInv, Typed, HostTypes
  <2> HIDE DEF m
  <2>3. /\ \A p \in Openers : On(frames', "open", p) => On(frames, "open", p)
        /\ \A p \in Openers : Once(frames', "open", p)
    BY <2>1, <2>2, SendTypes DEF ShellInv, Typed, OneOpening
  <2>4. OneOpening'
    BY <2>2, <2>3 DEF ShellInv, OneOpening, Asked
  <2>5. IdTaken'
    BY <2>2 DEF ShellInv, IdTaken
  <2>6. QED
    BY <1>1, <2>4, <2>5 DEF ShellInv
<1>6. ASSUME NEW c \in Cmds, SpawnFails(c) \/ \E code \in ExitCodes : Exit(c, code)
      PROVE  ShellInv'
  <2>1. PICK value \in ExitCodes \cup {"UnknownFailure"} : Post("run", c, value)
    BY <1>6 DEF SpawnFails, Exit
  <2>2. /\ \A o \in Openers : On(posts', "open", o) => On(posts, "open", o)
        /\ \A o \in Openers : Once(posts', "open", o)
    BY <2>1, PostTypes DEF PostSet, PostShape, Verdicts, ShellInv, Typed, OneOpening
  <2>3. UNCHANGED <<attached, opening, shell, shells, frames>>
    BY <1>6 DEF SpawnFails, Exit, hostVars, shellVars
  <2>4. QED
    BY <1>1, <2>2, <2>3, ShellFrame DEF ShellInv, OneOpening, Asked
<1>7. ASSUME UNCHANGED <<attached, opening, shell, shells, frames, posts>>
      PROVE  ShellInv'
  BY <1>1, <1>7, ShellFrame DEF ShellInv, OneOpening, Asked
<1>8. ASSUME NEW c \in Cmds, Spawned(c) \/ \E n \in 1..MaxChars : Read(c, n)
      PROVE  ShellInv'
  BY <1>7, <1>8 DEF Spawned, Read, hostVars, linkVars, shellVars
<1>9. CASE UNCHANGED vars
  BY <1>7, <1>9 DEF vars, hostVars, linkVars, shellVars
<1>10. CASE Gone
  <2>1. /\ frames' = <<>> /\ posts' = <<>> /\ shells' = None /\ ~attached'
        /\ \A o \in Openers :
             /\ opening'[o] = IF opening[o] = "waiting" THEN "RunnerGone" ELSE opening[o]
             /\ shell'[o] = IF shell[o] = "none" THEN "none" ELSE "closed"
    BY <1>10 DEF Gone, FailOpenCalls
  <2>2. OneOpening'
    BY <2>1 DEF ShellInv, OneOpening, Asked, On, Once
  <2>3. IdTaken'
    BY <2>1, CommandsAssumption DEF IdTaken
  <2>4. QED
    BY <1>1, <2>2, <2>3 DEF ShellInv
<1>12. CASE Close
  <2>1. /\ UNCHANGED <<frames, posts, shell, shells>> /\ ~attached'
        /\ \A o \in Openers :
             opening'[o] = IF opening[o] = "waiting" THEN "RunnerGone" ELSE opening[o]
    BY <1>12 DEF Close, FailOpenCalls, shellVars
  <2>2. OneOpening'
    BY <2>1 DEF ShellInv, OneOpening, Asked
  <2>3. IdTaken'
    BY <2>1 DEF ShellInv, IdTaken
  <2>4. QED
    BY <1>1, <2>2, <2>3 DEF ShellInv
<1>11. QED
  BY <1>1, <1>2, <1>3, <1>4, <1>5, <1>6, <1>8, <1>9, <1>10, <1>12, OpenShellStep, OpenAnswered,
     ShellReceived, OpenedStep DEF Next

(* No session is replaced in the map and left running, when callers open    *)
(* the shells of an id in turn: for any number of openers.                  *)
THEOREM NoShellIsLost == InTurn => (Spec => []LiveShellsAreReachable)
<1>1. ASSUME InTurn
      PROVE  Spec => []LiveShellsAreReachable
  <2>1. ShellInv => LiveShellsAreReachable
    BY DEF ShellInv, IdTaken, LiveShellsAreReachable
  <2>2. ShellInv /\ [Next]_vars => ShellInv'
    BY <1>1, ShellStep
  <2>3. QED
    BY ShellInit, <2>1, <2>2, PTL DEF Spec
<1>2. QED
  BY <1>1

-----------------------------------------------------------------------------
(* A command its own timeout cut short is never reported as one that        *)
(* exited.  This takes that answers arrive in the order they were posted:   *)
(* the kill is answered before the process it ended can be, and the answer  *)
(* that comes first settles the promise.                                    *)
InOrder == "latePost" \notin Faults

(* Killed, and by its own timeout only. *)
OwnCut(c) == c \in cut[c] /\ \A by \in cut[c] : by = c

(* An answer to the kill is on its way, ahead of the command's own. *)
KillAhead(s, c) ==
  \E j \in DOMAIN s :
    /\ s[j].op = "kill" /\ s[j].by = c
    /\ \A i \in DOMAIN s : s[i].op = "run" /\ s[i].by = c => j < i

(* A command that was not received yet is nowhere in the page. *)
SentAlone ==
  /\ \A c \in Cmds : verdict[c] = "unsent" => proc[c] = "none"
  /\ \A c \in Cmds : On(frames, "run", c) => proc[c] = "none" /\ verdict[c] # "unsent"
  /\ \A c \in Cmds : Once(frames, "run", c)

(* A handle in the page's map is that of a command at work. *)
NamesAtWork ==
  \A h \in Handles : running[h] # None => handle[running[h]] = h /\ AtWork(running[h])

(* Only a command at work is killed, and it is dying from then on. *)
CutAtWork ==
  /\ \A c \in Cmds : proc[c] \in {"none", "spawning", "running"} => cut[c] = {}
  /\ \A c \in Cmds : proc[c] = "dying" => cut[c] # {}

(* A command answers when it is over, and with a signal when it was killed. *)
AnswersOver ==
  /\ \A c \in Cmds : On(posts, "run", c) => proc[c] \in Over
  /\ \A m \in ToSet(posts) : m.op = "run" /\ m.value = "signal" => cut[m.by] # {}

(* Until the caller knows better, the kill's answer comes first. *)
KillIsFirst == \A c \in Cmds : OwnCut(c) /\ InFlight(c) => KillAhead(posts, c)

CutInv ==
  /\ Typed /\ SentAlone /\ NamesAtWork /\ CutAtWork /\ AnswersOver /\ KillIsFirst
  /\ CutShortIsTimeout

(* An answer put at the end is behind every other. *)
LEMMA AppendAhead ==
  ASSUME NEW S, NEW s \in Seq(S), NEW m \in S, NEW c
  PROVE  /\ KillAhead(s, c) => KillAhead(Append(s, m), c)
         /\ m.op = "kill" /\ m.by = c /\ ~On(s, "run", c) => KillAhead(Append(s, m), c)
<1> DEFINE t == Append(s, m)
<1>1. DOMAIN t = 1..(Len(s) + 1) /\ DOMAIN s = 1..Len(s) /\ Len(s) \in Nat
  OBVIOUS
<1>2. t[Len(s) + 1] = m /\ \A i \in 1..Len(s) : t[i] = s[i]
  OBVIOUS
<1> HIDE DEF t
<1>3. ASSUME KillAhead(s, c)
      PROVE  KillAhead(t, c)
  <2>1. PICK j \in DOMAIN s : /\ s[j].op = "kill" /\ s[j].by = c
                              /\ \A i \in DOMAIN s : s[i].op = "run" /\ s[i].by = c => j < i
    BY <1>3 DEF KillAhead
  <2>2. j \in DOMAIN t /\ t[j].op = "kill" /\ t[j].by = c
    BY <1>1, <1>2, <2>1
  <2>3. ASSUME NEW i \in DOMAIN t, t[i].op = "run", t[i].by = c
        PROVE  j < i
    <3>1. CASE i \in DOMAIN s
      BY <1>1, <1>2, <2>1, <2>3, <3>1
    <3>2. CASE i \notin DOMAIN s
      BY <1>1, <3>2
    <3>3. QED
      BY <3>1, <3>2
  <2>4. QED
    BY <2>2, <2>3 DEF KillAhead
<1>4. ASSUME m.op = "kill", m.by = c, ~On(s, "run", c)
      PROVE  KillAhead(t, c)
  <2>1. \A i \in DOMAIN t : ~(t[i].op = "run" /\ t[i].by = c)
    <3>1. \A i \in DOMAIN s : ~(t[i].op = "run" /\ t[i].by = c)
      BY <1>1, <1>2, <1>4 DEF On
    <3>2. \A i \in DOMAIN t : i \in DOMAIN s \/ t[i] = m
      BY <1>1, <1>2
    <3>3. QED
      BY <1>4, <3>1, <3>2
  <2>2. Len(s) + 1 \in DOMAIN t
    BY <1>1
  <2>3. QED
    BY <1>2, <1>4, <2>1, <2>2 DEF KillAhead
<1>5. QED
  BY <1>3, <1>4 DEF t

(* The answer in front is the one that is ahead, or another's. *)
LEMMA FrontAhead ==
  ASSUME NEW S, NEW s \in Seq(S), s # <<>>, NEW c, KillAhead(s, c)
  PROVE  /\ ~(s[1].op = "run" /\ s[1].by = c)
         /\ ~(s[1].op = "kill" /\ s[1].by = c) => KillAhead(RemoveAt(s, 1), c)
<1>1. DOMAIN s = 1..Len(s) /\ Len(s) \in Nat /\ Len(s) > 0
  OBVIOUS
<1>2. Tail(s) = RemoveAt(s, 1)
  BY TailRemovesFirst
<1> DEFINE t == Tail(s)
<1>3. DOMAIN t = 1..(Len(s) - 1) /\ \A i \in 1..(Len(s) - 1) : t[i] = s[i + 1]
  <2>1. Len(t) = Len(s) - 1 /\ t \in Seq(S)
    BY HeadTailProperties
  <2>2. DOMAIN t = 1..Len(t)
    BY <2>1
  <2>3. QED
    BY <1>1, <2>1, <2>2, HeadTailProperties
<1> HIDE DEF t
<1>4. PICK j \in DOMAIN s : /\ s[j].op = "kill" /\ s[j].by = c
                            /\ \A i \in DOMAIN s : s[i].op = "run" /\ s[i].by = c => j < i
  BY DEF KillAhead
<1>5. ~(s[1].op = "run" /\ s[1].by = c)
  BY <1>1, <1>4
<1>6. ASSUME ~(s[1].op = "kill" /\ s[1].by = c)
      PROVE  KillAhead(t, c)
  <2>1. j # 1 /\ j \in 1..Len(s)
    BY <1>1, <1>4, <1>6
  <2>2. j - 1 \in DOMAIN t /\ (j - 1) + 1 = j
    BY <1>1, <1>3, <2>1
  <2>3. t[j - 1] = s[j]
    BY <1>1, <1>3, <2>1, <2>2
  <2>4. ASSUME NEW i \in DOMAIN t, t[i].op = "run", t[i].by = c
        PROVE  j - 1 < i
    <3>1. i + 1 \in DOMAIN s /\ t[i] = s[i + 1] /\ i \in Int
      BY <1>1, <1>3
    <3>2. j < i + 1
      BY <1>4, <2>4, <3>1
    <3>3. QED
      BY <2>1, <3>1, <3>2
  <2>5. QED
    BY <1>4, <2>2, <2>3, <2>4 DEF KillAhead
<1>7. QED
  BY <1>2, <1>5, <1>6 DEF t

(* What one more answer does to those on their way. *)
LEMMA PostBehind ==
  ASSUME Posts, NEW op, NEW by, NEW value,
         LET m == [op |-> op, by |-> by, value |-> value]
         IN by # None => m \in PostSet /\ PostShape(m),
         Post(op, by, value)
  PROVE  /\ \A c : KillAhead(posts, c) => KillAhead(posts', c)
         /\ by # None /\ op = "kill" /\ ~On(posts, "run", by) => KillAhead(posts', by)
         /\ \A m \in ToSet(posts') :
              m \in ToSet(posts) \/ (m.op = op /\ m.by = by /\ m.value = value)
<1> DEFINE m == [op |-> op, by |-> by, value |-> value]
<1>1. CASE by = None
  BY <1>1 DEF Post
<1>2. CASE by # None
  <2>1. posts' = Append(posts, m) /\ posts \in Seq(PostSet) /\ m \in PostSet
    BY <1>2 DEF Post, Posts
  <2>2. m.op = op /\ m.by = by /\ m.value = value
    OBVIOUS
  <2> HIDE DEF m
  <2>3. ToSet(posts') = ToSet(posts) \cup {m}
    BY <2>1, AppendFacts
  <2>4. \A c : /\ KillAhead(posts, c) => KillAhead(posts', c)
               /\ m.op = "kill" /\ m.by = c /\ ~On(posts, "run", c) => KillAhead(posts', c)
    BY <2>1, AppendAhead
  <2>5. QED
    BY <2>2, <2>3, <2>4
<1>3. QED
  BY <1>1, <1>2

(* Nothing has been sent at first. *)
LEMMA CutInit == Init => CutInv
<1> SUFFICES ASSUME Init
             PROVE  /\ SentAlone /\ NamesAtWork /\ CutAtWork /\ AnswersOver /\ KillIsFirst
                    /\ CutShortIsTimeout
  BY TypeInit DEF CutInv
<1>1. SentAlone
  BY DEF Init, SentAlone, On, Once
<1>2. NamesAtWork /\ CutAtWork
  BY DEF Init, NamesAtWork, CutAtWork
<1>3. AnswersOver /\ KillIsFirst /\ CutShortIsTimeout
  BY DEF Init, AnswersOver, KillIsFirst, OwnCut, CutShortIsTimeout, On, ToSet
<1>4. QED
  BY <1>1, <1>2, <1>3

(* Steps that change no command: what is sent is no command, and what is    *)
(* posted is not a command's answer.                                        *)
LEMMA CutFrame ==
  ASSUME CutInv, Typed', UNCHANGED <<handle, verdict, proc, running, cut>>,
         \A c \in Cmds : On(frames', "run", c) => On(frames, "run", c),
         \A c \in Cmds : Once(frames', "run", c),
         \/ UNCHANGED posts
         \/ \E op \in {"kill", "open"}, by \in Cmds \cup Openers \cup {None},
               value \in {"hit", "miss", "open", "refused", "failed"} :
              /\ by # None => PostShape([op |-> op, by |-> by, value |-> value])
              /\ Post(op, by, value)
  PROVE  CutInv'
<1>1. SentAlone'
  BY DEF CutInv, SentAlone
<1>2. NamesAtWork' /\ CutAtWork' /\ CutShortIsTimeout'
  BY DEF CutInv, NamesAtWork, CutAtWork, CutShortIsTimeout, AtWork
<1>3. /\ \A c \in Cmds : On(posts', "run", c) => On(posts, "run", c)
      /\ \A c \in Cmds : KillAhead(posts, c) => KillAhead(posts', c)
      /\ \A m \in ToSet(posts') : m.op = "run" => m \in ToSet(posts)
  <2>1. CASE UNCHANGED posts
    BY <2>1
  <2>2. ASSUME NEW op \in {"kill", "open"}, NEW by \in Cmds \cup Openers \cup {None},
               NEW value \in {"hit", "miss", "open", "refused", "failed"},
               by # None => PostShape([op |-> op, by |-> by, value |-> value]),
               Post(op, by, value)
        PROVE  <1>3!1 /\ <1>3!2 /\ <1>3!3
    <3>1. by # None => [op |-> op, by |-> by, value |-> value] \in PostSet
      BY DEF PostSet
    <3>2. Posts /\ op # "run"
      BY DEF CutInv, Typed
    <3>3. \A c \in Cmds : On(posts', "run", c) => On(posts, "run", c)
      BY <2>2, <3>1, <3>2, PostTypes
    <3>4. /\ \A c : KillAhead(posts, c) => KillAhead(posts', c)
          /\ \A m \in ToSet(posts') : m \in ToSet(posts) \/ m.op = op
      BY <2>2, <3>1, <3>2, PostBehind
    <3>5. QED
      BY <3>2, <3>3, <3>4
  <2>3. QED
    BY <2>1, <2>2
<1>4. AnswersOver'
  BY <1>3 DEF CutInv, AnswersOver
<1>5. KillIsFirst'
  BY <1>3 DEF CutInv, KillIsFirst, OwnCut, InFlight
<1>6. QED
  BY <1>1, <1>2, <1>4, <1>5 DEF CutInv

(* A call of another kind is sent. *)
LEMMA CutUnsent ==
  ASSUME CutInv, Typed', NEW m \in FrameSet, FrameShape(m), Send(m), m.op # "run",
         UNCHANGED <<handle, verdict, proc, running, cut, posts>>
  PROVE  CutInv'
<1>1. /\ \A c \in Cmds : On(frames', "run", c) => On(frames, "run", c)
      /\ \A c \in Cmds : Once(frames', "run", c)
  BY SendTypes DEF CutInv, Typed, SentAlone
<1>2. QED
  BY <1>1, CutFrame

(* A command is sent: it is nowhere yet, so nobody killed it. *)
LEMMA CutSent ==
  ASSUME CutInv, Typed', NEW c \in Cmds, NEW name \in Names \cup {None},
         NEW timed \in BOOLEAN, RunCommand(c, name, timed)
  PROVE  CutInv'
<1> DEFINE h == IF name = None /\ timed THEN c ELSE name
           m == Frame("run", c, h)
<1>1. /\ h \in Handles \cup {None}
      /\ verdict[c] = "unsent" /\ verdict' = [verdict EXCEPT ![c] = "waiting"]
      /\ handle' = [handle EXCEPT ![c] = h]
      /\ UNCHANGED <<posts, proc, running, cut>>
  BY DEF RunCommand, Handles
<1>2. m \in FrameSet /\ FrameShape(m) /\ Send(m) /\ m.op = "run" /\ m.by = c
  BY <1>1 DEF RunCommand, FrameSet, FrameShape, Frame
<1> HIDE DEF h, m
<1>3. proc[c] = "none" /\ cut[c] = {}
  BY <1>1 DEF CutInv, SentAlone, CutAtWork
<1>4. /\ \A d \in Cmds : handle'[d] = IF d = c THEN h ELSE handle[d]
      /\ \A d \in Cmds : verdict'[d] = IF d = c THEN "waiting" ELSE verdict[d]
  BY <1>1 DEF CutInv, Typed, HostTypes
<1>5. /\ \A d \in Cmds : On(frames', "run", d) => On(frames, "run", d) \/ d = c
      /\ \A d \in Cmds : Once(frames', "run", d)
  BY <1>1, <1>2, SendTypes DEF CutInv, Typed, SentAlone
<1>6. SentAlone'
  BY <1>1, <1>3, <1>4, <1>5 DEF CutInv, SentAlone
<1>7. NamesAtWork'
  BY <1>1, <1>3, <1>4 DEF CutInv, NamesAtWork, AtWork, Typed, PageTypes
<1>8. CutAtWork' /\ AnswersOver'
  BY <1>1 DEF CutInv, CutAtWork, AnswersOver
<1>9. KillIsFirst'
  BY <1>1, <1>3, <1>4 DEF CutInv, KillIsFirst, OwnCut, InFlight
<1>10. CutShortIsTimeout'
  BY <1>1, <1>3, <1>4 DEF CutInv, CutShortIsTimeout
<1>11. QED
  BY <1>6, <1>7, <1>8, <1>9, <1>10 DEF CutInv

(* The answer in front arrives: a command's own only when no kill is ahead  *)
(* of it.                                                                   *)
LEMMA CutDelivered ==
  ASSUME InOrder, CutInv, Typed', NEW i \in DOMAIN posts, Deliver(i)
  PROVE  CutInv'
<1> DEFINE m == posts[1]
<1>1. /\ i = 1 /\ posts \in Seq(PostSet) /\ posts # <<>> /\ posts' = RemoveAt(posts, 1)
      /\ UNCHANGED <<frames, handle, proc, running, cut>>
  <2>1. posts \in Seq(PostSet) /\ DOMAIN posts = 1..Len(posts) /\ Len(posts) \in Nat
    BY DEF CutInv, Typed, Posts
  <2>2. ~(i > 1)
    BY DEF Deliver, InOrder
  <2>3. i = 1 /\ posts # <<>>
    BY <2>1, <2>2
  <2>4. QED
    BY <2>1, <2>3 DEF Deliver, outputVars, shellVars
<1>2. /\ 1 \in DOMAIN posts /\ m \in ToSet(posts) /\ m.op \in {"run", "kill", "open"}
      /\ On(posts, m.op, m.by)
  BY <1>1, DeliverTypes DEF CutInv, Typed, PostSet, ToSet
<1>3. /\ \A c \in Cmds : On(posts', "run", c) => On(posts, "run", c)
      /\ ToSet(posts') \subseteq ToSet(posts)
  BY <1>1, RemoveFacts
<1>4. \A c \in Cmds : KillAhead(posts, c) =>
        /\ ~(m.op = "run" /\ m.by = c)
        /\ ~(m.op = "kill" /\ m.by = c) => KillAhead(posts', c)
  BY <1>1, FrontAhead
<1>5. \A c \in Cmds :
        /\ verdict'[c] = verdict[c] \/ (InFlight(c) /\ m.by = c /\ m.op \in {"run", "kill"})
        /\ verdict'[c] = "unsent" <=> verdict[c] = "unsent"
        /\ verdict'[c] = "waiting" => InFlight(c) /\ ~(m.op = "kill" /\ m.by = c)
        /\ verdict'[c] = "signal" => \/ verdict[c] = "signal"
                                     \/ InFlight(c) /\ m.op = "run" /\ m.by = c /\ m.value = "signal"
  <2> HIDE DEF m
  <2> USE <1>1, DeliverEffect DEF CutInv, Typed, HostTypes, InFlight, ExitCodes
  <2>1. CASE m.op = "run"
    BY <2>1 DEF m
  <2>2. CASE m.op = "kill"
    BY <2>2 DEF m
  <2>3. CASE m.op = "open"
    BY <2>3 DEF m
  <2>4. QED
    BY <1>2, <2>1, <2>2, <2>3
<1> HIDE DEF m
<1>6. SentAlone'
  BY <1>1, <1>5 DEF CutInv, SentAlone
<1>7. NamesAtWork' /\ CutAtWork' /\ AnswersOver'
  BY <1>1, <1>3 DEF CutInv, NamesAtWork, CutAtWork, AnswersOver, AtWork
<1>8. KillIsFirst'
  BY <1>1, <1>4, <1>5 DEF CutInv, KillIsFirst, OwnCut, InFlight
<1>9. CutShortIsTimeout'
  <2>1. ASSUME NEW c \in Cmds, InFlight(c), m.op = "run", m.by = c, m.value = "signal"
        PROVE  \E by \in cut[c] : by # c
    <3>1. cut[c] # {}
      BY <1>2, <2>1 DEF CutInv, AnswersOver
    <3>2. ~OwnCut(c)
      BY <1>4, <2>1 DEF CutInv, KillIsFirst
    <3>3. QED
      BY <3>1, <3>2 DEF OwnCut
  <2>2. QED
    BY <1>1, <1>5, <2>1 DEF CutInv, CutShortIsTimeout
<1>10. QED
  BY <1>6, <1>7, <1>8, <1>9 DEF CutInv

(* The handlers of the page.  A kill that finds a command at work is        *)
(* answered before that command can be.                                     *)
LEMMA CutReceived ==
  ASSUME CutInv, Typed', Receive
  PROVE  CutInv'
<1> DEFINE m == Head(frames)
<1>1. /\ m \in FrameSet /\ FrameShape(m) /\ On(frames, m.op, m.by)
      /\ \A c \in Cmds : On(frames', "run", c) => On(frames, "run", c)
      /\ \A c \in Cmds : Once(frames', "run", c)
      /\ \A c \in Cmds : m.op = "run" /\ m.by = c => ~On(frames', "run", c)
  BY ReceiveTypes DEF CutInv, Typed, SentAlone
<1>2. UNCHANGED <<handle, verdict>>
  BY DEF Receive, hostVars
<1>3. ReceiveRun(m) \/ ReceiveKill(m) \/ ReceiveResize(m) \/ ReceiveOpen(m) \/ ReceiveClose(m)
  BY DEF Receive
<1> HIDE DEF m
<1>4. CASE ReceiveRun(m)
  <2>1. m.op = "run" /\ m.by \in Cmds
    BY <1>1, <1>4 DEF ReceiveRun, FrameShape
  <2>2. proc[m.by] = "none" /\ verdict[m.by] # "unsent" /\ cut[m.by] = {}
    BY <1>1, <2>1 DEF CutInv, SentAlone, CutAtWork
  <2>3. /\ \A c \in Cmds : proc'[c] = IF c = m.by THEN "spawning" ELSE proc[c]
        /\ UNCHANGED <<posts, running, cut>>
    BY <1>4, <2>1 DEF ReceiveRun, CutInv, Typed, PageTypes
  <2>4. SentAlone'
    BY <1>1, <1>2, <2>1, <2>2, <2>3 DEF CutInv, SentAlone
  <2>5. NamesAtWork'
    BY <1>2, <2>2, <2>3 DEF CutInv, NamesAtWork, AtWork, Typed, PageTypes
  <2>6. CutAtWork' /\ AnswersOver'
    BY <2>2, <2>3 DEF CutInv, CutAtWork, AnswersOver, Over
  <2>7. KillIsFirst' /\ CutShortIsTimeout'
    BY <1>2, <2>3 DEF CutInv, KillIsFirst, OwnCut, InFlight, CutShortIsTimeout
  <2>8. QED
    BY <2>4, <2>5, <2>6, <2>7 DEF CutInv
<1>5. CASE ReceiveKill(m)
  <2>1. m.op = "kill" /\ m.by \in Cmds \cup {None} /\ m.handle \in Handles
    BY <1>1, <1>5 DEF ReceiveKill, FrameShape
  <2>2. CASE running[m.handle] = None
    <3>1. Post("kill", m.by, "miss") /\ UNCHANGED <<handle, verdict, proc, running, cut>>
      BY <1>2, <1>5, <2>2 DEF ReceiveKill
    <3>2. m.by # None => PostShape([op |-> "kill", by |-> m.by, value |-> "miss"])
      BY <2>1 DEF PostShape
    <3>3. QED
      BY <1>1, <2>1, <3>1, <3>2, CutFrame
  <2>3. CASE running[m.handle] # None
    <3>1. PICK v \in Cmds : v = running[m.handle] /\ AtWork(v)
      BY <2>1, <2>3 DEF CutInv, NamesAtWork, Typed, PageTypes
    <3>2. /\ Post("kill", m.by, "hit") /\ running' = running
          /\ \A c \in Cmds : proc'[c] = IF c = v THEN "dying" ELSE proc[c]
          /\ \A c \in Cmds : cut'[c] = IF c = v THEN cut[c] \cup {m.by} ELSE cut[c]
      BY <1>5, <2>3, <3>1 DEF ReceiveKill, AnswerHit, CutInv, Typed, PageTypes
    <3>3. m.by # None => /\ [op |-> "kill", by |-> m.by, value |-> "hit"] \in PostSet
                         /\ PostShape([op |-> "kill", by |-> m.by, value |-> "hit"])
      BY <2>1 DEF PostSet, PostShape
    <3>4. /\ \A c \in Cmds : On(posts', "run", c) => On(posts, "run", c)
      BY <3>2, <3>3, PostTypes DEF CutInv, Typed
    <3>5. /\ \A c : KillAhead(posts, c) => KillAhead(posts', c)
          /\ m.by # None /\ ~On(posts, "run", m.by) => KillAhead(posts', m.by)
          /\ \A x \in ToSet(posts') : x.op = "run" => x \in ToSet(posts)
      <4>1. /\ \A c : KillAhead(posts, c) => KillAhead(posts', c)
            /\ m.by # None /\ ~On(posts, "run", m.by) => KillAhead(posts', m.by)
            /\ \A x \in ToSet(posts') : x \in ToSet(posts) \/ x.op = "kill"
        BY <3>2, <3>3, PostBehind DEF CutInv, Typed
      <4>2. QED
        BY <4>1
    <3>6. ~On(posts, "run", v) /\ v # None
      BY <3>1, CommandsAssumption DEF CutInv, AnswersOver, AtWork, Over, Handles
    <3>7. SentAlone'
      BY <1>1, <1>2, <3>1, <3>2 DEF CutInv, SentAlone, AtWork
    <3>8. NamesAtWork'
      BY <1>2, <3>2 DEF CutInv, NamesAtWork, AtWork, Typed, PageTypes
    <3>9. CutAtWork'
      BY <3>2 DEF CutInv, CutAtWork
    <3>10. AnswersOver'
      <4>1. \A c \in Cmds : On(posts', "run", c) => proc'[c] \in Over
        BY <3>2, <3>4, <3>6 DEF CutInv, AnswersOver
      <4>2. \A x \in ToSet(posts') : x.op = "run" /\ x.value = "signal" => cut'[x.by] # {}
        <5>1. ASSUME NEW x \in ToSet(posts), x.op = "run", x.value = "signal"
              PROVE  cut'[x.by] # {}
          <6>1. x.by \in Cmds /\ cut[x.by] # {}
            BY <5>1 DEF CutInv, Typed, Posts, PostShape, AnswersOver
          <6>2. QED
            BY <3>2, <6>1
        <5>2. QED
          BY <3>5, <5>1
      <4>3. QED
        BY <4>1, <4>2 DEF AnswersOver
    <3>11. KillIsFirst'
      <4>1. ASSUME NEW c \in Cmds, OwnCut(c)', InFlight(c)
            PROVE  KillAhead(posts', c)
        <5>1. CASE c # v
          BY <3>2, <3>5, <4>1, <5>1 DEF CutInv, KillIsFirst, OwnCut
        <5>2. CASE c = v
          <6>1. m.by = c
            BY <3>2, <4>1, <5>2 DEF OwnCut
          <6>2. QED
            BY <3>5, <3>6, <5>2, <6>1
        <5>3. QED
          BY <5>1, <5>2
      <4>2. QED
        BY <1>2, <4>1 DEF KillIsFirst, InFlight
    <3>12. CutShortIsTimeout'
      BY <1>2, <3>2 DEF CutInv, CutShortIsTimeout
    <3>13. QED
      BY <3>7, <3>8, <3>9, <3>10, <3>11, <3>12 DEF CutInv
  <2>4. QED
    BY <2>2, <2>3
<1>6. CASE ReceiveResize(m) \/ ReceiveOpen(m) \/ ReceiveClose(m)
  <2>1. UNCHANGED <<handle, verdict, proc, running, cut>>
    BY <1>2, <1>6 DEF ReceiveResize, ReceiveOpen, ReceiveClose
  <2>2. UNCHANGED posts \/ (m.op = "open" /\ Post("open", m.by, "refused"))
    BY <1>6 DEF ReceiveResize, ReceiveOpen, ReceiveClose
  <2>3. CASE UNCHANGED posts
    BY <1>1, <2>1, <2>3, CutFrame
  <2>4. CASE m.op = "open" /\ Post("open", m.by, "refused")
    <3>1. m.by \in Openers /\ PostShape([op |-> "open", by |-> m.by, value |-> "refused"])
      BY <1>1, <2>4 DEF FrameShape, PostShape
    <3>2. QED
      BY <1>1, <2>1, <2>4, <3>1, CutFrame
  <2>5. QED
    BY <2>2, <2>3, <2>4
<1>7. QED
  BY <1>3, <1>4, <1>5, <1>6

(* The spawn resolves. *)
LEMMA CutSpawned ==
  ASSUME CutInv, Typed', NEW c \in Cmds, Spawned(c)
  PROVE  CutInv'
<1>1. /\ UNCHANGED <<handle, verdict, frames, posts, cut>> /\ proc[c] = "spawning"
      /\ \A d \in Cmds : proc'[d] = IF d = c THEN "running" ELSE proc[d]
  BY DEF Spawned, hostVars, linkVars, CutInv, Typed, PageTypes
<1>2. \A h \in Handles : running'[h] = IF h = handle[c] THEN c ELSE running[h]
  BY CommandsAssumption DEF Spawned, CutInv, Typed, HostTypes, PageTypes
<1>3. SentAlone'
  BY <1>1 DEF CutInv, SentAlone
<1>4. NamesAtWork'
  BY <1>1, <1>2 DEF CutInv, NamesAtWork, AtWork, Typed, PageTypes
<1>5. CutAtWork' /\ AnswersOver'
  BY <1>1 DEF CutInv, CutAtWork, AnswersOver, Over
<1>6. KillIsFirst' /\ CutShortIsTimeout'
  BY <1>1 DEF CutInv, KillIsFirst, OwnCut, InFlight, CutShortIsTimeout
<1>7. QED
  BY <1>3, <1>4, <1>5, <1>6 DEF CutInv

(* A command is over and answers: with a signal only when it was dying. *)
LEMMA CutOver ==
  ASSUME CutInv, Typed', NEW c \in Cmds,
         SpawnFails(c) \/ \E code \in ExitCodes : Exit(c, code)
  PROVE  CutInv'
<1>1. PICK end \in Over : \A d \in Cmds : proc'[d] = IF d = c THEN end ELSE proc[d]
  BY DEF SpawnFails, Exit, Over, CutInv, Typed, PageTypes
<1>2. UNCHANGED <<handle, verdict, frames, cut>> /\ proc[c] \in {"spawning", "running", "dying"}
  BY DEF SpawnFails, Exit, hostVars
<1>3. PICK value \in ExitCodes \cup {"UnknownFailure"} :
        Post("run", c, value) /\ (value = "signal" => proc[c] = "dying")
  BY DEF SpawnFails, Exit
<1>4. /\ [op |-> "run", by |-> c, value |-> value] \in PostSet
      /\ PostShape([op |-> "run", by |-> c, value |-> value])
  BY DEF PostSet, PostShape, Verdicts
<1>5. \A d \in Cmds : On(posts', "run", d) => On(posts, "run", d) \/ d = c
  BY <1>3, <1>4, PostTypes DEF CutInv, Typed
<1>6. /\ \A d : KillAhead(posts, d) => KillAhead(posts', d)
      /\ \A m \in ToSet(posts') : m \in ToSet(posts) \/ (m.by = c /\ m.value = value)
  BY <1>3, <1>4, PostBehind DEF CutInv, Typed
<1>7. \A h \in Handles : running'[h] = IF running[h] = c THEN None ELSE running'[h]
  <2>1. CASE SpawnFails(c)
    <3>1. \A h \in Handles : running[h] # c
      BY <2>1, CommandsAssumption DEF SpawnFails, CutInv, NamesAtWork, AtWork, Handles
    <3>2. QED
      BY <3>1
  <2>2. CASE \E code \in ExitCodes : Exit(c, code)
    <3>1. \A h \in Handles : running[h] = c => h = handle[c]
      BY CommandsAssumption DEF CutInv, NamesAtWork, Handles
    <3>2. QED
      BY <2>2, <3>1, CommandsAssumption DEF Exit, CutInv, Typed, PageTypes
  <2>3. QED
    BY <2>1, <2>2
<1>8. \A h \in Handles : running'[h] \in {running[h], None}
  BY CommandsAssumption DEF SpawnFails, Exit, CutInv, Typed, HostTypes, PageTypes
<1>9. SentAlone'
  BY <1>1, <1>2 DEF CutInv, SentAlone, Over
<1>10. NamesAtWork'
  <2>1. ASSUME NEW h \in Handles, running'[h] # None
        PROVE  running'[h] = running[h] /\ running[h] # c /\ running[h] \in Cmds
    BY <1>7, <1>8, <2>1 DEF CutInv, Typed, PageTypes
  <2>2. QED
    BY <1>1, <1>2, <2>1 DEF CutInv, NamesAtWork, AtWork
<1>11. CutAtWork'
  BY <1>1, <1>2 DEF CutInv, CutAtWork, Over
<1>12. AnswersOver'
  <2>1. value = "signal" => cut[c] # {}
    BY <1>3 DEF CutInv, CutAtWork
  <2>2. QED
    BY <1>1, <1>2, <1>5, <1>6, <2>1 DEF CutInv, AnswersOver
<1>13. KillIsFirst' /\ CutShortIsTimeout'
  BY <1>2, <1>6 DEF CutInv, KillIsFirst, OwnCut, InFlight, CutShortIsTimeout
<1>14. QED
  BY <1>9, <1>10, <1>11, <1>12, <1>13 DEF CutInv

(* The client is closed: no caller waits any more, and nothing else changes. *)
LEMMA CutClosed ==
  ASSUME CutInv, Typed', Close
  PROVE  CutInv'
<1>1. /\ UNCHANGED <<frames, posts, handle, proc, running, cut>>
      /\ \A c \in Cmds : verdict'[c] = IF verdict[c] = "waiting" THEN "RunnerGone" ELSE verdict[c]
  BY DEF Close, FailOpenCalls, InFlight
<1>2. SentAlone' /\ NamesAtWork' /\ CutAtWork' /\ AnswersOver'
  BY <1>1 DEF CutInv, SentAlone, NamesAtWork, AtWork, CutAtWork, AnswersOver
<1>3. KillIsFirst' /\ CutShortIsTimeout'
  BY <1>1 DEF CutInv, KillIsFirst, InFlight, CutShortIsTimeout
<1>4. QED
  BY <1>2, <1>3 DEF CutInv

(* The page goes: no caller waits any more. *)
LEMMA CutGone ==
  ASSUME CutInv, Typed', Gone
  PROVE  CutInv'
<1>1. /\ frames' = <<>> /\ posts' = <<>> /\ UNCHANGED <<handle, cut>>
      /\ \A c \in Cmds : proc'[c] = IF proc[c] = "none" THEN "none" ELSE "gone"
      /\ \A c \in Cmds : verdict'[c] = IF verdict[c] = "waiting" THEN "RunnerGone" ELSE verdict[c]
      /\ \A h \in Handles : running'[h] = None
  BY DEF Gone, FailOpenCalls, InFlight
<1>2. SentAlone'
  BY <1>1 DEF CutInv, SentAlone, On, Once
<1>3. NamesAtWork' /\ CutAtWork'
  BY <1>1 DEF CutInv, NamesAtWork, CutAtWork
<1>4. AnswersOver'
  BY <1>1 DEF AnswersOver, On, ToSet
<1>5. KillIsFirst' /\ CutShortIsTimeout'
  BY <1>1 DEF CutInv, KillIsFirst, InFlight, CutShortIsTimeout
<1>6. QED
  BY <1>2, <1>3, <1>4, <1>5 DEF CutInv

(* Every step keeps the invariant. *)
LEMMA CutStep == InOrder /\ CutInv /\ [Next]_vars => CutInv'
<1> SUFFICES ASSUME InOrder, CutInv, [Next]_vars
             PROVE  CutInv'
  OBVIOUS
<1>1. Typed'
  BY TypeStep DEF CutInv
<1>2. ASSUME NEW op \in {"kill", "resize"}, NEW h \in Handles, Signal(op, h)
      PROVE  CutInv'
  <2> DEFINE m == Frame(op, None, h)
  <2>1. m \in FrameSet /\ FrameShape(m) /\ m.op # "run"
    BY DEF FrameSet, FrameShape, Frame
  <2>2. Send(m) /\ UNCHANGED <<handle, verdict, proc, running, cut, posts>>
    BY <1>2 DEF Signal
  <2> HIDE DEF m
  <2>3. QED
    BY <1>1, <2>1, <2>2, CutUnsent
<1>3. ASSUME NEW o \in Openers, OpenShell(o) \/ CloseShell(o)
      PROVE  CutInv'
  <2>1. PICK op \in {"open", "close"} : Send(Frame(op, o, None))
    BY <1>3 DEF OpenShell, CloseShell
  <2> DEFINE m == Frame(op, o, None)
  <2>2. m \in FrameSet /\ FrameShape(m) /\ m.op # "run"
    BY DEF FrameSet, FrameShape, Frame
  <2>3. Send(m) /\ UNCHANGED <<handle, verdict, proc, running, cut, posts>>
    BY <1>3, <2>1 DEF OpenShell, CloseShell
  <2> HIDE DEF m
  <2>4. QED
    BY <1>1, <2>2, <2>3, CutUnsent
<1>4. ASSUME NEW c \in Cmds, TimeoutElapses(c)
      PROVE  CutInv'
  <2> DEFINE m == Frame("kill", c, handle[c])
  <2>1. handle[c] \in Handles
    BY <1>4 DEF TimeoutElapses, CutInv, Typed, Armed
  <2>2. m \in FrameSet /\ FrameShape(m) /\ m.op # "run"
    BY <2>1 DEF FrameSet, FrameShape, Frame
  <2>3. Send(m) /\ UNCHANGED <<handle, verdict, proc, running, cut, posts>>
    BY <1>4 DEF TimeoutElapses, AwaitKill
  <2> HIDE DEF m
  <2>4. QED
    BY <1>1, <2>2, <2>3, CutUnsent
<1>5. ASSUME NEW o \in Openers, Opened(o)
      PROVE  CutInv'
  <2>1. PICK value \in {"open", "failed"} : Post("open", o, value)
    BY <1>5 DEF Opened
  <2>2. PostShape([op |-> "open", by |-> o, value |-> value])
    BY DEF PostShape
  <2>3. UNCHANGED <<handle, verdict, proc, running, cut, frames>>
    BY <1>5 DEF Opened, hostVars
  <2>4. QED
    BY <1>1, <2>1, <2>2, <2>3, CutFrame DEF CutInv, SentAlone
<1>6. ASSUME UNCHANGED <<handle, verdict, proc, running, cut, frames, posts>>
      PROVE  CutInv'
  BY <1>1, <1>6, CutFrame DEF CutInv, SentAlone
<1>7. ASSUME NEW c \in Cmds, NEW n \in 1..MaxChars, Read(c, n)
      PROVE  CutInv'
  BY <1>6, <1>7 DEF Read, hostVars, linkVars
<1>8. CASE UNCHANGED vars
  BY <1>6, <1>8 DEF vars, hostVars, linkVars
<1>9. QED
  BY <1>1, <1>2, <1>3, <1>4, <1>5, <1>7, <1>8, CutSent, CutDelivered, CutReceived, CutSpawned,
     CutOver, CutClosed, CutGone DEF Next

(* A command that its own timeout killed is not reported as one that        *)
(* exited, whatever spawns are slow and whatever handles are shared, as     *)
(* long as answers arrive in order.                                         *)
THEOREM CutShortIsReported == InOrder => (Spec => []CutShortIsTimeout)
<1>1. ASSUME InOrder
      PROVE  Spec => []CutShortIsTimeout
  <2>1. CutInv => CutShortIsTimeout
    BY DEF CutInv
  <2>2. CutInv /\ [Next]_vars => CutInv'
    BY <1>1, CutStep
  <2>3. QED
    BY CutInit, <2>1, <2>2, PTL DEF Spec
<1>2. QED
  BY <1>1

-----------------------------------------------------------------------------
(* The output buffer.  Its operators are folds over the chunks; what they   *)
(* come to is shown chunk by chunk, by looking at a first chunk that would  *)
(* make a difference.                                                       *)
LEMMA SmallestNat ==
  ASSUME NEW T, T \subseteq Nat, T # {}
  PROVE  \E n \in T : \A m \in T : n <= m
<1> DEFINE R == OpToRel(<, Nat)
<1>0. IsWellFoundedOn(R, Nat)
  BY NatLessThanWellFounded
<1> HIDE DEF R
<1>1. PICK n \in T : \A m \in T : ~(<<m, n>> \in R)
  BY <1>0, WFMin
<1>2. \A m \in T : <<m, n>> \in R <=> m < n
  BY DEF R, OpToRel
<1>3. \A m \in T : ~(m < n) => n <= m
  <2>1. \A m \in T : m \in Nat /\ n \in Nat
    OBVIOUS
  <2>2. QED
    BY <2>1
<1>4. QED
  BY <1>1, <1>2, <1>3

(* What holds at 0 and of the next number holds up to N. *)
LEMMA UpTo ==
  ASSUME NEW N \in Nat, NEW T, T \subseteq 0..N, 0 \notin T,
         \A n \in 0..N : n # 0 /\ n \in T => n - 1 \in T
  PROVE  T = {}
<1> SUFFICES ASSUME T # {}
             PROVE  FALSE
  OBVIOUS
<1>1. T \subseteq Nat
  OBVIOUS
<1>2. PICK n \in T : \A m \in T : n <= m
  BY <1>1, SmallestNat
<1>3. n \in 0..N /\ n # 0 /\ n - 1 \in T
  OBVIOUS
<1>4. QED
  BY <1>2, <1>3

LEMMA MaxIsLast ==
  ASSUME NEW n \in Nat, NEW s, s \subseteq 1..n, s # {}
  PROVE  /\ Max(s) \in s /\ \A x \in s : x <= Max(s)
         /\ n \in s => Max(s) = n
<1> DEFINE T == {k \in Nat : \A x \in s : x <= k}
<1>0. \A x \in s : x \in Nat /\ 1 <= x /\ x <= n
  OBVIOUS
<1>1. n \in T
  BY <1>0
<1>2. PICK m \in T : \A k \in T : m <= k
  <2>1. T \subseteq Nat /\ T # {}
    BY <1>1
  <2> HIDE DEF T
  <2>2. QED
    BY <2>1, SmallestNat
<1>3. m \in s
  <2> SUFFICES ASSUME m \notin s
               PROVE  FALSE
    OBVIOUS
  <2>1. m \in Nat /\ m # 0
    <3>1. m \in Nat /\ \A x \in s : x <= m
      BY <1>2
    <3>2. PICK x \in s : TRUE
      OBVIOUS
    <3>3. QED
      BY <1>0, <3>1, <3>2
  <2>2. m - 1 \in T
    <3>1. m - 1 \in Nat /\ \A x \in s : x <= m /\ x # m /\ x \in Nat
      BY <1>0, <1>2, <2>1
    <3>2. \A x \in s : x <= m - 1
      BY <2>1, <3>1
    <3>3. QED
      BY <3>1, <3>2
  <2>3. QED
    BY <1>2, <2>1, <2>2
<1>4. \E x \in s : \A y \in s : x >= y
  BY <1>2, <1>3
<1>5. Max(s) \in s /\ \A y \in s : Max(s) >= y
  BY <1>4 DEF Max
<1>6. Max(s) \in Nat /\ Max(s) <= n /\ \A x \in s : x <= Max(s)
  BY <1>0, <1>5
<1>7. QED
  BY <1>5, <1>6

(* A fold over the chunks is well-defined, ... *)
FoldsTo(n, b, G, i) ==
  \A s \in SUBSET (1..n) :
    i[s] = IF s = {} THEN b ELSE G[<<i[s \ {Max(s)}], Max(s)>>]

LEMMA FoldExists ==
  ASSUME NEW N \in Nat, NEW A, NEW b \in A, NEW G \in [A \X (1..N) -> A]
  PROVE  \E i \in [SUBSET (1..N) -> A] : FoldsTo(N, b, G, i)
<1> DEFINE Has(n) == \E i \in [SUBSET (1..n) -> A] : FoldsTo(n, b, G, i)
           T == {n \in 0..N : ~Has(n)}
<1>1. Has(0)
  <2>1. [s \in SUBSET (1..0) |-> b] \in [SUBSET (1..0) -> A]
    OBVIOUS
  <2>2. FoldsTo(0, b, G, [s \in SUBSET (1..0) |-> b])
    BY DEF FoldsTo
  <2>3. QED
    BY <2>1, <2>2
<1>2. ASSUME NEW n \in 0..N, n # 0, Has(n - 1)
      PROVE  Has(n)
  <2>1. PICK i \in [SUBSET (1..(n - 1)) -> A] : FoldsTo(n - 1, b, G, i)
    BY <1>2
  <2> DEFINE j == [s \in SUBSET (1..n) |-> IF n \in s THEN G[<<i[s \ {n}], n>>] ELSE i[s]]
  <2>2. /\ \A s \in SUBSET (1..n) : s \ {n} \in SUBSET (1..(n - 1))
        /\ \A s \in SUBSET (1..n) : n \notin s => s \in SUBSET (1..(n - 1))
        /\ n \in 1..N /\ n \in Nat /\ n - 1 \in Nat
    BY <1>2
  <2>3. j \in [SUBSET (1..n) -> A]
    BY <2>2
  <2>4. ASSUME NEW s \in SUBSET (1..n)
        PROVE  j[s] = IF s = {} THEN b ELSE G[<<j[s \ {Max(s)}], Max(s)>>]
    <3>1. CASE n \in s
      <4>1. Max(s) = n /\ s # {}
        BY <2>2, <3>1, MaxIsLast
      <4>2. j[s \ {n}] = i[s \ {n}]
        BY <2>2
      <4>3. QED
        BY <3>1, <4>1, <4>2
    <3>2. CASE n \notin s /\ s # {}
      <4>1. s \in SUBSET (1..(n - 1)) /\ j[s] = i[s] /\ n \notin s \ {Max(s)}
        BY <2>2, <3>2
      <4>2. s \ {Max(s)} \in SUBSET (1..n) /\ j[s \ {Max(s)}] = i[s \ {Max(s)}]
        BY <4>1
      <4>3. i[s] = G[<<i[s \ {Max(s)}], Max(s)>>]
        BY <2>1, <3>2, <4>1 DEF FoldsTo
      <4>4. QED
        BY <3>2, <4>1, <4>2, <4>3
    <3>3. CASE s = {}
      BY <2>1, <3>3 DEF FoldsTo
    <3>4. QED
      BY <3>1, <3>2, <3>3
  <2> HIDE DEF j
  <2>5. FoldsTo(n, b, G, j)
    BY <2>4 DEF FoldsTo
  <2>6. QED
    BY <2>3, <2>5
<1>3. 0 \notin T /\ \A n \in 0..N : n # 0 /\ n \in T => n - 1 \in T
  <2> HIDE DEF Has
  <2>1. QED
    BY <1>1, <1>2
<1>4. T = {}
  <2> HIDE DEF T
  <2>1. T \subseteq 0..N
    BY DEF T
  <2>2. QED
    BY <1>3, <2>1, UpTo
<1>5. N \in 0..N
  OBVIOUS
<1>6. Has(N)
  BY <1>4, <1>5
<1>7. QED
  BY <1>6

(* ... and takes them one after the other. *)
After(i, k) == i[1..k]

LEMMA FoldNext ==
  ASSUME NEW N \in Nat, NEW b, NEW G, NEW i, FoldsTo(N, b, G, i)
  PROVE  /\ After(i, 0) = b
         /\ \A k \in 1..N : After(i, k) = G[<<After(i, k - 1), k>>]
<1>1. i[1..0] = b
  <2>1. 1..0 = {} /\ 1..0 \in SUBSET (1..N)
    OBVIOUS
  <2>2. QED
    BY <2>1 DEF FoldsTo
<1>2. ASSUME NEW k \in 1..N
      PROVE  i[1..k] = G[<<i[1..(k - 1)], k>>]
  <2>1. 1..k \subseteq 1..N /\ k \in 1..k /\ (1..k) \ {k} = 1..(k - 1) /\ k \in Nat
    OBVIOUS
  <2>2. Max(1..k) = k /\ 1..k # {}
    BY <2>1, MaxIsLast
  <2>3. QED
    BY <2>1, <2>2 DEF FoldsTo
<1>3. QED
  BY <1>1, <1>2 DEF After

(* Joining chunks: one after the other, too. *)
IsFlat(s, f) == f = [i \in 1..Len(s) |-> IF i = 1 THEN s[i] ELSE f[i-1] \o s[i]]

LEMMA FlatIs ==
  \A s : FlattenSeq(s) = IF Len(s) = 0 THEN s ELSE (CHOOSE f : IsFlat(s, f))[Len(s)]
  BY DEF FlattenSeq, IsFlat

LEMMA FlatAt ==
  ASSUME NEW s, NEW f, IsFlat(s, f), NEW k \in 1..Len(s)
  PROVE  f[k] = IF k = 1 THEN s[k] ELSE f[k-1] \o s[k]
  BY DEF IsFlat

LEMMA FlatExists ==
  ASSUME NEW C, NEW s \in Seq(Seq(C))
  PROVE  \E f \in [1..Len(s) -> Seq(C)] : IsFlat(s, f)
<1> DEFINE N == Len(s)
           G == [p \in Seq(C) \X (1..N) |-> p[1] \o s[p[2]]]
<1>1. N \in Nat /\ \A k \in 1..N : s[k] \in Seq(C)
  BY ElementOfSeq, LenProperties
<1>2. <<>> \in Seq(C)
  OBVIOUS
<1>3. G \in [Seq(C) \X (1..N) -> Seq(C)]
  BY <1>1
<1> HIDE DEF N
<1>4. PICK i \in [SUBSET (1..N) -> Seq(C)] : FoldsTo(N, <<>>, G, i)
  <2> HIDE DEF G
  <2>1. QED
    BY <1>1, <1>2, <1>3, FoldExists
<1>5. After(i, 0) = <<>> /\ \A k \in 1..N : After(i, k) = G[<<After(i, k - 1), k>>]
  <2> HIDE DEF G
  <2>1. QED
    BY <1>1, <1>4, FoldNext
<1>6. \A k \in 0..N : After(i, k) \in Seq(C)
  <2>1. \A k \in 0..N : 1..k \in SUBSET (1..N)
    BY <1>1
  <2>2. QED
    BY <1>4, <2>1 DEF After
<1>7. \A k \in 1..N : After(i, k) = After(i, k - 1) \o s[k]
  <2>1. \A k \in 1..N : k - 1 \in 0..N
    BY <1>1
  <2>2. \A k \in 1..N : <<After(i, k - 1), k>> \in Seq(C) \X (1..N)
    BY <1>6, <2>1
  <2>3. QED
    BY <1>5, <2>2
<1> DEFINE f == [k \in 1..N |-> After(i, k)]
<1>8. f \in [1..N -> Seq(C)]
  BY <1>1, <1>6
<1>9. ASSUME NEW k \in 1..N
      PROVE  f[k] = IF k = 1 THEN s[k] ELSE f[k-1] \o s[k]
  <2>1. CASE k = 1
    <3>0. k - 1 = 0 /\ s[k] \in Seq(C) /\ After(i, 0) = <<>>
      BY <1>1, <1>5, <2>1
    <3>1. After(i, k) = <<>> \o s[k]
      BY <1>7, <3>0
    <3>2. After(i, k) = s[k]
      BY <3>0, <3>1, ConcatEmptySeq
    <3>3. QED
      BY <2>1, <3>2
  <2>2. CASE k # 1
    <3>1. k - 1 \in 1..N
      BY <1>1, <2>2
    <3>2. f[k-1] = After(i, k - 1) /\ f[k] = After(i, k)
      BY <3>1
    <3>3. QED
      BY <1>7, <2>2, <3>2
  <2>3. QED
    BY <2>1, <2>2
<1>10. IsFlat(s, f)
  <2> DEFINE g == [k \in 1..N |-> IF k = 1 THEN s[k] ELSE f[k-1] \o s[k]]
  <2>1. \A k \in 1..N : f[k] = g[k]
    BY <1>9
  <2>2. f = g
    BY <2>1
  <2>3. QED
    BY <2>2 DEF IsFlat, N
<1>11. QED
  BY <1>8, <1>10 DEF N

LEMMA FlattenAppend ==
  ASSUME NEW C, NEW s \in Seq(Seq(C)), NEW x \in Seq(C)
  PROVE  /\ FlattenSeq(s) \in Seq(C)
         /\ FlattenSeq(Append(s, x)) = FlattenSeq(s) \o x
<1> DEFINE N == Len(s)
           t == Append(s, x)
           f == CHOOSE f : IsFlat(s, f)
           g == CHOOSE g : IsFlat(t, g)
<1>1. /\ t \in Seq(Seq(C)) /\ Len(t) = N + 1 /\ N \in Nat
      /\ t[N + 1] = x /\ \A k \in 1..N : t[k] = s[k] /\ s[k] \in Seq(C)
  OBVIOUS
<1> HIDE DEF t
<1>2. IsFlat(s, f) /\ IsFlat(t, g)
  BY <1>1, FlatExists
<1> HIDE DEF f, g
<1>3. \A k \in 1..N : f[k] = g[k] /\ f[k] \in Seq(C)
  <2> DEFINE T == {k \in 0..N : k # 0 /\ ~(f[k] = g[k] /\ f[k] \in Seq(C))}
  <2>1. ASSUME NEW k \in 0..N, k # 0, k \in T
        PROVE  k - 1 \in T
    <3> SUFFICES ASSUME k - 1 \notin T
                 PROVE  FALSE
      OBVIOUS
    <3>1. k \in 1..Len(s) /\ k \in 1..Len(t) /\ k - 1 \in 0..N
      BY <1>1, <2>1
    <3>2. f[k] = IF k = 1 THEN s[k] ELSE f[k-1] \o s[k]
      BY <1>2, <3>1, FlatAt
    <3>3. g[k] = IF k = 1 THEN s[k] ELSE g[k-1] \o s[k]
      <4>1. g[k] = IF k = 1 THEN t[k] ELSE g[k-1] \o t[k]
        BY <1>2, <3>1, FlatAt
      <4>2. QED
        BY <1>1, <3>1, <4>1
    <3>4. k # 1 => f[k-1] = g[k-1] /\ f[k-1] \in Seq(C)
      BY <3>1
    <3>5. f[k] = g[k] /\ f[k] \in Seq(C)
      BY <1>1, <3>1, <3>2, <3>3, <3>4, ConcatProperties
    <3>6. QED
      BY <2>1, <3>5
  <2>2. 0 \notin T /\ T \subseteq 0..N
    OBVIOUS
  <2> HIDE DEF T
  <2>3. T = {}
    BY <1>1, <2>1, <2>2, UpTo
  <2>4. \A k \in 1..N : k \notin T /\ k \in 0..N /\ k # 0
    BY <1>1, <2>3
  <2>5. QED
    BY <2>4 DEF T
<1>4. FlattenSeq(t) = g[N + 1]
  BY <1>1, FlatIs DEF g
<1>5. g[N + 1] = IF N + 1 = 1 THEN x ELSE g[N] \o x
  <2>1. N + 1 \in 1..Len(t) /\ (N + 1) - 1 = N
    BY <1>1
  <2>2. QED
    BY <1>1, <1>2, <2>1, FlatAt
<1>6. FlattenSeq(s) \in Seq(C) /\ FlattenSeq(t) = FlattenSeq(s) \o x
  <2>1. CASE N = 0
    <3>1. s = <<>> /\ FlattenSeq(s) = <<>> /\ <<>> \in Seq(C)
      BY <2>1, FlatIs
    <3>2. <<>> \o x = x
      BY ConcatEmptySeq
    <3>3. FlattenSeq(t) = x
      BY <1>4, <1>5, <2>1
    <3>4. QED
      BY <3>1, <3>2, <3>3
  <2>2. CASE N # 0
    <3>1. FlattenSeq(s) = f[N] /\ N \in 1..N
      BY <1>1, <2>2, FlatIs DEF f
    <3>2. N + 1 # 1
      BY <1>1, <2>2
    <3>3. QED
      BY <1>3, <1>4, <1>5, <3>1, <3>2
  <2>3. QED
    BY <2>1, <2>2
<1>7. QED
  BY <1>6 DEF t

(* The text of the first k chunks. *)
First(s, k) == FlattenSeq(SubSeq(s, 1, k))

LEMMA FirstIsAll ==
  ASSUME NEW C, NEW s \in Seq(Seq(C))
  PROVE  First(s, Len(s)) = FlattenSeq(s)
  BY SubSeqFull DEF First

LEMMA FirstFacts ==
  ASSUME NEW C, NEW s \in Seq(Seq(C))
  PROVE  /\ First(s, 0) = <<>>
         /\ \A k \in 1..Len(s) : /\ First(s, k - 1) \in Seq(C) /\ s[k] \in Seq(C)
                                 /\ First(s, k) = First(s, k - 1) \o s[k]
         /\ FlattenSeq(s) \in Seq(C)
<1>1. First(s, 0) = <<>>
  <2>1. SubSeq(s, 1, 0) = <<>> /\ Len(<<>>) = 0
    BY SubSeqEmpty
  <2>2. QED
    BY <2>1, FlatIs DEF First
<1>3. ASSUME NEW k \in 1..Len(s)
      PROVE  /\ First(s, k - 1) \in Seq(C) /\ s[k] \in Seq(C)
             /\ First(s, k) = First(s, k - 1) \o s[k]
  <2> DEFINE a == SubSeq(s, 1, k - 1)
             x == s[k]
  <2>1. x \in Seq(C) /\ Len(s) \in Nat
    BY ElementOfSeq, LenProperties
  <2>2. a \in Seq(Seq(C))
    <3>1. 1 \in Int /\ k - 1 \in Int /\ \A i \in 1..(k - 1) : s[i] \in Seq(C)
      BY <2>1, ElementOfSeq
    <3>2. QED
      BY <3>1, SubSeqProperties
  <2>3. SubSeq(s, 1, k) = a \o <<x>>
    <3>1. 1 \in 1..Len(s) /\ k \in 1..Len(s)
      BY <2>1
    <3>2. QED
      BY <3>1, SubSeqRecursiveSecond
  <2> HIDE DEF a, x
  <2>4. a \o <<x>> = Append(a, x)
    BY <2>1, <2>2, AppendProperties
  <2>5. FlattenSeq(a) \in Seq(C) /\ FlattenSeq(Append(a, x)) = FlattenSeq(a) \o x
    BY <2>1, <2>2, FlattenAppend
  <2>6. QED
    BY <2>1, <2>3, <2>4, <2>5 DEF First, a, x
<1>4. FlattenSeq(s) \in Seq(C)
  BY EmptySeq, FlattenAppend
<1>5. QED
  BY <1>1, <1>3, <1>4

(* What is kept count of as the length is the length of the text. *)
IsLength(s, i) ==
  i = [S \in SUBSET DOMAIN s |-> IF S = {} THEN 0
                                 ELSE LET x == Max(S) IN i[S \ {x}] + Len(s[x])]

LEMMA LengthIs == \A s : Length(s) = (CHOOSE i : IsLength(s, i))[DOMAIN s]
  BY DEF Length, FoldLeft, MapThenFoldSet, IsLength

LEMMA LengthOfText ==
  ASSUME NEW C, NEW s \in Seq(Seq(C))
  PROVE  Length(s) = Len(FlattenSeq(s))
<1> DEFINE N == Len(s)
           G == [p \in Nat \X (1..N) |-> p[1] + Len(s[p[2]])]
<1>1. N \in Nat /\ DOMAIN s = 1..N /\ \A k \in 1..N : Len(s[k]) \in Nat
  BY ElementOfSeq, LenProperties
<1>2. \A a \in Nat, k \in 1..N : G[<<a, k>>] = a + Len(s[k]) /\ a + Len(s[k]) \in Nat
  BY <1>1
<1>3. G \in [Nat \X (1..N) -> Nat]
  BY <1>1
<1> HIDE DEF N, G
<1>4. \E i : IsLength(s, i)
  <2>1. PICK i \in [SUBSET (1..N) -> Nat] : FoldsTo(N, 0, G, i)
    BY <1>1, <1>3, FoldExists
  <2> DEFINE j == [S \in SUBSET DOMAIN s |-> IF S = {} THEN 0
                                 ELSE LET x == Max(S) IN i[S \ {x}] + Len(s[x])]
  <2>2. ASSUME NEW S \in SUBSET (1..N)
        PROVE  i[S] = j[S]
    <3>1. CASE S = {}
      BY <1>1, <2>1, <3>1 DEF FoldsTo
    <3>2. CASE S # {}
      <4>1. Max(S) \in 1..N /\ S \ {Max(S)} \in SUBSET (1..N)
        BY <1>1, <3>2, MaxIsLast
      <4>2. i[S] = G[<<i[S \ {Max(S)}], Max(S)>>]
        BY <2>1, <3>2 DEF FoldsTo
      <4>3. i[S] = i[S \ {Max(S)}] + Len(s[Max(S)])
        BY <1>2, <4>1, <4>2
      <4>4. QED
        BY <1>1, <3>2, <4>3
    <3>3. QED
      BY <3>1, <3>2
  <2>3. i = j
    BY <1>1, <2>2
  <2>4. IsLength(s, i)
    BY <2>3 DEF IsLength
  <2>5. QED
    BY <2>4
<1> DEFINE i == CHOOSE i : IsLength(s, i)
<1>5. IsLength(s, i)
  BY <1>4
<1> HIDE DEF i
<1>6. \A S \in SUBSET (1..N) :
        i[S] = IF S = {} THEN 0 ELSE i[S \ {Max(S)}] + Len(s[Max(S)])
  BY <1>1, <1>5 DEF IsLength
<1>7. After(i, 0) = 0
  <2>1. 1..0 = {} /\ 1..0 \in SUBSET (1..N)
    OBVIOUS
  <2>2. QED
    BY <1>6, <2>1 DEF After
<1>8. \A k \in 1..N : After(i, k) = After(i, k - 1) + Len(s[k])
  <2>1. ASSUME NEW k \in 1..N
        PROVE  i[1..k] = i[1..(k - 1)] + Len(s[k])
    <3>1. 1..k \subseteq 1..N /\ k \in 1..k /\ (1..k) \ {k} = 1..(k - 1) /\ k \in Nat
      BY <1>1
    <3>2. Max(1..k) = k /\ 1..k # {}
      BY <3>1, MaxIsLast
    <3>3. QED
      BY <1>6, <3>1, <3>2
  <2>2. QED
    BY <2>1 DEF After
<1>9. \A k \in 0..N : After(i, k) = Len(First(s, k))
  <2> DEFINE T == {k \in 0..N : After(i, k) # Len(First(s, k))}
  <2>1. ASSUME NEW k \in 0..N, k # 0, k \in T
        PROVE  k - 1 \in T
    <3> SUFFICES ASSUME k - 1 \notin T
                 PROVE  FALSE
      OBVIOUS
    <3>1. k \in 1..N /\ k - 1 \in 0..N
      BY <1>1, <2>1
    <3>2. After(i, k - 1) = Len(First(s, k - 1)) /\ After(i, k) # Len(First(s, k))
      BY <2>1, <3>1
    <3>3. /\ First(s, k - 1) \in Seq(C) /\ s[k] \in Seq(C)
          /\ First(s, k) = First(s, k - 1) \o s[k]
      BY <3>1, FirstFacts DEF N
    <3>4. Len(First(s, k)) = Len(First(s, k - 1)) + Len(s[k])
      BY <3>3, ConcatProperties
    <3>5. QED
      BY <1>8, <3>1, <3>2, <3>4
  <2>2. T \subseteq 0..N
    OBVIOUS
  <2>3. 0 \notin T
    BY <1>7, FirstFacts, EmptySeq
  <2> HIDE DEF T
  <2>4. T = {}
    BY <1>1, <2>1, <2>2, <2>3, UpTo
  <2>5. QED
    BY <2>4 DEF T
<1>10. Length(s) = After(i, N)
  BY <1>1, LengthIs DEF i, After
<1>11. First(s, N) = FlattenSeq(s) /\ N \in 0..N
  BY <1>1, FirstIsAll DEF N
<1>12. QED
  BY <1>9, <1>10, <1>11

(* Evicting takes that many characters off the front of the text. *)
Cut(acc, c) ==
  IF Len(c) <= acc.over
    THEN [acc EXCEPT !.over = @ - Len(c)]
    ELSE [kept |-> Append(acc.kept, SubSeq(c, acc.over + 1, Len(c))), over |-> 0]

IsEviction(s, o, i) ==
  i = [S \in SUBSET DOMAIN s |-> IF S = {} THEN [kept |-> <<>>, over |-> o]
                                 ELSE LET x == Max(S) IN Cut(i[S \ {x}], s[x])]

LEMMA EvictedIs ==
  \A s, o : Evicted(s, o) = (CHOOSE i : IsEviction(s, o, i))[DOMAIN s].kept
  BY DEF Evicted, FoldLeft, MapThenFoldSet, IsEviction, Cut

(* t is s without its first d characters. *)
Without(t, s, d) ==
  /\ d \in Nat /\ d <= Len(s) /\ Len(t) = Len(s) - d
  /\ \A k \in 1..Len(t) : t[k] = s[d + k]

Overflow(C) == [kept : Seq(Seq(C)), over : Nat]
(* How far the loop is when it has seen the text p. *)
CutFrom(C, acc, p, o) ==
  /\ acc \in Overflow(C)
  /\ acc.over = IF o > Len(p) THEN o - Len(p) ELSE 0
  /\ Without(FlattenSeq(acc.kept), p, o - acc.over)

(* Chunks of characters make a text of characters. *)
LEMMA TextIsSeq ==
  ASSUME NEW C, NEW s \in Seq(Seq(C))
  PROVE  FlattenSeq(s) \in Seq(C)
  BY EmptySeq, FlattenAppend

LEMMA CutOne ==
  ASSUME NEW C, NEW p \in Seq(C), NEW c \in Seq(C), NEW o \in Nat, NEW acc,
         CutFrom(C, acc, p, o)
  PROVE  CutFrom(C, Cut(acc, c), p \o c, o)
<1> DEFINE kept == acc.kept
           over == acc.over
           t == FlattenSeq(kept)
           q == p \o c
<1>1. /\ kept \in Seq(Seq(C)) /\ over \in Nat
      /\ Len(p) \in Nat /\ Len(c) \in Nat
  BY LenProperties DEF CutFrom, Overflow
<1>2. /\ over = IF o > Len(p) THEN o - Len(p) ELSE 0
      /\ o - over \in Nat /\ o - over <= Len(p) /\ Len(t) = Len(p) - (o - over)
  BY DEF CutFrom, Without
<1>t. \A k \in 1..Len(t) : t[k] = p[(o - over) + k]
  BY DEF CutFrom, Without
<1>3. t \in Seq(C) /\ Len(t) \in Nat
  <2>1. t \in Seq(C)
    BY <1>1, TextIsSeq
  <2>2. QED
    BY <2>1, LenProperties
<1>4. q \in Seq(C) /\ Len(q) = Len(p) + Len(c)
  BY ConcatProperties
<1>q. \A k \in 1..(Len(p) + Len(c)) : q[k] = IF k <= Len(p) THEN p[k] ELSE c[k - Len(p)]
  BY ConcatProperties
<1>l. PICK lp \in Nat, lc \in Nat, lt \in Nat, ov \in Nat :
        lp = Len(p) /\ lc = Len(c) /\ lt = Len(t) /\ ov = over
  BY <1>1, <1>3
<1>o. /\ ov = IF o > lp THEN o - lp ELSE 0
      /\ lt = lp - (o - ov) /\ o - ov <= lp /\ Len(q) = lp + lc
  BY <1>2, <1>4, <1>l
<1>5. CASE Len(c) <= over
  <2> DEFINE new == [acc EXCEPT !.over = @ - Len(c)]
  <2>1. /\ Cut(acc, c) = new /\ new \in Overflow(C) /\ new.kept = kept
        /\ new.over = over - Len(c)
    <3>1. acc \in Overflow(C)
      BY DEF CutFrom
    <3>2. over - Len(c) \in Nat
      BY <1>1, <1>5
    <3>3. new \in Overflow(C) /\ new.kept = kept /\ new.over = over - Len(c)
      BY <3>1, <3>2 DEF Overflow
    <3>4. Cut(acc, c) = new
      BY <1>5 DEF Cut
    <3>5. QED
      BY <3>3, <3>4
  <2> HIDE DEF new, kept, over, t, q
  <2>2. /\ new.over = IF o > Len(q) THEN o - Len(q) ELSE 0
        /\ o - new.over \in Nat /\ o - new.over <= Len(q)
        /\ Len(t) = Len(q) - (o - new.over)
    <3>1. lc <= ov /\ new.over = ov - lc
      BY <1>l, <1>5, <2>1
    <3>2. /\ ov - lc = IF o > lp + lc THEN o - (lp + lc) ELSE 0
          /\ o - (ov - lc) \in Nat /\ o - (ov - lc) <= lp + lc
          /\ lt = (lp + lc) - (o - (ov - lc))
      BY <1>o, <3>1
    <3>3. QED
      BY <1>l, <1>o, <3>1, <3>2
  <2>4. ASSUME NEW k \in 1..Len(t)
        PROVE  t[k] = q[(o - new.over) + k]
    <3>0. k \in 1..lt /\ lc <= ov /\ new.over = ov - lc
      BY <1>l, <1>5, <2>1
    <3>1. ov = 0 /\ lc = 0 /\ (o - ov) + k \in 1..(lp + lc) /\ (o - ov) + k <= lp
      BY <1>o, <3>0
    <3>2. /\ (o - over) + k \in 1..(Len(p) + Len(c)) /\ (o - over) + k <= Len(p)
          /\ (o - new.over) + k = (o - over) + k
      BY <1>l, <3>0, <3>1
    <3>3. t[k] = p[(o - over) + k] /\ q[(o - over) + k] = p[(o - over) + k]
      BY <1>t, <1>q, <3>2
    <3>4. QED
      BY <3>2, <3>3
  <2>5. QED
    BY <2>1, <2>2, <2>4 DEF CutFrom, Without, t, kept, q
<1>6. CASE Len(c) > over
  <2> DEFINE rest == SubSeq(c, over + 1, Len(c))
             new == [kept |-> Append(kept, rest), over |-> 0]
             u == t \o rest
  <2>1. /\ rest \in Seq(C) /\ Len(rest) = Len(c) - over
        /\ \A k \in 1..(Len(c) - over) : rest[k] = c[over + k]
    <3>1. /\ over + 1 \in Int /\ Len(c) \in Int /\ over + 1 <= Len(c)
          /\ Len(c) - (over + 1) + 1 = Len(c) - over
          /\ \A k \in 1..(Len(c) - over) : (over + 1) + k - 1 = over + k
      BY <1>1, <1>6
    <3>2. \A k \in (over + 1)..Len(c) : c[k] \in C
      BY <1>1, ElementOfSeq
    <3> HIDE DEF over
    <3>3. /\ rest \in Seq(C)
          /\ Len(rest) = IF over + 1 <= Len(c) THEN Len(c) - (over + 1) + 1 ELSE 0
          /\ \A k \in 1..(Len(c) - (over + 1) + 1) : rest[k] = c[(over + 1) + k - 1]
      BY <3>1, <3>2, SubSeqProperties
    <3>4. QED
      BY <3>1, <3>3
  <2> HIDE DEF rest
  <2>2. /\ Cut(acc, c) = new /\ new \in Overflow(C)
        /\ new.kept = Append(kept, rest) /\ new.over = 0
    <3>1. Append(kept, rest) \in Seq(Seq(C))
      BY <1>1, <2>1, AppendProperties
    <3>2. new \in Overflow(C) /\ new.kept = Append(kept, rest) /\ new.over = 0
      BY <3>1 DEF Overflow
    <3>3. ~(Len(c) <= over)
      BY <1>1, <1>6
    <3>4. Cut(acc, c) = new
      BY <3>3 DEF Cut, rest
    <3>5. QED
      BY <3>2, <3>4
  <2>3. FlattenSeq(Append(kept, rest)) = u
    BY <1>1, <2>1, FlattenAppend
  <2>4. Len(u) = Len(t) + Len(rest)
    BY <1>3, <2>1, ConcatProperties
  <2>u. \A k \in 1..(Len(t) + Len(rest)) : u[k] = IF k <= Len(t) THEN t[k] ELSE rest[k - Len(t)]
    BY <1>3, <2>1, ConcatProperties
  <2>r. Len(rest) = Len(c) - over
    BY <2>1
  <2> HIDE DEF new, kept, over, t, q, u
  <2>5. /\ 0 = IF o > Len(q) THEN o - Len(q) ELSE 0
        /\ o - 0 \in Nat /\ o - 0 <= Len(q) /\ Len(u) = Len(q) - (o - 0)
    <3>1. lc > ov /\ Len(u) = lt + (lc - ov)
      BY <1>l, <1>6, <2>r, <2>4
    <3>2. /\ 0 = IF o > lp + lc THEN o - (lp + lc) ELSE 0
          /\ o - 0 \in Nat /\ o - 0 <= lp + lc /\ lt + (lc - ov) = (lp + lc) - (o - 0)
      BY <1>o, <3>1
    <3>3. QED
      BY <1>o, <3>1, <3>2
  <2>6. ASSUME NEW k \in 1..Len(u)
        PROVE  u[k] = q[(o - 0) + k]
    <3>0. k \in 1..(Len(t) + Len(rest)) /\ o + k \in 1..(Len(p) + Len(c))
          /\ (o - 0) + k = o + k
      BY <1>1, <1>4, <2>4, <2>5
    <3>1. CASE k <= Len(t)
      <4>1. over = 0 /\ k \in 1..Len(t)
        BY <1>1, <1>2, <1>3, <3>0, <3>1
      <4>2. o + k <= Len(p) /\ (o - over) + k = o + k
        <5>1. ov = 0 /\ k \in 1..lt
          BY <1>l, <4>1
        <5>2. o + k <= lp /\ (o - ov) + k = o + k
          BY <1>o, <5>1
        <5>3. QED
          BY <1>l, <5>2
      <4>3. u[k] = t[k] /\ t[k] = p[o + k]
        BY <1>t, <2>u, <3>0, <3>1, <4>1, <4>2
      <4>4. q[o + k] = p[o + k]
        BY <1>q, <3>0, <4>2
      <4>5. QED
        BY <3>0, <4>3, <4>4
    <3>2. CASE k > Len(t)
      <4>1. /\ k - Len(t) \in 1..(Len(c) - over)
            /\ over + (k - Len(t)) = (o + k) - Len(p)
            /\ ~(o + k <= Len(p)) /\ ~(k <= Len(t))
        BY <1>1, <1>2, <1>3, <2>r, <3>0, <3>2
      <4>2. u[k] = rest[k - Len(t)]
        BY <2>u, <3>0, <4>1
      <4>3. rest[k - Len(t)] = c[over + (k - Len(t))]
        BY <2>1, <4>1
      <4>4. q[o + k] = c[(o + k) - Len(p)]
        BY <1>q, <3>0, <4>1
      <4>5. QED
        BY <3>0, <4>1, <4>2, <4>3, <4>4
    <3>3. QED
      BY <1>3, <3>0, <3>1, <3>2
  <2>7. QED
    BY <2>2, <2>3, <2>5, <2>6 DEF CutFrom, Without, q
<1>7. QED
  BY <1>1, <1>5, <1>6

LEMMA CutTypes ==
  ASSUME NEW C, NEW acc \in Overflow(C), NEW c \in Seq(C)
  PROVE  Cut(acc, c) \in Overflow(C)
<1>1. acc.kept \in Seq(Seq(C)) /\ acc.over \in Nat /\ Len(c) \in Nat
  BY LenProperties DEF Overflow
<1>2. CASE Len(c) <= acc.over
  <2>1. acc.over - Len(c) \in Nat
    BY <1>1, <1>2
  <2>2. [acc EXCEPT !.over = @ - Len(c)] \in Overflow(C)
    BY <2>1 DEF Overflow
  <2>3. QED
    BY <1>2, <2>2 DEF Cut
<1>3. CASE ~(Len(c) <= acc.over)
  <2> DEFINE over == acc.over
             rest == SubSeq(c, over + 1, Len(c))
  <2>1. over + 1 \in Int /\ Len(c) \in Int /\ \A k \in (over + 1)..Len(c) : c[k] \in C
    BY <1>1, ElementOfSeq
  <2>2. rest \in Seq(C)
    <3> HIDE DEF over
    <3>1. QED
      BY <2>1, SubSeqProperties
  <2>3. Append(acc.kept, rest) \in Seq(Seq(C))
    <3> HIDE DEF rest
    <3>1. QED
      BY <1>1, <2>2, AppendProperties
  <2>4. [kept |-> Append(acc.kept, rest), over |-> 0] \in Overflow(C)
    BY <2>3 DEF Overflow
  <2>5. QED
    BY <1>3, <2>4 DEF Cut
<1>4. QED
  BY <1>2, <1>3

LEMMA EvictionExists ==
  ASSUME NEW C, NEW s \in Seq(Seq(C)), NEW o \in Nat
  PROVE  \E i : IsEviction(s, o, i)
<1> DEFINE N == Len(s)
           A == Overflow(C)
           b == [kept |-> <<>>, over |-> o]
           G == [p \in A \X (1..N) |-> Cut(p[1], s[p[2]])]
<1>1. N \in Nat /\ DOMAIN s = 1..N /\ \A k \in 1..N : s[k] \in Seq(C)
  BY ElementOfSeq, LenProperties
<1>2. b \in A
  BY EmptySeq DEF Overflow
<1> HIDE DEF A, N
<1>3. \A acc \in A, k \in 1..N : G[<<acc, k>>] = Cut(acc, s[k]) /\ Cut(acc, s[k]) \in A
  BY <1>1, CutTypes DEF A
<1>4. G \in [A \X (1..N) -> A]
  BY <1>1, CutTypes DEF A
<1> HIDE DEF G, b
<1>5. PICK i \in [SUBSET (1..N) -> A] : FoldsTo(N, b, G, i)
  BY <1>1, <1>2, <1>4, FoldExists
<1> DEFINE j == [S \in SUBSET DOMAIN s |-> IF S = {} THEN b
                                 ELSE LET x == Max(S) IN Cut(i[S \ {x}], s[x])]
<1>6. ASSUME NEW S \in SUBSET (1..N)
      PROVE  i[S] = j[S]
  <2>1. CASE S = {}
    BY <1>1, <1>5, <2>1 DEF FoldsTo
  <2>2. CASE S # {}
    <3>1. Max(S) \in 1..N /\ S \ {Max(S)} \in SUBSET (1..N)
      BY <1>1, <2>2, MaxIsLast
    <3>2. i[S] = G[<<i[S \ {Max(S)}], Max(S)>>]
      BY <1>5, <2>2 DEF FoldsTo
    <3>3. i[S] = Cut(i[S \ {Max(S)}], s[Max(S)])
      BY <1>3, <3>1, <3>2
    <3>4. QED
      BY <1>1, <2>2, <3>3
  <2>3. QED
    BY <2>1, <2>2
<1>7. i = j
  BY <1>1, <1>6
<1>8. IsEviction(s, o, i)
  BY <1>7 DEF IsEviction, b
<1>9. QED
  BY <1>8

LEMMA EvictedText ==
  ASSUME NEW C, NEW s \in Seq(Seq(C)), NEW o \in Nat, o <= Len(FlattenSeq(s))
  PROVE  /\ Evicted(s, o) \in Seq(Seq(C))
         /\ Without(FlattenSeq(Evicted(s, o)), FlattenSeq(s), o)
<1> DEFINE N == Len(s)
           i == CHOOSE i : IsEviction(s, o, i)
<1>1. N \in Nat /\ DOMAIN s = 1..N /\ \A k \in 1..N : s[k] \in Seq(C)
  BY ElementOfSeq, LenProperties
<1>2. IsEviction(s, o, i)
  BY EvictionExists
<1> HIDE DEF i, N
<1>3. \A S \in SUBSET (1..N) :
        i[S] = IF S = {} THEN [kept |-> <<>>, over |-> o] ELSE Cut(i[S \ {Max(S)}], s[Max(S)])
  BY <1>1, <1>2 DEF IsEviction
<1>4. After(i, 0) = [kept |-> <<>>, over |-> o]
  <2>1. 1..0 = {} /\ 1..0 \in SUBSET (1..N)
    OBVIOUS
  <2>2. QED
    BY <1>3, <2>1 DEF After
<1>5. \A k \in 1..N : After(i, k) = Cut(After(i, k - 1), s[k])
  <2>1. ASSUME NEW k \in 1..N
        PROVE  i[1..k] = Cut(i[1..(k - 1)], s[k])
    <3>1. 1..k \subseteq 1..N /\ k \in 1..k /\ (1..k) \ {k} = 1..(k - 1) /\ k \in Nat
      BY <1>1
    <3>2. Max(1..k) = k /\ 1..k # {}
      BY <3>1, MaxIsLast
    <3>3. QED
      BY <1>3, <3>1, <3>2
  <2>2. QED
    BY <2>1 DEF After
<1>6. CutFrom(C, After(i, 0), First(s, 0), o)
  <2>1. First(s, 0) = <<>> /\ FlattenSeq(<<>>) = <<>> /\ Len(<<>>) = 0
    BY FirstFacts, FlatIs, EmptySeq
  <2>2. After(i, 0) \in Overflow(C) /\ After(i, 0).kept = <<>> /\ After(i, 0).over = o
    <3>1. <<>> \in Seq(Seq(C))
      OBVIOUS
    <3>2. [kept |-> <<>>, over |-> o] \in Overflow(C)
      BY <3>1 DEF Overflow
    <3>3. QED
      BY <1>4, <3>2
  <2>3. o - o = 0 /\ o = IF o > 0 THEN o - 0 ELSE 0
    OBVIOUS
  <2>4. Without(<<>>, <<>>, 0)
    BY <2>1 DEF Without
  <2>5. QED
    BY <2>1, <2>2, <2>3, <2>4 DEF CutFrom
<1>7. \A k \in 0..N : CutFrom(C, After(i, k), First(s, k), o)
  <2> DEFINE T == {k \in 0..N : ~CutFrom(C, After(i, k), First(s, k), o)}
  <2>1. ASSUME NEW k \in 0..N, k # 0, k \in T
        PROVE  k - 1 \in T
    <3> SUFFICES ASSUME k - 1 \notin T
                 PROVE  FALSE
      OBVIOUS
    <3>1. k \in 1..N /\ k - 1 \in 0..N
      BY <1>1, <2>1
    <3>2. CutFrom(C, After(i, k - 1), First(s, k - 1), o) /\ ~CutFrom(C, After(i, k), First(s, k), o)
      BY <2>1, <3>1
    <3>3. /\ First(s, k - 1) \in Seq(C) /\ s[k] \in Seq(C)
          /\ First(s, k) = First(s, k - 1) \o s[k]
      BY <3>1, FirstFacts DEF N
    <3>4. CutFrom(C, Cut(After(i, k - 1), s[k]), First(s, k - 1) \o s[k], o)
      BY <3>2, <3>3, CutOne
    <3>5. QED
      BY <1>5, <3>1, <3>2, <3>3, <3>4
  <2>2. T \subseteq 0..N /\ 0 \notin T
    BY <1>6
  <2> HIDE DEF T
  <2>3. T = {}
    BY <1>1, <2>1, <2>2, UpTo
  <2>4. QED
    BY <2>3 DEF T
<1>8. First(s, N) = FlattenSeq(s) /\ N \in 0..N
  BY <1>1, FirstIsAll DEF N
<1>9. Evicted(s, o) = After(i, N).kept
  BY <1>1, EvictedIs DEF i, After
<1>10. CutFrom(C, After(i, N), FlattenSeq(s), o)
  BY <1>7, <1>8
<1>11. Len(FlattenSeq(s)) \in Nat
  BY TextIsSeq, LenProperties
<1>12. After(i, N).over = 0 /\ o - 0 = o
  BY <1>10, <1>11 DEF CutFrom
<1>13. QED
  BY <1>9, <1>10, <1>12 DEF CutFrom, Overflow

Buffers(C) == [chunks : Seq(Seq(C)), dropped : Nat]
Surplus(n) == IF n > Limit THEN n - Limit ELSE 0

(* What OutputBuffer.push does, whatever chunks its text came in: the       *)
(* buffer then holds what it held and the chunk, without as many characters *)
(* in front as are over the limit, and counts those as dropped.             *)
THEOREM PushKeepsTail ==
  ASSUME NEW C, NEW b \in Buffers(C), NEW chunk \in Seq(C)
  PROVE  LET all  == Text(b) \o chunk
             over == Surplus(Len(all))
             new  == Push(b, chunk)
         IN  /\ new \in Buffers(C)
             /\ Without(Text(new), all, over)
             /\ new.dropped = b.dropped + over
<1> DEFINE s == Append(b.chunks, chunk)
           all == Text(b) \o chunk
           over == Surplus(Len(all))
           new == Push(b, chunk)
<1>1. b.chunks \in Seq(Seq(C)) /\ b.dropped \in Nat
  BY DEF Buffers
<1>2. s \in Seq(Seq(C)) /\ FlattenSeq(s) = all
  BY <1>1, AppendProperties, FlattenAppend DEF Text
<1> HIDE DEF s, all
<1>3. all \in Seq(C) /\ Len(all) \in Nat /\ Length(s) = Len(all)
  <2>1. all \in Seq(C)
    BY <1>2, TextIsSeq
  <2>2. QED
    BY <1>2, <2>1, LenProperties, LengthOfText
<1>4. over \in Nat /\ over <= Len(all)
  BY <1>3, LimitAssumption DEF Surplus
<1>5. new = [chunks |-> Evicted(s, over), dropped |-> b.dropped + over]
  BY <1>3 DEF Push, Surplus, s
<1> HIDE DEF over, new
<1>6. Evicted(s, over) \in Seq(Seq(C)) /\ Without(FlattenSeq(Evicted(s, over)), all, over)
  BY <1>2, <1>4, EvictedText
<1>7. /\ new \in Buffers(C) /\ Without(Text(new), all, over)
      /\ new.dropped = b.dropped + over
  <2>1. b.dropped + over \in Nat
    BY <1>1, <1>4
  <2>2. QED
    BY <1>5, <1>6, <2>1 DEF Buffers, Text
<1>8. QED
  BY <1>7 DEF new, over, all

-----------------------------------------------------------------------------
(* The output buffer of a command *)

(* Of a pipe that has handed on the characters 1, 2, .. n the buffer holds  *)
(* the last ones, and has dropped the others.                               *)
HoldsEnd(b, n) ==
  /\ b \in Buffers(Nat)
  /\ b.dropped = Surplus(n)
  /\ Len(Text(b)) = n - b.dropped
  /\ \A k \in 1..Len(Text(b)) : Text(b)[k] = b.dropped + k

BufferInv ==
  /\ read \in [Cmds -> Nat]
  /\ buffer \in [Cmds -> Buffers(Nat)]
  /\ \A c \in Cmds : HoldsEnd(buffer[c], read[c])

LEMMA PushHoldsEnd ==
  ASSUME NEW b, NEW m \in Nat, NEW n \in Nat, HoldsEnd(b, m)
  PROVE  HoldsEnd(Push(b, [k \in 1..n |-> m + k]), m + n)
<1> DEFINE chunk == [k \in 1..n |-> m + k]
           new == Push(b, chunk)
           text == Text(b)
           all == text \o chunk
           d == b.dropped
<1>1. /\ b \in Buffers(Nat) /\ d = Surplus(m) /\ d \in Nat
      /\ Len(text) = m - d
      /\ \A k \in 1..Len(text) : text[k] = d + k
  BY DEF HoldsEnd, Buffers
<1>2. chunk \in Seq(Nat) /\ Len(chunk) = n /\ \A k \in 1..n : chunk[k] = m + k
  OBVIOUS
<1>3. text \in Seq(Nat)
  BY <1>1, TextIsSeq DEF Text, Buffers
<1> HIDE DEF chunk, text, d
<1>4. PICK l \in Nat : l = Len(text) /\ l = m - d
  BY <1>1, <1>3, LenProperties
<1>5. /\ Len(all) = l + n
      /\ \A k \in 1..(l + n) : all[k] = IF k <= l THEN text[k] ELSE chunk[k - l]
  <2>1. /\ Len(all) = Len(text) + Len(chunk)
        /\ \A k \in 1..(Len(text) + Len(chunk)) :
             all[k] = IF k <= Len(text) THEN text[k] ELSE chunk[k - Len(text)]
    BY <1>2, <1>3, ConcatProperties
  <2> HIDE DEF all
  <2>2. Len(text) = l /\ Len(chunk) = n
    BY <1>2, <1>4
  <2>3. QED
    BY <2>1, <2>2
<1> HIDE DEF all
<1>6. \A k \in 1..(l + n) : all[k] = d + k
  <2> SUFFICES ASSUME NEW k \in 1..(l + n)
               PROVE  all[k] = d + k
    OBVIOUS
  <2>1. CASE k <= l
    BY <1>1, <1>4, <1>5, <2>1
  <2>2. CASE ~(k <= l)
    <3>1. k - l \in 1..n /\ m + (k - l) = d + k
      BY <1>1, <1>4, <2>2
    <3>2. QED
      BY <1>2, <1>5, <2>2, <3>1
  <2>3. QED
    BY <2>1, <2>2
<1>7. PICK over \in Nat :
        /\ over = Surplus(l + n) /\ over <= l + n
        /\ d + over = Surplus(m + n)
  <2>1. Surplus(l + n) \in Nat /\ Surplus(l + n) <= l + n
    BY LimitAssumption DEF Surplus
  <2>2. m \in Nat /\ d = Surplus(m) /\ l = m - d /\ d \in Nat
    BY <1>1, <1>4
  <2>3. CASE m > Limit
    <3>1. d = m - Limit /\ l = Limit
      BY <2>2, <2>3, LimitAssumption DEF Surplus
    <3>2. d + Surplus(l + n) = Surplus(m + n)
      BY <2>3, <3>1, LimitAssumption DEF Surplus
    <3>3. QED
      BY <2>1, <3>2
  <2>4. CASE ~(m > Limit)
    <3>1. d = 0 /\ l = m
      BY <2>2, <2>4, LimitAssumption DEF Surplus
    <3>2. QED
      BY <2>1, <3>1
  <2>5. QED
    BY <2>3, <2>4
<1>8. /\ new \in Buffers(Nat) /\ new.dropped = d + over
      /\ Without(Text(new), all, over)
  BY <1>1, <1>2, <1>5, <1>7, PushKeepsTail DEF all, text, d
<1> HIDE DEF new
<1>9. PICK t \in Nat : t = Len(Text(new)) /\ t = (l + n) - over
  BY <1>4, <1>5, <1>7, <1>8 DEF Without
<1>10. \A k \in 1..t : Text(new)[k] = d + over + k
  <2> SUFFICES ASSUME NEW k \in 1..t
               PROVE  Text(new)[k] = d + over + k
    OBVIOUS
  <2>1. Text(new)[k] = all[over + k]
    BY <1>8, <1>9 DEF Without
  <2>2. over + k \in 1..(l + n) /\ d + (over + k) = d + over + k
    <3>1. d \in Nat
      BY <1>1
    <3>2. over <= l + n /\ t = (l + n) - over
      BY <1>7, <1>9
    <3>3. QED
      BY <3>1, <3>2
  <2>3. QED
    BY <1>6, <2>1, <2>2
<1>11. t = (m + n) - (d + over)
  BY <1>1, <1>4, <1>7, <1>9
<1>12. HoldsEnd(new, m + n)
  <2>1. new \in Buffers(Nat) /\ new.dropped = d + over /\ new.dropped = Surplus(m + n)
    BY <1>7, <1>8
  <2>2. Len(Text(new)) = (m + n) - new.dropped
    BY <1>9, <1>11, <2>1
  <2>3. \A k \in 1..Len(Text(new)) : Text(new)[k] = new.dropped + k
    BY <1>9, <1>10, <2>1
  <2>4. QED
    BY <2>1, <2>2, <2>3 DEF HoldsEnd
<1>13. QED
  BY <1>12 DEF new, chunk

LEMMA BufferInit == Init => BufferInv
<1> SUFFICES ASSUME Init
             PROVE  BufferInv
  OBVIOUS
<1>1. <<>> \in Seq(Seq(Nat)) /\ FlattenSeq(<<>>) = <<>> /\ Len(<<>>) = 0
  BY FlatIs, EmptySeq
<1>2. EmptyBuffer \in Buffers(Nat)
  BY <1>1 DEF EmptyBuffer, Buffers
<1>3. EmptyBuffer.dropped = 0 /\ Text(EmptyBuffer) = <<>>
  BY <1>1 DEF EmptyBuffer, Text
<1>4. Surplus(0) = 0 /\ 0 - 0 = 0 /\ 1..0 = {}
  BY LimitAssumption DEF Surplus
<1>5. HoldsEnd(EmptyBuffer, 0)
  BY <1>1, <1>2, <1>3, <1>4 DEF HoldsEnd
<1>6. QED
  BY <1>2, <1>5 DEF Init, BufferInv

(* Only the pipe changes what was read, or the buffer. *)
LEMMA BufferStep == BufferInv /\ [Next]_vars => BufferInv'
<1> SUFFICES ASSUME BufferInv, [Next]_vars
             PROVE  BufferInv'
  OBVIOUS
<1>1. ASSUME NEW c \in Cmds, NEW n \in 1..MaxChars, Read(c, n)
      PROVE  BufferInv'
  <2> DEFINE new == Push(buffer[c], [k \in 1..n |-> read[c] + k])
  <2>1. n \in Nat /\ read[c] \in Nat /\ read[c] + n \in Nat
    BY CommandsAssumption DEF BufferInv
  <2>2. HoldsEnd(new, read[c] + n) /\ new \in Buffers(Nat)
    <3>1. HoldsEnd(buffer[c], read[c])
      BY DEF BufferInv
    <3>2. HoldsEnd(new, read[c] + n)
      BY <2>1, <3>1, PushHoldsEnd
    <3>3. QED
      BY <3>2 DEF HoldsEnd
  <2>3. /\ read' = [read EXCEPT ![c] = read[c] + n]
        /\ buffer' = [buffer EXCEPT ![c] = new]
    BY <1>1 DEF Read
  <2> HIDE DEF new
  <2>4. QED
    BY <2>1, <2>2, <2>3 DEF BufferInv
<1>2. ASSUME UNCHANGED outputVars
      PROVE  BufferInv'
  BY <1>2 DEF BufferInv, outputVars
<1>3. (\E c \in Cmds, n \in 1..MaxChars : Read(c, n)) \/ UNCHANGED outputVars
  BY DEF Next, RunCommand, Signal, OpenShell, CloseShell, Opened, Deliver, Receive,
     TimeoutElapses, Spawned, SpawnFails, Exit, Close, Gone, FailOpenCalls, vars
<1>4. QED
  BY <1>1, <1>2, <1>3

LEMMA EndIsTail == BufferInv => OutputIsTail
<1> SUFFICES ASSUME BufferInv, NEW c \in Chatty
             PROVE  LET text == Text(buffer[c])
                    IN /\ Len(text) = IF read[c] < Limit THEN read[c] ELSE Limit
                       /\ buffer[c].dropped = read[c] - Len(text)
                       /\ Truncated(buffer[c]) <=> read[c] > Limit
                       /\ \A k \in DOMAIN text : text[k] = buffer[c].dropped + k
  BY DEF OutputIsTail
<1> DEFINE text == Text(buffer[c])
<1>1. HoldsEnd(buffer[c], read[c]) /\ read[c] \in Nat
  BY CommandsAssumption DEF BufferInv
<1>2. text \in Seq(Nat)
  BY <1>1, TextIsSeq DEF HoldsEnd, Text, Buffers
<1>3. DOMAIN text = 1..Len(text)
  BY <1>2
<1> HIDE DEF text
<1>4. PICK d \in Nat : d = buffer[c].dropped /\ d = Surplus(read[c])
  BY <1>1 DEF HoldsEnd, Buffers
<1>5. Len(text) = read[c] - d
  BY <1>1, <1>4 DEF HoldsEnd, text
<1>6. /\ read[c] - d = IF read[c] < Limit THEN read[c] ELSE Limit
      /\ d = read[c] - (read[c] - d)
      /\ d > 0 <=> read[c] > Limit
  BY <1>1, <1>4, LimitAssumption DEF Surplus
<1>7. \A k \in DOMAIN text : text[k] = d + k
  BY <1>1, <1>3, <1>4 DEF HoldsEnd, text
<1>8. QED
  BY <1>4, <1>5, <1>6, <1>7 DEF text, Truncated

(* At every moment the buffer of a command that prints holds the end of     *)
(* what its pipe has handed on, up to the limit, and reports exactly how    *)
(* many characters are missing before it: for any limit, and however the    *)
(* text was cut into chunks.                                                *)
THEOREM OutputKeepsTail == Spec => []OutputIsTail
  BY BufferInit, BufferStep, EndIsTail, PTL DEF Spec
=============================================================================
