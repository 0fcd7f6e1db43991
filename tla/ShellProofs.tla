------------------------------ MODULE ShellProofs ------------------------------
(* Theorems about Shell, for every set of commands, every bound and any      *)
(* faults.                                                                   *)
EXTENDS Shell, TLAPS

(* What a queue gains by Append and loses by Tail. *)
LEMMA AppendFacts ==
  ASSUME NEW S, NEW s \in Seq(S), NEW e \in S
  PROVE  /\ Append(s, e) \in Seq(S)
         /\ ToSet(Append(s, e)) = ToSet(s) \cup {e}
         /\ IsInjective(s) /\ e \notin ToSet(s) => IsInjective(Append(s, e))
<1>1. Len(Append(s, e)) = Len(s) + 1 /\ Len(s) \in Nat
  OBVIOUS
<1>2. \A m \in 1 .. Len(s) : Append(s, e)[m] = s[m]
  OBVIOUS
<1>3. Append(s, e)[Len(s) + 1] = e
  OBVIOUS
<1>4. DOMAIN Append(s, e) = 1 .. Len(s) + 1 /\ DOMAIN s = 1 .. Len(s)
  OBVIOUS
<1>5. ToSet(Append(s, e)) = ToSet(s) \cup {e}
  BY <1>1, <1>2, <1>3, <1>4 DEF ToSet
<1>6. ASSUME IsInjective(s), e \notin ToSet(s)
      PROVE  IsInjective(Append(s, e))
  BY <1>1, <1>2, <1>3, <1>4, <1>6 DEF ToSet, IsInjective
<1>7. QED
  BY <1>5, <1>6

(* What is left of a queue without its first. *)
LEMMA TailFacts ==
  ASSUME NEW S, NEW s \in Seq(S), s # <<>>
  PROVE  /\ Tail(s) \in Seq(S) /\ Head(s) \in S
         /\ ToSet(s) = {Head(s)} \cup ToSet(Tail(s))
         /\ IsInjective(s) => IsInjective(Tail(s)) /\ Head(s) \notin ToSet(Tail(s))
<1>1. /\ Len(s) \in Nat \ {0} /\ Len(Tail(s)) = Len(s) - 1
      /\ Tail(s) \in Seq(S) /\ Head(s) \in S /\ Head(s) = s[1]
  OBVIOUS
<1>2. \A m \in 1 .. Len(s) - 1 : Tail(s)[m] = s[m + 1]
  OBVIOUS
<1>3. DOMAIN Tail(s) = 1 .. Len(s) - 1 /\ DOMAIN s = 1 .. Len(s)
  BY <1>1
<1>4. ToSet(s) = {Head(s)} \cup ToSet(Tail(s))
  <2>1. ASSUME NEW m \in 1 .. Len(s), m # 1
        PROVE  s[m] \in ToSet(Tail(s))
    <3>1. m - 1 \in 1 .. Len(s) - 1 /\ (m - 1) + 1 = m
      BY <1>1, <2>1
    <3>2. s[m] = Tail(s)[m - 1]
      BY <3>1, <1>2
    <3>3. QED
      BY <3>1, <3>2, <1>3 DEF ToSet
  <2>2. \A m \in 1 .. Len(s) : s[m] \in {Head(s)} \cup ToSet(Tail(s))
    BY <1>1, <2>1
  <2>3. QED
    BY <1>1, <1>2, <1>3, <2>2 DEF ToSet
<1>5. ASSUME IsInjective(s)
      PROVE  IsInjective(Tail(s)) /\ Head(s) \notin ToSet(Tail(s))
  BY <1>1, <1>2, <1>3, <1>5 DEF ToSet, IsInjective
<1>6. QED
  BY <1>1, <1>4, <1>5

-----------------------------------------------------------------------------
(* Types *)

(* How far a verification is says where its two exec calls are. *)
Stage ==
  /\ verify = "idle" => state[Probe] = "new"
  /\ verify \in {"idle", "settle", "probe"} => state[Check] = "new"
  /\ verify = "false" => broken
  /\ verify \in {"check", "true"} => state[Probe] \in Over

Typed == TypeOK /\ Stage

Active == {"writing", "waiting", "proving"}

(* Initially nobody is queued and nothing is verified. *)
LEMMA TypeInit == Init => Typed
<1> SUFFICES ASSUME Init PROVE Typed
  OBVIOUS
<1>1. ToSet(queue) = {} /\ IsInjective(queue) /\ queue \in Seq(Execs)
  BY DEF Init, ToSet, IsInjective
<1>2. state \in [Execs -> {"new", "queued", "writing", "waiting", "proving"} \cup Over]
  BY DEF Init
<1>3. /\ ToSet(queue) = {i \in Execs : state[i] = "queued"}
      /\ {i \in Execs : state[i] \in {"writing", "waiting", "proving"}} = {current} \ {None}
  BY <1>1 DEF Init
<1>4. input \in Seq(Execs \cup {CtrlC}) /\ typed \in Seq(Execs)
  BY DEF Init
<1>5. Stage
  BY DEF Init, Stage, Execs
<1>6. before \in [Execs -> Nat] /\ output \in [Execs -> SUBSET Execs]
  BY DEF Init
<1>7. QED
  BY <1>1, <1>2, <1>3, <1>4, <1>5, <1>6 DEF Init, Typed, TypeOK

(* The types in two parts: whose turn it is, and the rest. *)
Turns ==
  /\ state \in [Execs -> {"new", "queued"} \cup Active \cup Over]
  /\ queue \in Seq(Execs) /\ IsInjective(queue)
  /\ ToSet(queue) = {i \in Execs : state[i] = "queued"}
  /\ {i \in Execs : state[i] \in Active} = {current} \ {None}

Values ==
  /\ lock \in Execs \cup {None, CtrlC}
  /\ interrupts \in Nat /\ before \in [Execs -> Nat]
  /\ since \subseteq Tokens
  /\ broken \in BOOLEAN /\ closed \in BOOLEAN /\ jobControl \in BOOLEAN
  /\ verify \in {"idle", "settle", "probe", "check", "true", "false"}
  /\ input \in Seq(Execs \cup {CtrlC}) /\ typed \in Seq(Execs)
  /\ foreground \in Execs \cup {None, Returning}
  /\ output \in [Execs -> SUBSET Execs]

(* The two parts are the type invariant. *)
LEMMA TypeParts ==
  /\ TypeOK <=> Turns /\ Values
  /\ TypeOK' <=> Turns' /\ Values'
BY DEF TypeOK, Turns, Values, Active

(* An exec call that was not issued before is queued. *)
LEMMA EnqueueTurns ==
  ASSUME Turns, NEW i \in Execs, state[i] = "new", Enqueue(i), current' = current
  PROVE  Turns'
<1>1. i \notin ToSet(queue) /\ queue \in Seq(Execs) /\ IsInjective(queue)
  BY DEF Turns
<1>2. /\ queue' \in Seq(Execs) /\ IsInjective(queue')
      /\ ToSet(queue') = ToSet(queue) \cup {i}
  BY <1>1, AppendFacts DEF Enqueue
<1>3. QED
  BY <1>2 DEF Turns, Enqueue, Active

(* The first of the queue gets its turn, or fails at once. *)
LEMMA StartTurns ==
  ASSUME Turns, NEW i \in Execs, Start(i)
  PROVE  Turns'
<1>1. queue # <<>> /\ i = Head(queue) /\ queue' = Tail(queue) /\ current = None
  BY DEF Start, Turn
<1>2. /\ queue' \in Seq(Execs) /\ IsInjective(queue')
      /\ ToSet(queue') = ToSet(queue) \ {i}
  BY <1>1, TailFacts DEF Turns
<1>3. i \in ToSet(queue)
  BY <1>1, TailFacts DEF Turns
<1>4. CASE Usable /\ lock = None
  <2>1. current' = i /\ state' = [state EXCEPT ![i] = "writing"]
    BY <1>4 DEF Start, Usable
  <2>2. QED
    BY <1>1, <1>2, <1>3, <2>1, ShellAssumption DEF Turns, Active, Over
<1>5. CASE ~(Usable /\ lock = None)
  <2>1. current' = current /\ state' = [state EXCEPT ![i] = "failed"]
    BY <1>5 DEF Start, Usable
  <2>2. QED
    BY <1>1, <1>2, <1>3, <2>1, ShellAssumption DEF Turns, Active, Over
<1>6. QED
  BY <1>4, <1>5

(* Whoever is active has the turn. *)
LEMMA ActiveIsCurrent ==
  ASSUME Turns, NEW i \in Execs, state[i] \in Active
  PROVE  i = current
BY DEF Turns

(* The current exec goes from one await to the next, or ends. *)
LEMMA MoveTurns ==
  ASSUME Turns, NEW i \in Execs, state[i] \in Active, NEW how \in Active,
         state' = [state EXCEPT ![i] = how], UNCHANGED <<queue, current>>
  PROVE  Turns'
BY DEF Turns, Active

(* An exec that ends gives its turn back. *)
LEMMA EndTurns ==
  ASSUME Turns, NEW i \in Execs, state[i] \in Active, NEW how \in Over, Ends(i, how)
  PROVE  Turns'
BY ShellAssumption, ActiveIsCurrent DEF Turns, Active, Over, Ends

(* ... and leaves the rest as it is, but for its output. *)
LEMMA EndValues ==
  ASSUME Values, NEW i \in Execs, NEW how \in Over, Ends(i, how), broken' \in BOOLEAN
  PROVE  Values'
BY DEF Values, Ends, shellVars

(* The shell's own steps leave the session's turns alone. *)
LEMMA ShellValues ==
  ASSUME Values, ReadLine \/ ReadCtrlC \/ Finish \/ FinishLate \/ Prompt \/ Damage
  PROVE  Values'
<1> USE DEF Values
<1>1. input # <<>> => Head(input) \in Execs \cup {CtrlC} /\ Tail(input) \in Seq(Execs \cup {CtrlC})
  OBVIOUS
<1>2. typed # <<>> => Head(typed) \in Execs /\ Tail(typed) \in Seq(Execs)
  OBVIOUS
<1>3. \A T : T \subseteq Tokens /\ Heard(T) => since' \subseteq Tokens
  BY DEF Heard
<1>4. foreground \in Execs => {Printing(foreground), Marker(foreground)} \subseteq Tokens
  BY DEF Tokens
<1>5. {<<CtrlC>>} \subseteq Tokens
  BY DEF Tokens
<1>6. NextForeground => foreground' \in Execs \cup {None} /\ typed' \in Seq(Execs)
  BY <1>2 DEF NextForeground
<1>7. CASE ReadLine
  <2>1. Append(typed, Head(input)) \in Seq(Execs) /\ Head(input) \in Execs
    BY <1>1, <1>7 DEF ReadLine
  <2>2. broken' \in BOOLEAN /\ jobControl' \in BOOLEAN
    BY <1>7 DEF ReadLine
  <2>3. QED
    BY <1>1, <1>7, <2>1, <2>2 DEF ReadLine
<1>8. CASE ReadCtrlC
  BY <1>1, <1>3, <1>5, <1>6, <1>8 DEF ReadCtrlC
<1>9. CASE Finish
  BY <1>3, <1>4, <1>6, <1>9 DEF Finish
<1>10. CASE FinishLate
  BY <1>3, <1>4, <1>10 DEF FinishLate
<1>11. CASE Prompt
  BY <1>6, <1>11 DEF Prompt
<1>12. CASE Damage
  BY <1>12 DEF Damage
<1>13. QED
  BY <1>7, <1>8, <1>9, <1>10, <1>11, <1>12

(* Ctrl-C is counted, and written if nobody else is writing. *)
LEMMA InterruptsTypes ==
  ASSUME Values, Interrupts
  PROVE  /\ interrupts' \in Nat /\ lock' \in Execs \cup {None, CtrlC}
         /\ input' \in Seq(Execs \cup {CtrlC})
<1>1. Append(input, CtrlC) \in Seq(Execs \cup {CtrlC})
  BY DEF Values
<1>2. interrupts \in Nat /\ lock \in Execs \cup {None, CtrlC}
      /\ input \in Seq(Execs \cup {CtrlC})
  BY DEF Values
<1>3. interrupts' \in Nat
  BY <1>2 DEF Interrupts
<1>4. CASE lock = None
  BY <1>1, <1>3, <1>4 DEF Interrupts
<1>5. CASE lock # None
  BY <1>2, <1>3, <1>5 DEF Interrupts
<1>6. QED
  BY <1>4, <1>5

(* Every step keeps the types: those of the session, of verifyJobControl, of the shell. *)
LEMMA TypeStep == Typed /\ [Next]_vars => Typed'
<1> SUFFICES ASSUME Turns, Values, Stage, [Next]_vars PROVE Turns' /\ Values' /\ Stage'
  BY TypeParts DEF Typed
<1> USE ShellAssumption
<1>1. ASSUME NEW i \in Commands, Exec(i) PROVE Turns' /\ Values' /\ Stage'
  <2>1. i \in Execs /\ Turns'
    BY <1>1, EnqueueTurns DEF Exec, Execs
  <2>2. Values'
    BY <1>1 DEF Exec, Values, shellVars
  <2>3. i # Probe /\ i # Check /\ state[i] = "new"
    BY <1>1 DEF Exec
  <2>4. Stage'
    BY <1>1, <2>1, <2>3 DEF Exec, Enqueue, Stage, Turns, Over, Execs
  <2>5. QED
    BY <2>1, <2>2, <2>4
<1>2. ASSUME NEW i \in Execs, Start(i) PROVE Turns' /\ Values' /\ Stage'
  <2>1. Turns'
    BY <1>2, StartTurns
  <2>2. Values'
    <3>1. Append(input, i) \in Seq(Execs \cup {CtrlC})
      BY DEF Values
    <3>2. Before \in Nat
      BY DEF Values, Before
    <3>3. CASE Usable /\ lock = None
      <4>1. /\ lock' = i /\ since' = {} /\ input' = Append(input, i)
            /\ before' = [before EXCEPT ![i] = Before]
        BY <1>2, <3>3 DEF Start, Usable
      <4>2. UNCHANGED <<interrupts, broken, closed, verify, foreground, typed, jobControl, output>>
        BY <1>2 DEF Start
      <4>3. QED
        BY <3>1, <3>2, <4>1, <4>2 DEF Values
    <3>4. CASE ~(Usable /\ lock = None)
      BY <1>2, <3>4 DEF Start, Values, Usable
    <3>5. QED
      BY <3>3, <3>4
  <2>3. state[i] = "queued"
    BY <1>2, TailFacts DEF Start, Turn, Turns
  <2>4. Stage'
    BY <1>2, <2>3 DEF Start, Stage, Turns, Over, Execs
  <2>5. QED
    BY <2>1, <2>2, <2>4
<1>3. ASSUME NEW i \in Execs, Written(i) PROVE Turns' /\ Values' /\ Stage'
  <2>1. Turns'
    BY <1>3, MoveTurns DEF Written, Active
  <2>2. QED
    BY <1>3, <2>1 DEF Written, Values, shellVars, Stage, Turns, Over, Execs
<1>4. ASSUME NEW i \in Execs, Cut(i) PROVE Turns' /\ Values' /\ Stage'
  <2>1. Turns'
    BY <1>4, MoveTurns DEF Cut, Active
  <2>2. QED
    BY <1>4, <2>1 DEF Cut, Values, shellVars, Stage, Turns, Over, Execs
<1>5. ASSUME NEW i \in Execs, NEW how \in Over, state[i] \in Active, Ends(i, how),
             broken' \in BOOLEAN, broken => broken'
      PROVE  Turns' /\ Values' /\ Stage'
  <2>1. Turns' /\ Values'
    BY <1>5, EndTurns, EndValues
  <2>2. Stage'
    BY <1>5 DEF Ends, Stage, Turns, Over, Execs, Active, Values
  <2>3. QED
    BY <2>1, <2>2
<1>6. ASSUME NEW i \in Execs, Completed(i) \/ Timeout(i) \/ TookEffect(i) \/ TookNone(i)
      PROVE  Turns' /\ Values' /\ Stage'
  <2>1. PICK how \in Over : Ends(i, how)
    BY <1>6 DEF Completed, Timeout, TookEffect, TookNone, Over
  <2>2. state[i] \in Active /\ broken' \in BOOLEAN /\ (broken => broken')
    BY <1>6 DEF Completed, Timeout, TookEffect, TookNone, Active, Values
  <2>3. QED
    BY <1>5, <2>1, <2>2
<1>7. CASE Interrupt
  <2>1. Values'
    BY <1>7, InterruptsTypes DEF Interrupt, Values
  <2>2. QED
    BY <1>7, <2>1 DEF Interrupt, Turns, Stage
<1>8. CASE InterruptWritten
  BY <1>8 DEF InterruptWritten, Turns, Values, Stage, shellVars
<1>9. CASE Close
  BY <1>9 DEF Close, Turns, Values, Stage
<1>10. CASE Verify
  <2>1. Turns'
    BY <1>10, EnqueueTurns DEF Verify, Stage, Execs
  <2>2. QED
    BY <1>10, <2>1 DEF Verify, Enqueue, Values, Stage, shellVars, Execs, Turns
<1>11. CASE VerifyInterrupt
  <2>1. Interrupts \/ UNCHANGED <<interrupts, lock, input>>
    BY <1>11 DEF VerifyInterrupt
  <2>2. Turns' /\ Stage'
    BY <1>11 DEF VerifyInterrupt, Turns, Stage
  <2>3. Values'
    BY <1>11, <2>1, InterruptsTypes DEF VerifyInterrupt, Values
  <2>4. QED
    BY <2>2, <2>3
<1>12. CASE VerifyCheck
  <2>1. state[Probe] \in Over /\ state[Check] = "new" /\ Check \in Execs /\ Probe \in Execs
    BY <1>12 DEF VerifyCheck, VerifyIsNext, Stage, Execs
  <2>2. Turns'
    <3>1. CASE state[Probe] = "failed"
      BY <1>12, <3>1 DEF VerifyCheck, Turns
    <3>2. CASE state[Probe] # "failed"
      BY <1>12, <2>1, <3>2, EnqueueTurns DEF VerifyCheck
    <3>3. QED
      BY <3>1, <3>2
  <2>3. Values'
    BY <1>12 DEF VerifyCheck, Values, shellVars
  <2>4. Stage'
    BY <1>12, <2>1 DEF VerifyCheck, Enqueue, Stage, Turns, Over
  <2>5. QED
    BY <2>2, <2>3, <2>4
<1>13. CASE VerifyEnd
  BY <1>13 DEF VerifyEnd, Turns, Values, Stage, shellVars
<1>14. CASE ReadLine \/ ReadCtrlC \/ Finish \/ FinishLate \/ Prompt \/ Damage
  <2>1. Values'
    BY <1>14, ShellValues
  <2>2. UNCHANGED <<queue, state, current, verify>> /\ (broken => broken')
    BY <1>14 DEF ReadLine, ReadCtrlC, Finish, FinishLate, Prompt, Damage, Values
  <2>3. QED
    BY <2>1, <2>2 DEF Turns, Stage
<1>15. CASE UNCHANGED vars
  BY <1>15 DEF vars, sessionVars, shellVars, Turns, Values, Stage
<1>16. QED
  BY <1>1, <1>2, <1>3, <1>4, <1>6, <1>7, <1>8, <1>9, <1>10, <1>11, <1>12, <1>13, <1>14, <1>15
     DEF Next, SessionStep, ShellStep

(* Queue, turn, terminal and outputs have their types, whatever happens. *)
THEOREM ShellTypeCorrect == Spec => []TypeOK
<1>1. Typed => TypeOK
  BY DEF Typed
<1>2. QED
  BY <1>1, TypeInit, TypeStep, PTL DEF Spec

-----------------------------------------------------------------------------
(* One line at a time *)

Calm == upset \cap StillBusy = {}

(* The shell runs i's line or has it before it. *)
Pending(i) == foreground = i \/ i \in ToSet(input)

OneLine(s) == \A m, n \in DOMAIN s : s[m] # CtrlC /\ s[n] # CtrlC => m = n

ProbeFailed == verify = "probe" /\ state[Probe] = "failed"

(* There is one line in the terminal and the shell together.  It is that of  *)
(* the exec whose turn it is, which has heard of no end of it; or nobody has *)
(* the turn, and nobody will: the session is broken, or about to be.         *)
Alone ==
  /\ typed = <<>>
  /\ OneLine(input)
  /\ foreground # None => ToSet(input) \subseteq {CtrlC}
  /\ \A i \in Execs : Pending(i) =>
       /\ i = current \/ (current = None /\ (broken \/ ProbeFailed))
       /\ Marker(i) \notin since /\ <<CtrlC>> \notin since /\ state[i] # "interrupted"

(* What has been heard, and what results contain, is the exec's own. *)
Own ==
  /\ current = None => since = {}
  /\ \A j \in Execs : Printing(j) \in since => j = current
  /\ \A i \in Execs : output[i] \subseteq {i}
  /\ closed => input = <<>> /\ foreground = None
  /\ foreground # Returning

Quiet == Calm => Alone /\ Own

(* Initially the terminal is empty. *)
LEMMA QuietInit == Init => Quiet
BY ShellAssumption DEF Init, Quiet, Alone, Own, OneLine, Pending, ToSet

(* There is one line still after a Ctrl-C, or after the first line. *)
LEMMA OneLineAppend ==
  ASSUME NEW s \in Seq(Execs \cup {CtrlC}), NEW e \in Execs \cup {CtrlC},
         \/ e = CtrlC /\ OneLine(s)
         \/ ToSet(s) \subseteq {CtrlC}
  PROVE  OneLine(Append(s, e))
<1>1. /\ Len(s) \in Nat /\ DOMAIN s = 1 .. Len(s) /\ DOMAIN Append(s, e) = 1 .. Len(s) + 1
      /\ \A m \in 1 .. Len(s) : Append(s, e)[m] = s[m]
      /\ Append(s, e)[Len(s) + 1] = e
  OBVIOUS
<1>2. CASE e = CtrlC /\ OneLine(s)
  BY <1>1, <1>2 DEF OneLine
<1>3. CASE ToSet(s) \subseteq {CtrlC}
  <2>1. \A m \in 1 .. Len(s) : s[m] = CtrlC
    BY <1>1, <1>3 DEF ToSet
  <2>2. \A m \in 1 .. Len(s) + 1 : Append(s, e)[m] # CtrlC => m = Len(s) + 1
    BY <1>1, <2>1
  <2>3. QED
    BY <1>1, <2>2 DEF OneLine
<1>4. QED
  BY <1>2, <1>3

(* When that line was read, only Ctrl-Cs are left. *)
LEMMA OneLineTail ==
  ASSUME NEW s \in Seq(Execs \cup {CtrlC}), s # <<>>, OneLine(s)
  PROVE  /\ OneLine(Tail(s))
         /\ Head(s) # CtrlC => ToSet(Tail(s)) \subseteq {CtrlC}
<1>1. /\ Len(s) \in Nat \ {0} /\ DOMAIN s = 1 .. Len(s) /\ DOMAIN Tail(s) = 1 .. Len(s) - 1
      /\ Head(s) = s[1]
      /\ \A m \in 1 .. Len(s) - 1 : Tail(s)[m] = s[m + 1]
  OBVIOUS
<1>2. QED
  BY <1>1 DEF OneLine, ToSet

(* A step in which nothing is written, read or heard. *)
LEMMA StillQuiet ==
  ASSUME Alone, Own,
         UNCHANGED <<input, foreground, typed, since, output, closed, current>>,
         broken => broken',
         current = None /\ ProbeFailed => broken' \/ ProbeFailed',
         \A i \in Execs : state'[i] = "interrupted" => state[i] = "interrupted"
  PROVE  Alone' /\ Own'
<1>1. \A i : Pending(i)' <=> Pending(i)
  BY DEF Pending
<1>2. Alone'
  BY <1>1 DEF Alone, OneLine
<1>3. Own'
  BY DEF Own
<1>4. QED
  BY <1>2, <1>3

(* An exec that ends leaves nothing behind, or a session nobody can use. *)
LEMMA EndsQuiet ==
  ASSUME Turns, Values, Alone, Own, NEW i \in Execs, NEW how \in Over,
         state[i] \in Active, Ends(i, how), broken => broken',
         \/ \A j \in Execs : ~Pending(j)
         \/ how = "failed" /\ (broken' \/ (i = Probe /\ verify = "probe"))
  PROVE  Alone' /\ Own'
<1>1. i = current /\ i # None
  BY ActiveIsCurrent, ShellAssumption DEF Execs
<1>2. /\ since' = {} /\ current' = None /\ state' = [state EXCEPT ![i] = how]
      /\ UNCHANGED <<input, foreground, typed, closed, verify>>
      /\ output' = [output EXCEPT ![i] = IF how = "failed" THEN {}
                       ELSE {j \in Execs : Printing(j) \in since}]
  BY DEF Ends, shellVars
<1>3. \A j : Pending(j)' <=> Pending(j)
  BY <1>2 DEF Pending
<1>4. \A j \in Execs : Pending(j) => j = i /\ how = "failed" /\ (broken' \/ ProbeFailed')
  BY <1>1, <1>2 DEF Alone, ProbeFailed, Turns
<1>5. Alone'
  BY <1>2, <1>3, <1>4 DEF Alone, OneLine, Turns
<1>6. Own'
  <2>1. {j \in Execs : Printing(j) \in since} \subseteq {i}
    BY <1>1 DEF Own
  <2>2. \A j \in Execs : output'[j] \subseteq {j}
    BY <1>2, <2>1 DEF Own, Values
  <2>3. QED
    BY <1>2, <2>2 DEF Own
<1>7. QED
  BY <1>5, <1>6

(* The same for one that fails with its command still running. *)
LEMMA FailsQuiet ==
  ASSUME Turns, Values, Alone, Own, NEW i \in Execs,
         state[i] \in Active, Ends(i, "failed"), broken => broken',
         broken' \/ (i = Probe /\ verify = "probe")
  PROVE  Alone' /\ Own'
<1>1. "failed" \in Over
  BY DEF Over
<1>2. QED
  BY <1>1, EndsQuiet

(* A Ctrl-C behind what is written is no line. *)
LEMMA InterruptsQuiet ==
  ASSUME Values, Alone, Own, Interrupts, Usable,
         UNCHANGED <<foreground, typed, since, output, closed, current, state>>,
         broken => broken', ProbeFailed => ProbeFailed'
  PROVE  Alone' /\ Own'
<1>1. /\ input' \in {input, Append(input, CtrlC)}
      /\ input \in Seq(Execs \cup {CtrlC})
  BY DEF Interrupts, Values
<1>2. OneLine(input') /\ ToSet(input') \in {ToSet(input), ToSet(input) \cup {CtrlC}}
  <2>1. OneLine(input) /\ OneLine(Append(input, CtrlC))
    BY <1>1, OneLineAppend DEF Alone
  <2>2. ToSet(Append(input, CtrlC)) = ToSet(input) \cup {CtrlC}
    <3>1. CtrlC \in Execs \cup {CtrlC}
      OBVIOUS
    <3>2. QED
      BY <1>1, <3>1, AppendFacts
  <2>3. CASE input' = input
    BY <2>1, <2>3
  <2>4. CASE input' = Append(input, CtrlC)
    BY <2>1, <2>2, <2>4
  <2>5. QED
    BY <1>1, <2>3, <2>4
<1>3. \A i \in Execs : Pending(i)' <=> Pending(i)
  BY <1>2, ShellAssumption DEF Pending
<1>4. Alone'
  BY <1>2, <1>3 DEF Alone
<1>5. Own'
  BY DEF Own, Usable
<1>6. QED
  BY <1>4, <1>5

(* A line is only written to a shell that neither runs nor has one. *)
LEMMA StartQuiet ==
  ASSUME Turns, Values, Alone, Own, NEW i \in Execs, Start(i)
  PROVE  Alone' /\ Own'
<1>1. /\ current = None /\ state[i] = "queued" /\ ~VerifyIsNext
      /\ UNCHANGED <<broken, closed, verify, foreground, typed, output>>
  BY TailFacts DEF Start, Turn, Turns
<1>2. CASE Usable /\ lock = None
  <2>1. /\ current' = i /\ state' = [state EXCEPT ![i] = "writing"]
        /\ since' = {} /\ input' = Append(input, i)
    BY <1>2 DEF Start, Usable
  <2>2. ~broken /\ ~closed /\ ~ProbeFailed
    BY <1>1, <1>2 DEF Usable, ProbeFailed, VerifyIsNext, Over
  <2>3. \A j \in Execs : ~Pending(j)
    BY <1>1, <2>2, ShellAssumption DEF Alone
  <2>4. foreground = None
    BY <2>3 DEF Values, Own, Pending
  <2>5. input \in Seq(Execs \cup {CtrlC}) /\ i \in Execs \cup {CtrlC}
    BY DEF Values
  <2>6. ToSet(input) \subseteq {CtrlC}
    <3>1. \A m \in DOMAIN input : input[m] \in Execs \cup {CtrlC}
      BY <2>5
    <3>2. QED
      BY <2>3, <3>1 DEF Pending, ToSet
  <2>7. OneLine(input')
    BY <2>1, <2>5, <2>6, OneLineAppend
  <2>8. ToSet(input') = ToSet(input) \cup {i}
    BY <2>1, <2>5, AppendFacts
  <2>9. \A j \in Execs : Pending(j)' => j = i
    BY <1>1, <2>3, <2>8 DEF Pending
  <2>10. state'[i] = "writing"
    BY <2>1 DEF Turns
  <2>11. Alone'
    BY <1>1, <2>1, <2>4, <2>7, <2>9, <2>10 DEF Alone
  <2>12. Own'
    BY <1>1, <2>1, <2>2, ShellAssumption DEF Own, Execs
  <2>13. QED
    BY <2>11, <2>12
<1>3. CASE ~(Usable /\ lock = None)
  <2>1. /\ UNCHANGED <<current, since, input>>
        /\ state' = [state EXCEPT ![i] = "failed"]
    BY <1>3 DEF Start, Usable
  <2>2. \A j \in Execs : state'[j] = "interrupted" => state[j] = "interrupted"
    BY <2>1 DEF Turns
  <2>3. ~ProbeFailed
    BY <1>1 DEF ProbeFailed, VerifyIsNext, Over
  <2>4. QED
    BY <1>1, <2>1, <2>2, <2>3, StillQuiet
<1>4. QED
  BY <1>2, <1>3

(* What the shell does, it does to the one line there is. *)
LEMMA ShellQuiet ==
  ASSUME Values, Alone, Own, ReadLine \/ ReadCtrlC \/ Finish, Calm'
  PROVE  Alone' /\ Own'
<1>1. typed = <<>> /\ OneLine(input) /\ input \in Seq(Execs \cup {CtrlC})
  BY DEF Alone, Values
<1>2. UNCHANGED <<current, state, verify, closed, output>> /\ (broken => broken')
  BY DEF ReadLine, ReadCtrlC, Finish, Values
<1>3. ASSUME input # <<>>, input' = Tail(input)
      PROVE  /\ OneLine(input') /\ ToSet(input) = {Head(input)} \cup ToSet(input')
             /\ Head(input) # CtrlC => ToSet(input') \subseteq {CtrlC}
  BY <1>1, <1>3, OneLineTail, TailFacts
<1>4. CASE ReadLine
  <2>1. /\ input # <<>> /\ Head(input) # CtrlC /\ input' = Tail(input) /\ since' = since
    BY <1>4 DEF ReadLine
  <2>2. OneLine(input') /\ ToSet(input) = {Head(input)} \cup ToSet(input')
        /\ ToSet(input') \subseteq {CtrlC}
    BY <1>3, <2>1
  <2>3. foreground = None /\ ~closed
    BY <2>1, <2>2 DEF Alone, Own
  <2>4. foreground' = Head(input) /\ typed' = typed
    BY <1>4, <2>3 DEF ReadLine
  <2>5. \A i \in Execs : Pending(i)' => Pending(i)
    BY <2>2, <2>4 DEF Pending
  <2>6. Alone'
    BY <1>1, <1>2, <2>1, <2>2, <2>4, <2>5 DEF Alone, ProbeFailed
  <2>7. Own'
    <3>1. Head(input) \in Execs
      BY <1>1, <2>1
    <3>2. QED
      BY <1>2, <2>1, <2>3, <2>4, <3>1, ShellAssumption DEF Own
  <2>8. QED
    BY <2>6, <2>7
<1>5. CASE ReadCtrlC
  <2>1. /\ input # <<>> /\ Head(input) = CtrlC /\ input' = Tail(input)
    BY <1>5 DEF ReadCtrlC
  <2>2. OneLine(input') /\ ToSet(input) = {Head(input)} \cup ToSet(input') /\ ~closed
    BY <1>3, <2>1 DEF Own
  <2>3. CASE foreground \in Execs /\ jobControl
    <3>1. foreground' = None /\ typed' = typed /\ Heard({<<CtrlC>>})
      BY <1>1, <1>5, <2>3 DEF ReadCtrlC, NextForeground, Calm, StillBusy
    <3>2. \A i \in Execs : ~Pending(i)'
      <4>1. ToSet(input') \subseteq {CtrlC}
        BY <2>2, <2>3, ShellAssumption DEF Alone
      <4>2. QED
        BY <3>1, <4>1, ShellAssumption DEF Pending
    <3>3. Alone'
      BY <1>1, <2>2, <3>1, <3>2 DEF Alone
    <3>4. \A j \in Execs : Printing(j) # <<CtrlC>>
      BY DEF Printing
    <3>5. Own'
      BY <1>2, <2>2, <3>1, <3>4, ShellAssumption DEF Own, Heard
    <3>6. QED
      BY <3>3, <3>5
  <2>4. CASE ~(foreground \in Execs /\ jobControl)
    <3>1. UNCHANGED <<since, foreground, typed>>
      BY <1>5, <2>4 DEF ReadCtrlC
    <3>2. \A i \in Execs : Pending(i)' => Pending(i)
      BY <2>2, <3>1 DEF Pending
    <3>3. Alone'
      BY <1>2, <2>2, <3>1, <3>2 DEF Alone, ProbeFailed
    <3>4. Own'
      BY <1>2, <2>2, <3>1 DEF Own
    <3>5. QED
      BY <3>3, <3>4
  <2>5. QED
    BY <2>3, <2>4
<1>6. CASE Finish
  <2>1. /\ foreground \in Execs /\ foreground' = None /\ UNCHANGED <<typed, input>>
        /\ Heard({Printing(foreground), Marker(foreground)})
    BY <1>1, <1>6, ShellAssumption DEF Finish, NextForeground, Values
  <2>2. \A i \in Execs : ~Pending(i)'
    <3>1. ToSet(input') \subseteq {CtrlC}
      BY <2>1, ShellAssumption DEF Alone
    <3>2. QED
      BY <2>1, <3>1, ShellAssumption DEF Pending
  <2>3. Alone'
    BY <1>1, <2>1, <2>2 DEF Alone
  <2>4. current # None => foreground = current
    BY <2>1 DEF Alone, Pending
  <2>5. \A j \in Execs : Printing(j) # Marker(foreground)
                         /\ (Printing(j) = Printing(foreground) => j = foreground)
    BY DEF Printing, Marker
  <2>6. Own'
    <3>1. CASE current = None
      BY <1>2, <2>1, <3>1, ShellAssumption DEF Own, Heard
    <3>2. CASE current # None
      BY <1>2, <2>1, <2>4, <2>5, <3>2, ShellAssumption DEF Own, Heard
    <3>3. QED
      BY <3>1, <3>2
  <2>7. QED
    BY <2>3, <2>6
<1>7. QED
  BY <1>4, <1>5, <1>6

(* What has upset the session is not forgotten. *)
LEMMA UpsetGrows == [Next]_vars => upset \subseteq upset'
  BY DEF Next, SessionStep, ShellStep, vars, Exec, Start, Written, Completed, Cut, Timeout,
     TookEffect, TookNone, Interrupt, InterruptWritten, Close, Verify, VerifyInterrupt,
     VerifyCheck, VerifyEnd, ReadLine, ReadCtrlC, Finish, FinishLate, Prompt, Damage

(* A session that is calm now always was. *)
LEMMA CalmBefore == [Next]_vars /\ Calm' => Calm
  BY UpsetGrows DEF Calm

(* No calm session is between a marker and its prompt. *)
LEMMA NotLate == Own /\ Calm' => ~FinishLate /\ ~Prompt
  BY DEF Own, Calm, StillBusy, FinishLate, Prompt

(* Every step of callers, session and shell keeps to one line. *)
LEMMA QuietStep == Typed /\ Quiet /\ [Next]_vars => Quiet'
<1> SUFFICES ASSUME Turns, Values, Stage, Alone, Own, [Next]_vars, Calm'
             PROVE  Alone' /\ Own'
  BY TypeParts, CalmBefore DEF Typed, Quiet
<1>1. ASSUME NEW i \in Commands, Exec(i) PROVE Alone' /\ Own'
  <2>1. \A j \in Execs : state'[j] = "interrupted" => state[j] = "interrupted"
    BY <1>1 DEF Exec, Enqueue, Turns
  <2>2. ProbeFailed => ProbeFailed'
    BY <1>1 DEF Exec, Enqueue, ProbeFailed, Turns, Execs
  <2>3. QED
    BY <1>1, <2>1, <2>2, StillQuiet DEF Exec, shellVars
<1>2. ASSUME NEW i \in Execs, Start(i) PROVE Alone' /\ Own'
  BY <1>2, StartQuiet
<1>3. ASSUME NEW i \in Execs, Written(i) \/ Cut(i) PROVE Alone' /\ Own'
  <2>1. \A j \in Execs : state'[j] = "interrupted" => state[j] = "interrupted"
    BY <1>3 DEF Written, Cut, Turns
  <2>2. ProbeFailed => ProbeFailed'
    BY <1>3 DEF Written, Cut, ProbeFailed, Turns, Execs
  <2>3. QED
    BY <1>3, <2>1, <2>2, StillQuiet DEF Written, Cut, shellVars
<1>4. ASSUME NEW i \in Execs, Completed(i) PROVE Alone' /\ Own'
  <2>1. state[i] \in Active /\ Ends(i, "done") /\ broken' = broken /\ Marker(i) \in since
    BY <1>4 DEF Completed, Active
  <2>2. \A j \in Execs : ~Pending(j)
    BY <2>1, ActiveIsCurrent, ShellAssumption DEF Alone, Execs
  <2>3. QED
    BY <2>1, <2>2, EndsQuiet DEF Over
<1>5. ASSUME NEW i \in Execs, TookEffect(i) PROVE Alone' /\ Own'
  <2>1. PICK how \in Over : Ends(i, how)
    BY <1>5 DEF TookEffect, Over
  <2>2. state[i] \in Active /\ broken' = broken
        /\ (<<CtrlC>> \in since \/ Marker(i) \in since)
    BY <1>5 DEF TookEffect, Active, Proof
  <2>3. \A j \in Execs : ~Pending(j)
    BY <2>2, ActiveIsCurrent, ShellAssumption DEF Alone, Execs
  <2>4. QED
    BY <2>1, <2>2, <2>3, EndsQuiet
<1>6. ASSUME NEW i \in Execs, TookNone(i) PROVE Alone' /\ Own'
  <2>1. state[i] \in Active /\ Ends(i, "failed") /\ broken'
    BY <1>6 DEF TookNone, Active
  <2>2. QED
    BY <2>1, FailsQuiet
<1>7. ASSUME NEW i \in Execs, Timeout(i) PROVE Alone' /\ Own'
  <2>1. state[i] \in Active /\ Ends(i, "failed") /\ broken' = broken
    BY <1>7 DEF Timeout, Active
  <2>2. closed \/ (i = Probe /\ verify # "settle")
    BY <1>7 DEF Timeout, Calm, StillBusy
  <2>3. CASE closed
    <3>1. \A j \in Execs : ~Pending(j)
      BY <2>3, ShellAssumption DEF Own, Pending, ToSet
    <3>2. QED
      BY <2>1, <3>1, EndsQuiet DEF Over
  <2>4. CASE i = Probe /\ verify # "settle"
    <3>1. broken \/ verify = "probe"
      BY <2>1, <2>4 DEF Stage, Values, Active, Over
    <3>2. QED
      BY <2>1, <2>4, <3>1, FailsQuiet
  <2>5. QED
    BY <2>2, <2>3, <2>4
<1>8. CASE Interrupt
  BY <1>8, InterruptsQuiet DEF Interrupt, ProbeFailed
<1>9. CASE InterruptWritten
  BY <1>9, StillQuiet DEF InterruptWritten, shellVars, ProbeFailed
<1>10. CASE Close
  <2>1. /\ closed' /\ input' = <<>> /\ foreground' = None /\ typed' = <<>>
        /\ UNCHANGED <<current, since, output>>
    BY <1>10 DEF Close
  <2>2. \A i \in Execs : ~Pending(i)'
    BY <2>1, ShellAssumption DEF Pending, ToSet
  <2>3. QED
    BY <2>1, <2>2, ShellAssumption DEF Alone, Own, OneLine
<1>11. CASE Verify
  <2>1. \A j \in Execs : state'[j] = "interrupted" => state[j] = "interrupted"
    BY <1>11 DEF Verify, Enqueue, Turns
  <2>2. ~ProbeFailed
    BY <1>11 DEF Verify, ProbeFailed
  <2>3. QED
    BY <1>11, <2>1, <2>2, StillQuiet DEF Verify, shellVars
<1>12. CASE VerifyInterrupt
  <2>1. ~ProbeFailed /\ UNCHANGED <<state, current, since, closed, foreground, typed, output>>
    BY <1>12 DEF VerifyInterrupt, ProbeFailed
  <2>2. broken => broken'
    BY <1>12 DEF VerifyInterrupt, Values
  <2>3. CASE Usable
    <3>1. Interrupts
      BY <1>12, <2>3 DEF VerifyInterrupt
    <3>2. QED
      BY <2>1, <2>2, <2>3, <3>1, InterruptsQuiet
  <2>4. CASE ~Usable
    <3>1. input' = input
      BY <1>12, <2>4 DEF VerifyInterrupt
    <3>2. QED
      BY <2>1, <2>2, <3>1, StillQuiet
  <2>5. QED
    BY <2>3, <2>4
<1>13. CASE VerifyCheck
  <2>1. ProbeFailed => broken'
    BY <1>13 DEF VerifyCheck, ProbeFailed
  <2>2. broken => broken'
    BY <1>13 DEF VerifyCheck, Values
  <2>3. \A j \in Execs : state'[j] = "interrupted" => state[j] = "interrupted"
    BY <1>13 DEF VerifyCheck, Enqueue, Turns
  <2>4. UNCHANGED <<input, foreground, typed, since, output, closed, current>>
    BY <1>13 DEF VerifyCheck, shellVars
  <2>5. QED
    BY <2>1, <2>2, <2>3, <2>4, StillQuiet
<1>14. CASE VerifyEnd
  BY <1>14, StillQuiet DEF VerifyEnd, shellVars, ProbeFailed, Values
<1>15. CASE ReadLine \/ ReadCtrlC \/ Finish \/ FinishLate \/ Prompt
  BY <1>15, ShellQuiet, NotLate
<1>16. CASE Damage
  <2>1. UNCHANGED <<input, foreground, typed, since, output, closed, current, verify, state>>
    BY <1>16 DEF Damage
  <2>2. broken => broken'
    BY <1>16 DEF Damage, Values
  <2>3. QED
    BY <2>1, <2>2, StillQuiet DEF ProbeFailed
<1>17. CASE UNCHANGED vars
  BY <1>17, StillQuiet DEF vars, sessionVars, shellVars, ProbeFailed
<1>18. QED
  BY <1>1, <1>2, <1>3, <1>4, <1>5, <1>6, <1>7, <1>8, <1>9, <1>10, <1>11, <1>12, <1>13, <1>14,
     <1>15, <1>16, <1>17 DEF Next, SessionStep, ShellStep

(* One line at a time, and outputs of one's own, together with the types. *)
LEMMA QuietCorrect == Spec => [](Typed /\ Quiet)
BY TypeInit, TypeStep, QuietInit, QuietStep, PTL DEF Spec

(* The shell never reads a line while a command runs, however execs,         *)
(* interrupts, verifications and a close interleave (exec's queue, writer    *)
(* lock and markers; requireInterruptTookEffect).                            *)
THEOREM OneLineCorrect == Spec => []OneLineAtATime
<1>1. Quiet => OneLineAtATime
  BY DEF Quiet, Calm, Alone, OneLineAtATime
<1>2. QED
  BY <1>1, QuietCorrect, PTL

(* When exec reports an interrupt, its command is gone.                      *)
THEOREM CancelledCorrect == Spec => []CancelledIsGone
<1>1. Quiet => CancelledIsGone
  BY DEF Quiet, Calm, Alone, Pending, CancelledIsGone
<1>2. QED
  BY <1>1, QuietCorrect, PTL

(* An exec's output is what its own command printed.                         *)
THEOREM OwnOutputCorrect == Spec => []OwnOutput
<1>1. Quiet => OwnOutput
  BY DEF Quiet, Calm, Own, OwnOutput
<1>2. QED
  BY <1>1, QuietCorrect, PTL

-----------------------------------------------------------------------------
(* A healthy session stays unbroken *)

Sane == ~closed /\ jobControl /\ upset \cap ({"collision", "crossfire"} \cup StillBusy) = {}

(* A Ctrl-C is on its way to i's command. *)
Arriving(i) ==
  \E n \in DOMAIN input :
     /\ input[n] = CtrlC
     /\ foreground = i \/ \E m \in DOMAIN input : m < n /\ input[m] = i

Unheard(i) == Marker(i) \notin since /\ <<CtrlC>> \notin since

(* An exec that has heard nothing still has its line before it, and if it    *)
(* was interrupted, the Ctrl-C behind it: so its proof will come.            *)
Heeded(i) ==
  /\ before[i] <= interrupts
  /\ state[i] \in Active /\ Unheard(i) => Pending(i) /\ (CutShort(i) => Arriving(i))
  /\ state[i] = "proving" => CutShort(i)
  /\ Marker(i) \in since => Printing(i) \in since

Sound == ~broken /\ \A i \in Execs : Heeded(i)

(* A verification succeeds. *)
Verifies ==
  /\ state[Probe] # "failed"
  /\ verify = "probe" => state[Probe] \notin {"new", "queued"}
  /\ verify = "probe" /\ state[Probe] \in Active => CutShort(Probe)
  /\ state[Check] \in Active => ~CutShort(Check)
  /\ state[Check] \notin {"proving", "interrupted", "failed"}
  /\ state[Check] = "done" => Check \in output[Check]

SoundInv == Sane => Sound /\ Verifies

(* Initially nothing is interrupted. *)
LEMMA SoundInit == Init => SoundInv
BY DEF Init, SoundInv, Sound, Heeded, Verifies, CutShort, Active, Execs

(* Health, once lost, does not come back. *)
LEMMA SaneBefore == [Next]_vars /\ Sane' => Sane
<1>1. [Next]_vars => closed' \in {closed, TRUE}
  BY DEF Next, SessionStep, ShellStep, vars, sessionVars, Exec, Start, Written,
     Completed, Cut, Timeout, TookEffect, TookNone, Ends, Interrupt, InterruptWritten, Close,
     Verify, VerifyInterrupt, VerifyCheck, VerifyEnd, ReadLine, ReadCtrlC, Finish, FinishLate,
     Prompt, Damage
<1>2. [Next]_vars => jobControl' \in {jobControl, FALSE}
  BY DEF Next, SessionStep, ShellStep, vars, shellVars, Exec, Start, Written,
     Completed, Cut, Timeout, TookEffect, TookNone, Ends, Interrupt, InterruptWritten, Close,
     Verify, VerifyInterrupt, VerifyCheck, VerifyEnd, ReadLine, ReadCtrlC, Finish, FinishLate,
     Prompt, Damage
<1>3. QED
  BY <1>1, <1>2, UpsetGrows DEF Sane

(* A step in which nothing is written, read, heard or counted. *)
LEMMA StillSound ==
  ASSUME Sound, UNCHANGED <<input, foreground, since, interrupts, before, broken>>,
         \A i \in Execs :
           /\ state'[i] \in Active => state[i] \in Active
           /\ state'[i] = "proving" => state[i] = "proving" \/ CutShort(i)
  PROVE  Sound'
<1>1. \A i : /\ Pending(i)' <=> Pending(i)
             /\ Arriving(i)' <=> Arriving(i)
             /\ Unheard(i)' <=> Unheard(i)
             /\ CutShort(i)' <=> CutShort(i)
  BY DEF Pending, Arriving, Unheard, CutShort
<1>2. \A i \in Execs : Heeded(i)'
  BY <1>1 DEF Sound, Heeded
<1>3. QED
  BY <1>2 DEF Sound

(* An exec that ends takes what it heard with it. *)
LEMMA EndsSound ==
  ASSUME Turns, Values, Sound, NEW i \in Execs, NEW how \in Over,
         state[i] \in Active, Ends(i, how), broken' = broken
  PROVE  Sound'
<1>1. /\ since' = {} /\ interrupts' = interrupts
      /\ before' = [before EXCEPT ![i] = 0] /\ state' = [state EXCEPT ![i] = how]
  BY DEF Ends
<1>2. \A j \in Execs : state'[j] \notin Active
  BY <1>1, ActiveIsCurrent DEF Turns, Active, Over
<1>3. \A j \in Execs : before'[j] <= interrupts'
  BY <1>1 DEF Values, Sound, Heeded
<1>4. \A j \in Execs : Heeded(j)'
  BY <1>1, <1>2, <1>3 DEF Heeded, Active
<1>5. QED
  BY <1>4 DEF Sound

(* A Ctrl-C goes behind the line of the exec it is for. *)
LEMMA InterruptsSound ==
  ASSUME Values, Sound, Interrupts, lock = None,
         UNCHANGED <<foreground, since, before, broken, state>>
  PROVE  Sound'
<1>1. /\ input \in Seq(Execs \cup {CtrlC}) /\ input' = Append(input, CtrlC)
      /\ interrupts' = interrupts + 1 /\ interrupts \in Nat
  BY DEF Interrupts, Values
<1>2. /\ Len(input) \in Nat /\ DOMAIN input = 1 .. Len(input)
      /\ DOMAIN input' = 1 .. Len(input) + 1
      /\ \A m \in 1 .. Len(input) : input'[m] = input[m] /\ m < Len(input) + 1
      /\ input'[Len(input) + 1] = CtrlC
  BY <1>1
<1>3. ASSUME NEW i \in Execs, Pending(i)
      PROVE  Pending(i)' /\ Arriving(i)'
  <2>1. Len(input) + 1 \in DOMAIN input'
    BY <1>2
  <2>2. CASE foreground = i
    BY <1>2, <2>1, <2>2 DEF Pending, Arriving
  <2>3. CASE i \in ToSet(input)
    <3>1. PICK m \in 1 .. Len(input) : input[m] = i
      BY <1>2, <2>3 DEF ToSet
    <3>2. m \in DOMAIN input' /\ input'[m] = i /\ m < Len(input) + 1
      BY <1>2, <3>1
    <3>3. QED
      BY <1>2, <2>1, <3>2 DEF Pending, Arriving, ToSet
  <2>4. QED
    BY <1>3, <2>2, <2>3 DEF Pending
<1>4. ASSUME NEW i \in Execs PROVE Heeded(i)'
  <2>1. Heeded(i) /\ before[i] \in Nat
    BY DEF Sound, Values
  <2>2. before'[i] <= interrupts' /\ (CutShort(i) => CutShort(i)')
    BY <1>1, <2>1 DEF Heeded, CutShort
  <2>3. state'[i] \in Active /\ Unheard(i)' => Pending(i)' /\ Arriving(i)'
    BY <1>3, <2>1 DEF Heeded, Unheard
  <2>4. QED
    BY <2>1, <2>2, <2>3 DEF Heeded
<1>5. QED
  BY <1>4 DEF Sound

(* A healthy session's writer is free whenever an exec's turn comes. *)
LEMMA StartSound ==
  ASSUME Turns, Values, Sound, Sane', NEW i \in Execs, Start(i)
  PROVE  /\ Sound' /\ state[i] = "queued"
         /\ state' = [state EXCEPT ![i] = "writing"]
         /\ before' = [before EXCEPT ![i] = interrupts]
         /\ UNCHANGED <<interrupts, verify, output>>
<1>1. current = None /\ state[i] = "queued" /\ i \in ToSet(queue)
  BY TailFacts DEF Start, Turn, Turns
<1>2. Usable /\ lock = None
  BY DEF Start, Sound, Sane, Usable
<1>3. /\ state' = [state EXCEPT ![i] = "writing"] /\ since' = {}
      /\ before' = [before EXCEPT ![i] = interrupts] /\ input' = Append(input, i)
      /\ UNCHANGED <<interrupts, broken, verify, foreground, output>>
  BY <1>2 DEF Start, Before
<1>4. Pending(i)'
  <2>1. input \in Seq(Execs \cup {CtrlC}) /\ i \in Execs \cup {CtrlC}
    BY DEF Values
  <2>2. QED
    BY <1>3, <2>1, AppendFacts DEF Pending
<1>5. \A j \in Execs : state'[j] \in Active => j = i
  BY <1>1, <1>3, ActiveIsCurrent, ShellAssumption DEF Turns, Execs
<1>6. interrupts \in Nat /\ before'[i] = interrupts' /\ state'[i] = "writing"
  BY <1>3 DEF Values, Turns
<1>7. ASSUME NEW j \in Execs
      PROVE  before'[j] <= interrupts' /\ (j = i => ~CutShort(j)' /\ state'[j] = "writing")
  <2>1. j # i => before'[j] = before[j]
    BY <1>3 DEF Values
  <2>2. before[j] <= interrupts
    BY DEF Sound, Heeded
  <2>3. QED
    BY <1>3, <1>6, <2>1, <2>2 DEF CutShort
<1>8. ASSUME NEW j \in Execs PROVE Heeded(j)'
  <2>1. CASE j = i
    BY <1>3, <1>4, <1>7, <2>1 DEF Heeded
  <2>2. CASE j # i
    <3>1. state'[j] \notin Active /\ state'[j] # "proving"
      BY <1>5, <2>2 DEF Active
    <3>2. QED
      BY <1>3, <1>7, <3>1 DEF Heeded
  <2>3. QED
    BY <2>1, <2>2
<1>9. Sound'
  BY <1>3, <1>8 DEF Sound
<1>10. QED
  BY <1>1, <1>3, <1>9

(* A line that is read comes to the foreground, and the Ctrl-C behind it is  *)
(* still behind it.                                                          *)
LEMMA ArrivingTail ==
  ASSUME Values, NEW i \in Execs, input # <<>>, input' = Tail(input), Arriving(i),
         \/ Head(input) = CtrlC /\ foreground = None /\ foreground' = None
         \/ Head(input) = i /\ foreground' = i
  PROVE  Arriving(i)'
<1>1. /\ input \in Seq(Execs \cup {CtrlC}) /\ Len(input) \in Nat \ {0}
      /\ DOMAIN input = 1 .. Len(input) /\ DOMAIN input' = 1 .. Len(input) - 1
      /\ \A m \in 1 .. Len(input) - 1 : input'[m] = input[m + 1]
      /\ Head(input) = input[1]
  BY DEF Values
<1>2. \A m \in DOMAIN input : m # 1 =>
        m - 1 \in DOMAIN input' /\ input'[m - 1] = input[m]
  <2>1. ASSUME NEW m \in DOMAIN input, m # 1
        PROVE  m - 1 \in 1 .. Len(input) - 1 /\ (m - 1) + 1 = m
    BY <1>1, <2>1
  <2>2. QED
    BY <1>1, <2>1
<1>3. PICK n \in DOMAIN input :
        /\ input[n] = CtrlC
        /\ foreground = i \/ \E m \in DOMAIN input : m < n /\ input[m] = i
  BY DEF Arriving
<1>4. i # CtrlC /\ i # None
  BY ShellAssumption DEF Execs
<1>5. CASE Head(input) = CtrlC /\ foreground = None /\ foreground' = None
  <2>1. PICK m \in DOMAIN input : m < n /\ input[m] = i
    BY <1>3, <1>4, <1>5
  <2>2. m # 1 /\ n # 1 /\ m - 1 < n - 1
    BY <1>1, <1>4, <1>5, <2>1
  <2>3. QED
    BY <1>2, <1>3, <2>1, <2>2 DEF Arriving
<1>6. CASE Head(input) = i /\ foreground' = i
  <2>1. n # 1
    BY <1>1, <1>3, <1>4, <1>6
  <2>2. QED
    BY <1>2, <1>3, <1>6, <2>1 DEF Arriving
<1>7. QED
  BY <1>5, <1>6

(* The shell obeys a Ctrl-C and says so, or the command has ended and says so. *)
LEMMA ShellSound ==
  ASSUME Turns, Values, Alone, Own, Sound, Sane, Sane', ReadLine \/ ReadCtrlC \/ Finish
  PROVE  Sound'
<1>1. UNCHANGED <<interrupts, before, state, current>>
  BY DEF ReadLine, ReadCtrlC, Finish
<1>2. \A i \in Execs : state[i] \in Active => current = i
  BY ActiveIsCurrent
<1>3. CASE ReadLine
  <2>1. input # <<>> /\ Head(input) # CtrlC /\ input' = Tail(input) /\ since' = since
    BY <1>3 DEF ReadLine
  <2>2. input \in Seq(Execs \cup {CtrlC}) /\ Head(input) \in Execs
        /\ ToSet(input) = {Head(input)} \cup ToSet(input')
    BY <2>1, TailFacts DEF Values
  <2>3. ToSet(input') \subseteq {CtrlC}
    BY <2>1, <2>2, OneLineTail DEF Alone
  <2>4. foreground = None
    BY <2>1, <2>2 DEF Alone
  <2>5. foreground' = Head(input) /\ broken' = broken
    BY <1>3, <2>4 DEF ReadLine
  <2>6. \A i \in Execs : Pending(i) => i = Head(input)
    BY <2>2, <2>3, <2>4, ShellAssumption DEF Pending, Execs
  <2>7. ASSUME NEW i \in Execs PROVE Heeded(i)'
    <3>1. Heeded(i)
      BY DEF Sound
    <3>2. Pending(i) => Pending(i)'
      BY <2>5, <2>6 DEF Pending
    <3>3. Pending(i) /\ Arriving(i) => Arriving(i)'
      BY <2>1, <2>5, <2>6, ArrivingTail
    <3>4. QED
      BY <1>1, <2>1, <3>1, <3>2, <3>3 DEF Heeded, Unheard, CutShort
  <2>8. QED
    BY <2>5, <2>7 DEF Sound
<1>4. CASE ReadCtrlC
  <2>1. input # <<>> /\ Head(input) = CtrlC /\ input' = Tail(input) /\ broken' = broken
    BY <1>4 DEF ReadCtrlC
  <2>2. \A j \in Execs : Marker(j) # <<CtrlC>> /\ Printing(j) # <<CtrlC>>
    BY DEF Marker, Printing
  <2>3. CASE foreground \in Execs
    <3>1. Heard({<<CtrlC>>})
      BY <1>4, <2>3 DEF ReadCtrlC, Sane
    <3>2. ASSUME NEW i \in Execs PROVE Heeded(i)'
      <4>1. Heeded(i)
        BY DEF Sound
      <4>2. state[i] \in Active => <<CtrlC>> \in since'
        BY <1>2, <3>1, ShellAssumption DEF Heard, Execs
      <4>3. Marker(i) \in since' => Printing(i) \in since'
        BY <2>2, <3>1, <4>1 DEF Heard, Heeded
      <4>4. QED
        BY <1>1, <4>1, <4>2, <4>3 DEF Heeded, Unheard, CutShort
    <3>3. QED
      BY <2>1, <3>2 DEF Sound
  <2>4. CASE foreground \notin Execs
    <3>1. UNCHANGED <<since, foreground>>
      BY <1>4, <2>4 DEF ReadCtrlC
    <3>2. ToSet(input) = {CtrlC} \cup ToSet(input')
      BY <2>1, TailFacts DEF Values
    <3>3. foreground = None
      BY <2>4 DEF Own, Values
    <3>4. ASSUME NEW i \in Execs PROVE Heeded(i)'
      <4>1. Heeded(i)
        BY DEF Sound
      <4>2. Pending(i) => Pending(i)'
        BY <3>1, <3>2, ShellAssumption DEF Pending, Execs
      <4>3. Arriving(i) => Arriving(i)'
        BY <2>1, <3>1, <3>3, ArrivingTail
      <4>4. QED
        BY <1>1, <3>1, <4>1, <4>2, <4>3 DEF Heeded, Unheard, CutShort
    <3>5. QED
      BY <2>1, <3>4 DEF Sound
  <2>5. QED
    BY <2>3, <2>4
<1>5. CASE Finish
  <2>1. /\ foreground \in Execs /\ broken' = broken
        /\ Heard({Printing(foreground), Marker(foreground)})
    BY <1>5 DEF Finish, Values
  <2>2. current # None => foreground = current
    BY <2>1 DEF Alone, Pending
  <2>3. ASSUME NEW i \in Execs PROVE Heeded(i)'
    <3>1. Heeded(i) /\ i # None
      BY ShellAssumption DEF Sound, Execs
    <3>2. state[i] \in Active => Marker(i) \in since'
      BY <1>2, <2>1, <2>2, <3>1 DEF Heard
    <3>3. Marker(i) = Marker(foreground) => i = foreground
      BY DEF Marker
    <3>4. Marker(i) # Printing(foreground)
      BY DEF Marker, Printing
    <3>5. Marker(i) \in since' => Printing(i) \in since'
      BY <2>1, <3>1, <3>3, <3>4 DEF Heard, Heeded
    <3>6. QED
      BY <1>1, <3>1, <3>2, <3>5 DEF Heeded, Unheard, CutShort
  <2>4. QED
    BY <2>1, <2>3 DEF Sound
<1>6. QED
  BY <1>3, <1>4, <1>5

(* A step that does not concern the verification. *)
LEMMA StillVerifies ==
  ASSUME Verifies, verify' = "probe" => verify = "probe", interrupts' = interrupts,
         \A v \in {Probe, Check} :
           state'[v] = state[v] /\ before'[v] = before[v] /\ output'[v] = output[v]
  PROVE  Verifies'
BY DEF Verifies, CutShort

(* An exec of the verification that ends well. *)
LEMMA EndsVerifies ==
  ASSUME Turns, Values, Sound, Verifies, NEW i \in Execs, NEW how \in {"done", "interrupted"},
         state[i] \in Active, Ends(i, how), i = Check => how = "done" /\ Marker(i) \in since
  PROVE  Verifies'
<1>1. /\ state' = [state EXCEPT ![i] = how] /\ before' = [before EXCEPT ![i] = 0]
      /\ output' = [output EXCEPT ![i] = {j \in Execs : Printing(j) \in since}]
      /\ UNCHANGED <<interrupts, verify>>
  BY DEF Ends
<1>2. Probe \in Execs /\ Check \in Execs /\ Probe # Check
  BY ShellAssumption DEF Execs
<1>3. state'[i] = how /\ how \notin Active
  BY <1>1 DEF Turns, Active
<1>4. \A j \in Execs : j # i => state'[j] = state[j] /\ before'[j] = before[j] /\ output'[j] = output[j]
  BY <1>1 DEF Turns, Values
<1>5. i = Check => Check \in output'[Check]
  BY <1>1, <1>2 DEF Sound, Heeded, Values
<1>6. /\ state'[Probe] # "failed"
      /\ verify' = "probe" => state'[Probe] \notin {"new", "queued"}
      /\ verify' = "probe" /\ state'[Probe] \in Active => CutShort(Probe)'
  <2>1. CASE i = Probe
    BY <1>3, <2>1
  <2>2. CASE i # Probe
    BY <1>1, <1>2, <1>4, <2>2 DEF Verifies, CutShort
  <2>3. QED
    BY <2>1, <2>2
<1>7. /\ state'[Check] \in Active => ~CutShort(Check)'
      /\ state'[Check] \notin {"proving", "interrupted", "failed"}
      /\ state'[Check] = "done" => Check \in output'[Check]
  <2>1. CASE i = Check
    BY <1>3, <1>5, <2>1
  <2>2. CASE i # Check
    BY <1>1, <1>2, <1>4, <2>2 DEF Verifies, CutShort
  <2>3. QED
    BY <2>1, <2>2
<1>8. QED
  BY <1>6, <1>7 DEF Verifies

(* Every step keeps a healthy session unbroken. *)
LEMMA SoundStep == Typed /\ Quiet /\ SoundInv /\ [Next]_vars => SoundInv'
<1> SUFFICES ASSUME Turns, Values, Stage, Alone, Own, Sane, Sound, Verifies,
                    [Next]_vars, Sane'
             PROVE  Sound' /\ Verifies'
  BY TypeParts, SaneBefore DEF Typed, Quiet, SoundInv, Sane, Calm
<1>a. Probe \in Execs /\ Check \in Execs /\ Probe # Check
  BY ShellAssumption DEF Execs
<1>b. Usable
  BY DEF Sane, Sound, Usable
<1>1. ASSUME NEW i \in Commands, Exec(i) PROVE Sound' /\ Verifies'
  <2>1. i \in Execs /\ i # Probe /\ i # Check
    BY ShellAssumption DEF Execs
  <2>2. state' = [state EXCEPT ![i] = "queued"]
        /\ UNCHANGED <<input, foreground, since, interrupts, before, broken, verify, output>>
    BY <1>1 DEF Exec, Enqueue, shellVars
  <2>3. Sound'
    BY <2>1, <2>2, StillSound DEF Turns, Active
  <2>4. Verifies'
    BY <1>a, <2>1, <2>2, StillVerifies DEF Turns
  <2>5. QED
    BY <2>3, <2>4
<1>2. ASSUME NEW i \in Execs, Start(i) PROVE Sound' /\ Verifies'
  <2>1. /\ Sound' /\ state[i] = "queued"
        /\ state' = [state EXCEPT ![i] = "writing"]
        /\ before' = [before EXCEPT ![i] = interrupts]
        /\ UNCHANGED <<interrupts, verify, output>>
    BY <1>2, StartSound
  <2>2. \A j \in Execs : j # i => state'[j] = state[j] /\ before'[j] = before[j]
    BY <2>1 DEF Turns, Values
  <2>3. state'[i] = "writing" /\ before'[i] = interrupts /\ interrupts \in Nat
    BY <2>1 DEF Turns, Values
  <2>4. i = Probe => verify' # "probe"
    BY <2>1 DEF Verifies
  <2>5. i = Check => ~CutShort(Check)'
    BY <2>1, <2>3 DEF CutShort
  <2>6. Verifies'
    BY <1>a, <2>1, <2>2, <2>3, <2>4, <2>5 DEF Verifies, CutShort
  <2>7. QED
    BY <2>1, <2>6
<1>3. ASSUME NEW i \in Execs, Written(i) \/ Cut(i) PROVE Sound' /\ Verifies'
  <2>1. /\ state[i] \in Active
        /\ UNCHANGED <<input, foreground, since, interrupts, before, broken, verify, output>>
    BY <1>3 DEF Written, Cut, Active, shellVars
  <2>2. \/ state' = [state EXCEPT ![i] = "waiting"]
        \/ state' = [state EXCEPT ![i] = "proving"] /\ CutShort(i)
    BY <1>3 DEF Written, Cut
  <2>3. state'[i] = "waiting" \/ (state'[i] = "proving" /\ CutShort(i))
    BY <2>2 DEF Turns
  <2>4. \A j \in Execs : j # i => state'[j] = state[j]
    BY <2>2 DEF Turns
  <2>5. Sound'
    BY <2>1, <2>3, <2>4, StillSound DEF Active
  <2>6. Verifies'
    BY <1>a, <2>1, <2>3, <2>4 DEF Verifies, CutShort, Active
  <2>7. QED
    BY <2>5, <2>6
<1>4. ASSUME NEW i \in Execs, Completed(i) PROVE Sound' /\ Verifies'
  <2>1. state[i] \in Active /\ Ends(i, "done") /\ broken' = broken /\ Marker(i) \in since
        /\ "done" \in Over /\ "done" \in {"done", "interrupted"}
    BY <1>4 DEF Completed, Active, Over
  <2>2. QED
    BY <2>1, EndsSound, EndsVerifies
<1>5. ASSUME NEW i \in Execs, TookEffect(i) PROVE Sound' /\ Verifies'
  <2>1. PICK how \in {"done", "interrupted"} : Ends(i, how)
    BY <1>5 DEF TookEffect
  <2>2. state[i] \in Active /\ broken' = broken /\ i # Check /\ how \in Over
    BY <1>5 DEF TookEffect, Active, Verifies, Over
  <2>3. QED
    BY <2>1, <2>2, EndsSound, EndsVerifies
<1>6. ASSUME NEW i \in Execs, TookNone(i) PROVE FALSE
  <2>1. state[i] = "proving" /\ Unheard(i) /\ CtrlC \notin ToSet(input)
    BY <1>6 DEF TookNone, Proof, Unheard
  <2>2. Arriving(i)
    BY <2>1 DEF Sound, Heeded, Active
  <2>3. QED
    BY <2>1, <2>2 DEF Arriving, ToSet
<1>7. ASSUME NEW i \in Execs, Timeout(i) PROVE FALSE
  <2>1. state[i] = "waiting" /\ ~CutShort(i) /\ i = Probe /\ verify # "settle"
    BY <1>7 DEF Timeout, Sane, StillBusy
  <2>2. verify = "probe"
    BY <2>1 DEF Stage, Values, Over, Sound
  <2>3. QED
    BY <2>1, <2>2 DEF Verifies, Active
<1>8. CASE Interrupt
  <2>1. Interrupts /\ lock = None /\ current # Check
        /\ UNCHANGED <<foreground, since, before, broken, state, verify, output>>
    BY <1>8 DEF Interrupt, Sane
  <2>2. Sound'
    BY <2>1, InterruptsSound
  <2>3. interrupts' = interrupts + 1 /\ interrupts \in Nat /\ before \in [Execs -> Nat]
    BY <2>1 DEF Interrupts, Values
  <2>4. state[Check] \notin Active
    BY <1>a, <2>1, ActiveIsCurrent
  <2>5. CutShort(Probe) => CutShort(Probe)'
    BY <1>a, <2>1, <2>3 DEF CutShort
  <2>6. Verifies'
    BY <2>1, <2>4, <2>5 DEF Verifies
  <2>7. QED
    BY <2>2, <2>6
<1>9. CASE InterruptWritten
  BY <1>9, StillSound, StillVerifies DEF InterruptWritten, shellVars
<1>10. CASE Close
  BY <1>10 DEF Close, Sane
<1>11. CASE Verify
  <2>1. /\ state' = [state EXCEPT ![Probe] = "queued"] /\ verify' = "settle"
        /\ UNCHANGED <<input, foreground, since, interrupts, before, broken, output>>
    BY <1>11 DEF Verify, Enqueue, shellVars
  <2>2. state'[Probe] = "queued" /\ \A j \in Execs : j # Probe => state'[j] = state[j]
    BY <1>a, <2>1 DEF Turns
  <2>3. Sound'
    BY <2>1, <2>2, StillSound DEF Active
  <2>4. Verifies'
    BY <1>a, <2>1, <2>2 DEF Verifies, CutShort, Active
  <2>5. QED
    BY <2>3, <2>4
<1>12. CASE VerifyInterrupt
  <2>1. Interrupts /\ lock = None /\ foreground = Probe /\ verify = "settle"
        /\ UNCHANGED <<foreground, since, before, broken, state, output>>
    BY <1>12, <1>b DEF VerifyInterrupt, Sane
  <2>2. Sound'
    BY <2>1, InterruptsSound
  <2>3. interrupts' = interrupts + 1 /\ interrupts \in Nat /\ before \in [Execs -> Nat]
    BY <2>1 DEF Interrupts, Values
  <2>4. current = Probe
    BY <1>a, <2>1 DEF Alone, Pending, Sound, ProbeFailed
  <2>5. state[Probe] \in Active
    BY <1>a, <2>4, ShellAssumption DEF Turns
  <2>6. CutShort(Probe)'
    BY <1>a, <2>1, <2>3 DEF CutShort, Sound, Heeded
  <2>7. state[Check] = "new"
    BY <2>1 DEF Stage
  <2>8. Verifies'
    BY <2>1, <2>5, <2>6, <2>7 DEF Verifies, Active
  <2>9. QED
    BY <2>2, <2>8
<1>13. CASE VerifyCheck
  <2>1. /\ state' = [state EXCEPT ![Check] = "queued"] /\ verify' = "check"
        /\ UNCHANGED <<input, foreground, since, interrupts, before, broken, output>>
    BY <1>13 DEF VerifyCheck, Enqueue, shellVars, Verifies
  <2>2. state'[Check] = "queued" /\ \A j \in Execs : j # Check => state'[j] = state[j]
    BY <1>a, <2>1 DEF Turns
  <2>3. Sound'
    BY <2>1, <2>2, StillSound DEF Active
  <2>4. Verifies'
    BY <1>a, <2>1, <2>2 DEF Verifies, CutShort, Active
  <2>5. QED
    BY <2>3, <2>4
<1>14. CASE VerifyEnd
  <2>1. state[Check] \in Over
    BY <1>14 DEF VerifyEnd, VerifyIsNext
  <2>2. state[Check] # "failed" /\ Check \in output[Check]
    BY <2>1 DEF Verifies, Over
  <2>3. /\ verify' = "true"
        /\ UNCHANGED <<state, input, foreground, since, interrupts, before, broken, output>>
    BY <1>14, <2>2 DEF VerifyEnd, shellVars
  <2>4. QED
    BY <2>3, StillSound, StillVerifies
<1>15. CASE ReadLine \/ ReadCtrlC \/ Finish \/ FinishLate \/ Prompt
  <2>1. ReadLine \/ ReadCtrlC \/ Finish
    BY <1>15, NotLate DEF Sane, Calm
  <2>2. UNCHANGED <<state, interrupts, before, output, verify>>
    BY <2>1 DEF ReadLine, ReadCtrlC, Finish
  <2>3. QED
    BY <2>1, <2>2, ShellSound, StillVerifies
<1>16. CASE Damage
  BY <1>16 DEF Damage, Sane
<1>17. CASE UNCHANGED vars
  BY <1>17, StillSound, StillVerifies DEF vars, sessionVars, shellVars
<1>18. QED
  BY <1>1, <1>2, <1>3, <1>4, <1>5, <1>6, <1>7, <1>8, <1>9, <1>10, <1>11, <1>12, <1>13, <1>14,
     <1>15, <1>16, <1>17 DEF Next, SessionStep, ShellStep

(* A session is only marked broken when job control is dead: an interrupt at *)
(* an idle prompt, or a second one for the same command, does not cost a     *)
(* healthy session, nor does a verification that meets nobody else's command.*)
THEOREM BrokenCorrect == Spec => []BrokenForAReason
<1>1. Typed /\ SoundInv => BrokenForAReason
  BY DEF Typed, SoundInv, Sane, Sound, BrokenForAReason, TypeOK
<1>2. QED
  BY <1>1, QuietCorrect, SoundInit, SoundStep, PTL DEF Spec
================================================================================
