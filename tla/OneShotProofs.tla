---------------------------- MODULE OneShotProofs ----------------------------
(***************************************************************************)
(* Theorems about a wc-exe process, its failures and its package manager,   *)
(* for any strings and numbers, files, versions and Ctrl-Cs: no transport   *)
(* changes a failure the project names, the manager a project pins is the   *)
(* one that runs, and the exit code, the output directory and the runtime's *)
(* copy of the sources are what a command promises.                         *)
(***************************************************************************)
EXTENDS OneShot, TLAPS

-----------------------------------------------------------------------------
(* What a reader falls back to has the type it reads, which has other        *)
(* values too.                                                              *)
Sound(spec) ==
  /\ spec.fallback \in spec.type
  /\ \E v \in spec.type : v # spec.fallback

(* The kinds of field there are, each with the fall-backs it is used with. *)
LEMMA KindsAreSound ==
  /\ \A s \in Str : Sound(string(s))
  /\ \A n \in Num : Sound(number(n))
  /\ Sound(flag) /\ Sound(optionalString) /\ Sound(optionalNumber) /\ Sound(message)
<1>0. 0 # 1
  OBVIOUS
<1> USE ErrorsAssumption
<1>1. ASSUME NEW s \in Str
      PROVE  Sound(string(s))
  <2>1. "" # s \/ "command" # s
    OBVIOUS
  <2>2. string(s).type = Str /\ string(s).fallback = s
    BY DEF string
  <2>3. QED
    BY <2>1, <2>2 DEF Sound
<1>2. ASSUME NEW n \in Num
      PROVE  Sound(number(n))
  <2>1. 0 # n \/ 1 # n
    BY <1>0, Zenon
  <2>2. number(n).type = Num /\ number(n).fallback = n
    BY DEF number
  <2>3. QED
    BY <2>1, <2>2 DEF Sound
<1>4. Sound(flag)
  BY DEF Sound, flag
<1>5. Sound(optionalString) /\ Sound(optionalNumber)
  BY DEF Sound, optionalString, optionalNumber
<1>6. Sound(message)
  BY <1>1 DEF message
<1>7. QED
  BY <1>1, <1>2, <1>4, <1>5, <1>6

(* So has every field of every tag. *)
LEMMA SchemaIsSound == \A t \in TAGS : \A f \in Fields(t) : Sound(Schema[t][f])
<1>p. PICK empty, command, unknown, zero, one :
        /\ empty = string("") /\ command = string("command")
        /\ unknown = string("unknown") /\ zero = number(0) /\ one = number(1)
  OBVIOUS
<1>k. /\ Sound(empty) /\ Sound(command) /\ Sound(unknown) /\ Sound(zero) /\ Sound(one)
      /\ Sound(flag) /\ Sound(optionalString) /\ Sound(optionalNumber) /\ Sound(message)
  BY <1>p, KindsAreSound, ErrorsAssumption
<1>1. SUFFICES ASSUME NEW t \in TAGS, NEW f \in Fields(t)
               PROVE  Sound(Schema[t][f])
  OBVIOUS
<1>2. CASE t = "CommandFailed"
  <2>1. Schema[t] = [label |-> command, exitCode |-> one,
                    output |-> empty, truncated |-> flag,
                    droppedChars |-> zero]
    BY <1>p, <1>2 DEF Schema
  <2>2. f \in {"label", "exitCode", "output", "truncated", "droppedChars"}
    BY <1>1, <2>1 DEF Fields
  <2>3. QED
    BY <1>k, <2>1, <2>2
<1>3. CASE t = "NoBuildOutput"
  <2>1. Schema[t] = [distPath |-> empty, message |-> message]
    BY <1>p, <1>3 DEF Schema
  <2>2. f \in {"distPath", "message"}
    BY <1>1, <2>1 DEF Fields
  <2>3. QED
    BY <1>k, <2>1, <2>2
<1>4. CASE t = "RunnerGone"
  <2>1. Schema[t] = [reason |-> empty, message |-> message]
    BY <1>p, <1>4 DEF Schema
  <2>2. f \in {"reason", "message"}
    BY <1>1, <2>1 DEF Fields
  <2>3. QED
    BY <1>k, <2>1, <2>2
<1>5. CASE t = "RunnerTimeout"
  <2>1. Schema[t] = [label |-> command, timeoutMs |-> zero,
                    message |-> message]
    BY <1>p, <1>5 DEF Schema
  <2>2. f \in {"label", "timeoutMs", "message"}
    BY <1>1, <2>1 DEF Fields
  <2>3. QED
    BY <1>k, <2>1, <2>2
<1>6. CASE t = "MountFailed"
  <2>1. Schema[t] = [path |-> empty, message |-> message]
    BY <1>p, <1>6 DEF Schema
  <2>2. f \in {"path", "message"}
    BY <1>1, <2>1 DEF Fields
  <2>3. QED
    BY <1>k, <2>1, <2>2
<1>7. CASE t = "UploadFailed"
  <2>1. Schema[t] = [path |-> empty, status |-> optionalNumber,
                    message |-> message]
    BY <1>p, <1>7 DEF Schema
  <2>2. f \in {"path", "status", "message"}
    BY <1>1, <2>1 DEF Fields
  <2>3. QED
    BY <1>k, <2>1, <2>2
<1>8. CASE t = "RuntimeFailure"
  <2>1. Schema[t] = [operation |-> unknown, message |-> message]
    BY <1>p, <1>8 DEF Schema
  <2>2. f \in {"operation", "message"}
    BY <1>1, <2>1 DEF Fields
  <2>3. QED
    BY <1>k, <2>1, <2>2
<1>9. CASE t = "UnknownFailure"
  <2>1. Schema[t] = [originalTag |-> optionalString, message |-> message]
    BY <1>p, <1>9 DEF Schema
  <2>2. f \in {"originalTag", "message"}
    BY <1>1, <2>1 DEF Fields
  <2>3. QED
    BY <1>k, <2>1, <2>2
<1>10. CASE t = "InvalidProject"
  <2>1. Schema[t] = [source |-> empty, reason |-> empty,
                    message |-> message]
    BY <1>p, <1>10 DEF Schema
  <2>2. f \in {"source", "reason", "message"}
    BY <1>1, <2>1 DEF Fields
  <2>3. QED
    BY <1>k, <2>1, <2>2
<1>11. CASE t = "RunnerUnavailable"
  <2>1. Schema[t] = [url |-> empty, message |-> message]
    BY <1>p, <1>11 DEF Schema
  <2>2. f \in {"url", "message"}
    BY <1>1, <2>1 DEF Fields
  <2>3. QED
    BY <1>k, <2>1, <2>2
<1>12. CASE t = "DaemonUnreachable"
  <2>1. Schema[t] = [port |-> zero, message |-> message]
    BY <1>p, <1>12 DEF Schema
  <2>2. f \in {"port", "message"}
    BY <1>1, <2>1 DEF Fields
  <2>3. QED
    BY <1>k, <2>1, <2>2
<1>13. CASE t = "DaemonStartTimeout"
  <2>1. Schema[t] = [timeoutMs |-> zero, message |-> message]
    BY <1>p, <1>13 DEF Schema
  <2>2. f \in {"timeoutMs", "message"}
    BY <1>1, <2>1 DEF Fields
  <2>3. QED
    BY <1>k, <2>1, <2>2
<1>14. QED
  BY <1>1, <1>2, <1>3, <1>4, <1>5, <1>6, <1>7, <1>8, <1>9, <1>10, <1>11, <1>12, <1>13
  DEF TAGS, Schema

(* A field that is absent reads back as absent, any other as it is. *)
LEMMA FieldSurvives ==
  ASSUME NEW tag, NEW fields, NEW f \in DOMAIN fields
  PROVE  Get(Wire(tag, fields), f) = fields[f]
<1> DEFINE there == {g \in DOMAIN fields : fields[g] # Undefined}
           w == Wire(tag, fields)
<1>1. w.fields = [g \in there |-> fields[g]]
  BY DEF Wire
<1>2. CASE f \in there
  BY <1>1, <1>2 DEF Get
<1>3. CASE f \notin there
  BY <1>1, <1>3 DEF Get
<1>4. QED
  BY <1>2, <1>3

(* A failure with one of the project's tags and fields of their types reads *)
(* back from the wire as itself.                                            *)
LEMMA SchemaSurvives ==
  ASSUME NEW t \in TAGS, NEW fields, NEW e,
         e = [tag |-> t, fields |-> fields], Has(e, t)
  PROVE  fromWire(Wire(t, fields)) = e
<1> DEFINE w == Wire(t, fields)
<1>1. fields = [f \in Fields(t) |-> fields[f]] /\ DOMAIN fields = Fields(t)
  BY DEF Has
<1>2. \A f \in Fields(t) : fields[f] \in Schema[t][f].type
  BY DEF Has
<1>3. \A f \in Fields(t) : Get(w, f) = fields[f]
  BY <1>1, FieldSurvives
<1>4. w.tag = t
  BY DEF Wire
<1> HIDE DEF w
<1>5. \A f \in Fields(t) : Read(Schema[t][f], Get(w, f)) = fields[f]
  BY <1>2, <1>3 DEF Read
<1>6. Rebuilt(t, w) = [tag |-> t, fields |-> [f \in Fields(t) |-> fields[f]]]
  BY <1>5 DEF Rebuilt
<1>7. fromWire(w) = Rebuilt(t, w)
  BY <1>4 DEF fromWire, Known
<1>8. QED
  BY <1>1, <1>6, <1>7 DEF w

Failure(e) == \E t, fields : e = [tag |-> t, fields |-> fields]

(* "A round trip must not lose what the caller decides on": a failure the   *)
(* host names reaches the other end of the daemon's HTTP response unchanged, *)
(* whatever its strings and numbers and whichever optional field it lacks.  *)
THEOREM RoundTrip ==
  ASSUME NEW e, Failure(e), isWcError(e)
  PROVE  fromWire(toWire(e)) = e
<1>1. PICK t \in TAGS : Has(e, t)
  BY DEF isWcError
<1>2. e = [tag |-> t, fields |-> e.fields]
  BY <1>1 DEF Failure, Has
<1>3. toWire(e) = Wire(t, e.fields)
  BY <1>1 DEF toWire, Has
<1>4. QED
  BY <1>1, <1>2, <1>3, SchemaSurvives

(* The page's failures reach the host unchanged too. *)
THEOREM PageRoundTrip ==
  ASSUME NEW e, Failure(e), isWcError(e)
  PROVE  fromWire(pageToWire(e)) = e
<1>0. e.tag # "untagged"
  BY DEF isWcError, Has, TAGS, Schema
<1>1. toWire(e) = pageToWire(e)
  BY <1>0 DEF toWire, pageToWire
<1>2. QED
  BY <1>1, RoundTrip

(* Whatever arrives, from a page of any version, is a failure the project   *)
(* names: no caller has to handle another.                                  *)
THEOREM ArrivesNamed ==
  ASSUME NEW w, w.tag \in Str \cup TAGS
  PROVE  isWcError(fromWire(w)) /\ Failure(fromWire(w))
<1>1. CASE w.tag \in TAGS
  <2> DEFINE t == w.tag
             e == Rebuilt(t, w)
  <2>1. fromWire(w) = e
    BY <1>1 DEF fromWire, Known
  <2>2. \A f \in Fields(t) : Read(Schema[t][f], Get(w, f)) \in Schema[t][f].type
    BY <1>1, SchemaIsSound DEF Read, Sound
  <2>3. /\ e.tag = t
        /\ e.fields = [f \in Fields(t) |-> Read(Schema[t][f], Get(w, f))]
    BY DEF Rebuilt
  <2>4. Has(e, t)
    BY <2>2, <2>3 DEF Has
  <2>5. Failure(e)
    BY DEF Rebuilt, Failure
  <2>6. QED
    BY <1>1, <2>1, <2>4, <2>5 DEF isWcError
<1>2. CASE w.tag \notin TAGS
  <2> DEFINE e == UnknownTag(w)
             text == Read(message, Get(w, "message"))
             original == IF w.tag = "" THEN Undefined ELSE w.tag
  <2>1. fromWire(w) = e
    BY <1>2 DEF fromWire, Known
  <2>2. /\ e.tag = "UnknownFailure"
        /\ e.fields = [originalTag |-> original, message |-> text]
    BY DEF UnknownTag
  <2>3. text \in Str
    BY ErrorsAssumption DEF Read, message, string
  <2>4. original \in Str \cup {Undefined}
    BY <1>2
  <2>5. /\ Schema["UnknownFailure"] = [originalTag |-> optionalString, message |-> message]
        /\ "UnknownFailure" \in TAGS
    BY DEF Schema, TAGS
  <2>6. Fields("UnknownFailure") = {"originalTag", "message"}
    BY <2>5 DEF Fields
  <2> HIDE DEF text, original
  <2>7. /\ e.fields["originalTag"] = original /\ e.fields["message"] = text
        /\ e.fields = [f \in {"originalTag", "message"} |-> e.fields[f]]
    BY <2>2
  <2>8. /\ Schema["UnknownFailure"]["originalTag"].type = Str \cup {Undefined}
        /\ Schema["UnknownFailure"]["message"].type = Str
    <3>1. /\ Schema["UnknownFailure"]["originalTag"] = optionalString
          /\ Schema["UnknownFailure"]["message"] = message
      BY <2>5
    <3>2. optionalString.type = Str \cup {Undefined} /\ message.type = Str
      BY DEF optionalString, message, string
    <3>3. QED
      BY <3>1, <3>2
  <2>9. Has(e, "UnknownFailure")
    BY <2>2, <2>3, <2>4, <2>6, <2>7, <2>8 DEF Has
  <2>10. Failure(e)
    BY DEF UnknownTag, Failure
  <2>11. QED
    BY <2>1, <2>5, <2>9, <2>10 DEF isWcError
<1>3. QED
  BY <1>1, <1>2

(* The two decisions the tags exist for are the same whether the build ran  *)
(* in this process or failed in a page, crossed the control channel to the  *)
(* daemon and its HTTP response to the command: whether the runtime can be  *)
(* reused, and the exit code.                                               *)
THEOREM DecisionsSurvive ==
  ASSUME NEW e, Failure(e), isWcError(e)
  PROVE  LET seen == fromWire(toWire(fromWire(pageToWire(e)))) IN
         /\ runtimeStateIsKnown(seen) <=> runtimeStateIsKnown(e)
         /\ exitCodeFor(seen) = exitCodeFor(e)
<1>1. fromWire(pageToWire(e)) = e
  BY PageRoundTrip
<1>2. fromWire(toWire(e)) = e
  BY RoundTrip
<1>3. QED
  BY <1>1, <1>2

-----------------------------------------------------------------------------
(* The failures a command can catch, and the codes it exits with.           *)

(* The sample failure of a tag is a failure with that tag. *)
LEMMA SampleIsNamed ==
  ASSUME NEW t \in TAGS
  PROVE  isWcError(Sample(t)) /\ Failure(Sample(t)) /\ Sample(t).tag = t
<1> DEFINE value(f) == CHOOSE v \in Schema[t][f].type : v # Schema[t][f].fallback
<1>1. ASSUME NEW f \in Fields(t) PROVE value(f) \in Schema[t][f].type
  BY SchemaIsSound DEF Sound
<1>2. Sample(t) = [tag |-> t, fields |-> [f \in Fields(t) |-> value(f)]]
  BY DEF Sample
<1> HIDE DEF value
<1>3. Has(Sample(t), t)
  BY <1>1, <1>2 DEF Has
<1>4. isWcError(Sample(t))
  BY <1>3 DEF isWcError
<1>5. Failure(Sample(t))
  BY <1>2, Zenon DEF Failure
<1>6. QED
  BY <1>2, <1>4, <1>5

Causes == TAGS \cup {"untagged"}

(* Whichever way a failure comes, the code is its cause's. *)
LEMMA CaughtCode ==
  ASSUME NEW t \in Causes,
         NEW e \in {Error(t), FromPage(Error(t)), FromDaemon(Error(t)),
                    FromDaemon(FromPage(Error(t)))}
  PROVE  exitCodeFor(e) = CodeFor(t) /\ e # None /\ (isWcError(e) \/ e = Untagged)
<1>1. e # None
  BY CaughtAssumption DEF Causes
<1>2. CASE t \in TAGS
  <2> DEFINE s == Sample(t)
  <2>1. isWcError(s) /\ Failure(s) /\ s.tag = t
    BY <1>2, SampleIsNamed
  <2> HIDE DEF s
  <2>2. fromWire(toWire(s)) = s /\ fromWire(pageToWire(s)) = s
    BY <2>1, RoundTrip, PageRoundTrip
  <2>3. e = s
    BY <1>2, <2>2 DEF Error, FromPage, FromDaemon, s
  <2>4. QED
    <3>1. isWcError(e) /\ e.tag = t
      BY <2>1, <2>3
    <3>2. exitCodeFor(e) = CodeFor(t)
      BY <3>1 DEF exitCodeFor, CodeFor
    <3>3. QED
      BY <1>1, <3>1, <3>2
<1>3. CASE t \notin TAGS
  <2> DEFINE u == UnknownWire("unknown")
  <2>1. t = "untagged" /\ Error(t) = Untagged /\ CodeFor(t) = 3
    BY <1>3 DEF Causes, Error, CodeFor
  <2>2. "untagged" \notin TAGS /\ "UnknownFailure" \in TAGS
    BY DEF TAGS, Schema
  <2>3. toWire(Untagged) = u /\ pageToWire(Untagged) = u
    BY <2>2 DEF toWire, pageToWire, Untagged, isWcError, Has
  <2>4. u.tag = "UnknownFailure"
    BY DEF UnknownWire, Wire
  <2> HIDE DEF u
  <2>5. fromWire(u).tag = "UnknownFailure" /\ isWcError(fromWire(u))
    <3>1. fromWire(u).tag = "UnknownFailure"
      BY <2>2, <2>4 DEF fromWire, Known, Rebuilt
    <3>2. QED
      BY <3>1, <2>2, <2>4, ArrivesNamed
  <2>6. ASSUME NEW x, x.tag = "UnknownFailure" \/ x = Untagged
        PROVE  exitCodeFor(x) = 3
    BY <2>6 DEF exitCodeFor, Untagged
  <2>7. ASSUME NEW x, x.tag = "UnknownFailure"
        PROVE  fromWire(toWire(x)).tag = "UnknownFailure" /\ isWcError(fromWire(toWire(x)))
    <3>1. toWire(x).tag = "UnknownFailure"
      BY <2>7 DEF toWire, UnknownWire, Wire
    <3>2. fromWire(toWire(x)).tag = "UnknownFailure"
      BY <3>1, <2>2 DEF fromWire, Known, Rebuilt
    <3>3. QED
      BY <3>1, <3>2, <2>2, ArrivesNamed
  <2>8. e = Untagged \/ (e.tag = "UnknownFailure" /\ isWcError(e))
    BY <2>1, <2>3, <2>5, <2>7 DEF FromPage, FromDaemon
  <2>9. QED
    BY <1>1, <2>1, <2>6, <2>8
<1>4. QED
  BY <1>2, <1>3

-----------------------------------------------------------------------------
(* The package manager.                                                     *)

(* Whatever is in package.json and at the root, one of ours is chosen.       *)
LEMMA OneOfOurs ==
  ASSUME NEW p \in Projects
  PROVE  detectPackageManager(FieldOf(p), p.files) \in Managers
<1>1. FieldOf(p) \in ManagerFields
  BY DEF Projects, FieldOf, ManagerFields
<1>2. parsePackageManagerField(FieldOf(p)) \in Managers \cup {NoManager}
  BY <1>1 DEF parsePackageManagerField
<1>3. \A i \in 1..3 : WriterOf[i] \in Managers
  BY DEF WriterOf, Managers
<1> DEFINE found == {i \in 1..3 : IsFirst(LOCKFILES, i, p.files)}
<1>4. found # {} => (CHOOSE i \in found : TRUE) \in 1..3
  OBVIOUS
<1>5. QED
  BY <1>2, <1>3, <1>4, ManagersAssumption DEF detectPackageManager, Managers

(* What a choice runs is a manager in one of its versions. *)
LEMMA RunsAManager ==
  ASSUME NEW p \in Projects, NEW shipped \in [Managers -> Majors \cup {NoManager}]
  PROVE  /\ resolvePackageManager(p, shipped).manager \in Managers
         /\ WhatRuns(resolvePackageManager(p, shipped), shipped)
              \in [manager : Managers, major : Majors \cup {NoManager}]
<1> DEFINE manager == detectPackageManager(FieldOf(p), p.files)
           declared == parsePackageManagerVersion(FieldOf(p))
           choice == resolvePackageManager(p, shipped)
<1>1. manager \in Managers
  BY OneOfOurs
<1>2. declared \in Majors \cup {NoManager}
  BY DEF parsePackageManagerVersion, FieldOf, Projects, ManagerFields
<1>3. /\ choice.manager = manager
      /\ \/ choice.invocation = [command |-> manager, pin |-> NoManager]
         \/ choice.invocation = [command |-> "npx",
                                 pin |-> [manager |-> manager, major |-> declared]]
  BY DEF resolvePackageManager, packageManagerCommand, RunsAsShipped
<1> HIDE DEF manager, declared, choice
<1>4. manager # "npx"
  BY <1>1 DEF Managers
<1>5. QED
  BY <1>1, <1>2, <1>3, <1>4 DEF WhatRuns, choice

(* "A project that pins its manager": whatever lockfiles lie about, the      *)
(* manager and the major version it declares are what runs, through npx if   *)
(* the runtime ships another, as long as it says which it ships.            *)
THEOREM PinnedRuns ==
  ASSUME NEW p \in Projects, NEW shipped \in [Managers -> Majors \cup {NoManager}],
         parsePackageManagerField(FieldOf(p)) # NoManager,
         FieldOf(p).major # NoManager,
         shipped[FieldOf(p).name] # NoManager
  PROVE  WhatRuns(resolvePackageManager(p, shipped), shipped)
           = [manager |-> FieldOf(p).name, major |-> FieldOf(p).major]
<1> DEFINE field == FieldOf(p)
           name == field.name
<1>1. field # NoManager /\ name \in Managers
  BY DEF parsePackageManagerField
<1>2. detectPackageManager(field, p.files) = name
  BY <1>1 DEF detectPackageManager, parsePackageManagerField
<1>3. parsePackageManagerVersion(field) = field.major
  BY <1>1 DEF parsePackageManagerVersion
<1>4. resolvePackageManager(p, shipped) =
        [manager |-> name,
         invocation |-> packageManagerCommand(name, field.major, shipped[name])]
  BY <1>2, <1>3 DEF resolvePackageManager
<1> HIDE DEF field, name
<1>5. name # "npx"
  BY <1>1 DEF Managers
<1>6. CASE field.major = shipped[name]
  BY <1>4, <1>5, <1>6 DEF packageManagerCommand, RunsAsShipped, WhatRuns, field, name
<1>7. CASE field.major # shipped[name]
  <2>1. packageManagerCommand(name, field.major, shipped[name]) =
          [command |-> "npx", pin |-> [manager |-> name, major |-> field.major]]
    BY <1>7 DEF packageManagerCommand, field, name
  <2>2. QED
    BY <1>4, <2>1 DEF WhatRuns, field, name
<1>8. QED
  BY <1>6, <1>7

-----------------------------------------------------------------------------
(* Types.                                                                   *)

Handlers == [file : Files, seen : Contents, got : Contents \cup {NoRead}]
Writes == [file : Files, content : Contents]

(* The watcher's variables; versions are handed out one after another.       *)
WatchTypes ==
  /\ edits \in 1..(MaxEdits + 1)
  /\ disk \in [Files -> 0..edits] /\ noticed \in [Files -> 0..edits]
  /\ mirror \in [Files -> Contents]
  /\ watching \in BOOLEAN
  /\ handlers \subseteq Handlers
  /\ pushed \in Seq(Writes)

Types ==
  /\ TypeOK /\ WatchTypes
  /\ invocation \in [command : Commands, noInstall : BOOLEAN, cache : BOOLEAN,
                     project : ProjectsTried]

(* Where each step is in its command, and where the commands end. *)
LEMMA Places ==
  ASSUME Types
  PROVE  /\ mode \in {"build", "install", "dev", "daemon"}
         /\ Finished <=> \/ mode \in {"build", "dev"} /\ pc > 8
                         \/ mode = "install" /\ pc > 4
                         \/ mode = "daemon" /\ pc > 3
         /\ \A s : At(s) /\ mode = "build" =>
              (pc = 6 <=> s = "build") /\ (pc = 7 <=> s = "prepare") /\ (pc = 8 <=> s = "upload")
         /\ \A s : At(s) /\ mode = "daemon" =>
              (pc = 2 <=> s = "prepare") /\ (pc = 3 <=> s = "ask")
         /\ \A s : At(s) /\ mode = "dev" => (pc = 3 <=> s = "mount")
         /\ At("build") \/ At("upload") => mode = "build"
         /\ At("prepare") => mode \in {"build", "daemon"}
         /\ At("ask") => mode = "daemon"
         /\ At("serve") => mode = "dev"
<1>1. mode \in {"build", "install", "dev", "daemon"} /\ pc \in 1..9
  BY OneShotAssumption DEF Types, TypeOK, mode
<1>2. CASE mode = "build"
  <2>1. Steps[mode] = BuildSteps
    BY <1>2 DEF Steps
  <2>2. Finished <=> pc > 8
    BY <1>1, <2>1 DEF Finished, BuildSteps
  <2>3. \A s : At(s) <=> Running /\ ~Finished /\ BuildSteps[pc] = s
    BY <2>1 DEF At
  <2>4. QED
    BY <1>1, <1>2, <2>2, <2>3 DEF BuildSteps
<1>3. CASE mode = "install"
  <2>1. Steps[mode] = InstallSteps
    BY <1>3 DEF Steps
  <2>2. Finished <=> pc > 4
    BY <1>1, <2>1 DEF Finished, InstallSteps
  <2>3. \A s : At(s) <=> Running /\ ~Finished /\ InstallSteps[pc] = s
    BY <2>1 DEF At
  <2>4. QED
    BY <1>1, <1>3, <2>2, <2>3 DEF InstallSteps
<1>4. CASE mode = "dev"
  <2>1. Steps[mode] = DevSteps
    BY <1>4 DEF Steps
  <2>2. Finished <=> pc > 8
    BY <1>1, <2>1 DEF Finished, DevSteps
  <2>3. \A s : At(s) <=> Running /\ ~Finished /\ DevSteps[pc] = s
    BY <2>1 DEF At
  <2>4. QED
    BY <1>1, <1>4, <2>2, <2>3 DEF DevSteps
<1>5. CASE mode = "daemon"
  <2>1. Steps[mode] = DaemonSteps
    BY <1>5 DEF Steps
  <2>2. Finished <=> pc > 3
    BY <1>1, <2>1 DEF Finished, DaemonSteps
  <2>3. \A s : At(s) <=> Running /\ ~Finished /\ DaemonSteps[pc] = s
    BY <2>1 DEF At
  <2>4. QED
    BY <1>1, <1>5, <2>2, <2>3 DEF DaemonSteps
<1>6. QED
  BY <1>1, <1>2, <1>3, <1>4, <1>5

(* A step of a command is taken while it runs, and there are eight at most.  *)
LEMMA StepsEnd ==
  ASSUME Types, NEW s, At(s)
  PROVE  Running /\ ~Finished /\ pc + 1 \in 1..9
<1>1. Running /\ ~Finished
  BY DEF At
<1>2. pc <= 8 /\ pc \in 1..9
  BY <1>1, Places DEF Types, TypeOK
<1>3. QED
  BY <1>1, <1>2

(* What a Teardown, the browser and the developer do beside the command.     *)
Around ==
  /\ UNCHANGED <<pc, output, built, ran, failure, cause, exit>>
  /\ at["main"] = "idle" => at'["main"] = "idle"
  /\ \A t \in Teardowns : at[t] # "idle" => at'[t] # "idle"

Elsewhere ==
  \/ PageOpens \/ PageLeaves \/ ViewerComes \/ ViewerLeaves \/ Watching
  \/ \E i \in Interrupts : Interrupt(i)
  \/ \E t \in Teardowns : \/ CloseWatcher(t) \/ CloseLink(t) \/ CloseProxy(t)
                          \/ ProxyClosed(t) \/ Shutdown(t) \/ ServerClosed(t)

LEMMA GoesOn ==
  ASSUME Types, NEW t \in Teardowns, NEW from, NEW to, Goes(t, from, to),
         from # "idle", to # "idle"
  PROVE  /\ at["main"] = "idle" => at'["main"] = "idle"
         /\ \A u \in Teardowns : at[u] # "idle" => at'[u] # "idle"
  BY DEF Goes, Types, TypeOK, Teardowns

LEMMA ElsewhereIsAround == Types /\ Elsewhere => Around
<1> SUFFICES ASSUME Types, Elsewhere PROVE Around
  OBVIOUS
<1> USE DEF Around, outcomeVars, hostVars
<1>1. CASE PageOpens \/ PageLeaves \/ ViewerComes \/ ViewerLeaves \/ Watching
  BY <1>1 DEF PageOpens, PageLeaves, ViewerComes, ViewerLeaves, Watching
<1>2. ASSUME NEW i \in Interrupts, Interrupt(i)
      PROVE  Around
  BY <1>2, OneShotAssumption DEF Interrupt, Types, TypeOK, Teardowns
<1>3. ASSUME NEW t \in Teardowns, CloseProxy(t) \/ Shutdown(t)
      PROVE  Around
  BY <1>3 DEF CloseProxy, Shutdown
<1>4. ASSUME NEW t \in Teardowns, NEW from, NEW to, from # "idle", to # "idle",
             Goes(t, from, to), UNCHANGED <<pc, output, built, ran, failure, cause, exit>>
      PROVE  Around
  BY <1>4, GoesOn
<1>5. ASSUME NEW t \in Teardowns, CloseWatcher(t) \/ CloseLink(t)
      PROVE  Around
  BY <1>4, <1>5 DEF CloseWatcher, CloseLink
<1>6. ASSUME NEW t \in Teardowns, ProxyClosed(t) \/ ServerClosed(t)
      PROVE  Around
  BY <1>4, <1>6 DEF ProxyClosed, ServerClosed
<1>7. QED
  BY <1>1, <1>2, <1>3, <1>5, <1>6 DEF Elsewhere

(* What the command itself does, as far as the outcome goes: most steps say  *)
(* nothing of it, four make the artifacts, and the command may end, by what   *)
(* it is through with, by what it throws, or on the spot.                   *)
Quiet == {"server", "launch", "mount", "manager", "install", "connect", "spawn", "ready", "serve"}
QuietStep(s) ==
  /\ At(s) /\ Next1
  /\ UNCHANGED <<output, built, failure, cause, at, exit>>
Dies ==
  /\ exit = None
  /\ exit' = 3 /\ cause' \in {"untagged", "uncaught"}
  /\ UNCHANGED <<watchVars, invocation, pc, cached, hostVars, output, built, ran, failure, at>>

LEMMA DiesOf == CacheDirFails \/ Uncaught => Dies
<1>1. "untagged" \notin TAGS
  BY DEF TAGS, Schema
<1>4. "untagged" \in Causes /\ Error("untagged") = Untagged /\ CodeFor("untagged") = 3
  BY <1>1 DEF Causes, Error, CodeFor
<1>2. exitCodeFor(Untagged) = 3
  BY <1>4, CaughtCode
<1>3. QED
  BY <1>2 DEF CacheDirFails, Uncaught, Dies, At, Running

Ways(t) == {Error(t), FromPage(Error(t)), FromDaemon(Error(t)), FromDaemon(FromPage(Error(t)))}

(* A failing step throws a failure of some cause, and the command catches    *)
(* what has become of it on its way.                                        *)
LEMMA FailuresAreCaught ==
  ASSUME HostFails \/ PageFails \/ DaemonFails
  PROVE  \E t \in Causes : \E e \in Ways(t) : Running /\ ~Finished /\ Throws(t, e)
<1>1. CASE HostFails
  <2>1. PICK s, t : t \in ThrownByHost(s) /\ At(s) /\ Throws(t, Error(t))
    BY <1>1 DEF HostFails
  <2>2. t \in Causes
    BY <2>1 DEF ThrownByHost, CommandTags, Causes, TAGS, Schema
  <2>3. Running /\ ~Finished /\ Error(t) \in Ways(t)
    BY <2>1 DEF At, Ways
  <2>4. QED
    BY <2>1, <2>2, <2>3
<1>2. CASE PageFails
  <2>1. PICK s, t : t \in ThrownByPage(s) /\ At(s) /\ Throws(t, FromPage(Error(t)))
    BY <1>2 DEF PageFails
  <2>2. t \in Causes
    BY <2>1 DEF ThrownByPage, Causes, TAGS, Schema
  <2>3. Running /\ ~Finished /\ FromPage(Error(t)) \in Ways(t)
    BY <2>1 DEF At, Ways
  <2>4. QED
    BY <2>1, <2>2, <2>3
<1>3. CASE DaemonFails
  <2>1. PICK t, e : /\ t \in ThrownInDaemon.daemon \cup ThrownInDaemon.page
                    /\ e \in {FromDaemon(Error(t)), FromDaemon(FromPage(Error(t)))}
                    /\ At("ask") /\ Throws(t, e)
    BY <1>3 DEF DaemonFails
  <2>2. t \in Causes
    BY <2>1 DEF ThrownInDaemon, Causes, TAGS, Schema
  <2>3. Running /\ ~Finished /\ e \in Ways(t)
    BY <2>1 DEF At, Ways
  <2>4. QED
    BY <2>1, <2>2, <2>3
<1>4. QED
  BY <1>1, <1>2, <1>3

LEMMA WhatHappens ==
  ASSUME Types, [Next]_vars
  PROVE  /\ invocation' = invocation
         /\ \/ \E s \in Quiet : QuietStep(s)
            \/ Build \/ Prepare \/ Upload \/ DaemonBuilds \/ Dies \/ Succeed
            \/ \E t \in Causes : \E e \in Ways(t) : Running /\ ~Finished /\ Throws(t, e)
            \/ Around
            \/ \E t \in Teardowns : Exit(t)
<1> USE DEF hostVars, outcomeVars, Quiet, QuietStep
<1>1. CASE StartServer \/ Launch \/ AskManager \/ SkipInstall \/ Connect
           \/ SpawnServer \/ ServerReady \/ Serve \/ Mount \/ Install
  BY <1>1 DEF StartServer, Launch, AskManager, SkipInstall, Connect, SpawnServer,
     ServerReady, Serve, Mount, Install, Passed
<1>2. CASE CacheDirFails \/ Uncaught
  BY <1>2, DiesOf DEF Dies
<1>3. CASE Build \/ Prepare \/ Upload \/ DaemonBuilds \/ Succeed
  BY <1>3 DEF Build, Prepare, Upload, DaemonBuilds, Succeed
<1>4. CASE HostFails \/ PageFails \/ DaemonFails
  BY <1>4, FailuresAreCaught DEF Throws
<1>7. CASE Elsewhere
  <2>1. Around
    BY <1>7, ElsewhereIsAround
  <2>2. invocation' = invocation
    BY <1>7 DEF Elsewhere, PageOpens, PageLeaves, ViewerComes, ViewerLeaves, Watching,
       Interrupt, CloseWatcher, CloseLink, CloseProxy, ProxyClosed, Shutdown, ServerClosed
  <2>3. QED
    BY <2>1, <2>2
<1>8. CASE \E t \in Teardowns : Exit(t)
  BY <1>8 DEF Exit
<1>9. CASE UNCHANGED vars
  BY <1>9 DEF vars, Around
<1>10. QED
  BY <1>1, <1>2, <1>3, <1>4, <1>7, <1>8, <1>9
     DEF Next, Step, Elsewhere, Teardown

(* Initially nothing has been done. *)
LEMMA TypesInit == Init => Types
<1> SUFFICES ASSUME Init PROVE Types
  OBVIOUS
<1> USE OneShotAssumption, DevWatchAssumption
<1>1. WatchTypes
  <2>1. WatchInit /\ <<>> \in Seq(Writes)
    BY DEF Init
  <2>2. disk \in [Files -> 0..1] /\ noticed \in [Files -> 0..1] /\ edits = 1
    BY <2>1 DEF WatchInit, Absent
  <2>3. mirror \in [Files -> Contents] /\ 1 \in 1..(MaxEdits + 1)
    BY <2>1 DEF WatchInit, Absent, Contents, Mangled
  <2>4. QED
    BY <2>1, <2>2, <2>3 DEF WatchInit, WatchTypes
<1>2. TypeOK
  <2>1. /\ pc = 1 /\ cached = FALSE /\ link = "none" /\ server = "none" /\ sockets = {}
        /\ proxy = "none" /\ viewer = FALSE /\ output = "previous" /\ built = FALSE /\ ran = {}
        /\ failure = None /\ exit = None /\ at = [t \in Teardowns |-> "idle"]
    BY DEF Init
  <2>2. pc \in 1..9 /\ sockets \subseteq {"stream", "idle"}
    BY <2>1
  <2>6. cached \in BOOLEAN /\ viewer \in BOOLEAN /\ built \in BOOLEAN
    BY <2>1, Zenon
  <2>3. ran \subseteq [manager : Managers, major : Majors \cup {NoManager}]
    BY <2>1
  <2>4. at \in [Teardowns -> {"idle", "watcher", "link", "proxy", "server", "exit"}]
    BY <2>1
  <2>5. QED
    BY <2>1, <2>2, <2>3, <2>4, <2>6 DEF TypeOK
<1>3. invocation \in [command : Commands, noInstall : BOOLEAN, cache : BOOLEAN,
                      project : ProjectsTried]
  BY DEF Init
<1>4. QED
  BY <1>1, <1>2, <1>3 DEF Types

(* The watcher's variables keep their types. *)
LEMMA WatchTypesStep == Types /\ [Next]_vars => WatchTypes'
<1> SUFFICES ASSUME Types, [Next]_vars PROVE WatchTypes'
  OBVIOUS
<1> USE OneShotAssumption, DevWatchAssumption
        DEF WatchTypes, Contents, Mangled, Absent, watchVars
<1>t. WatchTypes
  BY DEF Types
<1>0. ASSUME UNCHANGED watchVars PROVE WatchTypes'
  BY <1>0, <1>t
<1>1. CASE Mount
  <2>1. CASE MountAll
    BY <2>1, <1>t DEF MountAll
  <2>2. QED
    BY <2>1, <1>0, <1>1 DEF Mount
<1>2. CASE Watching
  <2>1. ASSUME NEW f \in Files, Edit(f)
        PROVE  WatchTypes'
    <3>1. PICK v \in {edits + 1, Absent} : disk' = [disk EXCEPT ![f] = v]
      BY <2>1 DEF Edit
    <3>2. edits' \in 1..(MaxEdits + 1) /\ edits' = edits + 1 /\ v \in 0..edits'
      BY <2>1, <3>1, <1>t DEF Edit
    <3>3. /\ disk' \in [Files -> 0..edits'] /\ noticed' \in [Files -> 0..edits']
          /\ UNCHANGED <<mirror, watching, handlers, pushed>>
      BY <2>1, <3>1, <3>2, <1>t DEF Edit
    <3>4. QED
      BY <3>2, <3>3, <1>t
  <2>2. CASE Watch
    BY <2>2, <1>t DEF Watch
  <2>3. ASSUME NEW f \in Files, Notice(f)
        PROVE  WatchTypes'
    <3>1. disk[f] \in 0..edits /\ edits \in 1..(MaxEdits + 1) /\ disk[f] \in Contents
      BY <1>t
    <3>2. noticed' = [noticed EXCEPT ![f] = disk[f]] /\ noticed' \in [Files -> 0..edits]
      BY <2>3, <3>1, <1>t DEF Notice
    <3>3. noticed'[f] = disk[f]
      BY <3>2, <1>t
    <3>4. Handler(f, NoRead) \in Handlers
      BY <3>1, <3>3 DEF Handler, Handlers
    <3>5. Append(pushed, [file |-> f, content |-> Absent]) \in Seq(Writes)
      <4>1. [file |-> f, content |-> Absent] \in Writes
        BY DEF Writes
      <4>2. QED
        BY <4>1, <1>t
    <3>6. QED
      BY <2>3, <3>2, <3>4, <3>5, <1>t DEF Notice, RemoveFromRuntime, Push
  <2>4. ASSUME NEW h \in handlers, ReadFile(h)
        PROVE  WatchTypes'
    <3>1. h \in Handlers /\ disk[h.file] \in Contents
      BY <1>t DEF Handlers
    <3>2. [h EXCEPT !.got = disk[h.file]] \in Handlers
      BY <3>1 DEF Handlers
    <3>3. QED
      BY <2>4, <3>2, <1>t DEF ReadFile
  <2>5. ASSUME NEW h \in handlers, WriteToRuntime(h)
        PROVE  WatchTypes'
    <3>1. h \in Handlers /\ h.got \in Contents
      BY <2>5, <1>t DEF WriteToRuntime, Handlers
    <3> DEFINE w == [file |-> h.file, content |-> IF h.file \in Binary THEN Mangled ELSE h.got]
    <3>2. w \in Writes
      BY <3>1 DEF Handlers, Writes
    <3>3. pushed' = Append(pushed, w)
      BY <2>5 DEF WriteToRuntime, Push
    <3> HIDE DEF w
    <3>4. pushed' \in Seq(Writes)
      BY <3>2, <3>3, <1>t
    <3>5. QED
      BY <2>5, <3>4, <1>t DEF WriteToRuntime
  <2>6. CASE Apply
    <3>1. Head(pushed) \in Writes /\ Tail(pushed) \in Seq(Writes)
      BY <2>6, <1>t DEF Apply
    <3>2. mirror' \in [Files -> Contents]
      BY <2>6, <3>1, <1>t DEF Apply, Writes
    <3>3. QED
      BY <2>6, <3>1, <3>2, <1>t DEF Apply
  <2>7. QED
    BY <1>2, <2>1, <2>2, <2>3, <2>4, <2>5, <2>6 DEF Watching
<1>3. ASSUME NEW t \in Teardowns, CloseWatcher(t)
      PROVE  WatchTypes'
  BY <1>3, <1>t DEF CloseWatcher, Unwatch
<1>4. ASSUME NEW t \in Teardowns, CloseLink(t)
      PROVE  WatchTypes'
  <2>1. <<>> \in Seq(Writes)
    OBVIOUS
  <2>2. QED
    BY <1>4, <2>1, <1>t DEF CloseLink, CutOff
<1>5. ASSUME NEW t \in Teardowns, CloseProxy(t) \/ ProxyClosed(t) \/ Shutdown(t)
                                  \/ ServerClosed(t) \/ Exit(t)
      PROVE  UNCHANGED watchVars
  BY <1>5 DEF CloseProxy, ProxyClosed, Shutdown, ServerClosed, Exit
<1>6. CASE \/ StartServer \/ Launch \/ AskManager \/ Install \/ SkipInstall \/ Build \/ Prepare
           \/ Upload \/ SpawnServer \/ ServerReady \/ Serve \/ Connect \/ DaemonBuilds \/ Succeed
  BY <1>0, <1>6 DEF StartServer, Launch, AskManager, Install, SkipInstall, Build, Prepare,
     Upload, SpawnServer, ServerReady, Serve, Connect, DaemonBuilds, Succeed, Passed
<1>7. CASE HostFails \/ PageFails \/ DaemonFails
  BY <1>0, <1>7 DEF HostFails, PageFails, DaemonFails, Throws
<1>10. CASE CacheDirFails \/ Uncaught
  BY <1>0, <1>10, DiesOf DEF Dies
<1>8. CASE \/ PageOpens \/ PageLeaves \/ ViewerComes \/ ViewerLeaves \/ UNCHANGED vars
           \/ \E i \in Interrupts : Interrupt(i)
  BY <1>0, <1>8 DEF PageOpens, PageLeaves, ViewerComes, ViewerLeaves, Interrupt, vars
<1>9. QED
  BY <1>0, <1>1, <1>2, <1>3, <1>4, <1>5, <1>6, <1>7, <1>8, <1>10 DEF Next, Step, Teardown

(* A command and its project are of those tried, and a runtime ships what it *)
(* does.                                                                     *)
LEMMA ManagersRun ==
  ASSUME Types
  PROVE  /\ Installer \in [manager : Managers, major : Majors \cup {NoManager}]
         /\ WhatRuns(Choice, Shipped) \in [manager : Managers, major : Majors \cup {NoManager}]
<1>1. project \in Projects /\ Shipped \in [Managers -> Majors \cup {NoManager}]
  BY OneShotAssumption DEF Types, project
<1>2. /\ Choice.manager \in Managers
      /\ WhatRuns(Choice, Shipped) \in [manager : Managers, major : Majors \cup {NoManager}]
  BY <1>1, RunsAManager DEF Choice
<1>3. \A m \in Managers : AsShipped(m) \in [manager : Managers, major : Majors \cup {NoManager}]
  BY <1>1 DEF AsShipped
<1>4. QED
  BY <1>2, <1>3 DEF Installer, Managers

(* Every step keeps the types. *)
LEMMA TypeOKStep == Types /\ [Next]_vars => TypeOK'
<1> SUFFICES ASSUME Types, [Next]_vars PROVE TypeOK'
  OBVIOUS
<1> USE OneShotAssumption DEF TypeOK, hostVars, outcomeVars
<1>t. TypeOK /\ "main" \in Teardowns /\ Interrupts \subseteq Teardowns
  BY DEF Types, Teardowns
<1>1. ASSUME NEW s, At(s), pc' \in {pc, pc + 1},
             UNCHANGED <<link, server, sockets, proxy, viewer, failure, at, exit>>,
             cached' \in BOOLEAN, built' \in BOOLEAN,
             output' \in {output, "empty", "partial", "complete"},
             ran' \subseteq ran \cup {Installer, WhatRuns(Choice, Shipped)}
      PROVE  TypeOK'
  BY <1>1, <1>t, StepsEnd, ManagersRun
<1>2. CASE StartServer
  <2>1. pc' \in 1..9
    BY <1>2, StepsEnd DEF StartServer, Next1
  <2>2. cached' \in BOOLEAN
    BY <1>2 DEF StartServer, Types
  <2>3. QED
    BY <1>2, <2>1, <2>2, <1>t DEF StartServer
<1>3. CASE Launch \/ AskManager \/ SkipInstall \/ Connect \/ SpawnServer \/ ServerReady \/ Mount
  BY <1>1, <1>3, <1>t DEF Launch, AskManager, SkipInstall, Connect, SpawnServer, ServerReady,
     Mount, Passed, Next1
<1>4. CASE Install
  BY <1>1, <1>4, <1>t DEF Install, Next1
<1>21. CASE Build
  <2>1. built' \in BOOLEAN
    BY <1>21, Zenon DEF Build
  <2>2. QED
    BY <1>1, <1>21, <2>1, <1>t DEF Build, Next1
<1>16. CASE Prepare
  BY <1>1, <1>16, <1>t DEF Prepare, Next1
<1>20. CASE Upload
  <2>1. pc' \in {pc, pc + 1} /\ output' \in {"partial", "complete"}
    BY <1>20 DEF Upload, Next1
  <2>2. QED
    BY <1>1, <1>20, <2>1, <1>t DEF Upload
<1>19. CASE DaemonBuilds
  <2>1. pc' \in {pc, pc + 1} /\ built' \in BOOLEAN /\ output' \in {"partial", "complete"}
    BY <1>19 DEF DaemonBuilds, Next1
  <2>2. QED
    BY <1>1, <1>19, <2>1, <1>t DEF DaemonBuilds
<1>5. CASE Serve
  <2>1. pc' \in 1..9
    BY <1>5, StepsEnd DEF Serve, Next1
  <2>2. QED
    BY <1>5, <2>1, <1>t DEF Serve
<1>22. CASE CacheDirFails \/ Uncaught
  <2>1. /\ exit' = 3
        /\ UNCHANGED <<pc, cached, link, server, sockets, proxy, viewer, output, built, ran,
                       failure, at>>
    BY <1>22, DiesOf DEF Dies
  <2>2. QED
    BY <2>1, <1>t
<1>6. CASE Succeed
  BY <1>6, <1>t DEF Succeed
<1>7. CASE HostFails \/ PageFails \/ DaemonFails
  <2>1. PICK t \in Causes : \E e \in Ways(t) : Throws(t, e)
    BY <1>7, FailuresAreCaught
  <2>0. PICK e \in Ways(t) : Throws(t, e)
    BY <2>1
  <2>2. isWcError(e) \/ e = Untagged
    BY CaughtCode DEF Ways
  <2>3. QED
    BY <2>0, <2>2, <1>t DEF Throws
<1>8. CASE PageOpens \/ PageLeaves
  <2>1. sockets' \subseteq {"stream", "idle"}
    BY <1>8 DEF PageOpens, PageLeaves
  <2>2. QED
    BY <1>8, <2>1, <1>t DEF PageOpens, PageLeaves
<1>17. CASE ViewerComes \/ ViewerLeaves
  <2>1. viewer' \in BOOLEAN
    BY <1>17, Zenon DEF ViewerComes, ViewerLeaves
  <2>2. UNCHANGED <<pc, cached, link, server, sockets, proxy, output, built, ran, failure,
                    at, exit>>
    BY <1>17 DEF ViewerComes, ViewerLeaves
  <2>3. QED
    BY <2>1, <2>2, <1>t
<1>18. CASE Watching
  <2>1. UNCHANGED <<pc, cached, link, server, sockets, proxy, viewer, output, built, ran,
                    failure, at, exit>>
    BY <1>18 DEF Watching
  <2>2. QED
    BY <2>1, <1>t
<1>9. ASSUME NEW i \in Interrupts, Interrupt(i)
      PROVE  TypeOK'
  BY <1>9, <1>t DEF Interrupt
<1>10. ASSUME NEW t \in Teardowns, CloseWatcher(t) \/ CloseLink(t)
       PROVE  TypeOK'
  <2>1. CASE CloseWatcher(t)
    BY <2>1, <1>t DEF CloseWatcher, Goes
  <2>2. CASE CloseLink(t)
    <3>1. at' = [at EXCEPT ![t] = "proxy"] /\ sockets' \subseteq sockets
      BY <2>2 DEF CloseLink, Goes
    <3>2. QED
      BY <2>2, <3>1, <1>t DEF CloseLink
  <2>3. QED
    BY <1>10, <2>1, <2>2
<1>11. ASSUME NEW t \in Teardowns, CloseProxy(t) \/ ProxyClosed(t)
       PROVE  TypeOK'
  <2>1. CASE CloseProxy(t)
    BY <2>1, <1>t DEF CloseProxy
  <2>2. CASE ProxyClosed(t)
    BY <2>2, <1>t DEF ProxyClosed, Goes
  <2>3. QED
    BY <1>11, <2>1, <2>2
<1>12. ASSUME NEW t \in Teardowns, Shutdown(t) \/ ServerClosed(t)
       PROVE  TypeOK'
  <2>1. CASE Shutdown(t)
    BY <2>1, <1>t DEF Shutdown, SocketsClosed
  <2>2. CASE ServerClosed(t)
    BY <2>2, <1>t DEF ServerClosed, Goes
  <2>3. QED
    BY <1>12, <2>1, <2>2
<1>13. ASSUME NEW t \in Teardowns, Exit(t)
       PROVE  TypeOK'
  <2>1. exitCode(t) \in {0, 1, 2, 3, 130}
    BY DEF exitCode, exitCodeFor
  <2>2. QED
    BY <1>13, <2>1, <1>t DEF Exit
<1>14. CASE UNCHANGED vars
  BY <1>14, <1>t DEF vars
<1>15. QED
  BY <1>2, <1>3, <1>4, <1>5, <1>6, <1>7, <1>8, <1>9, <1>10, <1>11, <1>12, <1>13, <1>14, <1>16,
     <1>17, <1>18, <1>19, <1>20, <1>21, <1>22 DEF Next, Step, Teardown

(* Commands, teardowns, sockets, outcome, watcher and runtime have their     *)
(* types after every step, whatever fails and however often Ctrl-C is        *)
(* pressed.                                                                  *)
THEOREM ProcessTypeCorrect == Spec => []Types
<1>1. Types /\ [Next]_vars => Types'
  <2> SUFFICES ASSUME Types, [Next]_vars PROVE Types'
    OBVIOUS
  <2>1. invocation' = invocation
    BY WhatHappens
  <2>2. QED
    BY <2>1, TypeOKStep, WatchTypesStep DEF Types
<1>2. QED
  BY TypesInit, <1>1, PTL DEF Spec

-----------------------------------------------------------------------------
(* The output directory and the exit code.                                  *)

(* A build has succeeded by the time the output directory is touched, and a  *)
(* build that is over has filled it.                                        *)
Progress ==
  /\ mode = "build" /\ pc > 6 => built
  /\ FailedBuildKeepsOutput
  /\ mode \in {"build", "daemon"} /\ Finished => built /\ output = "complete"

(* A failure is remembered with the code of its cause, and the command only  *)
(* goes down without one when it is through, which `dev` never is.          *)
Outcome ==
  /\ exit = None => (failure = None <=> cause = None)
  /\ exit = None /\ failure # None => exitCodeFor(failure) = CodeFor(cause)
  /\ failure # None => at["main"] # "idle"
  /\ at["main"] # "idle" /\ failure = None => mode # "dev" /\ Finished
  /\ ExitCodeIsTruthful

LEMMA OutcomeInit == Init => Progress /\ Outcome
<1> SUFFICES ASSUME Init PROVE Progress /\ Outcome
  OBVIOUS
<1>1. Types
  BY TypesInit
<1>2. /\ pc = 1 /\ built = FALSE /\ output = "previous" /\ failure = None /\ cause = None
      /\ exit = None /\ at["main"] = "idle"
  BY DEF Init, Teardowns
<1>3. ~Finished
  BY <1>1, <1>2, Places
<1>4. None \notin {0, 1, 2, 3, 130}
  BY OneShotAssumption
<1>5. ExitCodeIsTruthful
  BY <1>2, <1>4 DEF ExitCodeIsTruthful
<1>6. QED
  BY <1>2, <1>3, <1>5 DEF Progress, Outcome, FailedBuildKeepsOutput

(* The build succeeds before the output directory is emptied, and is not     *)
(* over before the last file has arrived.                                   *)
LEMMA ProgressStep == Types /\ Progress /\ Types' /\ [Next]_vars => Progress'
<1> SUFFICES ASSUME Types, Progress, Types', [Next]_vars PROVE Progress'
  OBVIOUS
<1> USE DEF Progress, FailedBuildKeepsOutput
<1>t. pc \in Nat /\ invocation' = invocation /\ mode' = mode
  BY WhatHappens DEF Types, TypeOK, mode
<1>0. ASSUME UNCHANGED <<pc, built, output>> PROVE Progress'
  BY <1>0, <1>t DEF Finished
<1>f. /\ Finished <=> \/ mode \in {"build", "dev"} /\ pc > 8
                      \/ mode = "install" /\ pc > 4
                      \/ mode = "daemon" /\ pc > 3
      /\ Finished' <=> \/ mode \in {"build", "dev"} /\ pc' > 8
                       \/ mode = "install" /\ pc' > 4
                       \/ mode = "daemon" /\ pc' > 3
  <2>1. Finished' = (pc' > Len(Steps[mode]))
    BY <1>t DEF Finished
  <2>2. mode \in {"build", "install", "dev", "daemon"} /\ pc \in Nat /\ pc' \in Nat
    BY Places DEF Types, TypeOK
  <2>3. /\ Len(Steps["build"]) = 8 /\ Len(Steps["dev"]) = 8
        /\ Len(Steps["install"]) = 4 /\ Len(Steps["daemon"]) = 3
    BY DEF Steps, BuildSteps, DevSteps, InstallSteps, DaemonSteps
  <2>4. QED
    BY <2>1, <2>2, <2>3 DEF Finished
<1>1. ASSUME NEW s \in Quiet, QuietStep(s)
      PROVE  Progress'
  <2>1. At(s) /\ pc' = pc + 1 /\ UNCHANGED <<built, output>>
    BY <1>1 DEF QuietStep, Next1
  <2>2. mode = "build" => pc \notin {6, 7, 8}
    BY <2>1, Places DEF Quiet
  <2>3. mode = "daemon" => pc # 3
    BY <2>1, Places DEF Quiet
  <2>4. QED
    BY <2>1, <2>2, <2>3, <1>t, <1>f
<1>2. CASE Build
  <2>1. mode = "build" /\ pc = 6 /\ pc' = pc + 1 /\ built' /\ output' = output
    BY <1>2, Places DEF Build, Next1
  <2>2. QED
    BY <2>1, <1>t, <1>f
<1>3. CASE Prepare
  <2>1. /\ At("prepare") /\ pc' = pc + 1 /\ built' = built
    BY <1>3 DEF Prepare, Next1
  <2>2. \/ mode = "build" /\ pc = 7
        \/ mode = "daemon" /\ pc = 2
    BY <2>1, Places
  <2>3. QED
    BY <2>1, <2>2, <1>t, <1>f
<1>4. CASE Upload
  <2>1. /\ mode = "build" /\ pc = 8 /\ built' = built
        /\ \/ pc' = pc
           \/ pc' = pc + 1 /\ output' = "complete"
    BY <1>4, Places DEF Upload, Next1
  <2>2. QED
    BY <2>1, <1>t, <1>f
<1>5. CASE DaemonBuilds
  <2>1. /\ mode = "daemon" /\ pc = 3 /\ built'
        /\ \/ pc' = pc
           \/ pc' = pc + 1 /\ output' = "complete"
    BY <1>5, Places DEF DaemonBuilds, Next1
  <2>2. QED
    BY <2>1, <1>t, <1>f
<1>6. CASE Dies \/ Succeed \/ Around \/ \E t \in Teardowns : Exit(t)
  BY <1>0, <1>6 DEF Dies, Succeed, Around, Exit, outcomeVars
<1>7. ASSUME NEW t \in Causes, NEW e \in Ways(t), Throws(t, e)
      PROVE  Progress'
  BY <1>0, <1>7 DEF Throws
<1>8. QED
  BY <1>1, <1>2, <1>3, <1>4, <1>5, <1>6, <1>7, WhatHappens

(* A process that has exited does nothing more. *)
LEMMA ExitIsFinal == exit # None /\ [Next]_vars => UNCHANGED vars
<1> SUFFICES ASSUME exit # None, Next PROVE FALSE
  OBVIOUS
<1>1. ~Running /\ \A s : ~At(s)
  BY DEF Running, At
<1>2. ~Step
  BY <1>1, FailuresAreCaught DEF Step, StartServer, Launch, Mount, AskManager, Install, SkipInstall,
     Build, Prepare, Upload, SpawnServer, ServerReady, Serve, Connect, DaemonBuilds, Succeed
<1>3. ~PageOpens /\ ~PageLeaves /\ ~ViewerComes /\ ~ViewerLeaves /\ ~Watching
  BY DEF PageOpens, PageLeaves, ViewerComes, ViewerLeaves, Watching
<1>4. \A i \in Interrupts : ~Interrupt(i)
  BY DEF Interrupt
<1>5. \A t \in Teardowns : ~Teardown(t)
  BY DEF Teardown, Goes, CloseWatcher, CloseLink, CloseProxy, ProxyClosed, Shutdown,
     ServerClosed, Exit
<1>6. ~CacheDirFails /\ ~Uncaught
  BY DiesOf DEF Dies
<1>7. QED
  BY <1>2, <1>3, <1>4, <1>5, <1>6 DEF Next

(* Whoever ends the process, the code is that of what has happened.          *)
LEMMA OutcomeStep == Types /\ Progress /\ Outcome /\ Types' /\ [Next]_vars => Outcome'
<1> SUFFICES ASSUME Types, Progress, Outcome, Types', [Next]_vars PROVE Outcome'
  OBVIOUS
<1> USE DEF Outcome, ExitCodeIsTruthful
<1>t. /\ pc \in Nat /\ invocation' = invocation /\ mode' = mode /\ "main" \in Teardowns
      /\ at \in [Teardowns -> {"idle", "watcher", "link", "proxy", "server", "exit"}]
      /\ None \notin {0, 1, 2, 3, 130} /\ Interrupts \subseteq Teardowns /\ "main" \notin Interrupts
  BY WhatHappens, OneShotAssumption DEF Types, TypeOK, mode, Teardowns
<1>u. CASE exit # None
  <2>1. UNCHANGED vars
    BY <1>u, ExitIsFinal
  <2>2. QED
    BY <2>1, <1>t DEF vars, outcomeVars, Finished, Interrupted
<1> SUFFICES ASSUME exit = None PROVE Outcome'
  BY <1>u
<1>n. exit = None
  OBVIOUS
<1>r. Running => exit = None /\ at["main"] = "idle" /\ failure = None /\ cause = None
  BY DEF Running
<1>0. ASSUME Running, UNCHANGED <<failure, cause, at, exit>> PROVE Outcome'
  BY <1>0, <1>r, <1>t
<1>1. CASE (\E s \in Quiet : QuietStep(s)) \/ Build \/ Prepare \/ Upload \/ DaemonBuilds
  BY <1>0, <1>1 DEF QuietStep, Build, Prepare, Upload, DaemonBuilds, At
<1>2. CASE Dies
  <2>1. exit' = 3 /\ cause' \in {"untagged", "uncaught"} /\ UNCHANGED <<pc, failure, at>>
    BY <1>2 DEF Dies
  <2>2. cause' # None /\ CodeFor(cause') = 3
    BY <2>1, OneShotAssumption DEF CodeFor
  <2>3. Finished' <=> Finished
    BY <2>1, <1>t DEF Finished
  <2>4. QED
    BY <2>1, <2>2, <2>3, <1>t
<1>3. CASE Succeed
  <2>1. /\ Running /\ Finished /\ mode # "dev" /\ UNCHANGED <<pc, failure, cause, exit>>
        /\ Finished'
    BY <1>3, <1>t DEF Succeed, outcomeVars, Finished
  <2>2. QED
    BY <2>1, <1>r, <1>t
<1>4. ASSUME NEW t \in Causes, NEW e \in Ways(t), Running, Throws(t, e)
      PROVE  Outcome'
  <2>1. failure' = e /\ cause' = t /\ exit' = exit
    BY <1>4 DEF Throws
  <2>2. exitCodeFor(e) = CodeFor(t) /\ e # None
    BY CaughtCode DEF Ways
  <2>3. t # None
    BY OneShotAssumption DEF Causes
  <2>4. at'["main"] # "idle"
    BY <1>4, <1>t DEF Throws
  <2>5. exit' = None
    BY <1>r, <1>4, <2>1
  <2>6. QED
    BY <2>1, <2>2, <2>3, <2>4, <2>5, <1>t
<1>5. CASE Around
  <2>1. Finished' <=> Finished
    BY <1>5, <1>t DEF Around, Finished
  <2>2. Interrupted => Interrupted'
    BY <1>5, <1>t DEF Around, Interrupted
  <2>3. at["main"] # "idle" <=> at'["main"] # "idle"
    BY <1>5, <1>t DEF Around
  <2>4. exit' = None
    BY <1>5, <1>n DEF Around
  <2>5. QED
    BY <1>5, <1>t, <2>1, <2>3, <2>4 DEF Around
<1>6. ASSUME NEW t \in Teardowns, Exit(t)
      PROVE  Outcome'
  <2>1. /\ exit = None /\ at[t] = "exit" /\ exit' = exitCode(t)
        /\ UNCHANGED <<pc, at, output, built, failure, cause>>
    BY <1>6 DEF Exit, outcomeVars
  <2>2. (Finished' <=> Finished) /\ (Interrupted' <=> Interrupted)
    BY <2>1, <1>t DEF Finished, Interrupted
  <2>3. CASE t \in Interrupts
    <3>1. Interrupted
      BY <2>1, <2>3 DEF Interrupted
    <3>2. exit' = IF mode = "dev" THEN 0 ELSE 130
      BY <2>1, <2>3 DEF exitCode
    <3>3. QED
      BY <2>1, <2>2, <3>1, <3>2, <1>t
  <2>4. CASE t \notin Interrupts /\ failure = None
    <3>1. t = "main" /\ exit' = 0 /\ mode # "dev" /\ Finished /\ cause = None
      BY <2>1, <2>4 DEF exitCode, Teardowns
    <3>2. mode # "install" => mode \in {"build", "daemon"}
      BY <3>1, Places
    <3>3. QED
      BY <2>1, <2>2, <2>4, <3>1, <3>2, <1>t DEF Progress
  <2>5. CASE t \notin Interrupts /\ failure # None
    <3>1. exit' = CodeFor(cause) /\ CodeFor(cause) \in 1..3 /\ cause # None
      BY <2>1, <2>5 DEF exitCode, CodeFor
    <3>2. QED
      BY <2>1, <2>2, <2>5, <3>1, <1>t
  <2>6. QED
    BY <2>3, <2>4, <2>5
<1>7. QED
  BY <1>1, <1>2, <1>3, <1>4, <1>5, <1>6, WhatHappens

OutcomeInv == Types /\ Progress /\ Outcome

(* The invariant of the outcome holds throughout. *)
LEMMA OutcomeInvariant == Spec => []OutcomeInv
<1>1. Init => OutcomeInv
  BY TypesInit, OutcomeInit DEF OutcomeInv
<1>2. OutcomeInv /\ Types' /\ [Next]_vars => OutcomeInv'
  BY ProgressStep, OutcomeStep DEF OutcomeInv
<1>3. QED
  BY <1>1, <1>2, ProcessTypeCorrect, PTL DEF Spec

(* The exit code tells what happened, for any number of Ctrl-Cs and whatever *)
(* strings and numbers a failure carries through the transports it crosses.  *)
THEOREM ExitCodeHolds == Spec => []ExitCodeIsTruthful
<1>1. OutcomeInv => ExitCodeIsTruthful
  BY DEF OutcomeInv, Outcome
<1>2. QED
  BY <1>1, OutcomeInvariant, PTL

(* A one-shot build that fails or is interrupted before its build command    *)
(* has succeeded leaves the output directory alone.                         *)
THEOREM OutputIsKept == Spec => []FailedBuildKeepsOutput
<1>1. OutcomeInv => FailedBuildKeepsOutput
  BY DEF OutcomeInv, Progress
<1>2. QED
  BY <1>1, OutcomeInvariant, PTL

(* The manager and the version a project pins are what its build runs, in    *)
(* any project and on any runtime that tells which versions it ships.        *)
THEOREM DeclaredIsBuilt == Spec => []BuildsAsDeclared
<1>1. Init => BuildsAsDeclared
  BY DEF Init, BuildsAsDeclared
<1>2. Types /\ BuildsAsDeclared /\ [Next]_vars => BuildsAsDeclared'
  <2> SUFFICES ASSUME Types, BuildsAsDeclared, [Next]_vars PROVE BuildsAsDeclared'
    OBVIOUS
  <2>1. invocation' = invocation /\ mode' = mode /\ project' = project
    BY WhatHappens DEF mode, project
  <2>2. ran' = ran \/ Install \/ Build
    BY FailuresAreCaught DEF Next, Step, StartServer, Launch, Mount, AskManager, SkipInstall,
       Prepare, Upload, SpawnServer, ServerReady, Serve, Connect, DaemonBuilds, Succeed, Passed,
       Throws, PageOpens, PageLeaves, ViewerComes, ViewerLeaves, Watching, Interrupt, Teardown,
       CloseWatcher, CloseLink, CloseProxy, ProxyClosed, Shutdown, ServerClosed, Exit, vars,
       outcomeVars, CacheDirFails, Uncaught
  <2>3. mode = "build" => ran' \subseteq ran \cup {WhatRuns(Choice, Shipped)}
    BY <2>2 DEF Install, Build, Installer
  <2>4. project \in Projects /\ Shipped \in [Managers -> Majors \cup {NoManager}]
    BY OneShotAssumption DEF Types, project
  <2> DEFINE declared == FieldOf(project)
  <2>5. ASSUME parsePackageManagerField(declared) # NoManager, declared.major # NoManager,
               Shipped[declared.name] # NoManager
        PROVE  WhatRuns(Choice, Shipped) = [manager |-> declared.name, major |-> declared.major]
    BY <2>4, <2>5, PinnedRuns DEF Choice
  <2>6. QED
    BY <2>1, <2>3, <2>5 DEF BuildsAsDeclared
<1>3. QED
  BY <1>1, <1>2, ProcessTypeCorrect, PTL DEF Spec

-----------------------------------------------------------------------------
(* The runtime's copy of the sources under `dev`.                           *)

Plain == Files \ (Binary \cup InNewDir)
HandlersOf(f) == {h \in handlers : h.file = f}
PushesOf(f) == {i \in DOMAIN pushed : pushed[i].file = f}

(* What the runtime will hold once the calls under way are carried out. *)
WillHold(f, v) ==
  IF PushesOf(f) = {} THEN mirror[f] = v
  ELSE \E i \in PushesOf(f) : /\ pushed[i].content = v
                              /\ \A j \in PushesOf(f) : j <= i

(* The watcher has yet to report the file again. *)
Behind(f) == noticed[f] # Absent /\ noticed[f] # disk[f]

(* What is on its way to the runtime is what the watcher reported last, or   *)
(* it will report again.                                                    *)
Follows(f) ==
  /\ HandlersOf(f) = {} => Behind(f) \/ WillHold(f, noticed[f])
  /\ \A h \in HandlersOf(f) :
       /\ HandlersOf(f) = {h}
       /\ noticed[f] # Absent
       /\ h.got \in {NoRead, noticed[f]} \/ Behind(f)

(* Nothing is watched before `dev` is through its steps, and nothing again   *)
(* once it has been interrupted; until the watcher is ready the runtime has  *)
(* what was mounted, and then it follows.                                   *)
Mirrored ==
  /\ watching => mode = "dev" /\ Finished
  /\ mode = "dev" /\ at["main"] # "idle" => ~Finished
  /\ \A t \in Teardowns : at[t] \notin {"idle", "watcher"} => ~watching
  /\ ~watching /\ ~Interrupted =>
       /\ handlers = {} /\ pushed = <<>>
       /\ mode = "dev" /\ pc > 3 => \A f \in Plain \ unwatched : mirror[f] = disk[f]
  /\ watching => \A f \in Plain \ (unwatched \cup raced) : Follows(f)

(* An edit has a version of its own, or removes the file: either way the     *)
(* watcher falls behind, or stays there.                                    *)
LEMMA EditFollows ==
  ASSUME WatchTypes, NEW g \in Files, Edit(g), NEW f \in Plain, Follows(f)
  PROVE  Follows(f)'
<1>1. PICK v \in {edits + 1, Absent} \ {disk[g]} : disk' = [disk EXCEPT ![g] = v]
  BY DEF Edit
<1>2. UNCHANGED <<noticed, handlers, pushed, mirror>>
  BY DEF Edit
<1>3. Behind(f) => Behind(f)'
  <2>1. noticed[f] \in 0..edits /\ edits \in Nat /\ f \in Files
    BY DevWatchAssumption DEF WatchTypes, Plain
  <2>2. disk'[f] \in {disk[f], edits + 1, Absent}
    BY <1>1, <2>1 DEF WatchTypes
  <2>3. QED
    BY <1>2, <2>1, <2>2 DEF Behind, Absent
<1>4. HandlersOf(f)' = HandlersOf(f) /\ (WillHold(f, noticed[f]) <=> WillHold(f, noticed[f])')
  BY <1>2 DEF HandlersOf, PushesOf, WillHold
<1>5. QED
  BY <1>2, <1>3, <1>4 DEF Follows

(* A call put on its way is what the runtime will hold in the end. *)
LEMMA PushLands ==
  ASSUME WatchTypes, NEW g \in Files, NEW c \in Contents, Push(g, c)
  PROVE  /\ WillHold(g, c)'
         /\ \A f \in Files \ {g} : \A v : mirror' = mirror => (WillHold(f, v)' <=> WillHold(f, v))
<1> DEFINE w == [file |-> g, content |-> c]
           n == Len(pushed) + 1
<1>1. w \in Writes /\ pushed \in Seq(Writes) /\ pushed' = Append(pushed, w)
  BY DEF Writes, Push, WatchTypes
<1>2. /\ Len(pushed) \in Nat /\ DOMAIN pushed = 1..Len(pushed) /\ DOMAIN pushed' = 1..n
      /\ pushed'[n] = w /\ \A i \in 1..Len(pushed) : pushed'[i] = pushed[i]
  BY <1>1
<1>3. w.file = g /\ w.content = c
  OBVIOUS
<1> HIDE DEF w, n
<1>4. n \in PushesOf(g)' /\ \A j \in PushesOf(g)' : j <= n
  BY <1>2, <1>3 DEF PushesOf, n
<1>5. WillHold(g, c)'
  BY <1>2, <1>3, <1>4 DEF WillHold
<1>6. ASSUME NEW f \in Files \ {g}, NEW v, mirror' = mirror
      PROVE  WillHold(f, v)' <=> WillHold(f, v)
  <2>1. PushesOf(f)' = PushesOf(f)
    BY <1>2, <1>3 DEF PushesOf, n
  <2>2. \A i \in PushesOf(f) : pushed'[i] = pushed[i]
    BY <1>2 DEF PushesOf
  <2>3. QED
    BY <2>1, <2>2, <1>6 DEF WillHold
<1>7. QED
  BY <1>5, <1>6

(* Carrying out the oldest call changes nothing of what the runtime will     *)
(* hold.                                                                     *)
LEMMA ApplyLands ==
  ASSUME WatchTypes, Apply, NEW f \in Plain, NEW v, WillHold(f, v)
  PROVE  WillHold(f, v)'
<1> DEFINE first == Head(pushed)
<1>1. pushed \in Seq(Writes) /\ pushed # <<>> /\ pushed' = Tail(pushed) /\ f \in Files
  BY DEF Apply, WatchTypes, Plain
<1>2. /\ Len(pushed) \in Nat \ {0} /\ DOMAIN pushed = 1..Len(pushed)
      /\ DOMAIN pushed' = 1..(Len(pushed) - 1) /\ first = pushed[1]
      /\ \A i \in 1..(Len(pushed) - 1) : pushed'[i] = pushed[i + 1]
  BY <1>1
<1>3. first \in Writes
  BY <1>1, <1>2
<1>4. mirror'[f] = IF first.file = f THEN first.content ELSE mirror[f]
  <2>1. first.file = f => f \notin InNewDir
    BY DEF Plain
  <2>2. mirror' = IF first.file \in InNewDir /\ first.content # Absent THEN mirror
                  ELSE [mirror EXCEPT ![first.file] = first.content]
    BY DEF Apply
  <2>3. QED
    BY <1>1, <1>3, <2>1, <2>2 DEF WatchTypes, Writes
<1> HIDE DEF first
<1>5. \A i \in PushesOf(f) : i # 1 => i - 1 \in PushesOf(f)'
  BY <1>2 DEF PushesOf
<1>6. \A i \in PushesOf(f)' : i + 1 \in PushesOf(f) /\ i \in Nat /\ pushed'[i] = pushed[i + 1]
  BY <1>2 DEF PushesOf
<1>7. PushesOf(f) \subseteq Nat \ {0}
  BY <1>2 DEF PushesOf
<1>8. CASE PushesOf(f)' = {}
  <2>1. \A i \in PushesOf(f) : i = 1
    BY <1>5, <1>8
  <2>2. mirror'[f] = v
    <3>1. CASE PushesOf(f) = {}
      <4>1. first.file # f
        BY <1>2, <3>1 DEF PushesOf
      <4>2. QED
        BY <1>4, <3>1, <4>1 DEF WillHold
    <3>2. CASE PushesOf(f) # {}
      <4>1. pushed[1].content = v /\ pushed[1].file = f
        BY <2>1, <3>2 DEF WillHold, PushesOf
      <4>2. QED
        BY <1>2, <1>4, <4>1
    <3>3. QED
      BY <3>1, <3>2
  <2>3. QED
    BY <1>8, <2>2 DEF WillHold
<1>9. CASE PushesOf(f)' # {}
  <2>1. PICK i \in PushesOf(f) : pushed[i].content = v /\ \A j \in PushesOf(f) : j <= i
    BY <1>6, <1>9 DEF WillHold
  <2>2. i # 1
    <3>1. PICK j \in PushesOf(f)' : TRUE
      BY <1>9
    <3>2. j + 1 \in PushesOf(f) /\ j \in Nat \ {0}
      BY <1>2, <3>1 DEF PushesOf
    <3>3. j + 1 <= i
      BY <2>1, <3>2
    <3>4. QED
      BY <3>2, <3>3
  <2>3. i - 1 \in PushesOf(f)' /\ pushed'[i - 1] = pushed[i]
    <3>1. i - 1 \in PushesOf(f)'
      BY <1>5, <2>2
    <3>2. (i - 1) + 1 = i
      BY <1>7
    <3>3. QED
      BY <1>6, <3>1, <3>2
  <2>4. \A j \in PushesOf(f)' : j <= i - 1
    BY <1>6, <1>7, <2>1
  <2>5. QED
    BY <1>9, <2>1, <2>3, <2>4 DEF WillHold
<1>10. QED
  BY <1>8, <1>9

(* While it watches, whatever is reported, read, pushed or applied, the      *)
(* runtime follows every text file that is not raced.                       *)
LEMMA FollowsStep ==
  ASSUME WatchTypes, WatchTypes', NEW f \in Plain, f \notin raced', Follows(f),
         \/ \E g \in Files : Edit(g) \/ Notice(g)
         \/ \E h \in handlers : ReadFile(h) \/ WriteToRuntime(h)
         \/ Apply
  PROVE  Follows(f)'
<1> USE DevWatchAssumption
<1>t. /\ f \in Files /\ f \notin Binary /\ f \notin InNewDir
      /\ disk[f] \in Nat /\ noticed[f] \in Nat /\ NoRead \notin Nat
      /\ disk[f] \in Contents /\ noticed[f] \in Contents
  BY DEF Plain, WatchTypes, Contents, Mangled
<1>1. ASSUME NEW g \in Files, Edit(g)
      PROVE  Follows(f)'
  BY <1>1, EditFollows
<1>2. ASSUME NEW g \in Files, Notice(g)
      PROVE  Follows(f)'
  <2>1. /\ noticed' = [noticed EXCEPT ![g] = disk[g]] /\ UNCHANGED <<disk, mirror>>
        /\ noticed[g] # disk[g]
    BY <1>2 DEF Notice
  <2>2. CASE g # f
    <3>1. noticed'[f] = noticed[f]
      BY <2>1, <2>2, <1>t DEF WatchTypes
    <3>2. HandlersOf(f)' = HandlersOf(f)
      <4>1. handlers' \in {handlers, handlers \cup {Handler(g, NoRead)}}
        BY <1>2 DEF Notice
      <4>2. Handler(g, NoRead).file = g
        BY DEF Handler
      <4>3. QED
        BY <2>2, <4>1, <4>2 DEF HandlersOf
    <3>3. WillHold(f, noticed[f])' <=> WillHold(f, noticed[f])
      <4>1. CASE pushed' = pushed
        BY <2>1, <3>1, <4>1 DEF WillHold, PushesOf
      <4>2. CASE Push(g, Absent)
        <5>1. Absent \in Contents
          BY DEF Absent, Contents, Mangled
        <5>2. \A v : WillHold(f, v)' <=> WillHold(f, v)
          BY <1>t, <2>1, <2>2, <4>2, <5>1, PushLands
        <5>3. QED
          BY <3>1, <5>2 DEF WillHold
      <4>3. QED
        BY <1>2, <4>1, <4>2 DEF Notice, RemoveFromRuntime
    <3>4. Behind(f)' <=> Behind(f)
      BY <2>1, <3>1 DEF Behind
    <3>5. QED
      BY <3>1, <3>2, <3>3, <3>4 DEF Follows
  <2>3. CASE g = f
    <3>1. noticed'[f] = disk[f] /\ disk'[f] = disk[f]
      BY <2>1, <2>3, <1>t DEF WatchTypes
    <3>2. HandlersOf(f) = {}
      BY <1>2, <2>3 DEF Notice, HandlersOf
    <3>3. CASE disk[f] = Absent
      <4>1. Push(f, Absent) /\ handlers' = handlers
        BY <1>2, <2>3, <3>3 DEF Notice, RemoveFromRuntime
      <4>2. WillHold(f, Absent)'
        <5>1. Absent \in Contents
          BY DEF Absent, Contents, Mangled
        <5>2. QED
          BY <1>t, <4>1, <5>1, PushLands
      <4>3. HandlersOf(f)' = {}
        BY <3>2, <4>1 DEF HandlersOf
      <4>4. WillHold(f, noticed[f])'
        BY <3>1, <3>3, <4>2 DEF WillHold
      <4>5. QED
        BY <4>3, <4>4 DEF Follows
    <3>4. CASE disk[f] # Absent
      <4> DEFINE n == Handler(f, NoRead)
      <4>1. handlers' = handlers \cup {n}
        BY <1>2, <2>3, <3>4 DEF Notice
      <4>2. n.file = f /\ n.got = NoRead
        BY DEF Handler
      <4> HIDE DEF n
      <4>3. HandlersOf(f)' = {n}
        BY <3>2, <4>1, <4>2 DEF HandlersOf
      <4>4. QED
        BY <3>1, <3>4, <4>2, <4>3 DEF Follows
    <3>5. QED
      BY <3>3, <3>4
  <2>4. QED
    BY <2>2, <2>3
<1>3. ASSUME NEW h \in handlers, ReadFile(h)
      PROVE  Follows(f)'
  <2>1. /\ h.got = NoRead /\ UNCHANGED <<disk, noticed, mirror, pushed>>
        /\ handlers' = (handlers \ {h}) \cup
             (IF disk[h.file] = Absent THEN {} ELSE {[h EXCEPT !.got = disk[h.file]]})
    BY <1>3 DEF ReadFile
  <2>2. (Behind(f)' <=> Behind(f)) /\ (WillHold(f, noticed[f])' <=> WillHold(f, noticed[f]))
    BY <2>1 DEF Behind, WillHold, PushesOf
  <2> DEFINE n == [h EXCEPT !.got = disk[h.file]]
  <2>3. h \in Handlers /\ n.file = h.file /\ n.got = disk[h.file]
    BY DEF WatchTypes, Handlers
  <2>4. handlers' \in {handlers \ {h}, (handlers \ {h}) \cup {n}}
    BY <2>1
  <2>5. disk[h.file] = Absent => handlers' = handlers \ {h}
    BY <2>1
  <2>6. disk[h.file] # Absent => handlers' = (handlers \ {h}) \cup {n}
    BY <2>1
  <2> HIDE DEF n
  <2>7. CASE h.file # f
    <3>1. HandlersOf(f)' = HandlersOf(f)
      BY <2>3, <2>4, <2>7 DEF HandlersOf
    <3>2. QED
      BY <2>1, <2>2, <3>1 DEF Follows
  <2>8. CASE h.file = f
    <3>1. h \in HandlersOf(f) /\ HandlersOf(f) = {h} /\ noticed[f] # Absent
      BY <2>8 DEF HandlersOf, Follows
    <3>2. CASE disk[f] = Absent
      <4>1. HandlersOf(f)' = {}
        BY <2>5, <2>8, <3>1, <3>2 DEF HandlersOf
      <4>2. Behind(f)'
        BY <2>1, <3>1, <3>2 DEF Behind
      <4>3. QED
        BY <4>1, <4>2 DEF Follows
    <3>3. CASE disk[f] # Absent
      <4>1. HandlersOf(f)' = {n}
        BY <2>3, <2>6, <2>8, <3>1, <3>3 DEF HandlersOf
      <4>2. n.got = noticed[f] \/ Behind(f)
        BY <2>3, <2>8, <3>1 DEF Behind
      <4>3. QED
        BY <2>1, <2>2, <3>1, <4>1, <4>2 DEF Follows
    <3>4. QED
      BY <3>2, <3>3
  <2>9. QED
    BY <2>7, <2>8
<1>4. ASSUME NEW h \in handlers, WriteToRuntime(h)
      PROVE  Follows(f)'
  <2> DEFINE c == IF h.file \in Binary THEN Mangled ELSE h.got
  <2>1. /\ h.got # NoRead /\ UNCHANGED <<disk, noticed, mirror>> /\ handlers' = handlers \ {h}
        /\ Push(h.file, c)
    BY <1>4 DEF WriteToRuntime
  <2>2. h.file \in Files /\ c \in Contents
    BY <2>1 DEF WatchTypes, Handlers, Contents, Mangled
  <2>3. h.file \notin Binary => c = h.got
    OBVIOUS
  <2> HIDE DEF c
  <2>4. Behind(f)' <=> Behind(f)
    BY <2>1 DEF Behind
  <2>5. CASE h.file # f
    <3>1. HandlersOf(f)' = HandlersOf(f)
      BY <2>1, <2>5 DEF HandlersOf
    <3>2. \A v : WillHold(f, v)' <=> WillHold(f, v)
      BY <2>1, <2>2, <2>5, <1>t, PushLands
    <3>3. WillHold(f, noticed[f])' <=> WillHold(f, noticed[f])
      BY <2>1, <3>2 DEF WillHold
    <3>4. QED
      BY <2>1, <2>4, <3>1, <3>3 DEF Follows
  <2>6. CASE h.file = f
    <3>1. h \in HandlersOf(f) /\ HandlersOf(f) = {h}
      BY <2>6 DEF HandlersOf, Follows
    <3>2. h.got = noticed[f] \/ Behind(f)
      BY <2>1, <3>1 DEF Follows
    <3>3. WillHold(f, h.got)'
      <4>1. c = h.got
        BY <2>3, <2>6, <1>t
      <4>2. WillHold(f, c)'
        BY <2>1, <2>2, <2>6, PushLands
      <4>3. QED
        BY <4>1, <4>2
    <3>4. HandlersOf(f)' = {}
      BY <2>1, <3>1 DEF HandlersOf
    <3>5. Behind(f)' \/ WillHold(f, noticed[f])'
      BY <2>1, <2>4, <3>2, <3>3 DEF WillHold
    <3>6. QED
      BY <3>4, <3>5 DEF Follows
  <2>7. QED
    BY <2>5, <2>6
<1>5. CASE Apply
  <2>1. UNCHANGED <<disk, noticed, handlers>>
    BY <1>5 DEF Apply
  <2>2. WillHold(f, noticed[f]) => WillHold(f, noticed[f])'
    <3>1. \A v : WillHold(f, v) => WillHold(f, v)'
      BY <1>5, ApplyLands
    <3>2. QED
      BY <2>1, <3>1 DEF WillHold
  <2>3. HandlersOf(f)' = HandlersOf(f) /\ (Behind(f)' <=> Behind(f))
    BY <2>1 DEF HandlersOf, Behind
  <2>4. QED
    BY <2>1, <2>2, <2>3 DEF Follows
<1>6. QED
  BY <1>1, <1>2, <1>3, <1>4, <1>5

(* Beside the watcher: what touches neither the watcher's variables nor the  *)
(* command, and sends no teardown past a watcher that is there.             *)
Aside ==
  /\ UNCHANGED <<watchVars, invocation, pc>>
  /\ at'["main"] # "idle" => at["main"] # "idle"
  /\ \A t \in Teardowns : /\ at[t] # "idle" => at'[t] # "idle"
                          /\ at'[t] \notin {"idle", "watcher"} => ~watching

(* Two states that agree on the watcher's variables agree on what follows.   *)
LEMMA SameMirror ==
  ASSUME UNCHANGED watchVars
  PROVE  \A f : Follows(f) <=> Follows(f)'
<1>1. UNCHANGED <<disk, noticed, handlers, pushed, mirror>>
  BY DEF watchVars
<1>2. ASSUME NEW f
      PROVE  /\ HandlersOf(f)' = HandlersOf(f) /\ (Behind(f)' <=> Behind(f))
             /\ WillHold(f, noticed[f])' <=> WillHold(f, noticed[f])
  BY <1>1 DEF HandlersOf, Behind, WillHold, PushesOf
<1>3. QED
  BY <1>1, <1>2 DEF Follows

LEMMA AsideStep == Mirrored /\ Aside => Mirrored'
<1> SUFFICES ASSUME Mirrored, Aside PROVE Mirrored'
  OBVIOUS
<1>1. mode' = mode /\ (Finished' <=> Finished) /\ Teardowns' = Teardowns
  BY DEF Aside, mode, Finished, Teardowns
<1>2. UNCHANGED <<disk, watching, handlers, pushed, mirror, unwatched, raced, pc>>
  BY DEF Aside, watchVars
<1>3. ~Interrupted' => ~Interrupted
  BY DEF Aside, Interrupted, Teardowns
<1>4. \A f : Follows(f) <=> Follows(f)'
  BY SameMirror DEF Aside
<1>5. \A t \in Teardowns : at'[t] \notin {"idle", "watcher"} => ~watching'
  BY <1>2 DEF Aside
<1>6. (mode = "dev" /\ at["main"] # "idle" => ~Finished)'
  BY <1>1 DEF Mirrored, Aside
<1>7. QED
  BY <1>1, <1>2, <1>3, <1>4, <1>5, <1>6 DEF Mirrored

(* A command's step is taken while nothing is watched, ... *)
LEMMA CommandsStep ==
  ASSUME Types, Step
  PROVE  /\ Running /\ (Finished => mode # "dev") /\ invocation' = invocation
         /\ \/ /\ pc' = pc
               /\ \E w : at' = [at EXCEPT !["main"] = w]
            \/ at' = at
         /\ \/ Mount
            \/ UNCHANGED watchVars /\ (mode = "dev" /\ pc' > 3 => pc > 3)
<1> USE DEF hostVars, outcomeVars
<1>t. pc \in 1..9
  BY DEF Types, TypeOK
<1>0. ASSUME NEW s, At(s), s # "mount", pc' \in {pc, pc + 1}
      PROVE  Running /\ ~Finished /\ (mode = "dev" /\ pc' > 3 => pc > 3)
  <2>1. Running /\ ~Finished
    BY <1>0, StepsEnd
  <2>2. mode = "dev" => pc # 3
    BY <1>0, Places
  <2>3. QED
    BY <1>t, <1>0, <2>1, <2>2
<1>1. CASE StartServer \/ Launch \/ AskManager
  <2>1. PICK s \in {"server", "launch", "manager"} : At(s)
    BY <1>1 DEF StartServer, Launch, AskManager
  <2>2. pc' = pc + 1 /\ UNCHANGED <<watchVars, invocation, at>>
    BY <1>1 DEF StartServer, Launch, AskManager, Passed, Next1
  <2>3. QED
    BY <1>0, <2>1, <2>2
<1>2. CASE SkipInstall \/ Install \/ Connect \/ SpawnServer \/ ServerReady
  <2>1. PICK s \in {"install", "connect", "spawn", "ready"} : At(s)
    BY <1>2 DEF SkipInstall, Install, Connect, SpawnServer, ServerReady
  <2>2. pc' = pc + 1 /\ UNCHANGED <<watchVars, invocation, at>>
    BY <1>2 DEF SkipInstall, Install, Connect, SpawnServer, ServerReady, Passed, Next1
  <2>3. QED
    BY <1>0, <2>1, <2>2
<1>3. CASE Build \/ Prepare \/ Upload \/ DaemonBuilds \/ Serve
  <2>1. PICK s \in {"build", "prepare", "upload", "ask", "serve"} : At(s)
    BY <1>3 DEF Build, Prepare, Upload, DaemonBuilds, Serve
  <2>2. pc' \in {pc, pc + 1} /\ UNCHANGED <<watchVars, invocation, at>>
    BY <1>3 DEF Build, Prepare, Upload, DaemonBuilds, Serve, Next1
  <2>3. QED
    BY <1>0, <2>1, <2>2
<1>4. CASE Mount
  <2>1. At("mount") /\ UNCHANGED <<invocation, at>>
    BY <1>4 DEF Mount
  <2>2. Running /\ ~Finished
    BY <2>1, StepsEnd
  <2>3. QED
    BY <1>4, <2>1, <2>2
<1>5. CASE Succeed
  BY <1>5 DEF Succeed
<1>6. CASE HostFails \/ PageFails \/ DaemonFails
  <2>1. PICK t, e : Running /\ ~Finished /\ Throws(t, e)
    BY <1>6, FailuresAreCaught
  <2>2. QED
    BY <2>1 DEF Throws
<1>7. QED
  BY <1>1, <1>2, <1>3, <1>4, <1>5, <1>6 DEF Step

(* ... and only the mount changes what the runtime holds. *)
LEMMA StepMirrored == Types /\ Types' /\ Mirrored /\ Step => Mirrored'
<1> SUFFICES ASSUME Types, Types', Mirrored, Step PROVE Mirrored'
  OBVIOUS
<1>1. Running /\ ~watching /\ mode' = mode /\ at["main"] = "idle" /\ pc \in 1..9 /\ pc' \in 1..9
  BY CommandsStep DEF Mirrored, mode, Running, Types, TypeOK
<1>2. watching' = watching
  BY CommandsStep DEF Mount, MountAll, watchVars
<1>3. \A i \in Interrupts : at'[i] = at[i]
  BY CommandsStep, OneShotAssumption DEF Types, TypeOK, Teardowns
<1>4. ~Interrupted' => ~Interrupted
  BY <1>3 DEF Interrupted
<1>5. mode = "dev" /\ at'["main"] # "idle" => ~Finished'
  <2>1. mode = "dev" => ~Finished
    BY CommandsStep
  <2>2. at'["main"] # "idle" => pc' = pc
    BY <1>1, CommandsStep
  <2>3. pc' = pc => (Finished' <=> Finished)
    BY <1>1 DEF Finished
  <2>4. QED
    BY <2>1, <2>2, <2>3
<1>6. ASSUME ~Interrupted'
      PROVE  /\ handlers' = {} /\ pushed' = <<>>
             /\ mode = "dev" /\ pc' > 3 => \A f \in Plain \ unwatched' : mirror'[f] = disk'[f]
  <2>1. /\ handlers = {} /\ pushed = <<>>
        /\ mode = "dev" /\ pc > 3 => \A f \in Plain \ unwatched : mirror[f] = disk[f]
    BY <1>1, <1>4, <1>6 DEF Mirrored
  <2>2. CASE Mount /\ mode = "dev"
    BY <2>1, <2>2 DEF Mount, MountAll
  <2>3. CASE UNCHANGED watchVars /\ (mode = "dev" /\ pc' > 3 => pc > 3)
    BY <2>1, <2>3 DEF watchVars
  <2>4. CASE Mount /\ mode # "dev"
    BY <2>1, <2>4 DEF Mount, watchVars
  <2>5. QED
    BY <2>2, <2>3, <2>4, CommandsStep
<1>7. QED
  BY <1>1, <1>2, <1>5, <1>6 DEF Mirrored

(* What is watched is followed, what is not is as it was mounted. *)
LEMMA WatchingMirrored == Types /\ Types' /\ Mirrored /\ Watching => Mirrored'
<1> SUFFICES ASSUME Types, Types', Mirrored, Watching PROVE Mirrored'
  OBVIOUS
<1>t. /\ mode = "dev" /\ mode' = mode /\ (Finished' <=> Finished) /\ pc' = pc /\ at' = at
      /\ (Interrupted' <=> Interrupted) /\ Teardowns' = Teardowns
      /\ WatchTypes /\ WatchTypes'
  BY DEF Watching, mode, Finished, Interrupted, Teardowns, Types
<1>p. pc \in 1..9 /\ (Finished <=> pc > 8)
  BY <1>t, Places DEF Types, TypeOK
<1>1. CASE Watch /\ Finished /\ ~watching /\ ~Interrupted
  <2>1. at["main"] = "idle"
    BY <1>1, <1>t DEF Mirrored
  <2>2. \A t \in Teardowns : at[t] = "idle"
    BY <1>1, <2>1 DEF Interrupted, Teardowns
  <2>3. /\ handlers = {} /\ pushed = <<>> /\ \A f \in Plain \ unwatched : mirror[f] = disk[f]
    BY <1>1, <1>t, <1>p DEF Mirrored
  <2>4. noticed' = disk /\ watching' = TRUE
        /\ UNCHANGED <<disk, handlers, pushed, mirror, unwatched, raced>>
    BY <1>1 DEF Watch
  <2>5. ASSUME NEW f \in Plain \ unwatched
        PROVE  Follows(f)'
    <3>1. HandlersOf(f)' = {} /\ PushesOf(f)' = {}
      BY <2>3, <2>4 DEF HandlersOf, PushesOf
    <3>2. mirror'[f] = noticed'[f]
      BY <2>3, <2>4, <2>5
    <3>3. QED
      BY <3>1, <3>2 DEF Follows, WillHold
  <2>6. QED
    BY <1>1, <1>t, <2>2, <2>4, <2>5 DEF Mirrored
<1>2. CASE pc > 3 /\ \E f \in Files : Edit(f)
  <2>1. PICK g \in Files : Edit(g)
    BY <1>2
  <2>2. /\ UNCHANGED <<noticed, watching, handlers, pushed, mirror, raced>>
        /\ unwatched' = IF watching THEN unwatched ELSE unwatched \cup {g}
    BY <2>1 DEF Edit
  <2>3. \A f \in Files \ {g} : disk'[f] = disk[f]
    BY <2>1, <1>t DEF Edit, WatchTypes
  <2>4. ASSUME ~watching, ~Interrupted
        PROVE  \A f \in Plain \ unwatched' : mirror'[f] = disk'[f]
    BY <1>t, <1>2, <2>2, <2>3, <2>4 DEF Mirrored, Plain
  <2>5. ASSUME watching, NEW f \in Plain \ (unwatched' \cup raced')
        PROVE  Follows(f)'
    <3>1. Follows(f)
      BY <2>2, <2>5 DEF Mirrored
    <3>2. QED
      BY <1>t, <2>1, <2>5, <3>1, EditFollows
  <2>6. QED
    BY <1>t, <2>2, <2>4, <2>5 DEF Mirrored
<1>3. CASE \/ \E f \in Files : Notice(f)
           \/ \E h \in handlers : ReadFile(h) \/ WriteToRuntime(h)
           \/ Apply
  <2>1. watching' = watching /\ unwatched' = unwatched /\ raced \subseteq raced'
    BY <1>3 DEF Notice, ReadFile, WriteToRuntime, Apply
  <2>2. watching \/ Interrupted
    <3>1. watching \/ handlers # {} \/ pushed # <<>>
      BY <1>3 DEF Notice, ReadFile, WriteToRuntime, Apply
    <3>2. QED
      BY <3>1 DEF Mirrored
  <2>3. ASSUME watching, NEW f \in Plain \ (unwatched' \cup raced')
        PROVE  Follows(f)'
    <3>1. Follows(f)
      BY <2>1, <2>3 DEF Mirrored
    <3>2. f \in Plain /\ f \notin raced'
      BY <2>3
    <3>3. QED
      BY <1>t, <1>3, <3>1, <3>2, FollowsStep
  <2>4. QED
    BY <1>t, <2>1, <2>2, <2>3 DEF Mirrored
<1>4. QED
  BY <1>1, <1>2, <1>3 DEF Watching

(* A Ctrl-C stops the watcher before it goes any further. *)
LEMMA TeardownMirrored ==
  ASSUME Types, Mirrored, NEW t \in Teardowns, Teardown(t)
  PROVE  Mirrored'
<1> USE DEF hostVars, outcomeVars
<1>t. at \in [Teardowns -> {"idle", "watcher", "link", "proxy", "server", "exit"}]
  BY DEF Types, TypeOK
<1>m. mode' = mode /\ (Finished' <=> Finished) /\ Teardowns' = Teardowns /\ pc' = pc
  BY DEF Teardown, CloseWatcher, CloseLink, CloseProxy, ProxyClosed, Shutdown, ServerClosed,
     Exit, mode, Finished, Teardowns
<1>1. CASE CloseProxy(t) \/ Shutdown(t) \/ Exit(t)
  <2>1. UNCHANGED <<watchVars, invocation, pc, at>>
    BY <1>1 DEF CloseProxy, Shutdown, Exit
  <2>2. Aside
    BY <2>1 DEF Aside, Mirrored
  <2>3. QED
    BY <2>2, AsideStep
<1>2. CASE ProxyClosed(t) \/ ServerClosed(t)
  <2>1. /\ at[t] \in {"proxy", "server"} /\ UNCHANGED <<watchVars, invocation, pc>>
        /\ \E to \in {"server", "exit"} : at' = [at EXCEPT ![t] = to]
    BY <1>2 DEF ProxyClosed, ServerClosed, Goes
  <2>2. ~watching
    BY <2>1 DEF Mirrored
  <2>3. Aside
    BY <1>t, <2>1, <2>2 DEF Aside
  <2>4. QED
    BY <2>3, AsideStep
<1>3. ASSUME CloseWatcher(t) \/ CloseLink(t)
      PROVE  \A u \in Teardowns : at[u] # "idle" <=> at'[u] # "idle"
  <2>1. /\ at[t] \in {"watcher", "link"}
        /\ \E to \in {"link", "proxy"} : at' = [at EXCEPT ![t] = to]
    BY <1>3 DEF CloseWatcher, CloseLink, Goes
  <2>2. QED
    BY <1>t, <2>1
<1>4. CASE CloseWatcher(t)
  <2>1. ~watching' /\ watching /\ at[t] = "watcher"
    BY <1>4 DEF CloseWatcher, Unwatch, Goes
  <2>2. t \in Interrupts
    BY <2>1 DEF Mirrored, Teardowns
  <2>3. Interrupted'
    BY <1>3, <1>4, <2>1, <2>2 DEF Interrupted
  <2>4. (mode = "dev" /\ at["main"] # "idle" => ~Finished)'
    BY <1>m, <1>3, <1>4 DEF Mirrored, Teardowns
  <2>5. QED
    BY <2>1, <2>3, <2>4 DEF Mirrored
<1>5. CASE CloseLink(t)
  <2>1. ~watching
    BY <1>5 DEF CloseLink, Goes, Mirrored
  <2>2. handlers' = {} /\ pushed' = <<>> /\ UNCHANGED <<disk, watching, mirror, unwatched>>
    BY <1>5 DEF CloseLink, CutOff
  <2>3. ~Interrupted' => ~Interrupted
    BY <1>3, <1>5 DEF Interrupted, Teardowns
  <2>4. (mode = "dev" /\ at["main"] # "idle" => ~Finished)'
    BY <1>m, <1>3, <1>5 DEF Mirrored, Teardowns
  <2>5. QED
    BY <1>m, <2>1, <2>2, <2>3, <2>4 DEF Mirrored
<1>6. QED
  BY <1>1, <1>2, <1>4, <1>5 DEF Teardown

LEMMA MirroredStep == Types /\ Types' /\ Mirrored /\ [Next]_vars => Mirrored'
<1> SUFFICES ASSUME Types, Types', Mirrored, [Next]_vars PROVE Mirrored'
  OBVIOUS
<1>1. CASE \/ PageOpens \/ PageLeaves \/ ViewerComes \/ ViewerLeaves \/ UNCHANGED vars
  <2>1. UNCHANGED <<watchVars, invocation, pc, at>>
    BY <1>1 DEF PageOpens, PageLeaves, ViewerComes, ViewerLeaves, vars
  <2>2. Aside
    BY <2>1 DEF Aside, Mirrored
  <2>3. QED
    BY <2>2, AsideStep
<1>2. ASSUME NEW i \in Interrupts, Interrupt(i)
      PROVE  Mirrored'
  <2>1. /\ UNCHANGED <<watchVars, invocation, pc>>
        /\ at' = [at EXCEPT ![i] = IF mode = "daemon" THEN "exit" ELSE "watcher"]
    BY <1>2 DEF Interrupt
  <2>2. mode = "daemon" => ~watching
    BY DEF Mirrored
  <2>3. at \in [Teardowns -> {"idle", "watcher", "link", "proxy", "server", "exit"}]
        /\ i \in Teardowns /\ i # "main"
    BY OneShotAssumption DEF Types, TypeOK, Teardowns
  <2>4. \A t \in Teardowns : at'[t] \notin {"idle", "watcher"} => ~watching
    BY <2>1, <2>2, <2>3 DEF Mirrored
  <2>5. Aside
    BY <2>1, <2>3, <2>4 DEF Aside
  <2>6. QED
    BY <2>5, AsideStep
<1>3. CASE CacheDirFails \/ Uncaught
  <2>1. UNCHANGED <<watchVars, invocation, pc, at>>
    BY <1>3, DiesOf DEF Dies
  <2>2. Aside
    BY <2>1 DEF Aside, Mirrored
  <2>3. QED
    BY <2>2, AsideStep
<1>4. QED
  BY <1>1, <1>2, <1>3, StepMirrored, WatchingMirrored, TeardownMirrored DEF Next

(* What a settled file of the runtime holds is what is on disk, for any      *)
(* files and edits, and wherever the mount, the watcher getting ready, a     *)
(* Ctrl-C and the end of each read and call fall between them.              *)
THEOREM MirrorHolds == Spec => []RuntimeMirrorsDisk
<1>1. Init => Mirrored
  <2> SUFFICES ASSUME Init PROVE Mirrored
    OBVIOUS
  <2>1. watching = FALSE /\ handlers = {} /\ pushed = <<>> /\ pc = 1
        /\ at = [t \in Teardowns |-> "idle"]
    BY DEF Init, WatchInit
  <2>2. \A t \in Teardowns : at[t] = "idle"
    BY <2>1
  <2>3. "main" \in Teardowns /\ ~(pc > 3)
    BY <2>1 DEF Teardowns
  <2>4. QED
    BY <2>1, <2>2, <2>3 DEF Mirrored
<1>2. Types /\ Types' /\ Mirrored /\ [Next]_vars => Mirrored'
  BY MirroredStep
<1>3. Types /\ Mirrored => RuntimeMirrorsDisk
  <2> SUFFICES ASSUME Mirrored, watching,
                      NEW f \in Files \ (Binary \cup InNewDir \cup unwatched \cup raced),
                      Settled(f)
               PROVE  mirror[f] = disk[f]
    BY DEF RuntimeMirrorsDisk
  <2>1. Follows(f)
    BY DEF Mirrored, Plain
  <2>2. HandlersOf(f) = {} /\ PushesOf(f) = {} /\ ~Behind(f)
    BY DEF Settled, HandlersOf, PushesOf, Behind
  <2>3. QED
    BY <2>1, <2>2 DEF Follows, WillHold, Settled
<1>4. QED
  BY <1>1, <1>2, <1>3, ProcessTypeCorrect, PTL DEF Spec
==============================================================================
