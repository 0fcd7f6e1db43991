-------------------------------- MODULE Session --------------------------------
(***************************************************************************)
(* One daemon session (src/daemon/session.ts) running builds with          *)
(* runProjectBuild (src/core/project-build.ts) in a page's container,      *)
(* against a project somebody is editing.                                  *)
(*                                                                         *)
(* A build is a process that pauses at every await of the code; the name   *)
(* of the state it pauses in says what it awaits.  Every await from        *)
(* "remove" to "upload" is a call to the page over the session's link.     *)
(* There is no lock in the code: what keeps builds apart is only that      *)
(* callers usually send one at a time.                                     *)
(***************************************************************************)
EXTENDS FileSync

CONSTANTS
  Builds,     \* build requests for this project
  Parts,      \* artifacts a build emits
  MaxEdits,   \* bound on host edits
  Faults,     \* see FaultNames
  None

(* "concurrent"       a second build request comes while one is running      *)
(* "editDuringSync"   the project is edited between a sync's listing and     *)
(*                    the end of its mount                                   *)
(* "goneWhileListing" the page is given up on while a sync lists the project *)
FaultNames == {"concurrent", "editDuringSync", "goneWhileListing"}

ASSUME SessionAssumption ==
  /\ MaxVersion \in Nat \ {0} /\ MaxEdits \in Nat
  /\ Faults \subseteq FaultNames
  /\ None \notin Builds

VARIABLES
  (* Session's fields *)
  runner,         \* a RunnerClient is set
  booted,
  manifest,       \* what the container was last told to hold
  poisoned,
  currentOutput,  \* the build whose output directory uploads go to, or None
  (* the builds in progress *)
  pc,
  next,           \* sync's `next`
  plan,           \* sync's `plan`
  fetching,       \* paths the page is fetching
  sent,           \* artifacts uploaded
  (* the page and its container *)
  alive,          \* a booted page holds the stream
  undecided,      \* it left, and the grace window is open
  held,           \* project files in the container
  dist,           \* what the last build command left in distDir, or None
  dirty,          \* a command or a removal was cut short in the container
  (* the host's disk *)
  disk,
  edits,
  out,            \* output directory of each build: who made each artifact
  (* history *)
  seen            \* versions each file had since a build was asked for

sessionVars == <<runner, booted, manifest, poisoned, currentOutput>>
buildVars == <<pc, next, plan, fetching, sent>>
containerVars == <<alive, undecided, held, dist, dirty>>
hostVars == <<disk, edits, out>>
vars == <<sessionVars, buildVars, containerVars, hostVars, seen>>

NoPlan == [upsert |-> {}, remove |-> {}]
AwaitsPage == {"remove", "fetch", "fetchAll", "mount", "install", "clear", "build", "upload"}
Syncing    == {"remove", "fetch", "fetchAll", "mount"}
Active     == {"attach", "list"} \cup AwaitsPage
InFlight   == {b \in Builds : pc[b] \in Active}

Init ==
  /\ runner = FALSE /\ booted = FALSE /\ manifest = EmptyTree
  /\ poisoned = FALSE /\ currentOutput = None
  /\ pc = [b \in Builds |-> "idle"]
  /\ next = [b \in Builds |-> EmptyTree]
  /\ plan = [b \in Builds |-> NoPlan]
  /\ fetching = [b \in Builds |-> {}]
  /\ sent = [b \in Builds |-> {}]
  /\ alive = FALSE /\ undecided = FALSE /\ held = EmptyTree
  /\ dist = None /\ dirty = FALSE
  /\ disk \in [Files -> {Absent, 1}]
  /\ edits = 0
  /\ out = [b \in Builds |-> [x \in Parts |-> None]]
  /\ seen = [b \in Builds |-> [f \in Files |-> {}]]

-----------------------------------------------------------------------------
(* How a build ends *)

(* runtimeStateIsKnown: the allowlist of tags after which a session may be  *)
(* reused.                                                                  *)
StateKnownTrustsTimeout(tag) ==
  tag \in {"CommandFailed", "NoBuildOutput", "RunnerGone", "RunnerUnavailable",
           "RunnerTimeout"}
StateKnown(tag) ==
  tag \in {"CommandFailed", "NoBuildOutput", "RunnerGone", "RunnerUnavailable"}

(* The inner finally, once the build got past ensureBooted. *)
OutputAfterKept(b) == currentOutput
OutputAfter(b) == IF pc[b] = "attach" THEN currentOutput ELSE None

(* build()'s finally and catch. *)
Fail(b, tag) ==
  /\ pc' = [pc EXCEPT ![b] = "failed"]
  /\ poisoned' = (poisoned \/ ~StateKnown(tag))
  /\ currentOutput' = OutputAfter(b)
  /\ UNCHANGED <<runner, booted, manifest, next, plan, fetching, sent>>

(* A page call that ends with an error; a command cut short leaves the      *)
(* container in a state nobody can describe.                                *)
CallFails(b, tag, cut) ==
  /\ alive
  /\ Fail(b, tag)
  /\ dirty' = (dirty \/ cut)
  /\ UNCHANGED <<alive, undecided, held, dist, hostVars, seen>>

-----------------------------------------------------------------------------
(* POST /control/build: a poisoned session, or one the caller asked to      *)
(* start over, is closed and replaced; then build() and ensureBooted().     *)
(* The old session's page is left talking to nobody.                        *)
ReplaceKeepsPoisoned(fresh) == fresh
Replace(fresh) == poisoned \/ fresh

Begin(b, fresh) ==
  /\ pc[b] = "idle"
  /\ InFlight # {} => "concurrent" \in Faults /\ booted /\ ~Replace(fresh)
  /\ seen' = [seen EXCEPT ![b] = [f \in Files |-> {disk[f]}]]
  /\ IF Replace(fresh)
       THEN /\ runner' = FALSE /\ booted' = FALSE /\ manifest' = EmptyTree
            /\ poisoned' = FALSE /\ currentOutput' = None
            /\ alive' = FALSE /\ undecided' = FALSE /\ held' = EmptyTree
            /\ dist' = None /\ dirty' = FALSE
            /\ pc' = [pc EXCEPT ![b] = "attach"]
       ELSE /\ pc' = [pc EXCEPT ![b] = IF booted /\ runner THEN "list" ELSE "attach"]
            /\ UNCHANGED <<sessionVars, containerVars>>
  /\ UNCHANGED <<next, plan, fetching, sent, hostVars>>

(* attach() resolves: a new page, with an empty container. *)
ManifestAfterAttachUnset == None
ManifestAfterAttach == EmptyTree

Attach(b) ==
  /\ pc[b] = "attach"
  /\ pc' = [pc EXCEPT ![b] = "list"]
  /\ runner' = TRUE /\ booted' = TRUE
  /\ manifest' = ManifestAfterAttach
  /\ alive' = TRUE /\ undecided' = FALSE /\ held' = EmptyTree
  /\ dist' = None /\ dirty' = FALSE
  /\ UNCHANGED <<poisoned, currentOutput, next, plan, fetching, sent, hostVars, seen>>

(* No page reported ready in time. *)
AttachFails(b) ==
  /\ pc[b] = "attach"
  /\ Fail(b, "RunnerUnavailable")
  /\ UNCHANGED <<containerVars, hostVars, seen>>

(* sync calls mountFromServer without paths if the manifest is empty then,  *)
(* whatever it is when the page hears of it.                                *)
FetchCall == IF manifest = EmptyTree THEN "fetchAll" ELSE "fetch"

(* sync(): listProjectManifest and diffManifests, up to the next await.     *)
(* this.runner! on a session that was reset meanwhile is a TypeError.       *)
List(b) ==
  LET p == [upsert |-> Upsert(manifest, disk), remove |-> Remove(manifest, disk)]
      work == p.upsert \cup p.remove
  IN
  /\ pc[b] = "list"
  /\ \/ /\ runner \/ work = {}
        /\ next' = [next EXCEPT ![b] = disk]
        /\ plan' = [plan EXCEPT ![b] = p]
        /\ pc' = [pc EXCEPT ![b] = IF p.remove # {} THEN "remove"
                                   ELSE IF p.upsert # {} THEN FetchCall ELSE "install"]
        /\ manifest' = IF work = {} THEN disk ELSE manifest
        /\ UNCHANGED <<runner, booted, poisoned, currentOutput, fetching, sent>>
     \/ /\ ~runner /\ work # {}
        /\ Fail(b, "TypeError")
  /\ UNCHANGED <<containerVars, hostVars, seen>>

(* A file that vanishes between readdir and stat fails the listing. *)
ListFails(b) ==
  /\ "editDuringSync" \in Faults
  /\ pc[b] = "list"
  /\ Fail(b, "Error")
  /\ UNCHANGED <<containerVars, hostVars, seen>>

(* removePaths(plan.remove) *)
RemovePaths(b) ==
  /\ pc[b] = "remove" /\ alive
  /\ held' = Removed(held, plan[b].remove)
  /\ IF plan[b].upsert # {}
       THEN /\ pc' = [pc EXCEPT ![b] = FetchCall] /\ UNCHANGED manifest
       ELSE /\ pc' = [pc EXCEPT ![b] = "install"] /\ manifest' = next[b]
  /\ UNCHANGED <<runner, booted, poisoned, currentOutput, next, plan, fetching, sent,
                 alive, undecided, dist, dirty, hostVars, seen>>

(* One path cannot be removed: the page throws, with those before it gone.  *)
RemoveFails(b) ==
  /\ pc[b] = "remove" /\ alive
  /\ Fail(b, "UnknownFailure")
  /\ \E gone \in SUBSET plan[b].remove : held' = Removed(held, gone)
  /\ dirty' = TRUE
  /\ UNCHANGED <<alive, undecided, dist, hostVars, seen>>

(* mountFromServer, the paths: a first sync has the page list the project   *)
(* itself, a later one names what changed.                                  *)
FetchSet(b) == IF pc[b] = "fetchAll" THEN Present(disk) ELSE plan[b].upsert

Fetch(b) ==
  /\ pc[b] \in {"fetch", "fetchAll"} /\ alive
  /\ fetching' = [fetching EXCEPT ![b] = FetchSet(b)]
  /\ pc' = [pc EXCEPT ![b] = "mount"]
  /\ UNCHANGED <<sessionVars, next, plan, sent, containerVars, hostVars, seen>>

(* mountFromServer, the contents: each is read as it is now.  A path that   *)
(* is gone by then fails the mount, with files before it written.           *)
Mount(b) ==
  /\ pc[b] = "mount" /\ alive
  /\ fetching[b] \subseteq Present(disk)
  /\ held' = Mounted(held, fetching[b], disk)
  /\ manifest' = next[b]
  /\ pc' = [pc EXCEPT ![b] = "install"]
  /\ UNCHANGED <<runner, booted, poisoned, currentOutput, next, plan, fetching, sent,
                 alive, undecided, dist, dirty, hostVars, seen>>

MountFails(b) ==
  /\ pc[b] = "mount"
  /\ ~(fetching[b] \subseteq Present(disk))
  /\ CallFails(b, "MountFailed", TRUE)

(* packageManager and installWithCache, or packageManager alone. *)
Install(b) ==
  /\ pc[b] = "install" /\ alive
  /\ pc' = [pc EXCEPT ![b] = "clear"]
  /\ UNCHANGED <<sessionVars, next, plan, fetching, sent, containerVars, hostVars, seen>>

InstallFails(b) ==
  /\ pc[b] = "install"
  /\ \/ CallFails(b, "CommandFailed", FALSE)
     \/ CallFails(b, "RuntimeFailure", TRUE)

(* clearDist *)
DistClearedKept == dist
DistCleared == None

Clear(b) ==
  /\ pc[b] = "clear" /\ alive
  /\ dist' = DistCleared
  /\ pc' = [pc EXCEPT ![b] = "build"]
  /\ UNCHANGED <<sessionVars, next, plan, fetching, sent, alive, undecided, held, dirty,
                 hostVars, seen>>

(* The old output cannot be removed, or not all of it. *)
ClearFails(b) ==
  /\ pc[b] = "clear" /\ alive
  /\ Fail(b, "UnknownFailure")
  /\ dist' \in {dist, None}
  /\ dirty' = TRUE
  /\ UNCHANGED <<alive, undecided, held, hostVars, seen>>

(* The build command exits 0, with output or without; prepareOutput then    *)
(* arms this build's output directory.                                      *)
Build(b) ==
  /\ pc[b] = "build" /\ alive
  /\ \/ dist' = [by |-> b, src |-> held]
     \/ UNCHANGED dist
  /\ currentOutput' = b
  /\ sent' = [sent EXCEPT ![b] = {}]
  /\ pc' = [pc EXCEPT ![b] = "upload"]
  /\ UNCHANGED <<runner, booted, manifest, poisoned, next, plan, fetching,
                 alive, undecided, held, dirty, hostVars, seen>>

(* It exits otherwise, or is cut by its timeout. *)
BuildFails(b) ==
  /\ pc[b] = "build"
  /\ \/ CallFails(b, "CommandFailed", FALSE)
     \/ CallFails(b, "RunnerTimeout", TRUE)

(* uploadDist, one POST: writeDistFile writes where currentOutput points. *)
Upload(b, x) ==
  /\ pc[b] = "upload" /\ alive
  /\ dist # None /\ x \notin sent[b]
  /\ currentOutput # None
  /\ sent' = [sent EXCEPT ![b] = @ \cup {x}]
  /\ out' = [out EXCEPT ![currentOutput][x] = dist.by]
  /\ UNCHANGED <<sessionVars, pc, next, plan, fetching, containerVars, disk, edits, seen>>

(* Nothing in distDir; or a POST the host refuses or cannot write. *)
UploadFails(b) ==
  /\ pc[b] = "upload"
  /\ \/ dist = None /\ sent[b] = {} /\ CallFails(b, "NoBuildOutput", FALSE)
     \/ dist = None /\ sent[b] # {} /\ CallFails(b, "UnknownFailure", FALSE)
     \/ dist # None /\ CallFails(b, "UploadFailed", FALSE)

Finish(b) ==
  /\ pc[b] = "upload" /\ alive
  /\ sent[b] = Parts
  /\ pc' = [pc EXCEPT ![b] = "done"]
  /\ currentOutput' = OutputAfter(b)
  /\ UNCHANGED <<runner, booted, manifest, poisoned, next, plan, fetching, sent,
                 containerVars, hostVars, seen>>

-----------------------------------------------------------------------------
(* The tab is closed: the container goes with it. *)
Leave ==
  /\ alive
  /\ alive' = FALSE /\ undecided' = TRUE
  /\ held' = EmptyTree /\ dist' = None /\ dirty' = FALSE
  /\ UNCHANGED <<sessionVars, buildVars, hostVars, seen>>

(* The grace window closes: calls in flight fail with RunnerGone, and the   *)
(* session's listener forgets the container.                                *)
ForgetNothing == UNCHANGED <<runner, booted, manifest>>
Forget == runner' = FALSE /\ booted' = FALSE /\ manifest' = EmptyTree

HandleGone ==
  /\ undecided
  /\ (\E b \in Builds : pc[b] = "list") => "goneWhileListing" \in Faults
  /\ undecided' = FALSE
  /\ Forget
  /\ pc' = [b \in Builds |-> IF pc[b] \in AwaitsPage THEN "failed" ELSE pc[b]]
  /\ poisoned' = (poisoned \/ ~StateKnown("RunnerGone"))
  /\ currentOutput' = IF \E b \in Builds : pc[b] \in AwaitsPage THEN None
                                                              ELSE currentOutput
  /\ UNCHANGED <<next, plan, fetching, sent, alive, held, dist, dirty, hostVars, seen>>

(* The project is edited: a file is written, or deleted. *)
Edit(f) ==
  /\ edits < MaxEdits
  /\ (\E b \in Builds : pc[b] \in Syncing) => "editDuringSync" \in Faults
  /\ edits' = edits + 1
  /\ \E v \in {Absent, edits + 2} :
       /\ v # disk[f] /\ v <= MaxVersion
       /\ disk' = [disk EXCEPT ![f] = v]
       /\ seen' = [b \in Builds |->
                     IF pc[b] \in {"attach", "list"} \cup Syncing
                       THEN [seen[b] EXCEPT ![f] = @ \cup {v}] ELSE seen[b]]
  /\ UNCHANGED <<sessionVars, buildVars, containerVars, out>>

-----------------------------------------------------------------------------
BuildStep(b) ==
  \/ Attach(b) \/ AttachFails(b)
  \/ List(b) \/ ListFails(b)
  \/ RemovePaths(b) \/ RemoveFails(b)
  \/ Fetch(b) \/ Mount(b) \/ MountFails(b)
  \/ Install(b) \/ InstallFails(b)
  \/ Clear(b) \/ ClearFails(b)
  \/ Build(b) \/ BuildFails(b)
  \/ \E x \in Parts : Upload(b, x)
  \/ UploadFails(b) \/ Finish(b)

Next ==
  \/ \E b \in Builds : BuildStep(b)
  \/ \E b \in Builds, fresh \in BOOLEAN : Begin(b, fresh)
  \/ Leave \/ HandleGone
  \/ \E f \in Files : Edit(f)

Spec == Init /\ [][Next]_vars

(* The daemon's event loop runs on, the page answers while it is there (a   *)
(* command exits or meets its timeout), and the grace timer fires.          *)
Fairness == WF_vars(HandleGone) /\ \A b \in Builds : WF_vars(BuildStep(b))

FairSpec == Spec /\ Fairness

-----------------------------------------------------------------------------
(* Properties *)

(* Fields, builds, container and disk have their types; the manifest is a   *)
(* manifest at every moment, never unset.                                   *)
TypeOK ==
  /\ runner \in BOOLEAN /\ booted \in BOOLEAN /\ poisoned \in BOOLEAN
  /\ manifest \in Tree
  /\ currentOutput \in Builds \cup {None}
  /\ pc \in [Builds -> {"idle", "done", "failed"} \cup Active]
  /\ next \in [Builds -> Tree]
  /\ plan \in [Builds -> [upsert : SUBSET Files, remove : SUBSET Files]]
  /\ fetching \in [Builds -> SUBSET Files]
  /\ sent \in [Builds -> SUBSET Parts]
  /\ alive \in BOOLEAN /\ undecided \in BOOLEAN /\ dirty \in BOOLEAN
  /\ held \in Tree /\ disk \in Tree
  /\ dist \in [by : Builds, src : Tree] \cup {None}
  /\ edits \in 0..MaxEdits
  /\ out \in [Builds -> [Parts -> Builds \cup {None}]]
  /\ seen \in [Builds -> [Files -> SUBSET ({Absent} \cup Versions)]]

(* "the failure this trades against is not a slow build but a wrong one":   *)
(* what a build produced was made from files the project really had, each   *)
(* as it was at some moment since the build was asked for; no deleted file  *)
(* is built against, and no edit before the request is missed.              *)
NoStaleBuild ==
  \A b \in Builds :
    pc[b] = "upload" /\ dist # None /\ dist.by = b
      => \A f \in Files : dist.src[f] \in seen[b][f]

(* Artifacts reach the output directory of the build that made them, and a  *)
(* build that reports success has delivered all of them.                    *)
OwnArtifacts ==
  \A b \in Builds, x \in Parts :
    /\ out[b][x] \in {None, b}
    /\ pc[b] = "done" => out[b][x] = b

(* "writeDistFile targets whichever build is in flight; a request arriving   *)
(* outside a build is refused": the session points at an output directory   *)
(* only while the build that owns it is uploading, so no POST can reach the *)
(* directory of a build that is over, even with builds side by side.        *)
OutputOnlyInFlight == currentOutput # None => pc[currentOutput] = "upload"

(* No build is admitted to a container in which a command was cut short,    *)
(* even with builds side by side.                                           *)
NoneAdmittedToDirty ==
  [][ \A b \in Builds : pc[b] = "idle" /\ pc'[b] # "idle" => ~dirty' ]_vars

(* A build never runs in a container in which a command was cut short.      *)
NoBuildInDirty ==
  \A b \in Builds : pc[b] \in {"list"} \cup AwaitsPage => ~dirty

(* Between syncs, what a usable session believes its live container to hold *)
(* is what it holds.                                                        *)
BelievesTruly ==
  booted /\ alive /\ ~poisoned /\ (\A b \in Builds : pc[b] \notin Syncing)
    => manifest = held

(* Every build that is asked for ends. *)
BuildsEnd == \A b \in Builds : (pc[b] \in Active) ~> (pc[b] \in {"done", "failed"})
=============================================================================
