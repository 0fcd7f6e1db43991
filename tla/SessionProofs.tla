----------------------------- MODULE SessionProofs -----------------------------
(***************************************************************************)
(* What holds of a session for every project, every number of builds and   *)
(* artifacts and any amount of editing: first whatever the environment     *)
(* does, then when nobody edits inside a sync, then when builds come one   *)
(* at a time, and last when both are so.                                   *)
(***************************************************************************)
EXTENDS Session, TLAPS

(* Carrying out the plan diffManifests made turns what it was made from     *)
(* into what it was made for: nothing deleted stays, nothing changed is     *)
(* missed.                                                                  *)
THEOREM PlanReachesNext ==
  ASSUME NEW previous \in Tree, NEW target \in Tree
  PROVE  Mounted(Removed(previous, Remove(previous, target)),
                 Upsert(previous, target), target) = target
<1>1. ASSUME NEW f \in Files
      PROVE  Mounted(Removed(previous, Remove(previous, target)),
                     Upsert(previous, target), target)[f] = target[f]
  BY DEF Mounted, Removed, Remove, Upsert, Present, Tree
<1>2. QED
  BY <1>1 DEF Mounted, Tree

(* Removing and mounting lead from trees to trees. *)
LEMMA TreesInTree ==
  /\ EmptyTree \in Tree
  /\ \A t \in Tree, S \in SUBSET Files : Removed(t, S) \in Tree
  /\ \A t, u \in Tree, S \in SUBSET Files : Mounted(t, S, u) \in Tree
  BY DEF EmptyTree, Tree, Removed, Mounted

(* A plan has two sets of files. *)
LEMMA PlanFields ==
  ASSUME NEW p \in [upsert : SUBSET Files, remove : SUBSET Files]
  PROVE  p.upsert \in SUBSET Files /\ p.remove \in SUBSET Files
  OBVIOUS

(* ... and so has the one diffManifests makes. *)
LEMMA PlansInPlans ==
  ASSUME NEW t \in Tree, NEW u \in Tree
  PROVE  /\ Upsert(t, u) \subseteq Files
         /\ Remove(t, u) \subseteq Files
         /\ Present(t) \subseteq Files
  BY DEF Upsert, Remove, Present

-----------------------------------------------------------------------------
(* Types *)

(* Initially nothing is mounted. *)
LEMMA TypeInit == Init => TypeOK
<1> SUFFICES ASSUME Init PROVE TypeOK
  OBVIOUS
<1>1. disk \in Tree /\ EmptyTree \in Tree
  BY SessionAssumption, TreesInTree DEF Init, Tree, Versions, Absent
<1>2. NoPlan \in [upsert : SUBSET Files, remove : SUBSET Files]
  BY DEF NoPlan
<1>3. edits \in 0..MaxEdits
  BY SessionAssumption DEF Init
<1>4. QED
  BY <1>1, <1>2, <1>3 DEF Init, TypeOK

(* A failed build keeps the types of what the session knows. *)
LEMMA FailTypes ==
  ASSUME TypeOK, NEW b \in Builds, NEW tag, Fail(b, tag)
  PROVE  /\ runner' \in BOOLEAN /\ booted' \in BOOLEAN /\ poisoned' \in BOOLEAN
         /\ manifest' \in Tree
         /\ currentOutput' \in Builds \cup {None}
         /\ pc' \in [Builds -> {"idle", "done", "failed"} \cup Active]
         /\ next' \in [Builds -> Tree]
         /\ plan' \in [Builds -> [upsert : SUBSET Files, remove : SUBSET Files]]
         /\ fetching' \in [Builds -> SUBSET Files]
         /\ sent' \in [Builds -> SUBSET Parts]
  BY DEF TypeOK, Fail, OutputAfter, StateKnown

(* ... and so does one whose removal fails half-way. *)
LEMMA RemovalFailsTypes ==
  ASSUME TypeOK, NEW b \in Builds, RemoveFails(b) \/ ClearFails(b)
  PROVE  TypeOK'
<1>1. /\ Fail(b, "UnknownFailure") /\ dirty' \in BOOLEAN
      /\ UNCHANGED <<alive, undecided, hostVars, seen>>
  BY DEF RemoveFails, ClearFails
<1>2. held' \in Tree
  <2>1. CASE RemoveFails(b)
    <3>1. plan[b].remove \in SUBSET Files
      BY PlanFields DEF TypeOK
    <3>2. \A gone \in SUBSET plan[b].remove : Removed(held, gone) \in Tree
      BY <3>1, TreesInTree DEF TypeOK
    <3>3. QED
      BY <2>1, <3>2 DEF RemoveFails
  <2>2. CASE ClearFails(b)
    BY <2>2 DEF ClearFails, TypeOK
  <2>3. QED
    BY <2>1, <2>2
<1>3. dist' \in [by : Builds, src : Tree] \cup {None}
  BY DEF RemoveFails, ClearFails, TypeOK
<1>4. QED
  BY <1>1, <1>2, <1>3, FailTypes DEF TypeOK, hostVars

(* ... and one whose call fails, with its command cut short or not.  *)
LEMMA CallFailsTypes ==
  ASSUME TypeOK, NEW b \in Builds, NEW tag, NEW cut \in BOOLEAN, CallFails(b, tag, cut)
  PROVE  TypeOK'
<1>1. dirty' \in BOOLEAN
  BY DEF CallFails, TypeOK
<1>2. Fail(b, tag)
  BY DEF CallFails
<1>3. QED
  BY <1>1, <1>2, FailTypes DEF CallFails, TypeOK, hostVars

(* Every step of builds, page, host and users keeps the types. *)
LEMMA TypeStep == TypeOK /\ [Next]_vars => TypeOK'
<1> SUFFICES ASSUME TypeOK, [Next]_vars
             PROVE  TypeOK'
  OBVIOUS
<1> USE SessionAssumption, TreesInTree
    DEF TypeOK, sessionVars, buildVars, containerVars, hostVars, Active, AwaitsPage
<1>1. ASSUME NEW b \in Builds, NEW fresh \in BOOLEAN, Begin(b, fresh)
      PROVE  TypeOK'
  <2>1. seen' \in [Builds -> [Files -> SUBSET ({Absent} \cup Versions)]]
    BY <1>1 DEF Begin, Tree
  <2>2. CASE Replace(fresh)
    BY <1>1, <2>1, <2>2 DEF Begin
  <2>3. CASE ~Replace(fresh)
    BY <1>1, <2>1, <2>3 DEF Begin
  <2>4. QED
    BY <2>2, <2>3
<1>2. ASSUME NEW b \in Builds, Attach(b)
      PROVE  TypeOK'
  BY <1>2 DEF Attach, ManifestAfterAttach
<1>3. ASSUME NEW b \in Builds, AttachFails(b) \/ ListFails(b)
      PROVE  TypeOK'
  <2>1. PICK tag : Fail(b, tag)
    BY <1>3 DEF AttachFails, ListFails
  <2>2. QED
    BY <1>3, <2>1, FailTypes DEF AttachFails, ListFails
<1>4. ASSUME NEW b \in Builds, List(b)
      PROVE  TypeOK'
  <2> DEFINE p == [upsert |-> Upsert(manifest, disk), remove |-> Remove(manifest, disk)]
             work == p.upsert \cup p.remove
  <2>1. p \in [upsert : SUBSET Files, remove : SUBSET Files]
    BY PlansInPlans
  <2>2. CASE /\ runner \/ work = {}
             /\ next' = [next EXCEPT ![b] = disk]
             /\ plan' = [plan EXCEPT ![b] = p]
             /\ pc' = [pc EXCEPT ![b] = IF p.remove # {} THEN "remove"
                                   ELSE IF p.upsert # {} THEN FetchCall ELSE "install"]
             /\ manifest' = IF work = {} THEN disk ELSE manifest
             /\ UNCHANGED <<runner, booted, poisoned, currentOutput, fetching, sent>>
    <3>1. next' \in [Builds -> Tree] /\ manifest' \in Tree
      BY <2>2
    <3>2. plan' \in [Builds -> [upsert : SUBSET Files, remove : SUBSET Files]]
      BY <2>1, <2>2
    <3>3. pc' \in [Builds -> {"idle", "done", "failed"} \cup Active]
      BY <2>2 DEF FetchCall
    <3>4. QED
      BY <1>4, <2>2, <3>1, <3>2, <3>3 DEF List
  <2>3. CASE Fail(b, "TypeError")
    BY <1>4, <2>3, FailTypes DEF List
  <2>4. QED
    BY <1>4, <2>2, <2>3 DEF List
<1>5. ASSUME NEW b \in Builds, RemovePaths(b)
      PROVE  TypeOK'
  <2>1. plan[b].remove \in SUBSET Files /\ held \in Tree
    <3>1. plan[b] \in [upsert : SUBSET Files, remove : SUBSET Files]
      BY ONLY TypeOK DEF TypeOK
    <3>2. QED
      BY ONLY <3>1, PlanFields, TypeOK DEF TypeOK
  <2>2. Removed(held, plan[b].remove) \in Tree
    BY ONLY <2>1, TreesInTree
  <2>3. held' \in Tree
    BY ONLY <1>5, <2>2 DEF RemovePaths
  <2>4. manifest' \in Tree
    BY <1>5 DEF RemovePaths
  <2>5. pc' \in [Builds -> {"idle", "done", "failed"} \cup Active]
    BY <1>5 DEF RemovePaths, FetchCall
  <2>6. UNCHANGED <<runner, booted, poisoned, currentOutput, next, plan, fetching, sent,
                    alive, undecided, dist, dirty, hostVars, seen>>
    BY ONLY <1>5 DEF RemovePaths
  <2>7. QED
    BY ONLY TypeOK, <2>3, <2>4, <2>5, <2>6 DEF TypeOK, hostVars
<1>6. ASSUME NEW b \in Builds, Fetch(b)
      PROVE  TypeOK'
  <2>1. FetchSet(b) \in SUBSET Files
    BY PlansInPlans DEF FetchSet
  <2>2. QED
    BY <1>6, <2>1 DEF Fetch
<1>7. ASSUME NEW b \in Builds, Mount(b)
      PROVE  TypeOK'
  <2>1. fetching[b] \in SUBSET Files /\ held \in Tree /\ disk \in Tree
    OBVIOUS
  <2>2. Mounted(held, fetching[b], disk) \in Tree
    BY ONLY <2>1, TreesInTree
  <2>3. QED
    BY <1>7, <2>2 DEF Mount
<1>8. ASSUME NEW b \in Builds,
             MountFails(b) \/ InstallFails(b) \/ BuildFails(b) \/ UploadFails(b)
      PROVE  TypeOK'
  <2>1. ASSUME NEW tag, NEW cut \in BOOLEAN, CallFails(b, tag, cut)
        PROVE  TypeOK'
    BY <2>1, CallFailsTypes
  <2>2. QED
    BY ONLY <1>8, <2>1 DEF MountFails, InstallFails, BuildFails, UploadFails
<1>9. ASSUME NEW b \in Builds, Install(b) \/ Clear(b) \/ Finish(b)
      PROVE  TypeOK'
  BY <1>9 DEF Install, Clear, DistCleared, Finish, OutputAfter
<1>10. ASSUME NEW b \in Builds, Build(b)
       PROVE  TypeOK'
  <2>1. dist' \in [by : Builds, src : Tree] \cup {None}
    BY <1>10 DEF Build
  <2>2. sent' \in [Builds -> SUBSET Parts]
    BY <1>10 DEF Build
  <2>3. QED
    BY <1>10, <2>1, <2>2 DEF Build
<1>11. ASSUME NEW b \in Builds, NEW x \in Parts, Upload(b, x)
       PROVE  TypeOK'
  <2>1. dist.by \in Builds /\ currentOutput \in Builds
    BY <1>11 DEF Upload
  <2>2. out' \in [Builds -> [Parts -> Builds \cup {None}]]
    BY <1>11, <2>1 DEF Upload
  <2>3. sent' \in [Builds -> SUBSET Parts]
    BY <1>11 DEF Upload
  <2>4. QED
    BY <1>11, <2>2, <2>3 DEF Upload
<1>12. CASE Leave
  BY <1>12 DEF Leave
<1>13. CASE HandleGone
  BY <1>13 DEF HandleGone, Forget, StateKnown
<1>14. ASSUME NEW f \in Files, Edit(f)
       PROVE  TypeOK'
  <2>1. PICK v \in {Absent, edits + 2} :
          /\ v # disk[f] /\ v <= MaxVersion
          /\ disk' = [disk EXCEPT ![f] = v]
          /\ seen' = [c \in Builds |->
                     IF pc[c] \in {"attach", "list"} \cup Syncing
                       THEN [seen[c] EXCEPT ![f] = @ \cup {v}] ELSE seen[c]]
    BY <1>14 DEF Edit
  <2>2. v \in {Absent} \cup Versions
    BY <2>1 DEF Absent, Versions
  <2>3. disk' \in Tree
    BY <2>1, <2>2 DEF Tree
  <2>4. seen' \in [Builds -> [Files -> SUBSET ({Absent} \cup Versions)]]
    BY <2>1, <2>2
  <2>5. edits' \in 0..MaxEdits
    BY <1>14 DEF Edit
  <2>6. QED
    BY <1>14, <2>3, <2>4, <2>5 DEF Edit
<1>15. CASE UNCHANGED vars
  BY <1>15 DEF vars
<1>16. QED
  BY <1>1, <1>2, <1>3, <1>4, <1>5, <1>6, <1>7, <1>8, <1>9, <1>10, <1>11, <1>12,
     <1>13, <1>14, <1>15, RemovalFailsTypes DEF Next, BuildStep

(* Fields, builds, container and disk always have their types.              *)
THEOREM SessionTypeCorrect == Spec => []TypeOK
  BY TypeInit, TypeStep, PTL DEF Spec

-----------------------------------------------------------------------------
(* Whatever the environment does *)

(* A command cut short leaves its mark on the session. *)
DirtyIsPoisoned == dirty => poisoned

Guards == TypeOK /\ OutputOnlyInFlight /\ DirtyIsPoisoned

(* Initially nothing is armed or dirty. *)
LEMMA GuardsInit == Init => Guards
  BY TypeInit DEF Init, Guards, OutputOnlyInFlight, DirtyIsPoisoned

(* A failed build disarms its own output and unpoisons nothing. *)
LEMMA GuardsFail ==
  ASSUME Guards, NEW b \in Builds, NEW tag, Fail(b, tag)
  PROVE  OutputOnlyInFlight' /\ (poisoned => poisoned')
  BY SessionAssumption
     DEF Guards, TypeOK, Fail, OutputAfter, OutputOnlyInFlight

(* A call that was cut short poisons the session. *)
LEMMA GuardsCallFails ==
  ASSUME Guards, NEW b \in Builds, NEW tag, NEW cut \in BOOLEAN,
         CallFails(b, tag, cut), cut => ~StateKnown(tag)
  PROVE  OutputOnlyInFlight' /\ DirtyIsPoisoned'
<1>1. Fail(b, tag)
  BY DEF CallFails
<1>2. poisoned' = (poisoned \/ ~StateKnown(tag))
  BY <1>1 DEF Fail
<1>3. QED
  BY <1>1, <1>2, GuardsFail DEF CallFails, Guards, DirtyIsPoisoned

(* A step keeps the two guards, and admits no build to a dirty container.   *)
LEMMA GuardsStep ==
  Guards /\ [Next]_vars
    => /\ Guards'
       /\ \A b \in Builds : pc[b] = "idle" /\ pc'[b] # "idle" => ~dirty'
<1> SUFFICES ASSUME Guards, [Next]_vars
             PROVE  /\ OutputOnlyInFlight' /\ DirtyIsPoisoned'
                    /\ \A b \in Builds : pc[b] = "idle" /\ pc'[b] # "idle" => ~dirty'
  BY TypeStep DEF Guards
<1> DEFINE Kept == OutputOnlyInFlight' /\ DirtyIsPoisoned'
           Admits == \A b \in Builds : pc[b] = "idle" /\ pc'[b] # "idle" => ~dirty'
<1> USE SessionAssumption
    DEF Guards, TypeOK, OutputOnlyInFlight, DirtyIsPoisoned, sessionVars, buildVars,
        containerVars, hostVars
<1>1. ASSUME NEW b \in Builds, NEW fresh \in BOOLEAN, Begin(b, fresh)
      PROVE  Kept /\ Admits
  BY <1>1 DEF Begin, Replace
<1>2. ASSUME NEW b \in Builds, AttachFails(b) \/ ListFails(b)
      PROVE  Kept /\ Admits
  <2>1. PICK tag : Fail(b, tag)
    BY <1>2 DEF AttachFails, ListFails
  <2>2. UNCHANGED dirty /\ Admits
    BY <1>2, <2>1 DEF AttachFails, ListFails, Fail
  <2>3. QED
    BY <2>1, <2>2, GuardsFail
<1>3. ASSUME NEW b \in Builds, List(b)
      PROVE  Kept /\ Admits
  <2>1. CASE Fail(b, "TypeError")
    <3>1. UNCHANGED dirty /\ Admits
      BY <1>3 DEF List, Fail
    <3>2. QED
      BY <2>1, <3>1, GuardsFail
  <2>2. CASE ~Fail(b, "TypeError")
    BY <1>3, <2>2 DEF List
  <2>3. QED
    BY <2>1, <2>2
<1>4. ASSUME NEW b \in Builds,
             \/ Attach(b) \/ RemovePaths(b) \/ Fetch(b) \/ Mount(b)
             \/ Install(b) \/ Clear(b)
      PROVE  Kept /\ Admits
  BY <1>4 DEF Attach, RemovePaths, Fetch, Mount, Install, Clear
<1>5. ASSUME NEW b \in Builds,
             MountFails(b) \/ InstallFails(b) \/ BuildFails(b) \/ UploadFails(b)
      PROVE  Kept /\ Admits
  <2>1. ASSUME NEW tag, NEW cut \in BOOLEAN, CallFails(b, tag, cut),
               cut => ~StateKnown(tag)
        PROVE  Kept /\ Admits
    <3>1. Fail(b, tag) /\ (dirty' = (dirty \/ cut))
      BY <2>1 DEF CallFails
    <3>2. pc[b] # "idle"
      BY <1>5 DEF MountFails, InstallFails, BuildFails, UploadFails
    <3>3. Admits
      BY <3>1, <3>2 DEF Fail
    <3>4. QED
      BY <2>1, <3>3, GuardsCallFails
  <2>2. ~StateKnown("MountFailed") /\ ~StateKnown("RuntimeFailure")
          /\ ~StateKnown("RunnerTimeout")
    BY DEF StateKnown
  <2>3. QED
    BY ONLY <1>5, <2>1, <2>2 DEF MountFails, InstallFails, BuildFails, UploadFails
<1>r. ASSUME NEW b \in Builds, RemoveFails(b) \/ ClearFails(b)
      PROVE  Kept /\ Admits
  <2>1. Fail(b, "UnknownFailure") /\ pc[b] # "idle"
    BY <1>r DEF RemoveFails, ClearFails
  <2>2. poisoned' /\ Admits
    BY <2>1 DEF Fail, StateKnown
  <2>3. QED
    BY <2>1, <2>2, GuardsFail
<1>6. ASSUME NEW b \in Builds, Build(b)
      PROVE  Kept /\ Admits
  BY <1>6 DEF Build
<1>7. ASSUME NEW b \in Builds, Finish(b) \/ \E x \in Parts : Upload(b, x)
      PROVE  Kept /\ Admits
  BY <1>7 DEF Finish, OutputAfter, Upload
<1>8. CASE Leave
  BY <1>8 DEF Leave
<1>9. CASE HandleGone
  BY <1>9 DEF HandleGone, Forget, AwaitsPage
<1>10. ASSUME NEW f \in Files, Edit(f)
       PROVE  Kept /\ Admits
  BY <1>10 DEF Edit
<1>11. CASE UNCHANGED vars
  BY <1>11 DEF vars
<1>12. QED
  BY <1>1, <1>2, <1>3, <1>4, <1>5, <1>r, <1>6, <1>7, <1>8, <1>9, <1>10, <1>11
     DEF Next, BuildStep

(* Uploads reach only a build that is uploading, with any number of builds  *)
(* side by side.                                                            *)
THEOREM UploadsReachUploaders == Spec => []OutputOnlyInFlight
<1>1. Guards => OutputOnlyInFlight
  BY DEF Guards
<1>2. QED
  BY <1>1, GuardsInit, GuardsStep, PTL DEF Spec

(* No build is ever admitted to a container a command was cut short in.     *)
THEOREM AdmittedClean == Spec => NoneAdmittedToDirty
<1>1. Guards /\ [Next]_vars
        => [\A b \in Builds : pc[b] = "idle" /\ pc'[b] # "idle" => ~dirty']_vars
  BY GuardsStep
<1>2. QED
  BY <1>1, GuardsInit, GuardsStep, PTL DEF Spec, NoneAdmittedToDirty

-----------------------------------------------------------------------------
(* What the manifest says.  No edit falls inside a sync; builds may overlap. *)
SyncsUndisturbed == "editDuringSync" \notin Faults

(* What build b's sync has still to change in the container. *)
Left(b) ==
  CASE pc[b] = "remove" -> plan[b].remove \cup plan[b].upsert
    [] pc[b] \in {"fetch", "fetchAll"} -> plan[b].upsert
    [] pc[b] = "mount"  -> fetching[b]

(* A sync leads to the disk: it removes nothing that is there, brings        *)
(* nothing that is not, and has before it whatever differs still.           *)
LeadsToDisk(b) ==
  /\ next[b] = disk
  /\ plan[b].upsert \subseteq Present(disk)
  /\ plan[b].remove \cap Present(disk) = {}
  /\ pc[b] = "mount" => fetching[b] \subseteq Present(disk)
  /\ \A f \in Files : held[f] # disk[f] => f \in Left(b)

(* A page attaches to a session nobody else is using.  A live container of a *)
(* usable session is what the manifest says, file by file, or the disk       *)
(* already; when no sync is under way it is what the manifest says.          *)
InStep ==
  /\ booted = runner
  /\ undecided => ~alive
  /\ \A b \in Builds : pc[b] = "attach" =>
       ~booted /\ \A c \in Builds \ {b} : pc[c] \notin Active
  /\ alive /\ ~poisoned =>
       /\ \A f \in Files : held[f] \in {manifest[f], disk[f]}
       /\ (\A b \in Builds : pc[b] \notin Syncing) => manifest = held
       /\ \A b \in Builds : pc[b] \in Syncing => LeadsToDisk(b)

(* What a first sync, an empty plan and a full plan do to a tree. *)
LEMMA TreeFacts ==
  ASSUME NEW t \in Tree, NEW d \in Tree
  PROVE  /\ Upsert(EmptyTree, d) = Present(d)
         /\ Removed(t, {}) = t
         /\ Mounted(t, {}, d) = t
<1>1. Upsert(EmptyTree, d) = Present(d)
  BY DEF Upsert, EmptyTree, Present
<1>2. \A f \in Files : Removed(t, {})[f] = t[f] /\ Mounted(t, {}, d)[f] = t[f]
  BY DEF Removed, Mounted
<1>3. QED
  BY <1>1, <1>2 DEF Removed, Mounted, Tree

(* An empty plan means that there is nothing to do. *)
LEMMA EmptyPlan ==
  ASSUME NEW t \in Tree, NEW d \in Tree, Upsert(t, d) = {}, Remove(t, d) = {}
  PROVE  d = t
<1>1. Removed(t, {}) = t /\ Mounted(t, {}, d) = t
  BY TreeFacts
<1>2. Mounted(Removed(t, Remove(t, d)), Upsert(t, d), d) = d
  BY PlanReachesNext
<1>3. QED
  BY <1>1, <1>2

(* Initially no container is believed in. *)
LEMMA InStepInit == Init => InStep
  BY DEF Init, InStep, Syncing

(* Of a build that fails elsewhere, or inside a sync in a way that poisons   *)
(* the session, InStep is not disturbed.                                    *)
LEMMA FailInStep ==
  ASSUME TypeOK, InStep, NEW b \in Builds, NEW tag, Fail(b, tag),
         UNCHANGED <<alive, undecided, held, disk>>, pc[b] \in Syncing => ~StateKnown(tag)
  PROVE  InStep'
<1>1. /\ \A c \in Builds : pc'[c] = IF c = b THEN "failed" ELSE pc[c]
      /\ poisoned' = (poisoned \/ ~StateKnown(tag))
      /\ UNCHANGED <<runner, booted, manifest, next, plan, fetching, alive, undecided, held, disk>>
  BY DEF TypeOK, Fail
<1>2. \A c \in Builds : pc'[c] \in Active => pc[c] \in Active /\ c # b
  BY <1>1 DEF Active, AwaitsPage
<1>3. \A c \in Builds : pc'[c] = "attach" => pc[c] = "attach" /\ c # b
  BY <1>1
<1>4. ~poisoned' => ~poisoned /\ \A c \in Builds : pc'[c] \in Syncing <=> pc[c] \in Syncing
  BY <1>1 DEF Syncing
<1>5. ASSUME NEW c \in Builds, pc'[c] \in Syncing
      PROVE  c # b /\ (LeadsToDisk(c) => LeadsToDisk(c)')
  <2>1. c # b /\ pc'[c] = pc[c]
    BY <1>1, <1>5 DEF Syncing
  <2>2. next'[c] = next[c] /\ UNCHANGED <<plan, fetching, held, disk>>
    BY <1>1, <2>1
  <2>3. Left(c)' = Left(c)
    BY <2>1, <2>2 DEF Left
  <2>4. Present(disk)' = Present(disk)
    BY <2>2 DEF Present
  <2>5. QED
    BY <2>1, <2>2, <2>3, <2>4 DEF LeadsToDisk
<1>6. QED
  BY <1>1, <1>2, <1>3, <1>4, <1>5 DEF InStep

(* A failure that poisons the session leaves nothing to believe in. *)
LEMMA PoisonInStep ==
  ASSUME TypeOK, InStep, NEW b \in Builds, NEW tag, Fail(b, tag), ~StateKnown(tag),
         UNCHANGED <<alive, undecided>>
  PROVE  InStep'
<1>1. /\ \A c \in Builds : pc'[c] = IF c = b THEN "failed" ELSE pc[c]
      /\ poisoned' /\ UNCHANGED <<runner, booted, alive, undecided>>
  BY DEF TypeOK, Fail
<1>2. \A c \in Builds : /\ pc'[c] \in Active => pc[c] \in Active /\ c # b
                        /\ pc'[c] = "attach" => pc[c] = "attach" /\ c # b
  BY <1>1 DEF Active, AwaitsPage
<1>3. QED
  BY <1>1, <1>2 DEF InStep

(* So it is when pages, files and manifest stay and only builds outside of   *)
(* syncs go on.                                                             *)
LEMMA OutsideInStep ==
  ASSUME TypeOK, InStep, NEW b \in Builds, NEW s, pc' = [pc EXCEPT ![b] = s],
         pc[b] \in Active, pc[b] # "attach", pc[b] \notin Syncing,
         s \notin Syncing, s # "attach",
         UNCHANGED <<runner, booted, manifest, poisoned, plan, fetching, alive, undecided, held,
                     disk>>,
         \A c \in Builds : c # b => next'[c] = next[c]
  PROVE  InStep'
<1>1. \A c \in Builds : pc'[c] = IF c = b THEN s ELSE pc[c]
  BY DEF TypeOK
<1>2. \A c \in Builds : pc'[c] \in Active => pc[c] \in Active
  BY <1>1
<1>3. \A c \in Builds : pc'[c] = "attach" => pc[c] = "attach" /\ c # b
  BY <1>1
<1>4. \A c \in Builds : pc'[c] \in Syncing <=> pc[c] \in Syncing
  BY <1>1
<1>5. ASSUME NEW c \in Builds, pc'[c] \in Syncing
      PROVE  c # b /\ (LeadsToDisk(c) => LeadsToDisk(c)')
  <2>1. c # b /\ pc'[c] = pc[c]
    BY <1>1, <1>5
  <2>2. next'[c] = next[c] /\ UNCHANGED <<plan, fetching, held, disk>>
    BY <1>1, <2>1
  <2>3. Left(c)' = Left(c)
    BY <2>1, <2>2 DEF Left
  <2>4. Present(disk)' = Present(disk)
    BY <2>2 DEF Present
  <2>5. QED
    BY <2>1, <2>2, <2>3, <2>4 DEF LeadsToDisk
<1>6. QED
  BY <1>1, <1>2, <1>3, <1>4, <1>5 DEF InStep

(* Where the manifest and the disk differ, the plan has something to do. *)
LEMMA PlanCovers ==
  ASSUME NEW t \in Tree, NEW d \in Tree
  PROVE  /\ Upsert(t, d) \subseteq Present(d)
         /\ Remove(t, d) \cap Present(d) = {}
         /\ \A f \in Files : t[f] # d[f] => f \in Upsert(t, d) \cup Remove(t, d)
  BY DEF Tree, Upsert, Remove, Present

(* A sync that begins, or finds nothing to do. *)
LEMMA ListInStep ==
  ASSUME TypeOK, InStep, NEW b \in Builds, List(b)
  PROVE  InStep'
<1> DEFINE p == [upsert |-> Upsert(manifest, disk), remove |-> Remove(manifest, disk)]
           work == p.upsert \cup p.remove
           now == IF p.remove # {} THEN "remove" ELSE IF p.upsert # {} THEN FetchCall ELSE "install"
<1>1. CASE Fail(b, "TypeError")
  <2>1. UNCHANGED <<alive, undecided, held, disk>> /\ pc[b] \notin Syncing
    BY DEF List, Syncing, containerVars, hostVars
  <2>2. QED
    BY <1>1, <2>1, FailInStep
<1>2. CASE ~Fail(b, "TypeError")
  <2>1. /\ pc[b] = "list" /\ pc' = [pc EXCEPT ![b] = now]
        /\ next' = [next EXCEPT ![b] = disk] /\ plan' = [plan EXCEPT ![b] = p]
        /\ manifest' = IF work = {} THEN disk ELSE manifest
        /\ UNCHANGED <<runner, booted, poisoned, fetching, alive, undecided, held, disk>>
    BY <1>2 DEF List, containerVars, hostVars
  <2>2. manifest \in Tree /\ disk \in Tree /\ held \in Tree
    BY DEF TypeOK
  <2>3. /\ p.upsert \subseteq Present(disk) /\ p.remove \cap Present(disk) = {}
        /\ \A f \in Files : manifest[f] # disk[f] => f \in p.upsert \cup p.remove
    BY <2>2, PlanCovers
  <2>4. work = {} => manifest = disk
    <3>1. work = {} => Upsert(manifest, disk) = {} /\ Remove(manifest, disk) = {}
      OBVIOUS
    <3>2. QED
      BY ONLY <2>2, <3>1, EmptyPlan
  <2>5. manifest' = manifest
    BY <2>1, <2>4
  <2> HIDE DEF work
  <2>6. \A c \in Builds : /\ c # b => pc'[c] = pc[c] /\ next'[c] = next[c] /\ plan'[c] = plan[c]
                          /\ c = b => pc'[c] = now /\ next'[c] = disk /\ plan'[c] = p
    BY <2>1 DEF TypeOK
  <2>7. /\ now \in {"remove", "fetch", "fetchAll", "install"}
        /\ now \in {"fetch", "fetchAll"} => p.remove = {}
        /\ now = "install" => p.upsert \cup p.remove = {}
    BY DEF FetchCall
  <2> HIDE DEF now, p
  <2>8. \A c \in Builds : c # b /\ pc'[c] \in Syncing /\ LeadsToDisk(c) => LeadsToDisk(c)'
    BY <2>1, <2>6 DEF LeadsToDisk, Left
  <2>9. (\A f \in Files : held[f] \in {manifest[f], disk[f]}) /\ now # "install" => LeadsToDisk(b)'
    <3> SUFFICES ASSUME \A f \in Files : held[f] \in {manifest[f], disk[f]}, now # "install"
                 PROVE  LeadsToDisk(b)'
      OBVIOUS
    <3>1. pc'[b] = now /\ next'[b] = disk /\ plan'[b] = p /\ UNCHANGED <<held, disk>>
      BY <2>1, <2>6
    <3>2. \A f \in Files : held[f] # disk[f] => f \in p.upsert \cup p.remove
      BY <2>3
    <3>3. CASE now = "remove"
      BY <2>3, <3>1, <3>2, <3>3 DEF LeadsToDisk, Left
    <3>4. CASE now \in {"fetch", "fetchAll"}
      BY <2>3, <2>7, <3>1, <3>2, <3>4 DEF LeadsToDisk, Left
    <3>5. QED
      BY <2>7, <3>3, <3>4
  <2>10. (\A c \in Builds : pc'[c] \notin Syncing) => \A c \in Builds : pc[c] \notin Syncing
    BY <2>1, <2>6 DEF Syncing
  <2>11. \A c \in Builds : pc'[c] \in Active => c = b \/ pc[c] \in Active
    BY <2>6
  <2>12. \A c \in Builds : pc'[c] = "attach" => pc[c] = "attach" /\ c # b
    BY <2>6, <2>7
  <2>13. \A c \in Builds : pc[c] = "attach" => FALSE
    BY <2>1 DEF InStep, Active
  <2>14. alive' /\ ~poisoned' =>
           /\ \A f \in Files : held'[f] \in {manifest'[f], disk'[f]}
           /\ (\A c \in Builds : pc'[c] \notin Syncing) => manifest' = held'
           /\ \A c \in Builds : pc'[c] \in Syncing => LeadsToDisk(c)'
    <3> SUFFICES ASSUME alive', ~poisoned'
                 PROVE  /\ \A f \in Files : held[f] \in {manifest[f], disk[f]}
                        /\ (\A c \in Builds : pc'[c] \notin Syncing) => manifest = held
                        /\ \A c \in Builds : pc'[c] \in Syncing => LeadsToDisk(c)'
      BY <2>1, <2>5
    <3>1. alive /\ ~poisoned
      BY <2>1
    <3>2. \A f \in Files : held[f] \in {manifest[f], disk[f]}
      BY <3>1 DEF InStep
    <3>3. (\A c \in Builds : pc'[c] \notin Syncing) => manifest = held
      BY <2>10, <3>1 DEF InStep
    <3>4. ASSUME NEW c \in Builds, pc'[c] \in Syncing
          PROVE  LeadsToDisk(c)'
      <4>1. CASE c = b
        BY <2>6, <2>9, <3>2, <3>4, <4>1 DEF Syncing
      <4>2. CASE c # b
        BY <2>6, <2>8, <3>1, <3>4, <4>2 DEF InStep
      <4>3. QED
        BY <4>1, <4>2
    <3>5. QED
      BY <3>2, <3>3, <3>4
  <2>15. QED
    BY <2>1, <2>12, <2>13, <2>14 DEF InStep
<1>3. QED
  BY <1>1, <1>2

(* What a step of a sync does to the container brings it nearer to the disk. *)
LEMMA NearerInStep ==
  ASSUME TypeOK, InStep, NEW b \in Builds, NEW s,
         pc[b] \in Syncing, alive, pc' = [pc EXCEPT ![b] = s], s \in Syncing \cup {"install"},
         UNCHANGED <<runner, booted, poisoned, next, plan, alive, undecided, disk>>,
         \A c \in Builds : c # b => fetching'[c] = fetching[c],
         ~poisoned => /\ \A f \in Files : held'[f] \in {held[f], disk[f]}
                      /\ s = "install" => manifest' = disk /\ held' = disk
                      /\ s # "install" => manifest' = manifest /\ LeadsToDisk(b)'
  PROVE  InStep'
<1>1. \A c \in Builds : pc'[c] = IF c = b THEN s ELSE pc[c]
  BY DEF TypeOK
<1>2. \A c \in Builds : pc[c] # "attach" /\ pc'[c] # "attach"
  BY <1>1 DEF InStep, Active, AwaitsPage, Syncing
<1>3. ASSUME ~poisoned
      PROVE  /\ \A f \in Files : held'[f] \in {manifest'[f], disk[f]}
             /\ (\A c \in Builds : pc'[c] \notin Syncing) => manifest' = held'
             /\ \A c \in Builds : pc'[c] \in Syncing => LeadsToDisk(c)'
  <2>1. \A f \in Files : held'[f] \in {manifest'[f], disk[f]}
    <3>1. \A f \in Files : held[f] \in {manifest[f], disk[f]}
      BY <1>3 DEF InStep
    <3>2. CASE s = "install"
      BY <1>3, <3>2
    <3>3. CASE s # "install"
      BY <1>3, <3>1, <3>3
    <3>4. QED
      BY <3>2, <3>3
  <2>2. (\A c \in Builds : pc'[c] \notin Syncing) => s = "install"
    BY <1>1 DEF Syncing
  <2>3. ASSUME NEW c \in Builds, pc'[c] \in Syncing
        PROVE  LeadsToDisk(c)'
    <3>1. CASE c = b
      <4>1. s # "install"
        BY <1>1, <2>3, <3>1 DEF Syncing
      <4>2. QED
        BY <1>3, <3>1, <4>1
    <3>2. CASE c # b
      <4>1. LeadsToDisk(c) /\ pc'[c] = pc[c]
        BY <1>1, <1>3, <2>3, <3>2 DEF InStep
      <4>2. Left(c)' = Left(c)
        BY <3>2, <4>1 DEF Left
      <4>3. \A f \in Files : held'[f] # disk[f] => held[f] # disk[f]
        BY <1>3
      <4>4. QED
        BY <3>2, <4>1, <4>2, <4>3 DEF LeadsToDisk
    <3>3. QED
      BY <3>1, <3>2
  <2>4. QED
    BY <1>3, <2>1, <2>2, <2>3
<1>4. booted' = runner' /\ (undecided' => ~alive')
  BY DEF InStep
<1>5. QED
  BY <1>2, <1>3, <1>4 DEF InStep

(* Each step of a sync is such a step. *)
LEMMA SyncInStep ==
  ASSUME TypeOK, TypeOK', InStep, NEW b \in Builds, RemovePaths(b) \/ Fetch(b) \/ Mount(b)
  PROVE  InStep'
<1>1. /\ alive /\ pc[b] \in Syncing
      /\ UNCHANGED <<runner, booted, poisoned, next, plan, alive, undecided, disk>>
      /\ \A c \in Builds : c # b => fetching'[c] = fetching[c]
  BY DEF TypeOK, RemovePaths, Fetch, Mount, Syncing, sessionVars, containerVars, hostVars
<1>2. held \in Tree /\ held' \in Tree /\ disk \in Tree
  BY <1>1 DEF TypeOK
<1>3. ~poisoned => LeadsToDisk(b)
  BY <1>1 DEF InStep
<1>4. CASE RemovePaths(b)
  <2> DEFINE s == IF plan[b].upsert # {} THEN FetchCall ELSE "install"
  <2>1. /\ pc[b] = "remove" /\ pc' = [pc EXCEPT ![b] = s]
        /\ held' = Removed(held, plan[b].remove)
        /\ manifest' = IF plan[b].upsert # {} THEN manifest ELSE next[b]
    BY <1>4 DEF RemovePaths
  <2>2. \A f \in Files : held'[f] = IF f \in plan[b].remove THEN Absent ELSE held[f]
    BY <2>1 DEF Removed
  <2>3. ASSUME ~poisoned
        PROVE  /\ \A f \in Files : held'[f] \in {held[f], disk[f]}
               /\ \A f \in Files : held'[f] # disk[f] => f \in plan[b].upsert
    <3>1. \A f \in Files : held[f] # disk[f] => f \in plan[b].remove \cup plan[b].upsert
      BY <1>3, <2>1, <2>3 DEF LeadsToDisk, Left
    <3>2. \A f \in plan[b].remove \cap Files : disk[f] = Absent
      BY <1>3, <2>3 DEF LeadsToDisk, Present
    <3>3. QED
      BY <2>2, <3>1, <3>2
  <2>4. pc'[b] = s
    BY <2>1 DEF TypeOK
  <2>5. ~poisoned /\ s = "install" => manifest' = disk /\ held' = disk
    <3> SUFFICES ASSUME ~poisoned, s = "install"
                 PROVE  manifest' = disk /\ held' = disk
      OBVIOUS
    <3>1. plan[b].upsert = {}
      BY DEF FetchCall
    <3>2. \A f \in Files : held'[f] = disk[f]
      BY <2>3, <3>1
    <3>3. next[b] = disk
      BY <1>3 DEF LeadsToDisk
    <3>4. QED
      BY <1>2, <2>1, <3>1, <3>2, <3>3 DEF Tree
  <2>6. ~poisoned /\ s # "install" => manifest' = manifest /\ LeadsToDisk(b)'
    <3> SUFFICES ASSUME ~poisoned, s # "install"
                 PROVE  manifest' = manifest /\ LeadsToDisk(b)'
      OBVIOUS
    <3>1. pc'[b] \in {"fetch", "fetchAll"} /\ manifest' = manifest
      BY <2>1, <2>4 DEF FetchCall
    <3>2. QED
      BY <1>1, <1>3, <2>3, <3>1 DEF LeadsToDisk, Left
  <2>7. s \in Syncing \cup {"install"}
    BY DEF Syncing, FetchCall
  <2> HIDE DEF s
  <2>8. QED
    BY <1>1, <2>1, <2>3, <2>5, <2>6, <2>7, NearerInStep
<1>5. CASE Fetch(b)
  <2>1. /\ pc[b] \in {"fetch", "fetchAll"} /\ pc' = [pc EXCEPT ![b] = "mount"] /\ pc'[b] = "mount"
        /\ fetching'[b] = FetchSet(b) /\ UNCHANGED <<manifest, held>>
    BY <1>5 DEF TypeOK, Fetch, sessionVars, containerVars
  <2>2. ASSUME ~poisoned
        PROVE  LeadsToDisk(b)'
    <3>1. /\ next[b] = disk /\ plan[b].upsert \subseteq Present(disk)
          /\ plan[b].remove \cap Present(disk) = {}
          /\ \A f \in Files : held[f] # disk[f] => f \in plan[b].upsert
      BY <1>3, <2>1, <2>2 DEF LeadsToDisk, Left
    <3>2. plan[b].upsert \subseteq FetchSet(b) /\ FetchSet(b) \subseteq Present(disk)
      BY <3>1 DEF FetchSet
    <3>3. QED
      BY <1>1, <2>1, <3>1, <3>2 DEF LeadsToDisk, Left
  <2>3. "mount" \in Syncing /\ "mount" # "install"
    BY DEF Syncing
  <2>4. QED
    BY <1>1, <2>1, <2>2, <2>3, NearerInStep
<1>6. CASE Mount(b)
  <2>1. /\ pc[b] = "mount" /\ pc' = [pc EXCEPT ![b] = "install"]
        /\ held' = Mounted(held, fetching[b], disk) /\ manifest' = next[b]
        /\ UNCHANGED fetching
    BY <1>6 DEF Mount
  <2>2. ASSUME ~poisoned
        PROVE  held' = disk /\ manifest' = disk
    <3>1. next[b] = disk /\ \A f \in Files : held[f] # disk[f] => f \in fetching[b]
      BY <1>3, <2>1, <2>2 DEF LeadsToDisk, Left
    <3>2. \A f \in Files : held'[f] = disk[f]
      BY <2>1, <3>1 DEF Mounted
    <3>3. QED
      BY <1>2, <2>1, <3>1, <3>2 DEF Tree
  <2>3. QED
    BY <1>1, <2>1, <2>2, NearerInStep
<1>7. QED
  BY <1>4, <1>5, <1>6

(* Manifest and container part only inside syncs, and meet again, however    *)
(* builds overlap and whenever the page goes.                               *)
LEMMA InStepStep ==
  ASSUME SyncsUndisturbed, TypeOK, TypeOK', InStep, [Next]_vars
  PROVE  InStep'
<1>1. ASSUME NEW b \in Builds, NEW fresh \in BOOLEAN, Begin(b, fresh)
      PROVE  InStep'
  <2>1. PICK s \in {"attach", "list"} :
          /\ \A c \in Builds : pc'[c] = IF c = b THEN s ELSE pc[c]
          /\ s = "attach" => ~booted'
    BY <1>1 DEF Begin, TypeOK, InStep, sessionVars
  <2>2. pc[b] = "idle" /\ UNCHANGED <<next, plan, fetching, disk>>
    BY <1>1 DEF Begin, hostVars
  <2>3. \A c \in Builds : pc'[c] \in Syncing <=> pc[c] \in Syncing
    BY <2>1, <2>2 DEF Syncing
  <2>4. \A c \in Builds : pc'[c] \in Active => c = b \/ pc[c] \in Active
    BY <2>1
  <2>5. (s = "attach" \/ ~booted) => \A c \in Builds : pc[c] \notin Active
    <3>1. InFlight # {} => booted /\ ~Replace(fresh)
      BY <1>1 DEF Begin
    <3>2. s = "attach" /\ booted => Replace(fresh)
      BY <1>1, <2>1 DEF Begin, InStep, TypeOK, sessionVars
    <3>3. QED
      BY <3>1, <3>2 DEF InFlight
  <2>6. \A c \in Builds : pc'[c] = "attach" =>
          ~booted' /\ \A d \in Builds \ {c} : pc'[d] \notin Active
    <3> SUFFICES ASSUME NEW c \in Builds, pc'[c] = "attach"
                 PROVE  ~booted' /\ \A d \in Builds \ {c} : pc'[d] \notin Active
      OBVIOUS
    <3>1. CASE c = b
      BY <2>1, <2>4, <2>5, <3>1
    <3>2. CASE c # b
      <4>1. pc[c] = "attach" /\ ~booted
        BY <2>1, <3>2 DEF InStep
      <4>2. QED
        BY <2>5, <4>1 DEF Active
    <3>3. QED
      BY <3>1, <3>2
  <2>7. CASE Replace(fresh)
    BY <1>1, <2>6, <2>7 DEF Begin, InStep
  <2>8. CASE ~Replace(fresh)
    <3>1. UNCHANGED <<runner, booted, manifest, poisoned, alive, undecided, held>>
      BY <1>1, <2>8 DEF Begin, sessionVars, containerVars
    <3>2. \A c \in Builds : pc[c] \in Syncing /\ LeadsToDisk(c) => LeadsToDisk(c)'
      BY <2>1, <2>2, <3>1 DEF LeadsToDisk, Left, Syncing
    <3>3. QED
      BY <2>2, <2>3, <2>6, <3>1, <3>2 DEF InStep
  <2>9. QED
    BY <2>7, <2>8
<1>2. ASSUME NEW b \in Builds, Attach(b)
      PROVE  InStep'
  <2>1. \A c \in Builds : pc'[c] = IF c = b THEN "list" ELSE pc[c]
    BY <1>2 DEF Attach, TypeOK
  <2>2. \A c \in Builds : c # b => pc[c] \notin Active
    BY <1>2 DEF Attach, InStep
  <2>3. \A c \in Builds : pc'[c] # "attach" /\ pc'[c] \notin Syncing
    BY <2>1, <2>2 DEF Active, AwaitsPage, Syncing
  <2>4. QED
    BY <1>2, <2>3 DEF Attach, ManifestAfterAttach, InStep
<1>3. ASSUME NEW b \in Builds,
             \/ AttachFails(b) \/ ListFails(b) \/ MountFails(b) \/ InstallFails(b)
             \/ BuildFails(b) \/ UploadFails(b)
      PROVE  InStep'
  <2>1. PICK tag : /\ Fail(b, tag) /\ (pc[b] = "mount" => tag = "MountFailed")
                   /\ UNCHANGED <<alive, undecided, held, disk>>
    BY <1>3 DEF AttachFails, ListFails, MountFails, InstallFails, BuildFails, UploadFails,
                CallFails, containerVars, hostVars
  <2>2. pc[b] \in Syncing => pc[b] = "mount"
    BY <1>3 DEF AttachFails, ListFails, MountFails, InstallFails, BuildFails, UploadFails, Syncing
  <2>3. pc[b] \in Syncing => ~StateKnown(tag)
    BY <2>1, <2>2 DEF StateKnown
  <2>4. QED
    BY <2>1, <2>3, FailInStep
<1>r. ASSUME NEW b \in Builds, RemoveFails(b) \/ ClearFails(b)
      PROVE  InStep'
  <2>1. Fail(b, "UnknownFailure") /\ UNCHANGED <<alive, undecided>>
    BY <1>r DEF RemoveFails, ClearFails
  <2>2. QED
    BY <2>1, PoisonInStep DEF StateKnown
<1>4. ASSUME NEW b \in Builds,
             \/ Install(b) \/ Clear(b) \/ Build(b) \/ Finish(b)
             \/ \E x \in Parts : Upload(b, x)
      PROVE  InStep'
  <2>1. PICK s \in {"clear", "build", "upload", "done"} : pc' = [pc EXCEPT ![b] = s]
    <3>1. CASE \E x \in Parts : Upload(b, x)
      BY <3>1 DEF Upload, TypeOK
    <3>2. CASE Install(b) \/ Clear(b) \/ Build(b) \/ Finish(b)
      BY <3>2 DEF Install, Clear, Build, Finish
    <3>3. QED
      BY <1>4, <3>1, <3>2
  <2>2. /\ pc[b] \in Active /\ pc[b] # "attach" /\ pc[b] \notin Syncing
        /\ UNCHANGED <<runner, booted, manifest, poisoned, next, plan, fetching, alive, undecided,
                       held, disk>>
    BY <1>4 DEF Install, Clear, Build, Finish, Upload, sessionVars, containerVars, hostVars,
                Active, AwaitsPage, Syncing
  <2>3. s \notin Syncing /\ s # "attach"
    BY DEF Syncing
  <2>4. QED
    BY <2>1, <2>2, <2>3, OutsideInStep
<1>5. CASE Leave
  BY <1>5 DEF Leave, InStep, sessionVars, buildVars
<1>6. CASE HandleGone
  <2>1. booted' = runner' /\ ~booted' /\ ~undecided' /\ alive' = alive /\ ~alive
    BY <1>6 DEF HandleGone, Forget, InStep
  <2>2. \A c \in Builds : pc'[c] = IF pc[c] \in AwaitsPage THEN "failed" ELSE pc[c]
    BY <1>6 DEF HandleGone
  <2>3. \A c \in Builds : pc'[c] = "attach" => pc[c] = "attach"
    BY <2>2
  <2>4. \A c \in Builds : pc'[c] \in Active => pc[c] \in Active
    BY <2>2 DEF Active, AwaitsPage
  <2>5. QED
    BY <2>1, <2>3, <2>4 DEF InStep
<1>7. ASSUME NEW f \in Files, Edit(f)
      PROVE  InStep'
  <2>1. \A c \in Builds : pc[c] \notin Syncing
    BY <1>7 DEF Edit, SyncsUndisturbed
  <2>2. UNCHANGED <<runner, booted, manifest, poisoned, pc, alive, undecided, held>>
    BY <1>7 DEF Edit, sessionVars, buildVars, containerVars
  <2>3. QED
    BY <2>1, <2>2 DEF InStep
<1>8. CASE UNCHANGED vars
  <2>1. UNCHANGED <<runner, booted, manifest, poisoned, pc, next, plan, fetching, alive, undecided,
                    held, disk>>
    BY <1>8 DEF vars, sessionVars, buildVars, containerVars, hostVars
  <2>2. \A c \in Builds : LeadsToDisk(c) => LeadsToDisk(c)'
    BY <2>1 DEF LeadsToDisk, Left
  <2>3. QED
    BY <2>1, <2>2 DEF InStep
<1>9. QED
  BY <1>1, <1>2, <1>3, <1>r, <1>4, <1>5, <1>6, <1>7, <1>8, ListInStep, SyncInStep
     DEF Next, BuildStep

-----------------------------------------------------------------------------
(* When builds come one at a time.  The session is then busy with at most    *)
(* one of them, and a busy session is not poisoned.                          *)
OneBuild == "concurrent" \notin Faults

OneAtATime ==
  /\ \A b, c \in Builds : pc[b] \in Active /\ pc[c] \in Active => b = c
  /\ \A b \in Builds : pc[b] \in Active => ~poisoned

(* The build that uploads is the one uploads are written for, and uploads    *)
(* what it has made.                                                         *)
OwnOutput ==
  /\ \A b \in Builds : pc[b] = "build" => dist = None
  /\ \A b \in Builds : pc[b] = "upload" =>
       /\ currentOutput = b
       /\ dist # None => dist.by = b
       /\ \A x \in sent[b] : out[b][x] = b
  /\ OwnArtifacts

OneBuildInv == Guards /\ OneAtATime /\ OwnOutput

(* Initially no build is under way. *)
LEMMA OneBuildInit == Init => OneBuildInv
  BY GuardsInit DEF Init, OneBuildInv, OneAtATime, OwnOutput, OwnArtifacts, Active, AwaitsPage

(* A build that fails is the only one there was. *)
LEMMA OneFail ==
  ASSUME TypeOK, OneAtATime, NEW b \in Builds, NEW tag, pc[b] \in Active, Fail(b, tag)
  PROVE  OneAtATime' /\ \A c \in Builds : pc'[c] \notin Active
  BY DEF TypeOK, OneAtATime, Fail, Active, AwaitsPage

(* A build begins only when none is under way. *)
LEMMA OneStep ==
  ASSUME OneBuild, TypeOK, OneAtATime, [Next]_vars
  PROVE  OneAtATime'
<1> USE DEF TypeOK, OneAtATime, Active, AwaitsPage
<1>1. ASSUME NEW b \in Builds, NEW fresh \in BOOLEAN, Begin(b, fresh)
      PROVE  OneAtATime'
  <2>1. InFlight = {}
    BY <1>1 DEF Begin, OneBuild
  <2>2. \A c \in Builds : pc[c] \notin Active
    BY <2>1 DEF InFlight
  <2>3. ~poisoned'
    BY <1>1 DEF Begin, Replace, sessionVars
  <2>4. PICK s : pc' = [pc EXCEPT ![b] = s]
    BY <1>1 DEF Begin
  <2>5. QED
    BY <2>2, <2>3, <2>4
<1>2. ASSUME NEW b \in Builds,
             \/ AttachFails(b) \/ ListFails(b) \/ RemoveFails(b) \/ MountFails(b)
             \/ InstallFails(b) \/ ClearFails(b) \/ BuildFails(b) \/ UploadFails(b)
      PROVE  OneAtATime'
  <2>1. PICK tag : Fail(b, tag)
    BY <1>2 DEF AttachFails, ListFails, RemoveFails, MountFails, InstallFails, ClearFails,
                BuildFails, UploadFails, CallFails
  <2>2. pc[b] \in Active
    BY <1>2 DEF AttachFails, ListFails, RemoveFails, MountFails, InstallFails, ClearFails,
                BuildFails, UploadFails
  <2>3. QED
    BY <2>1, <2>2, OneFail
<1>3. ASSUME NEW b \in Builds,
             \/ Attach(b) \/ RemovePaths(b) \/ Fetch(b) \/ Mount(b) \/ Install(b)
             \/ Clear(b) \/ Build(b) \/ Finish(b) \/ \E x \in Parts : Upload(b, x)
      PROVE  OneAtATime'
  BY <1>3 DEF Attach, RemovePaths, Fetch, Mount, Install, Clear, Build, Finish, Upload,
              sessionVars
<1>4. ASSUME NEW b \in Builds, List(b)
      PROVE  OneAtATime'
  <2>1. CASE Fail(b, "TypeError")
    BY <1>4, <2>1, OneFail DEF List
  <2>2. CASE ~Fail(b, "TypeError")
    <3>1. pc[b] \in Active /\ UNCHANGED poisoned /\ \E s : pc' = [pc EXCEPT ![b] = s]
      BY <1>4, <2>2 DEF List
    <3>2. QED
      BY <3>1
  <2>3. QED
    BY <2>1, <2>2
<1>5. CASE HandleGone
  BY <1>5 DEF HandleGone, StateKnown
<1>6. ASSUME Leave \/ \E f \in Files : Edit(f)
      PROVE  OneAtATime'
  BY <1>6 DEF Leave, Edit, sessionVars, buildVars
<1>7. CASE UNCHANGED vars
  BY <1>7 DEF vars, sessionVars, buildVars
<1>8. QED
  BY <1>1, <1>2, <1>3, <1>4, <1>5, <1>6, <1>7 DEF Next, BuildStep

(* A build that fails, the only one in flight, disturbs no output. *)
LEMMA OwnFail ==
  ASSUME TypeOK, OneAtATime, OwnOutput, NEW b \in Builds, NEW tag,
         pc[b] \in Active, Fail(b, tag), UNCHANGED out
  PROVE  OwnOutput'
<1>1. \A c \in Builds : pc'[c] \notin Active
  BY OneFail
<1>2. \A c \in Builds : pc'[c] = "done" => pc[c] = "done"
  BY DEF TypeOK, Fail
<1>3. QED
  BY <1>1, <1>2 DEF OwnOutput, OwnArtifacts, Active, AwaitsPage

(* What the build in flight makes and sends is its own. *)
LEMMA OwnStep ==
  ASSUME OneBuild, TypeOK, OneAtATime, OwnOutput, [Next]_vars
  PROVE  OwnOutput'
<1> USE DEF TypeOK, OneAtATime, Active, AwaitsPage
<1>1. ASSUME NEW b \in Builds, NEW fresh \in BOOLEAN, Begin(b, fresh)
      PROVE  OwnOutput'
  <2>1. \A c \in Builds : pc[c] \notin Active
    BY <1>1 DEF Begin, InFlight, OneBuild
  <2>2. \A c \in Builds : c # b => pc'[c] = pc[c]
    BY <1>1 DEF Begin
  <2>3. pc'[b] \in {"attach", "list"}
    BY <1>1 DEF Begin
  <2>4. out' = out
    BY <1>1 DEF Begin, hostVars
  <2>5. QED
    BY <2>1, <2>2, <2>3, <2>4 DEF OwnOutput, OwnArtifacts
<1>2. ASSUME NEW b \in Builds,
             \/ AttachFails(b) \/ ListFails(b) \/ RemoveFails(b) \/ MountFails(b)
             \/ InstallFails(b) \/ ClearFails(b) \/ BuildFails(b) \/ UploadFails(b)
      PROVE  OwnOutput'
  <2>1. \E tag : Fail(b, tag)
    BY <1>2 DEF AttachFails, ListFails, RemoveFails, MountFails, InstallFails, ClearFails,
                BuildFails, UploadFails, CallFails
  <2>2. pc[b] \in Active /\ UNCHANGED out
    BY <1>2 DEF AttachFails, ListFails, RemoveFails, MountFails, InstallFails, ClearFails,
                BuildFails, UploadFails, CallFails, hostVars
  <2>3. QED
    BY <2>1, <2>2, OwnFail
<1>3. ASSUME NEW b \in Builds,
             \/ Attach(b) \/ RemovePaths(b) \/ Fetch(b) \/ Mount(b) \/ Install(b) \/ Clear(b)
             \/ List(b) /\ ~Fail(b, "TypeError")
      PROVE  OwnOutput'
  <2>1. /\ pc[b] \in Active
        /\ \A c \in Builds : c # b => pc'[c] = pc[c]
        /\ pc'[b] \in {"list", "remove", "fetch", "fetchAll", "mount", "install", "clear", "build"}
        /\ UNCHANGED out
    BY <1>3 DEF Attach, List, FetchCall, RemovePaths, Fetch, Mount, Install, Clear, hostVars
  <2>2. pc'[b] = "build" => dist' = None
    BY <1>3 DEF Attach, List, FetchCall, RemovePaths, Fetch, Mount, Install, Clear, DistCleared
  <2>3. \A c \in Builds : c # b => pc[c] \notin Active
    BY <2>1
  <2>4. \A c \in Builds : /\ pc'[c] = "build" => c = b
                          /\ pc'[c] # "upload"
                          /\ pc'[c] = "done" => pc[c] = "done"
    BY <2>1, <2>3
  <2>5. QED
    BY ONLY <2>1, <2>2, <2>4, OwnOutput DEF OwnOutput, OwnArtifacts
<1>4. ASSUME NEW b \in Builds, List(b), Fail(b, "TypeError")
      PROVE  OwnOutput'
  BY <1>4, OwnFail DEF List, hostVars
<1>5. ASSUME NEW b \in Builds, Build(b)
      PROVE  OwnOutput'
  <2>1. pc[b] = "build" /\ dist = None
    BY <1>5 DEF Build, OwnOutput
  <2>2. dist' # None => dist'.by = b
    BY <1>5, <2>1 DEF Build
  <2>3. UNCHANGED out /\ currentOutput' = b /\ sent'[b] = {} /\ pc'[b] = "upload"
    BY <1>5 DEF Build, hostVars
  <2>4. \A c \in Builds : c # b => pc[c] \notin Active /\ pc'[c] = pc[c]
    BY <1>5, <2>1 DEF Build
  <2>5. QED
    BY <2>2, <2>3, <2>4 DEF OwnOutput, OwnArtifacts
<1>6. ASSUME NEW b \in Builds, NEW x \in Parts, Upload(b, x)
      PROVE  OwnOutput'
  <2>1. pc[b] = "upload" /\ dist # None /\ currentOutput = b /\ dist.by = b
    BY <1>6 DEF Upload, OwnOutput
  <2>2. out' = [out EXCEPT ![b][x] = b] /\ sent' = [sent EXCEPT ![b] = @ \cup {x}]
    BY <1>6, <2>1 DEF Upload
  <2>3. UNCHANGED <<pc, dist, currentOutput>>
    BY <1>6 DEF Upload, sessionVars, containerVars
  <2>4. QED
    BY <2>1, <2>2, <2>3 DEF OwnOutput, OwnArtifacts
<1>7. ASSUME NEW b \in Builds, Finish(b)
      PROVE  OwnOutput'
  <2>1. UNCHANGED <<dist, out, sent>>
    BY <1>7 DEF Finish, containerVars, hostVars
  <2>2. pc[b] = "upload" /\ sent[b] = Parts /\ pc'[b] = "done"
    BY <1>7 DEF Finish
  <2>3. \A c \in Builds : c # b => pc[c] \notin Active /\ pc'[c] = pc[c]
    BY <1>7, <2>2 DEF Finish
  <2>4. \A x \in Parts : out[b][x] = b
    BY <2>2 DEF OwnOutput
  <2>5. \A c \in Builds : /\ pc'[c] \notin {"build", "upload"}
                          /\ pc'[c] = "done" => c = b \/ pc[c] = "done"
    BY <2>2, <2>3
  <2>6. QED
    BY ONLY <2>1, <2>4, <2>5, OwnOutput DEF OwnOutput, OwnArtifacts
<1>8. CASE Leave
  BY <1>8 DEF Leave, OwnOutput, OwnArtifacts, sessionVars, buildVars, hostVars
<1>9. CASE HandleGone
  <2>1. UNCHANGED <<dist, out, sent>>
    BY <1>9 DEF HandleGone, hostVars
  <2>2. \A c \in Builds : /\ pc'[c] \notin AwaitsPage
                          /\ pc'[c] # "failed" => pc'[c] = pc[c]
    BY <1>9 DEF HandleGone
  <2>3. QED
    BY <2>1, <2>2 DEF OwnOutput, OwnArtifacts
<1>10. ASSUME NEW f \in Files, Edit(f)
       PROVE  OwnOutput'
  BY <1>10 DEF Edit, OwnOutput, OwnArtifacts, sessionVars, buildVars, containerVars
<1>11. CASE UNCHANGED vars
  BY <1>11 DEF vars, OwnOutput, OwnArtifacts, sessionVars, buildVars, containerVars, hostVars
<1>12. QED
  BY <1>1, <1>2, <1>3, <1>4, <1>5, <1>6, <1>7, <1>8, <1>9, <1>10, <1>11 DEF Next, BuildStep

(* With one build at a time OneBuildInv always holds, edits and tabs as they *)
(* will.                                                                     *)
THEOREM OneBuildInvariant == ASSUME OneBuild PROVE Spec => []OneBuildInv
<1>1. OneBuildInv /\ [Next]_vars => OneBuildInv'
  BY GuardsStep, OneStep, OwnStep DEF OneBuildInv, Guards
<1>2. QED
  BY <1>1, OneBuildInit, PTL DEF Spec

(* With one build at a time artifacts reach the directory of the build that  *)
(* made them, and a finished build has delivered all of its own, whatever is *)
(* edited and whenever the page goes.                                        *)
THEOREM ArtifactsAreOwn == ASSUME OneBuild PROVE Spec => []OwnArtifacts
<1>1. OneBuildInv => OwnArtifacts
  BY DEF OneBuildInv, OwnOutput
<1>2. QED
  BY <1>1, OneBuildInvariant, PTL

(* With one build at a time none runs in a container a command was cut short *)
(* in.                                                                       *)
THEOREM BuildsRunClean == ASSUME OneBuild PROVE Spec => []NoBuildInDirty
<1>1. OneBuildInv => NoBuildInDirty
  BY DEF OneBuildInv, OneAtATime, Guards, DirtyIsPoisoned, NoBuildInDirty, Active
<1>2. QED
  BY <1>1, OneBuildInvariant, PTL

(* Without edits inside syncs the session's belief about a live container is *)
(* the truth between syncs, however builds overlap.                          *)
THEOREM BeliefIsTrue == ASSUME SyncsUndisturbed PROVE Spec => []BelievesTruly
<1>1. TypeOK /\ InStep /\ [Next]_vars => (TypeOK /\ InStep)'
  BY TypeStep, InStepStep
<1>2. InStep => BelievesTruly
  BY DEF InStep, BelievesTruly
<1>3. QED
  BY <1>1, <1>2, TypeInit, InStepInit, PTL DEF Spec

-----------------------------------------------------------------------------
(* With builds one at a time and no edits inside a sync *)

(* From the disk into the container and from there into the artifacts, a     *)
(* build only meets versions the project had since it was asked for.         *)
Witnessed ==
  \A b \in Builds :
    /\ pc[b] \in {"attach", "list"} \cup Syncing => \A f \in Files : disk[f] \in seen[b][f]
    /\ pc[b] \in {"install", "clear", "build"} /\ alive
         => \A f \in Files : held[f] \in seen[b][f]
    /\ pc[b] = "upload" /\ dist # None
         => \A f \in Files : dist.src[f] \in seen[b][f]

SerialInv == OneBuildInv /\ InStep /\ Witnessed

(* Initially no build has asked for anything. *)
LEMMA SerialInit == Init => SerialInv
  BY OneBuildInit, InStepInit DEF SerialInv, Init, Witnessed, Syncing

(* A build that fails, the only one in flight, needs no witness any more. *)
LEMMA WitnessedFail ==
  ASSUME TypeOK, OneAtATime, NEW b \in Builds, NEW tag, pc[b] \in Active, Fail(b, tag)
  PROVE  Witnessed'
<1>1. \A c \in Builds : pc'[c] \notin Active
  BY OneFail
<1>2. QED
  BY <1>1 DEF Witnessed, Active, AwaitsPage, Syncing

(* Files flow from the disk to the container and from there to artifacts. *)
LEMMA WitnessedStep ==
  ASSUME OneBuild, SyncsUndisturbed, TypeOK, TypeOK', OneAtATime, OwnOutput, InStep, Witnessed,
         [Next]_vars
  PROVE  Witnessed'
<1> USE DEF TypeOK, OneAtATime, Active, AwaitsPage, Syncing
<1>1. ASSUME NEW b \in Builds, NEW fresh \in BOOLEAN, Begin(b, fresh)
      PROVE  Witnessed'
  <2>1. \A c \in Builds : pc[c] \notin Active
    BY <1>1 DEF Begin, InFlight, OneBuild
  <2>2. \A c \in Builds : c # b => pc'[c] = pc[c]
    BY <1>1 DEF Begin
  <2>3. pc'[b] \in {"attach", "list"}
    BY <1>1 DEF Begin
  <2>4. \A f \in Files : seen'[b][f] = {disk[f]} /\ disk' = disk
    BY <1>1 DEF Begin, hostVars
  <2>5. QED
    BY <2>1, <2>2, <2>3, <2>4 DEF Witnessed
<1>2. ASSUME NEW b \in Builds,
             \/ AttachFails(b) \/ ListFails(b) \/ RemoveFails(b) \/ MountFails(b)
             \/ InstallFails(b) \/ ClearFails(b) \/ BuildFails(b) \/ UploadFails(b)
      PROVE  Witnessed'
  <2>1. \E tag : Fail(b, tag)
    BY <1>2 DEF AttachFails, ListFails, RemoveFails, MountFails, InstallFails, ClearFails,
                BuildFails, UploadFails, CallFails
  <2>2. pc[b] \in Active
    BY <1>2 DEF AttachFails, ListFails, RemoveFails, MountFails, InstallFails, ClearFails,
                BuildFails, UploadFails
  <2>3. QED
    BY <2>1, <2>2, WitnessedFail
<1>3. ASSUME NEW b \in Builds, Attach(b)
      PROVE  Witnessed'
  BY <1>3 DEF Attach, Witnessed, hostVars
<1>4. ASSUME NEW b \in Builds, List(b)
      PROVE  Witnessed'
  <2>1. CASE Fail(b, "TypeError")
    BY <1>4, <2>1, WitnessedFail DEF List
  <2>2. CASE ~Fail(b, "TypeError")
    <3>1. UNCHANGED <<alive, held, dist, disk, seen>>
      BY <1>4, <2>2 DEF List, containerVars, hostVars
    <3>2. pc[b] = "list" /\ \A c \in Builds : c # b => pc[c] \notin Active /\ pc'[c] = pc[c]
      BY <1>4, <2>2 DEF List
    <3>3. pc'[b] \in {"remove", "fetch", "fetchAll", "install"}
      BY <1>4, <2>2 DEF List, FetchCall
    <3>4. pc'[b] = "install" => Upsert(manifest, disk) = {} /\ Remove(manifest, disk) = {}
      BY <1>4, <2>2 DEF List, FetchCall
    <3>5. pc'[b] = "install" => disk = manifest
      <4>1. manifest \in Tree /\ disk \in Tree
        OBVIOUS
      <4>2. QED
        BY ONLY <3>4, <4>1, EmptyPlan
    <3>6. alive => manifest = held
      BY <3>2 DEF InStep
    <3>7. QED
      BY <3>1, <3>2, <3>3, <3>5, <3>6 DEF Witnessed
  <2>3. QED
    BY <2>1, <2>2
<1>5. ASSUME NEW b \in Builds, RemovePaths(b) \/ Mount(b)
      PROVE  Witnessed'
  <2>1. UNCHANGED <<alive, dist, disk, seen, poisoned>>
    BY <1>5 DEF RemovePaths, Mount, hostVars
  <2>2. pc[b] \in Syncing /\ alive /\ ~poisoned
    BY <1>5 DEF RemovePaths, Mount
  <2>3. \A c \in Builds : c # b => pc[c] \notin Active /\ pc'[c] = pc[c]
    BY <1>5, <2>2 DEF RemovePaths, Mount
  <2>4. pc'[b] \in {"fetch", "fetchAll", "install"}
    BY <1>5 DEF RemovePaths, Mount, FetchCall
  <2>5. pc'[b] = "install" => held' = disk
    <3>1. pc'[b] = "install" => manifest' = next[b]
      BY <1>5 DEF RemovePaths, Mount, FetchCall
    <3>2. next[b] = disk
      BY <2>2 DEF InStep, LeadsToDisk
    <3>3. pc'[b] = "install" => \A c \in Builds : pc'[c] \notin Syncing
      BY <2>3
    <3>4. InStep'
      BY InStepStep
    <3>5. pc'[b] = "install" => manifest' = held'
      BY <2>1, <2>2, <3>3, <3>4 DEF InStep
    <3>6. QED
      BY <3>1, <3>2, <3>5
  <2>6. QED
    BY <2>1, <2>2, <2>3, <2>4, <2>5 DEF Witnessed
<1>6. ASSUME NEW b \in Builds, Fetch(b) \/ Install(b) \/ Clear(b)
      PROVE  Witnessed'
  <2>1. UNCHANGED <<alive, held, disk, seen>>
    BY <1>6 DEF Fetch, Install, Clear, sessionVars, containerVars, hostVars
  <2>2. /\ \/ pc[b] \in {"fetch", "fetchAll"} /\ pc'[b] = "mount"
           \/ pc[b] \in {"install", "clear"} /\ pc'[b] \in {"clear", "build"}
        /\ \A c \in Builds : c # b => pc[c] \notin Active /\ pc'[c] = pc[c]
    BY <1>6 DEF Fetch, Install, Clear
  <2>3. \A c \in Builds :
          /\ pc'[c] \in {"attach", "list"} \cup Syncing
               => pc[c] \in {"attach", "list"} \cup Syncing
          /\ pc'[c] \in {"install", "clear", "build"} => pc[c] \in {"install", "clear"}
          /\ pc'[c] # "upload"
    BY <2>2
  <2>4. QED
    BY ONLY <2>1, <2>3, Witnessed DEF Witnessed
<1>7. ASSUME NEW b \in Builds, Build(b)
      PROVE  Witnessed'
  <2>1. /\ pc[b] = "build" /\ alive /\ dist = None
        /\ \A f \in Files : held[f] \in seen[b][f]
    BY <1>7 DEF Build, Witnessed, OwnOutput
  <2>2. dist' # None => \A f \in Files : dist'.src[f] \in seen[b][f]
    BY <1>7, <2>1 DEF Build
  <2>3. UNCHANGED seen /\ pc'[b] = "upload"
    BY <1>7 DEF Build
  <2>4. \A c \in Builds : c # b => pc[c] \notin Active /\ pc'[c] = pc[c]
    BY <1>7, <2>1 DEF Build
  <2>5. QED
    BY <2>2, <2>3, <2>4 DEF Witnessed
<1>8. ASSUME NEW b \in Builds, Finish(b) \/ \E x \in Parts : Upload(b, x)
      PROVE  Witnessed'
  <2>1. UNCHANGED <<alive, held, dist, disk, seen>>
    BY <1>8 DEF Finish, Upload, containerVars, hostVars
  <2>2. \A c \in Builds : pc'[c] = pc[c] \/ pc'[c] = "done"
    BY <1>8 DEF Finish, Upload
  <2>3. QED
    BY ONLY <2>1, <2>2, Witnessed DEF Witnessed, Syncing
<1>9. CASE Leave
  BY <1>9 DEF Leave, Witnessed, sessionVars, buildVars, hostVars
<1>10. CASE HandleGone
  <2>1. UNCHANGED <<alive, held, dist, disk, seen>>
    BY <1>10 DEF HandleGone, hostVars
  <2>2. \A c \in Builds : pc'[c] # "failed" => pc'[c] = pc[c]
    BY <1>10 DEF HandleGone
  <2>3. QED
    BY ONLY <2>1, <2>2, Witnessed DEF Witnessed, Syncing
<1>11. ASSUME NEW f \in Files, Edit(f)
       PROVE  Witnessed'
  <2>1. PICK v \in {Absent, edits + 2} :
                 /\ disk' = [disk EXCEPT ![f] = v]
                 /\ seen' = [c \in Builds |->
                      IF pc[c] \in {"attach", "list"} \cup Syncing
                        THEN [seen[c] EXCEPT ![f] = @ \cup {v}] ELSE seen[c]]
    BY <1>11 DEF Edit
  <2>2. UNCHANGED <<pc, alive, held, dist>>
    BY <1>11 DEF Edit, sessionVars, buildVars, containerVars
  <2>3. QED
    BY <2>1, <2>2 DEF Witnessed
<1>12. CASE UNCHANGED vars
  BY <1>12 DEF vars, Witnessed, sessionVars, buildVars, containerVars, hostVars
<1>13. QED
  BY <1>1, <1>2, <1>3, <1>4, <1>5, <1>6, <1>7, <1>8, <1>9, <1>10, <1>11, <1>12
     DEF Next, BuildStep

(* With builds one at a time and no edits inside a sync, no build is made    *)
(* from files the project did not have since the build was asked for,        *)
(* whenever the page goes.                                                   *)
THEOREM NoBuildIsStale == ASSUME OneBuild, SyncsUndisturbed PROVE Spec => []NoStaleBuild
<1>1. SerialInv /\ [Next]_vars => SerialInv'
  BY GuardsStep, OneStep, OwnStep, InStepStep, WitnessedStep DEF SerialInv, OneBuildInv, Guards
<1>2. SerialInv => NoStaleBuild
  BY DEF SerialInv, Witnessed, NoStaleBuild
<1>3. QED
  BY <1>1, <1>2, SerialInit, PTL DEF Spec
=============================================================================
