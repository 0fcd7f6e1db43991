------------------------------- MODULE DepCache -------------------------------
(***************************************************************************)
(* The dependency cache in the browser's storage (OPFS), shared by every   *)
(* page of the origin (src/runner/src/main.ts, installWithCache and what   *)
(* it calls).                                                              *)
(*                                                                         *)
(* Each page installs for one project at a time.  It pauses at every await *)
(* on the storage; the name of the state it pauses in says what comes      *)
(* next.  There is no lock between pages.                                  *)
(***************************************************************************)
EXTENDS Integers, FiniteSetsExt

CONSTANTS
  Pages,
  Keys,         \* lockfile hashes, each naming one node_modules snapshot
  Size,         \* of each snapshot
  MaxBytes,     \* MAX_SNAPSHOT_BYTES
  Npm,          \* the npm tarball cache's blob
  NpmKeys,      \* projects that are installed with npm
  MaxInstalls,  \* bound on installs and on clearings of the cache
  Faults,       \* see FaultNames
  None

(* "overlap"  a page installs while another does                             *)
(* "cut"      a tab is closed in the middle of an install                    *)
(* "reuse"    a project is installed again, with another lockfile, in the    *)
(*            container of an earlier install                                *)
FaultNames == {"overlap", "cut", "reuse"}

Names == Keys \cup {Npm}

ASSUME DepCacheAssumption ==
  /\ Size \in [Keys -> Nat] /\ MaxBytes \in Nat /\ MaxInstalls \in Nat
  /\ NpmKeys \subseteq Keys /\ Npm \notin Keys /\ None \notin Names
  /\ Faults \subseteq FaultNames

VARIABLES
  (* the storage *)
  blob,     \* each blob: "absent", "empty" (created, nothing written), "full"
  index,    \* cache-index.json: lastUsed of each blob, 0 without an entry
  (* the pages *)
  pc,
  key,      \* the project's key
  name,     \* the blob at hand
  stage,    \* "restore" or "save"
  file,     \* what was read of it
  nm,       \* node_modules in the container: the keys it has packages of
  idx,      \* the index as the page read it
  listed,   \* the blobs it listed, each with its state
  todo,     \* listed snapshots that eviction has not removed
  (* bounds and history *)
  installs,
  clock,
  used,     \* when each snapshot was last saved or restored
  upset     \* what has happened: some of FaultNames, and "failed"

storeVars == <<blob, index>>
workVars  == <<key, name, stage, file, idx, listed, todo>>
histVars  == <<installs, clock, used>>
vars      == <<storeVars, pc, workVars, nm, histVars, upset>>

Ended == {"new", "done", "failed"}
Busy  == {p \in Pages : pc[p] \notin Ended}

(* What a snapshot in a given state, and the snapshots that are there, weigh. *)
Bytes(k, state) == IF state = "full" THEN Size[k] ELSE 0
Weight(S) == MapThenSumSet(LAMBDA e : Bytes(e[1], e[2]), S)
Stored == {<<n, blob[n]>> : n \in {m \in Names : blob[m] # "absent"}}
Everything(S) == S
Snapshots(S) == {e \in S : e[1] \in Keys}

NoIndex == [n \in Names |-> 0]

Init ==
  /\ blob = [n \in Names |-> "absent"]
  /\ index = NoIndex
  /\ pc = [p \in Pages |-> "new"]
  /\ key = [p \in Pages |-> None]
  /\ name = [p \in Pages |-> None]
  /\ stage = [p \in Pages |-> "restore"]
  /\ file = [p \in Pages |-> "absent"]
  /\ nm = [p \in Pages |-> {}]
  /\ idx = [p \in Pages |-> NoIndex]
  /\ listed = [p \in Pages |-> {}]
  /\ todo = [p \in Pages |-> {}]
  /\ installs = 0 /\ clock = 0
  /\ used = [k \in Keys |-> 0]
  /\ upset = {}

Goto(p, where) == pc' = [pc EXCEPT ![p] = where]

(* What the functions of an install kept in their variables is gone. *)
Forget(p) ==
  /\ file' = [file EXCEPT ![p] = "absent"]
  /\ idx' = [idx EXCEPT ![p] = NoIndex]
  /\ listed' = [listed EXCEPT ![p] = {}]
  /\ todo' = [todo EXCEPT ![p] = {}]

(* An exception nobody between here and the control channel catches. *)
Fails(p) == Goto(p, "failed") /\ upset' = upset \cup {"failed"}

-----------------------------------------------------------------------------
(* computeCacheKey: a project's install begins, in a new container unless   *)
(* a session is reused.                                                     *)
Begin(p, k) ==
  /\ pc[p] \in Ended
  /\ installs < MaxInstalls
  /\ Busy # {} => "overlap" \in Faults
  /\ \E kept \in {{}} \cup (IF "reuse" \in Faults THEN {nm[p]} ELSE {}) :
       nm' = [nm EXCEPT ![p] = kept]
  /\ installs' = installs + 1
  /\ key' = [key EXCEPT ![p] = k]
  /\ name' = [name EXCEPT ![p] = k]
  /\ stage' = [stage EXCEPT ![p] = "restore"]
  /\ Goto(p, "lookup")
  /\ upset' = upset \cup (IF Busy # {} THEN {"overlap"} ELSE {})
  /\ Forget(p)
  /\ UNCHANGED <<storeVars, clock, used>>

usesNpmTarballCache(k) == k \in NpmKeys

(* restoreNodeModules found no snapshot, or restored nothing: the tarball   *)
(* cache is tried next, by npm only.                                        *)
Missed(p) ==
  IF name[p] # Npm /\ usesNpmTarballCache(key[p])
    THEN Goto(p, "lookup") /\ name' = [name EXCEPT ![p] = Npm]
    ELSE Goto(p, "install") /\ UNCHANGED name

(* getFileHandle *)
Lookup(p) ==
  /\ pc[p] = "lookup"
  /\ IF blob[name[p]] = "absent" THEN Missed(p)
                                 ELSE Goto(p, "read") /\ UNCHANGED name
  /\ UNCHANGED <<storeVars, key, stage, file, idx, listed, todo, nm, histVars, upset>>

(* getFile and arrayBuffer; a blob that was removed since fails the install. *)
Read(p) ==
  /\ pc[p] = "read"
  /\ IF blob[name[p]] = "absent"
       THEN Fails(p) /\ UNCHANGED file
       ELSE /\ file' = [file EXCEPT ![p] = blob[name[p]]]
            /\ Goto(p, "mount") /\ UNCHANGED upset
  /\ UNCHANGED <<storeVars, key, name, stage, idx, listed, todo, nm, histVars>>

(* restoreSnapshotInto: a hit is a directory with something in it. *)
HitAlways(entries) == TRUE
Hit(entries) == entries # {}

MountModules(p) ==
  LET after == nm[p] \cup (IF file[p] = "full" THEN {key[p]} ELSE {}) IN
  /\ pc[p] = "mount" /\ name[p] \in Keys
  /\ nm' = [nm EXCEPT ![p] = after]
  /\ IF Hit(after) THEN Goto(p, "touchRead") /\ UNCHANGED name ELSE Missed(p)
  /\ file' = [file EXCEPT ![p] = "absent"]
  /\ UNCHANGED <<storeVars, key, stage, idx, listed, todo, histVars, upset>>

(* restoreNpmCache: best effort, in a directory of its own. *)
MountNpm(p) ==
  /\ pc[p] = "mount" /\ name[p] = Npm
  /\ Goto(p, "install")
  /\ file' = [file EXCEPT ![p] = "absent"]
  /\ UNCHANGED <<storeVars, key, name, stage, idx, listed, todo, nm, histVars, upset>>

(* A blob of no bytes may be refused by the runtime. *)
MountFails(p) ==
  /\ pc[p] = "mount" /\ file[p] = "empty"
  /\ Fails(p)
  /\ UNCHANGED <<storeVars, workVars, nm, histVars>>

(* The package manager makes node_modules what the lockfile says. *)
Install(p) ==
  /\ pc[p] = "install"
  /\ nm' = [nm EXCEPT ![p] = {key[p]}]
  /\ name' = [name EXCEPT ![p] = key[p]]
  /\ stage' = [stage EXCEPT ![p] = "save"]
  /\ Goto(p, "open")
  /\ UNCHANGED <<storeVars, key, file, idx, listed, todo, histVars, upset>>

(* It exits with another code than 0: the command failed.                   *)
InstallFails(p) ==
  /\ pc[p] = "install"
  /\ Fails(p)
  /\ UNCHANGED <<storeVars, workVars, nm, histVars>>

(* saveNodeModules, saveNpmCache: the blob exists, empty, before anything is *)
(* written; a write appears as a whole when it is closed.                   *)
SaveOpen(p) ==
  /\ pc[p] = "open"
  /\ blob' = [blob EXCEPT ![name[p]] = IF @ = "absent" THEN "empty" ELSE @]
  /\ Goto(p, "close")
  /\ UNCHANGED <<index, workVars, nm, histVars, upset>>

SaveClose(p) ==
  /\ pc[p] = "close"
  /\ blob' = [blob EXCEPT ![name[p]] = "full"]
  /\ Goto(p, "touchRead")
  /\ UNCHANGED <<index, workVars, nm, histVars, upset>>

(* touchCacheEntry: readCacheIndex, ... *)
TouchRead(p) ==
  /\ pc[p] = "touchRead"
  /\ idx' = [idx EXCEPT ![p] = index]
  /\ Goto(p, "touchWrite")
  /\ UNCHANGED <<storeVars, key, name, stage, file, listed, todo, nm, histVars, upset>>

(* ... and writeCacheIndex.  A hit is over then, a save goes on.            *)
TouchWrite(p) ==
  /\ pc[p] = "touchWrite"
  /\ clock' = clock + 1
  /\ index' = [idx[p] EXCEPT ![name[p]] = clock']
  /\ used' = [k \in Keys |-> IF k = name[p] THEN clock' ELSE used[k]]
  /\ IF stage[p] = "restore" THEN Goto(p, "done") /\ UNCHANGED name
     ELSE IF name[p] # Npm /\ usesNpmTarballCache(key[p])
       THEN Goto(p, "open") /\ name' = [name EXCEPT ![p] = Npm]
     ELSE Goto(p, "list") /\ UNCHANGED name
  /\ idx' = [idx EXCEPT ![p] = NoIndex]
  /\ UNCHANGED <<blob, key, stage, file, listed, todo, nm, installs, upset>>

-----------------------------------------------------------------------------
(* evictCache(protect = the key's own snapshot).  The listing is one step.   *)

EvictList(p) ==
  /\ pc[p] = "list"
  /\ listed' = [listed EXCEPT ![p] = Stored]
  /\ todo' = [todo EXCEPT ![p] = Snapshots(Stored)]
  /\ Goto(p, "index")
  /\ UNCHANGED <<storeVars, key, name, stage, file, idx, nm, histVars, upset>>

(* readCacheIndex; and the tarball cache is dropped when it is over its cap. *)
EvictIndex(p) ==
  /\ pc[p] = "index"
  /\ idx' = [idx EXCEPT ![p] = index]
  /\ \/ Goto(p, "evict")
     \/ (\E e \in listed[p] : e = <<Npm, "full">>) /\ Goto(p, "drop")
  /\ UNCHANGED <<storeVars, key, name, stage, file, listed, todo, nm, histVars, upset>>

(* Somebody is writing the blob: it can be removed, or it is locked. *)
Locked(n) == \E q \in Pages : pc[q] = "close" /\ name[q] = n

(* removeEntry and the index entry, then on to `next`. *)
Remove(p, n, next) ==
  \/ /\ blob[n] # "absent"
     /\ blob' = [blob EXCEPT ![n] = "absent"]
     /\ idx' = [idx EXCEPT ![p][n] = 0]
     /\ Goto(p, next)
     /\ UNCHANGED upset
  \/ /\ blob[n] = "absent" \/ Locked(n)
     /\ Fails(p)
     /\ UNCHANGED <<blob, idx>>

DropNpm(p) ==
  /\ pc[p] = "drop"
  /\ Remove(p, Npm, "evict")
  /\ UNCHANGED <<index, key, name, stage, file, listed, todo, nm, histVars>>

(* Snapshots are sorted by lastUsed, equal ones in the order they were      *)
(* listed in; the protected one is skipped.                                 *)
MostRecent(p, S)  == {e \in S : \A d \in S : idx[p][e[1]] >= idx[p][d[1]]}
LeastRecent(p, S) == {e \in S : \A d \in S : idx[p][e[1]] <= idx[p][d[1]]}

UnprotectedOf(p) == todo[p]
CandidatesOf(p)  == {e \in todo[p] : e[1] # key[p]}

OthersOverBudget(p) == Weight(CandidatesOf(p)) > MaxBytes
OverBudget(p)       == Weight(todo[p]) > MaxBytes

Evict(p) ==
  /\ pc[p] = "evict"
  /\ OverBudget(p)
  /\ \E e \in LeastRecent(p, CandidatesOf(p)) :
       /\ Remove(p, e[1], "evict")
       /\ todo' = [todo EXCEPT ![p] = @ \ {e}]
  /\ UNCHANGED <<index, key, name, stage, file, listed, nm, histVars>>

(* Entries whose blob was not listed are pruned, and the index is written. *)
EvictWrite(p) ==
  /\ pc[p] = "evict"
  /\ OverBudget(p) => CandidatesOf(p) = {}
  /\ index' = [n \in Names |-> IF n = key[p] \/ \E e \in listed[p] : e[1] = n
                                 THEN idx[p][n] ELSE 0]
  /\ Forget(p)
  /\ Goto(p, "done")
  /\ UNCHANGED <<blob, key, name, stage, nm, histVars, upset>>

-----------------------------------------------------------------------------
(* clearCache: every blob that was listed, then the index.                  *)

ClearList(p) ==
  /\ pc[p] \in Ended
  /\ installs < MaxInstalls
  /\ Busy # {} => "overlap" \in Faults
  /\ installs' = installs + 1
  /\ listed' = [listed EXCEPT ![p] = Stored]
  /\ todo' = [todo EXCEPT ![p] = {}]
  /\ Goto(p, "clear")
  /\ upset' = upset \cup (IF Busy # {} THEN {"overlap"} ELSE {})
  /\ UNCHANGED <<storeVars, key, name, stage, file, idx, nm, clock, used>>

ClearBlob(p) ==
  /\ pc[p] = "clear"
  /\ \E e \in listed[p] :
       /\ Remove(p, e[1], "clear")
       /\ listed' = [listed EXCEPT ![p] = @ \ {e}]
  /\ UNCHANGED <<index, key, name, stage, file, todo, nm, histVars>>

ClearIndex(p) ==
  /\ pc[p] = "clear" /\ listed[p] = {}
  /\ index' = NoIndex
  /\ Forget(p)
  /\ Goto(p, "new")
  /\ UNCHANGED <<blob, key, name, stage, nm, histVars, upset>>

-----------------------------------------------------------------------------
(* The tab is closed, and the container with it. *)
Cut(p) ==
  /\ "cut" \in Faults
  /\ p \in Busy
  /\ Goto(p, "new")
  /\ nm' = [nm EXCEPT ![p] = {}]
  /\ Forget(p)
  /\ upset' = upset \cup {"cut"}
  /\ UNCHANGED <<storeVars, key, name, stage, histVars>>

PageStep(p) ==
  \/ Lookup(p) \/ Read(p) \/ MountModules(p) \/ MountNpm(p) \/ MountFails(p)
  \/ Install(p) \/ InstallFails(p)
  \/ SaveOpen(p) \/ SaveClose(p) \/ TouchRead(p) \/ TouchWrite(p)
  \/ EvictList(p) \/ EvictIndex(p) \/ DropNpm(p) \/ Evict(p) \/ EvictWrite(p)
  \/ ClearBlob(p) \/ ClearIndex(p)

Next ==
  \E p \in Pages :
    \/ \E k \in Keys : Begin(p, k)
    \/ ClearList(p)
    \/ PageStep(p)
    \/ Cut(p)

Spec == Init /\ [][Next]_vars

-----------------------------------------------------------------------------
(* Properties *)

(* Storage and pages have their types. *)
TypeOK ==
  /\ blob \in [Names -> {"absent", "empty", "full"}]
  /\ index \in [Names -> Nat]
  /\ \A p \in Pages :
       /\ key[p] \in Keys \cup {None} /\ name[p] \in Names \cup {None}
       /\ pc[p] \notin Ended \cup {"clear"} => key[p] \in Keys /\ name[p] \in {key[p], Npm}
       /\ nm[p] \subseteq Keys
       /\ listed[p] \subseteq Names \X {"empty", "full"}
       /\ todo[p] \subseteq listed[p] \cap (Keys \X {"empty", "full"})
       /\ idx[p] \in [Names -> Nat]
  /\ clock \in Nat

(* "a failed mount must report as a MISS, not a broken HIT": an install that *)
(* succeeds, from the cache or not, leaves exactly the modules its lockfile  *)
(* asks for, whatever other pages or closed tabs left in the storage.        *)
ModulesAreRight == \A p \in Pages : pc[p] = "done" => nm[p] = {key[p]}

(* "keep them inside their budgets": with nobody installing, and unless an   *)
(* install failed or was cut, the snapshots fit the budget, or there is only *)
(* one.  Pages that save and evict at the same time do not add up.           *)
BudgetKept ==
  Busy = {} /\ upset \subseteq {"overlap"} =>
    \/ Weight(Snapshots(Stored)) <= MaxBytes
    \/ Cardinality(Snapshots(Stored)) = 1

(* The blob "written by the current run" is still there when it ends, even   *)
(* if it alone is over the budget; as long as pages take turns.              *)
OwnSnapshotStays ==
  upset' \cap {"overlap"} = {} =>
    \A p \in Pages : pc[p] = "evict" /\ pc'[p] = "done" => blob'[key[p]] = "full"

(* Pages that take turns evict least recently used snapshots first: none is  *)
(* removed while one that was used before it stays, unless all of them are.  *)
OldestGoesFirst ==
  upset' = {} /\ (\A p \in Pages : pc[p] # "clear") =>
    \A v, k \in Keys :
      blob[v] # "absent" /\ blob'[v] = "absent" /\ blob'[k] = "full"
        => used[v] <= used[k] \/ \E p \in Busy : key[p] = k

(* Eviction takes what it should: the oldest first, and never the snapshot   *)
(* the evicting install has just saved.                                      *)
EvictionIsFair == [][OwnSnapshotStays /\ OldestGoesFirst]_vars
=============================================================================
