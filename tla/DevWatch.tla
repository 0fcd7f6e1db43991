------------------------------- MODULE DevWatch -------------------------------
(***************************************************************************)
(* How host edits reach the runtime while `wc-exe dev` runs: the watcher    *)
(* and its handlers in src/commands/dev.ts, and writeFile and removePaths   *)
(* of src/runner/src/main.ts.  The watcher waits for no handler, and a      *)
(* handler for no other.                                                    *)
(***************************************************************************)
EXTENDS Naturals, Sequences

CONSTANTS
  Files,     \* watched files
  Binary,    \* those that are not UTF-8 text
  InNewDir,  \* those that appear in a directory the project did not have
  MaxEdits,  \* bound on edits
  NoRead     \* what a handler has before its read is done

ASSUME DevWatchAssumption ==
  /\ Binary \cup InNewDir \subseteq Files
  /\ MaxEdits \in Nat
  /\ NoRead \notin Nat

Absent == 0
Mangled == MaxEdits + 2   \* bytes decoded as UTF-8 and encoded again
Contents == 0..Mangled

VARIABLES
  disk,      \* file -> version on the host, or Absent
  edits,     \* how many there were; each has a version of its own
  noticed,   \* file -> the version the watcher last reported
  watching,
  handlers,  \* syncToRuntime calls that have not called the page yet
  pushed,    \* writeFile and removePaths calls on their way to the page
  mirror,    \* file -> the version the runtime holds
  unwatched, \* files edited after the mount and before the watcher was ready
  raced      \* files reported again while a handler of theirs was reading

watchVars == <<disk, edits, noticed, watching, handlers, pushed, mirror, unwatched, raced>>

WatchInit ==
  /\ disk = [f \in Files |-> IF f \in InNewDir THEN Absent ELSE 1]
  /\ edits = 1
  /\ noticed = disk
  /\ watching = FALSE
  /\ handlers = {}
  /\ pushed = <<>>
  /\ mirror = [f \in Files |-> Absent]
  /\ unwatched = {} /\ raced = {}

(* The developer saves, creates or deletes a file. *)
Edit(f) ==
  /\ edits < MaxEdits + 1
  /\ edits' = edits + 1
  /\ \E v \in {edits + 1, Absent} \ {disk[f]} : disk' = [disk EXCEPT ![f] = v]
  /\ unwatched' = IF watching THEN unwatched ELSE unwatched \cup {f}
  /\ UNCHANGED <<noticed, watching, handlers, pushed, mirror, raced>>

(* mountFromServer: bytes, for every file there is. *)
MountAll ==
  /\ mirror' = disk
  /\ UNCHANGED <<disk, edits, noticed, watching, handlers, pushed, unwatched, raced>>

(* The watcher is ready: `ignoreInitial`, what it finds is what it knows. *)
Watch ==
  /\ watching' = TRUE
  /\ noticed' = disk
  /\ UNCHANGED <<disk, edits, handlers, pushed, mirror, unwatched, raced>>

(* 'change' and 'add' start a handler that reads; 'unlink' calls the page at *)
(* once.  Edits that follow each other closely are one event.                *)
Handler(f, got) == [file |-> f, seen |-> noticed'[f], got |-> got]
Push(f, content) == pushed' = Append(pushed, [file |-> f, content |-> content])

RemoveUnheard(f) == UNCHANGED pushed
RemoveFromRuntime(f) == Push(f, Absent)

Notice(f) ==
  /\ watching /\ noticed[f] # disk[f]
  /\ noticed' = [noticed EXCEPT ![f] = disk[f]]
  /\ IF disk[f] = Absent
       THEN RemoveFromRuntime(f) /\ UNCHANGED handlers
       ELSE handlers' = handlers \cup {Handler(f, NoRead)} /\ UNCHANGED pushed
  /\ raced' = IF \E h \in handlers : h.file = f THEN raced \cup {f} ELSE raced
  /\ UNCHANGED <<disk, edits, watching, mirror, unwatched>>

(* fs.readFile sees the file as it is now; of a file that is gone it fails, *)
(* which the handler reports and forgets.                                   *)
ReadFile(h) ==
  /\ h \in handlers /\ h.got = NoRead
  /\ handlers' = (handlers \ {h}) \cup
       (IF disk[h.file] = Absent THEN {} ELSE {[h EXCEPT !.got = disk[h.file]]})
  /\ UNCHANGED <<disk, edits, noticed, watching, pushed, mirror, unwatched, raced>>

(* The read resolves and the handler calls the page. *)
WriteToRuntime(h) ==
  /\ h \in handlers /\ h.got # NoRead
  /\ handlers' = handlers \ {h}
  /\ Push(h.file, IF h.file \in Binary THEN Mangled ELSE h.got)
  /\ UNCHANGED <<disk, edits, noticed, watching, mirror, unwatched, raced>>

(* The page carries the calls out in order.  writeFile makes no directory,  *)
(* and fails in one that is not there.                                      *)
Apply ==
  /\ pushed # <<>>
  /\ pushed' = Tail(pushed)
  /\ LET call == Head(pushed)
         fails == call.file \in InNewDir /\ call.content # Absent
     IN mirror' = IF fails THEN mirror ELSE [mirror EXCEPT ![call.file] = call.content]
  /\ UNCHANGED <<disk, edits, noticed, watching, handlers, unwatched, raced>>

Unwatch ==
  /\ watching' = FALSE
  /\ UNCHANGED <<disk, edits, noticed, handlers, pushed, mirror, unwatched, raced>>

(* The link is closed: calls under way fail, and so will those of handlers  *)
(* that are still reading.                                                  *)
CutOff ==
  /\ handlers' = {} /\ pushed' = <<>>
  /\ UNCHANGED <<disk, edits, noticed, watching, mirror, unwatched, raced>>

Settled(f) ==
  /\ noticed[f] = disk[f]
  /\ \A h \in handlers : h.file # f
  /\ \A i \in DOMAIN pushed : pushed[i].file # f
=============================================================================
