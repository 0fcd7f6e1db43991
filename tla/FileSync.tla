------------------------------- MODULE FileSync -------------------------------
(***************************************************************************)
(* src/core/file-sync.ts: manifests and the plan that turns one into       *)
(* another, and what carrying the plan out does to a container             *)
(* (removePaths and mountFromServer of src/runner/src/main.ts).            *)
(*                                                                         *)
(* A manifest or a tree maps every path to a version, Absent when there is *)
(* no such file.  A version stands for a file's content and for its        *)
(* size:mtimeMs stamp at once: an edit changes both.                       *)
(***************************************************************************)
EXTENDS Naturals

CONSTANTS Files, MaxVersion

Absent == 0
Versions == 1..MaxVersion
Tree == [Files -> {Absent} \cup Versions]
EmptyTree == [f \in Files |-> Absent]

Present(t) == {f \in Files : t[f] # Absent}

(* diffManifests *)
UpsertNewOnly(previous, next) == {f \in Present(next) : previous[f] = Absent}
Upsert(previous, next) == {f \in Present(next) : previous[f] # next[f]}

RemoveNothing(previous, next) == {}
Remove(previous, next) == Present(previous) \ Present(next)

(* removePaths: a path that is not there is ignored. *)
Removed(tree, paths) == [f \in Files |-> IF f \in paths THEN Absent ELSE tree[f]]

(* mountFromServer: mounting adds and overwrites, and never deletes. *)
Mounted(tree, paths, disk) == [f \in Files |-> IF f \in paths THEN disk[f] ELSE tree[f]]
=============================================================================
