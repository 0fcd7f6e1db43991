---------------------------- MODULE PackageManager ----------------------------
(***************************************************************************)
(* Which package manager installs a project, and in which version:          *)
(* src/runner/src/runtime/package-manager.ts, and resolvePackageManager of  *)
(* src/runner/src/main.ts.                                                  *)
(*                                                                         *)
(* A project is the `packageManager` field of its package.json, or None,    *)
(* and the files at its root that name a manager.  Of a version only the    *)
(* major matters.                                                           *)
(***************************************************************************)
EXTENDS Naturals, Sequences

CONSTANTS
  OtherNames,  \* names in a packageManager field that are not ours: bun
  Majors,      \* major versions
  NoManager    \* a field, a version or a pin that is absent

Managers == {"npm", "pnpm", "yarn"}

ASSUME ManagersAssumption ==
  /\ OtherNames \cap Managers = {}
  /\ NoManager \notin Managers \cup OtherNames /\ NoManager \notin Majors

ManagerFields ==
  [name : Managers \cup OtherNames, major : Majors \cup {NoManager}] \cup {NoManager}

(* LOCKFILES, "in detection priority order", and who writes each.            *)
LOCKFILES == <<"pnpm-lock.yaml", "yarn.lock", "package-lock.json">>
WriterOf == <<"pnpm", "yarn", "npm">>

RootFiles == {"package.json", "package-lock.json", "pnpm-lock.yaml", "yarn.lock"}

Projects == [field : ManagerFields, files : SUBSET RootFiles]
FieldOf(p) == IF "package.json" \in p.files THEN p.field ELSE NoManager

(* The first entry of a list that a loop over it stops at, if there is one. *)
IsFirst(list, i, S) == list[i] \in S /\ \A j \in 1..(i - 1) : list[j] \notin S

parsePackageManagerField(field) ==
  IF field = NoManager \/ field.name \notin Managers THEN NoManager ELSE field.name

(* The version, whatever the name: `bun@1.1` has one too. *)
parsePackageManagerVersion(field) == IF field = NoManager THEN NoManager ELSE field.major

detectPackageManager(field, files) ==
  LET declared == parsePackageManagerField(field)
      found == {i \in 1..3 : IsFirst(LOCKFILES, i, files)}
  IN IF declared # NoManager THEN declared
     ELSE IF found # {} THEN WriterOf[CHOOSE i \in found : TRUE]
     ELSE "npm"

(* Run as it is, or pinned through npx when the project declares another    *)
(* major than the runtime ships.                                            *)
RunsAsShipped(manager) == [command |-> manager, pin |-> NoManager]
NeverPinned(manager, declared, runtime) == RunsAsShipped(manager)
packageManagerCommand(manager, declared, runtime) ==
  IF NoManager \in {declared, runtime} \/ declared = runtime
    THEN RunsAsShipped(manager)
    ELSE [command |-> "npx", pin |-> [manager |-> manager, major |-> declared]]

(* resolvePackageManager; `shipped` is what `<manager> --version` prints in  *)
(* the runtime, asked only when a version is declared.                       *)
resolvePackageManager(p, shipped) ==
  LET manager == detectPackageManager(FieldOf(p), p.files)
      declared == parsePackageManagerVersion(FieldOf(p))
      runtime == IF declared = NoManager THEN NoManager ELSE shipped[manager]
  IN [manager |-> manager, invocation |-> packageManagerCommand(manager, declared, runtime)]

-----------------------------------------------------------------------------
(* The manager, and its major version, that a choice really runs. *)
WhatRuns(choice, shipped) ==
  IF choice.invocation.command = "npx" THEN choice.invocation.pin
  ELSE [manager |-> choice.manager, major |-> shipped[choice.manager]]
=============================================================================
