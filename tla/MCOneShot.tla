------------------------------ MODULE MCOneShot ------------------------------
(* An instance of OneShot for TLC.  The projects: one that pins a manager    *)
(* the runtime ships in another major, and one whose lockfiles disagree.     *)
EXTENDS OneShot

Pinned == [field |-> [name |-> "pnpm", major |-> 9], files |-> {"package.json", "pnpm-lock.yaml"}]
TwoLocks == [field |-> NoManager, files |-> {"package.json", "package-lock.json", "yarn.lock"}]

MCProjects == {Pinned, TwoLocks}
MCShipped == [npm |-> 8, pnpm |-> 8, yarn |-> 9]
MCStr == {"", "command", "unknown", "Runner call failed", "text"}
=============================================================================
