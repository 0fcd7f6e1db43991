------------------------------ MODULE MCSession ------------------------------
(***************************************************************************)
(* Small instances of Session: files, builds and artifacts are             *)
(* interchangeable in the runs without liveness.                           *)
(***************************************************************************)
EXTENDS Session, TLC

Symmetry == Permutations(Files) \cup Permutations(Builds) \cup Permutations(Parts)
=============================================================================
