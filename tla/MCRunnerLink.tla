---------------------------- MODULE MCRunnerLink ----------------------------
(***************************************************************************)
(* Small instances of RunnerLink.  Pages and streams are interchangeable,  *)
(* so the runs without liveness use symmetry.                              *)
(***************************************************************************)
EXTENDS RunnerLink, TLC

Symmetry == Permutations(Pages) \cup Permutations(Streams)
=============================================================================
