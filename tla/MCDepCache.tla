------------------------------ MODULE MCDepCache ------------------------------
(* An instance of DepCache for TLC: two small snapshots and one that is over *)
(* the budget by itself.                                                     *)
EXTENDS DepCache, TLC

CONSTANTS k1, k2, k3

MCKeys == {k1, k2, k3}
MCSize == k1 :> 1 @@ k2 :> 1 @@ k3 :> 3

PageSymmetry == Permutations(Pages)
=============================================================================
