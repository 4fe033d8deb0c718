------------------------------ MODULE MCCrateCache -----------------------------
(* Two processes that save and run a crate of the user's, again and again, and  *)
(* save an internal crate it needs.  A process that ends may start anew, so     *)
(* that saves overlap, one of them is killed, and a later process meets the     *)
(* file they left.                                                              *)
EXTENDS CrateCache, TLC

CONSTANTS user

MCTasks == [p \in Processes |-> {<<user, FALSE>>, <<user, TRUE>>, <<Core, TRUE>>}]
MCMaxVersion == (user :> 2) @@ (Core :> 0) @@ (Alloc :> 0)
Symmetry == Permutations(Processes)
================================================================================
