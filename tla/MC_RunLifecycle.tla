-------------------------- MODULE MC_RunLifecycle --------------------------
(* Instances of RunLifecycle for TLC: two request handlers are             *)
(* interchangeable, so their permutations are a symmetry of the safety     *)
(* runs.                                                                   *)
EXTENDS RunLifecycle, TLC

RequestSymmetry == Permutations(Requests)
=============================================================================
