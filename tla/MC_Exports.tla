----------------------------- MODULE MC_Exports -----------------------------
(* Exports with interchangeable requests, for TLC.             *)
EXTENDS Exports, TLC

RequestSymmetry == Permutations(Requests)
=============================================================================
