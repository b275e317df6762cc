-------------------------- MODULE MC_CaseDocuments --------------------------
(* CaseDocuments with a few documents, for TLC.                            *)
EXTENDS CaseDocuments, TLC

CONSTANTS d1, d2, d3

(* A document of two ranges, an e-mail of one, and a form nobody can read. *)
MC_Readable == d1 :> Locators @@ d2 :> {1} @@ d3 :> {}

Symmetry == Permutations(Intakes)
=============================================================================
