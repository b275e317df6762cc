---------------------------- MODULE MC_CarryOver ----------------------------
(* CarryOver with the small item of HumanRecords, for TLC.                 *)
EXTENDS CarryOver, MC_HumanRecords
=============================================================================
