----------------------------- MODULE MC_JobClock ----------------------------
(* JobClock with small limits, for TLC.                                    *)
EXTENDS JobClock

Ask(name, arguments) == [name |-> name, arguments |-> arguments]
MC_Calls ==
  {Ask("validate_draft", "none"), Ask("finalize_draft", "none")}
MC_Delay == [a \in 1..2 |-> 1]
=============================================================================
