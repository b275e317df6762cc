---------------------------- MODULE ReviewPromise ---------------------------
(***************************************************************************)
(* How far the people reviewing a version have come, as the list of the    *)
(* versions of a case shows it: the state, whether the version has been    *)
(* sent back since it was last approved, and whether a correction has      *)
(* undone an approval.  The code keeps the state and derives the flags     *)
(* from the history of events and bounces; HumanRecords implements this    *)
(* specification, in which they are three variables.                       *)
(***************************************************************************)
VARIABLES state, sentBack, recheck

promise == <<state, sentBack, recheck>>

Init ==
  /\ state = "draft"
  /\ sentBack = FALSE
  /\ recheck = FALSE

StaffCheck ==
  /\ state = "draft"
  /\ state' = "staff_checked"
  /\ UNCHANGED <<sentBack, recheck>>

(* An approval answers whatever was open.                                  *)
Approve ==
  /\ state = "staff_checked"
  /\ state' = "review_checked"
  /\ sentBack' = FALSE
  /\ recheck' = FALSE

SendBack ==
  /\ state = "staff_checked"
  /\ sentBack' = TRUE
  /\ UNCHANGED <<state, recheck>>

Correct ==
  /\ state = "review_checked"
  /\ state' = "staff_checked"
  /\ recheck' = TRUE
  /\ UNCHANGED sentBack

Next == StaffCheck \/ Approve \/ SendBack \/ Correct

Spec == Init /\ [][Next]_promise
=============================================================================
