----------------------------- MODULE CarryOver ------------------------------
(***************************************************************************)
(* A new run of a case, requested while people record things about the     *)
(* version it has.  Records are not carried over to the new version, so    *)
(* reserve refuses a request that does not acknowledge this if there are   *)
(* any.  It looks under the lock of the case row, which no record takes,   *)
(* at one table after another.  (The rest of reserve is RunLifecycle's.)   *)
(***************************************************************************)
EXTENDS HumanRecords

VARIABLE start   (* the request: where it is, whether it acknowledges, and  *)
                 (* the records that were there when it began               *)

carry_vars == <<vars, start>>

(* What _has_records looks for.  A judgement is never undone.              *)
Judged == {q \in Questions : resolution[q] # "none"}
Records ==
  {<<"item_edits", k>> : k \in Active(edits)}
  \cup {<<"confirmations", k>> : k \in Active(confirmations)}
  \cup {<<"question_judgements", q>> : q \in Judged}

Answered == start.pc \in {"idle", "refused", "reserved"}

CarryInit ==
  /\ Init
  /\ start = [pc |-> "idle", acknowledged |-> FALSE, known |-> {}]

BeginReserve(acknowledged) ==
  /\ Answered
  /\ start' = [pc |-> IF acknowledged THEN "reserved" ELSE "item_edits",
               acknowledged |-> acknowledged, known |-> Records]
  /\ UNCHANGED vars

(* A statement of _has_records: any row of the table refuses the request.  *)
Look_Fault(table, rows, next) ==
  /\ start.pc = table
  /\ start' = [start EXCEPT !.pc = next]
  /\ UNCHANGED vars
Look(table, rows, next) ==
  /\ start.pc = table
  /\ start' = [start EXCEPT !.pc = IF rows # {} THEN "refused" ELSE next]
  /\ UNCHANGED vars

has_records ==
  \/ Look("item_edits", Active(edits), "confirmations")
  \/ Look("confirmations", Active(confirmations), "question_judgements")
  \/ Look("question_judgements", Judged, "reserved")

CarryNext ==
  \/ Next /\ UNCHANGED start
  \/ \E acknowledged \in BOOLEAN : BeginReserve(acknowledged)
  \/ has_records

CarrySpec == CarryInit /\ [][CarryNext]_carry_vars

-----------------------------------------------------------------------------
(* A request that does not acknowledge the loss is reserved only if none   *)
(* of the records there when it began is left, though the tables are read  *)
(* one after the other and no lock keeps people from recording meanwhile.  *)
(* (What they record meanwhile may be missed: 05-api-ipo.md:287 does not   *)
(* say so.)                                                                *)
RecordsAreNoticed ==
  start.pc = "reserved" /\ ~start.acknowledged => start.known \cap Records = {}
=============================================================================
