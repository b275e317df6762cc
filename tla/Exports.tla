------------------------------ MODULE Exports -------------------------------
(***************************************************************************)
(* The exports of a finalized version.  A request locks the version,       *)
(* gathers what the workbook shows, saves the file, inserts the row of the *)
(* export and commits; when any of this fails it rolls back and removes    *)
(* the file.  People record things on the version under the same lock, and *)
(* readers list the exports and compare the files with the hashes in the   *)
(* rows, under no lock.                                                    *)
(***************************************************************************)
EXTENDS Naturals, Sequences, FiniteSets

CONSTANTS Requests,      (* of exports                                      *)
          Readers,       (* of the list of exports                          *)
          MaxRecords, MaxFaults   (* bounds                                 *)

ASSUME RequestsAssumption == IsFiniteSet(Requests)
ASSUME BoundsAssumption == MaxRecords \in Nat /\ MaxFaults \in Nat

VARIABLES recorded,      (* how much people have recorded on the version    *)
          pc,            (* of each request                                 *)
          head,          (* the version row it has locked                   *)
          body,          (* the records it has gathered                     *)
          initial,       (* whether it found no export                      *)
          stored,        (* its file: none, partial, whole, other           *)
          rows,          (* of exports, committed                           *)
          altered,       (* the files somebody has altered or deleted       *)
          view,          (* the list a reader is building                   *)
          faults         (* that may leave a file behind, so far            *)

vars == <<recorded, pc, head, body, initial, stored, rows, altered, view,
          faults>>
request == <<head, body, initial>>

Holding == {"gather", "save", "insert"}

-----------------------------------------------------------------------------
(* Requests and people wait for the row of the version.                    *)
VersionUnlocked_Fault == TRUE
VersionUnlocked == \A x \in Requests : pc[x] \notin Holding

Initial_Fault == Len(rows) <= 1
Initial == Len(rows) = 0

(* A rollback comes first, then the removal of a file that was saved.      *)
AfterFailure_Fault(x) == "failed"
AfterFailure(x) == IF pc[x] = "insert" THEN "undo" ELSE "failed"

Fault == faults < MaxFaults /\ faults' = faults + 1

Entry(x) == [request |-> x, name |-> head[x], workbook |-> body[x],
             initial |-> initial[x]]

Init ==
  /\ recorded = 0
  /\ pc = [x \in Requests |-> "idle"]
  /\ head = [x \in Requests |-> 0]
  /\ body = [x \in Requests |-> 0]
  /\ initial = [x \in Requests |-> FALSE]
  /\ stored = [x \in Requests |-> "none"]
  /\ rows = <<>>
  /\ altered = {}
  /\ view = [l \in Readers |-> [seen |-> 0, verdicts |-> <<>>]]
  /\ faults = 0

-----------------------------------------------------------------------------
(* What people record, see HumanRecords; it is all under the lock.         *)
Record ==
  /\ VersionUnlocked
  /\ recorded < MaxRecords
  /\ recorded' = recorded + 1
  /\ UNCHANGED <<pc, request, stored, rows, altered, view, faults>>

lock_version(x) ==
  /\ pc[x] = "idle"
  /\ VersionUnlocked
  /\ pc' = [pc EXCEPT ![x] = "gather"]
  /\ head' = [head EXCEPT ![x] = recorded]
  /\ UNCHANGED <<recorded, body, initial, stored, rows, altered, view, faults>>

snapshot(x) ==
  /\ pc[x] = "gather"
  /\ pc' = [pc EXCEPT ![x] = "save"]
  /\ body' = [body EXCEPT ![x] = recorded]
  /\ initial' = [initial EXCEPT ![x] = Initial]
  /\ UNCHANGED <<recorded, head, stored, rows, altered, view, faults>>

Written_Fault == "partial"
Written == "whole"

save(x) ==
  /\ pc[x] = "save"
  /\ pc' = [pc EXCEPT ![x] = "insert"]
  /\ stored' = [stored EXCEPT ![x] = Written]
  /\ UNCHANGED <<recorded, request, rows, altered, view, faults>>

(* The file was opened, and its path is not known to the clean-up.         *)
SaveFails(x) ==
  /\ pc[x] = "save"
  /\ Fault
  /\ pc' = [pc EXCEPT ![x] = AfterFailure(x)]
  /\ stored' = [stored EXCEPT ![x] = "partial"]
  /\ UNCHANGED <<recorded, request, rows, altered, view>>

save_export(x) ==
  /\ pc[x] = "insert"
  /\ pc' = [pc EXCEPT ![x] = "done"]
  /\ rows' = Append(rows, Entry(x))
  /\ UNCHANGED <<recorded, request, stored, altered, view, faults>>

(* Gathering, inserting or committing fails, or the request is cancelled.  *)
ExportFails(x) ==
  /\ pc[x] \in Holding
  /\ pc' = [pc EXCEPT ![x] = AfterFailure(x)]
  /\ UNCHANGED <<recorded, request, stored, rows, altered, view, faults>>

(* The database has committed, and the request does not hear of it.        *)
AnswerLost(x) ==
  /\ pc[x] = "insert"
  /\ pc' = [pc EXCEPT ![x] = AfterFailure(x)]
  /\ rows' = Append(rows, Entry(x))
  /\ UNCHANGED <<recorded, request, stored, altered, view, faults>>

remove(x) ==
  /\ pc[x] = "undo"
  /\ pc' = [pc EXCEPT ![x] = "failed"]
  /\ stored' = [stored EXCEPT ![x] = "none"]
  /\ UNCHANGED <<recorded, request, rows, altered, view, faults>>

(* EXPORT_CLEANUP_FAILED is logged, and the file stays.                    *)
RemoveFails(x) ==
  /\ pc[x] = "undo"
  /\ Fault
  /\ pc' = [pc EXCEPT ![x] = "failed"]
  /\ UNCHANGED <<recorded, request, stored, rows, altered, view>>

(* The process dies: its transactions are rolled back, its files stay.     *)
Crash ==
  /\ Fault
  /\ pc' = [x \in Requests |->
              IF pc[x] \in Holding \cup {"undo"} THEN "failed" ELSE pc[x]]
  /\ UNCHANGED <<recorded, request, stored, rows, altered, view>>

-----------------------------------------------------------------------------
(* Somebody replaces or deletes the file of an export, without the program. *)
Alter(x) ==
  /\ stored[x] # "none" /\ x \notin altered
  /\ \E content \in {"none", "other"} :
       stored' = [stored EXCEPT ![x] = content]
  /\ altered' = altered \cup {x}
  /\ UNCHANGED <<recorded, pc, request, rows, view, faults>>

Integrity(x) ==
  CASE stored[x] = "none"  -> "missing"
    [] stored[x] = "whole" -> "intact"
    [] OTHER               -> "modified"

(* The rows are read in one statement, the files afterwards one by one.    *)
list_exports(l) ==
  /\ view[l].seen = 0 /\ rows # <<>>
  /\ view' = [view EXCEPT ![l] = [seen |-> Len(rows), verdicts |-> <<>>]]
  /\ UNCHANGED <<recorded, pc, request, stored, rows, altered, faults>>

ReadFile(l) ==
  /\ Len(view[l].verdicts) < view[l].seen
  /\ LET k == Len(view[l].verdicts) + 1
     IN  view' = [view EXCEPT ![l] =
           [seen |-> @.seen,
            verdicts |-> Append(@.verdicts, Integrity(rows[k].request))]]
  /\ UNCHANGED <<recorded, pc, request, stored, rows, altered, faults>>

-----------------------------------------------------------------------------
Exporting(x) ==
  \/ lock_version(x) \/ snapshot(x) \/ save(x) \/ save_export(x)
  \/ SaveFails(x) \/ ExportFails(x) \/ AnswerLost(x)
  \/ remove(x) \/ RemoveFails(x)

Next ==
  \/ Record
  \/ \E x \in Requests : Exporting(x) \/ Alter(x)
  \/ Crash
  \/ \E l \in Readers : list_exports(l) \/ ReadFile(l)

Spec == Init /\ [][Next]_vars

-----------------------------------------------------------------------------
(* Properties.                                                             *)

TypeOK ==
  /\ recorded \in 0..MaxRecords
  /\ pc \in [Requests -> Holding \cup {"idle", "done", "undo", "failed"}]
  /\ head \in [Requests -> 0..MaxRecords]
  /\ body \in [Requests -> 0..MaxRecords]
  /\ initial \in [Requests -> BOOLEAN]
  /\ stored \in [Requests -> {"none", "partial", "whole", "other"}]
  /\ rows \in Seq([request : Requests, name : 0..MaxRecords,
                    workbook : 0..MaxRecords, initial : BOOLEAN])
  /\ altered \subseteq Requests
  /\ view \in [Readers -> [seen : Nat,
                           verdicts : Seq({"missing", "intact", "modified"})]]
  /\ faults \in 0..MaxFaults

(* The lock keeps one exporter between its reads and its commit, and what  *)
(* it has read and found stays true until then; a request that has come to *)
(* its end has a row and its file, unless it has failed or somebody has    *)
(* altered the file.                                                       *)
HolderInv ==
  \A x \in Requests :
    pc[x] \in Holding =>
      /\ \A y \in Requests : pc[y] \in Holding => y = x
      /\ head[x] = recorded
      /\ pc[x] # "gather" => body[x] = recorded /\ initial[x] = (rows = <<>>)

FileInv ==
  \A x \in Requests :
    /\ pc[x] \in {"idle", "gather", "save"} => stored[x] = "none"
    /\ pc[x] \in {"insert", "done"} => stored[x] = "whole" \/ x \in altered

RowInv ==
  \A k \in DOMAIN rows : pc[rows[k].request] \in {"done", "undo", "failed"}

ViewInv ==
  \A l \in Readers :
    Len(view[l].verdicts) <= view[l].seen /\ view[l].seen <= Len(rows)

ExportInv == TypeOK /\ HolderInv /\ FileInv /\ RowInv /\ ViewInv

(* The rows are an archive (ArchivePromise): each is added at a moment     *)
(* whose state it names and whose records its workbook shows, and the      *)
(* first one alone is marked for the scoring (04-db.md, exports).          *)
Promise == INSTANCE ArchivePromise WITH
  archive <- [k \in DOMAIN rows |-> [name     |-> rows[k].name,
                                     workbook |-> rows[k].workbook,
                                     initial  |-> rows[k].initial]]
KeepsArchive == Promise!Spec

(* No failure of gathering, inserting or committing and no cancellation    *)
(* leaves a file that no row names: that takes a crash, a save that fails  *)
(* half way or a removal that fails (export_service.py, the except clause). *)
HasRow(x) == \E k \in DOMAIN rows : rows[k].request = x

Leftover == {x \in Requests :
               stored[x] # "none" /\ pc[x] = "failed" /\ ~HasRow(x)}

NoFileIsLeft == faults = 0 => Leftover = {}

(* A list that shows a file as missing or modified is right to alarm: it   *)
(* has been altered, or the request that made it was told it had failed.   *)
VerdictWarranted ==
  \A l \in Readers : \A k \in DOMAIN view[l].verdicts :
    view[l].verdicts[k] # "intact" =>
      \/ rows[k].request \in altered
      \/ pc[rows[k].request] \in {"undo", "failed"}

(* 05-api-ipo.md:239, the file of an export is kept with its path and hash. *)
FileIsKept ==
  \A k \in DOMAIN rows :
    rows[k].request \notin altered => stored[rows[k].request] # "none"
=============================================================================
