---------------------------- MODULE ExportsProofs ---------------------------
(***************************************************************************)
(* Proofs about Exports, for any requests, readers and bounds.             *)
(***************************************************************************)
EXTENDS Exports, SequenceTheorems, TLAPS

USE RequestsAssumption, BoundsAssumption

RowType == [request : Requests, name : 0..MaxRecords,
            workbook : 0..MaxRecords, initial : BOOLEAN]
Verdicts == {"missing", "intact", "modified"}

LEMMA EntryTyped ==
  ASSUME TypeOK, NEW x \in Requests
  PROVE  Entry(x) \in RowType
BY DEF TypeOK, Entry, RowType

LEMMA Appended ==
  ASSUME NEW T, NEW s \in Seq(T), NEW e \in T
  PROVE  /\ Append(s, e) \in Seq(T)
         /\ Len(Append(s, e)) = Len(s) + 1
         /\ DOMAIN Append(s, e) = 1..(Len(s) + 1)
         /\ DOMAIN s = 1..Len(s)
         /\ \A k \in 1..Len(s) : Append(s, e)[k] = s[k]
         /\ Append(s, e)[Len(s) + 1] = e
OBVIOUS

LEMMA RequestsOfRows ==
  ASSUME TypeOK
  PROVE  \A k \in DOMAIN rows : rows[k].request \in Requests
<1> DEFINE T == RowType
<1>1. rows \in Seq(T)
  BY DEF TypeOK, RowType
<1> HIDE DEF T
<1>2. \A k \in DOMAIN rows : rows[k] \in T
  BY <1>1
<1> QED BY <1>2 DEF T, RowType

(* The steps of a request before its end, and its failures: no row.        *)
Quiet(x) == \/ lock_version(x) \/ snapshot(x) \/ save(x) \/ SaveFails(x)
            \/ ExportFails(x) \/ remove(x) \/ RemoveFails(x)

Committing(x) == save_export(x) \/ AnswerLost(x)

LEMMA QuietStep ==
  ASSUME ExportInv, NEW x \in Requests, Quiet(x)
  PROVE  ExportInv'
<1> USE DEF request, Holding, Fault
<1> USE DEF ExportInv
<1>1. TypeOK'
  <2> USE DEF TypeOK
  <2>1. CASE lock_version(x)
    BY <2>1 DEF lock_version
  <2>2. CASE snapshot(x)
    <3>1. Initial \in BOOLEAN
      BY DEF Initial
    <3> QED BY <2>2, <3>1 DEF snapshot
  <2>3. CASE save(x)
    BY <2>3 DEF save, Written
  <2>4. CASE SaveFails(x)
    BY <2>4 DEF SaveFails, AfterFailure
  <2>5. CASE ExportFails(x)
    BY <2>5 DEF ExportFails, AfterFailure
  <2>6. CASE remove(x)
    BY <2>6 DEF remove
  <2>7. CASE RemoveFails(x)
    BY <2>7 DEF RemoveFails
  <2> QED BY <2>1, <2>2, <2>3, <2>4, <2>5, <2>6, <2>7 DEF Quiet
<1>2. UNCHANGED <<recorded, rows, altered, view>>
  BY DEF Quiet, lock_version, snapshot, save, SaveFails, ExportFails, remove,
         RemoveFails
<1>3. HolderInv'
  BY DEF ExportInv, TypeOK, HolderInv, Quiet, lock_version, VersionUnlocked,
         snapshot, Initial, save, SaveFails, AfterFailure, ExportFails, remove,
         RemoveFails
<1>4. FileInv'
  BY DEF ExportInv, TypeOK, FileInv, Quiet, lock_version, snapshot, save,
         Written, SaveFails, AfterFailure, ExportFails, remove, RemoveFails
<1>5. RowInv'
  <2>1. \A y \in Requests : pc[y] \in {"done", "undo", "failed"} =>
                           pc'[y] \in {"done", "undo", "failed"}
    BY DEF TypeOK, Quiet, lock_version, snapshot, save, SaveFails,
           AfterFailure, ExportFails, remove, RemoveFails
  <2>2. \A k \in DOMAIN rows : rows[k].request \in Requests
    BY RequestsOfRows
  <2> QED BY <1>2, <2>1, <2>2 DEF RowInv
<1>6. ViewInv'
  BY <1>2 DEF ExportInv, ViewInv
<1> QED BY <1>1, <1>3, <1>4, <1>5, <1>6 DEF ExportInv

(* A commit adds the one row, for the one exporter there is.               *)
LEMMA CommittingStep ==
  ASSUME ExportInv, NEW x \in Requests, Committing(x)
  PROVE  ExportInv'
<1> USE DEF request, Holding
<1> DEFINE T == RowType
<1>1. /\ pc[x] = "insert"
      /\ pc' \in [Requests -> Holding \cup {"idle", "done", "undo", "failed"}]
      /\ pc'[x] \in {"done", "undo"}
      /\ \A y \in Requests : y # x => pc'[y] = pc[y]
      /\ rows' = Append(rows, Entry(x))
      /\ UNCHANGED <<recorded, request, stored, altered, view, faults>>
  BY DEF Committing, save_export, AnswerLost, AfterFailure, ExportInv, TypeOK
<1>2. rows \in Seq(T) /\ Entry(x) \in T
  BY EntryTyped DEF ExportInv, TypeOK, RowType
<1> HIDE DEF T
<1>3. /\ rows' \in Seq(T)
      /\ Len(rows) \in Nat /\ Len(rows') = Len(rows) + 1
      /\ DOMAIN rows' = 1..(Len(rows) + 1) /\ DOMAIN rows = 1..Len(rows)
      /\ \A k \in 1..Len(rows) : rows'[k] = rows[k]
      /\ rows'[Len(rows) + 1] = Entry(x)
  BY <1>1, <1>2, Appended
<1>4. Entry(x).request = x
  BY DEF Entry
<1>5. TypeOK'
  BY <1>1, <1>3 DEF ExportInv, TypeOK, T, RowType
<1>6. HolderInv'
  <2> SUFFICES ASSUME NEW y \in Requests, pc'[y] \in Holding
               PROVE  FALSE
    BY DEF HolderInv
  <2>1. y # x /\ pc[y] \in Holding
    BY <1>1
  <2> QED BY <2>1, <1>1 DEF ExportInv, HolderInv
<1>7. FileInv'
  BY <1>1 DEF ExportInv, TypeOK, FileInv
<1>8. RowInv'
  <2> SUFFICES ASSUME NEW k \in 1..(Len(rows) + 1)
               PROVE  pc'[rows'[k].request] \in {"done", "undo", "failed"}
    BY <1>3 DEF RowInv
  <2>1. CASE k = Len(rows) + 1
    BY <2>1, <1>1, <1>3, <1>4
  <2>2. CASE k # Len(rows) + 1
    <3>1. k \in 1..Len(rows)
      BY <2>2, <1>3
    <3>2. pc[rows[k].request] \in {"done", "undo", "failed"}
      BY <3>1, <1>3 DEF ExportInv, RowInv
    <3>3. rows[k] \in T /\ rows'[k] = rows[k]
      BY <3>1, <1>2, <1>3
    <3>4. rows[k].request \in Requests
      BY <3>3 DEF T, RowType
    <3> QED BY <3>2, <3>3, <3>4, <1>1
  <2> QED BY <2>1, <2>2
<1>9. ViewInv'
  BY <1>1, <1>3 DEF ExportInv, TypeOK, ViewInv
<1> QED BY <1>5, <1>6, <1>7, <1>8, <1>9 DEF ExportInv

LEMMA OtherStep ==
  ASSUME ExportInv, Record \/ Crash \/ \E x \in Requests : Alter(x)
  PROVE  ExportInv'
<1> USE DEF request, Holding, ExportInv
<1>1. CASE Record
  BY <1>1 DEF Record, VersionUnlocked, TypeOK, HolderInv, FileInv, RowInv,
              ViewInv
<1>2. CASE Crash
  <2>1. TypeOK'
    BY <1>2 DEF Crash, Fault, TypeOK
  <2>2. \A y \in Requests : /\ pc'[y] \notin Holding
                            /\ pc'[y] \in {pc[y], "failed"}
    BY <1>2 DEF Crash, TypeOK
  <2>3. UNCHANGED <<recorded, request, stored, rows, altered, view>>
    BY <1>2 DEF Crash
  <2>4. RowInv'
    <3>1. \A k \in DOMAIN rows : rows[k].request \in Requests
      BY RequestsOfRows
    <3> QED BY <2>2, <2>3, <3>1 DEF RowInv
  <2> QED BY <2>1, <2>2, <2>3, <2>4 DEF HolderInv, FileInv, ViewInv
<1>3. ASSUME NEW x \in Requests, Alter(x) PROVE ExportInv'
  BY <1>3 DEF Alter, TypeOK, HolderInv, FileInv, RowInv, ViewInv
<1> QED BY <1>1, <1>2, <1>3

LEMMA ReaderStep ==
  ASSUME ExportInv, NEW l \in Readers, list_exports(l) \/ ReadFile(l)
  PROVE  ExportInv'
<1> DEFINE T == RowType
           R == [seen : Nat, verdicts : Seq(Verdicts)]
<1>1. /\ UNCHANGED <<recorded, pc, request, stored, rows, altered, faults>>
      /\ \A m \in Readers : m # l => view'[m] = view[m]
  BY DEF list_exports, ReadFile, ExportInv, TypeOK
<1>2. rows \in Seq(T) /\ Len(rows) \in Nat /\ view \in [Readers -> R]
  <2>1. rows \in Seq(T)
    BY DEF ExportInv, TypeOK, RowType
  <2> HIDE DEF T
  <2>2. Len(rows) \in Nat
    BY <2>1
  <2> QED BY <2>1, <2>2 DEF ExportInv, TypeOK, Verdicts
<1>3. PICK v \in R : /\ view' = [view EXCEPT ![l] = v]
                     /\ Len(v.verdicts) <= v.seen /\ v.seen <= Len(rows)
  <2>1. CASE list_exports(l)
    <3> DEFINE w == [seen |-> Len(rows), verdicts |-> <<>>]
    <3>1. w \in R /\ Len(w.verdicts) <= w.seen /\ w.seen <= Len(rows)
      BY <1>2
    <3>2. view' = [view EXCEPT ![l] = w]
      BY <2>1 DEF list_exports
    <3> HIDE DEF w, R
    <3> QED BY <3>1, <3>2
  <2>2. CASE ReadFile(l)
    <3> DEFINE k == Len(view[l].verdicts) + 1
               i == Integrity(rows[k].request)
               w == [seen |-> view[l].seen,
                     verdicts |-> Append(view[l].verdicts, i)]
    <3>1. view[l].verdicts \in Seq(Verdicts) /\ view[l].seen \in Nat
      BY <1>2
    <3>2. i \in Verdicts
      BY DEF Integrity, Verdicts
    <3>3. /\ Append(view[l].verdicts, i) \in Seq(Verdicts)
          /\ Len(Append(view[l].verdicts, i)) = k
      <4> HIDE DEF i
      <4> QED BY <3>1, <3>2, Appended
    <3>4. view' = [view EXCEPT ![l] = w] /\ k <= view[l].seen
      BY <2>2, <3>1 DEF ReadFile
    <3>5. view[l].seen <= Len(rows)
      BY DEF ExportInv, ViewInv
    <3> HIDE DEF i
    <3>6. w \in R /\ Len(w.verdicts) <= w.seen /\ w.seen <= Len(rows)
      BY <3>1, <3>3, <3>4, <3>5
    <3> HIDE DEF w
    <3> QED BY <3>4, <3>6
  <2> QED BY <2>1, <2>2
<1>4. view' \in [Readers -> R] /\ view'[l] = v
  BY <1>2, <1>3
<1>5. TypeOK'
  BY <1>1, <1>4 DEF ExportInv, TypeOK, Verdicts, request
<1>6. ViewInv'
  BY <1>1, <1>3, <1>4 DEF ExportInv, ViewInv
<1> QED BY <1>1, <1>5, <1>6
        DEF ExportInv, HolderInv, FileInv, RowInv, request

(* One exporter at a time, whose reads hold until its commit; rows only of *)
(* requests that have come to an end; files whole before there is a row.   *)
THEOREM ExportInvariant == Spec => []ExportInv
<1>1. Init => ExportInv
  BY DEF Init, ExportInv, TypeOK, HolderInv, FileInv, RowInv, ViewInv, Holding
<1>2. ExportInv /\ [Next]_vars => ExportInv'
  <2> SUFFICES ASSUME ExportInv, [Next]_vars PROVE ExportInv'
    OBVIOUS
  <2>1. CASE UNCHANGED vars
    BY <2>1 DEF vars, request, ExportInv, TypeOK, HolderInv, FileInv, RowInv,
                ViewInv
  <2>2. ASSUME NEW x \in Requests, Exporting(x) PROVE ExportInv'
    BY <2>2, QuietStep, CommittingStep DEF Exporting, Quiet, Committing
  <2> QED BY <2>1, <2>2, OtherStep, ReaderStep DEF Next
<1> QED BY <1>1, <1>2, PTL DEF Spec

-----------------------------------------------------------------------------
(* What every step does to the rows, to who has come to an end, and to     *)
(* what has been altered: they only grow.                                  *)
Ended == {"done", "undo", "failed"}

LEMMA Growth ==
  ASSUME ExportInv, [Next]_vars
  PROVE  /\ \A k \in DOMAIN rows : k \in DOMAIN rows' /\ rows'[k] = rows[k]
         /\ \A y \in Requests : pc[y] = "done" => pc'[y] = "done"
         /\ \A y \in Requests :
              pc[y] \in {"undo", "failed"} => pc'[y] \in {"undo", "failed"}
         /\ altered \subseteq altered'
<1> USE DEF ExportInv, TypeOK, request
<1>1. ASSUME NEW x \in Requests, Quiet(x)
      PROVE  /\ rows' = rows /\ altered' = altered
             /\ \A y \in Requests : pc[y] = "done" => pc'[y] = "done"
             /\ \A y \in Requests :
                  pc[y] \in {"undo", "failed"} => pc'[y] \in {"undo", "failed"}
  BY <1>1 DEF Quiet, lock_version, snapshot, save, SaveFails, AfterFailure,
              ExportFails, remove, RemoveFails, Holding
<1>2. ASSUME NEW x \in Requests, Committing(x)
      PROVE  /\ rows' = Append(rows, Entry(x)) /\ altered' = altered
             /\ \A y \in Requests : pc[y] = "done" => pc'[y] = "done"
             /\ \A y \in Requests :
                  pc[y] \in {"undo", "failed"} => pc'[y] \in {"undo", "failed"}
  BY <1>2 DEF Committing, save_export, AnswerLost, AfterFailure
<1>3. ASSUME NEW x \in Requests, rows' = Append(rows, Entry(x))
      PROVE  \A k \in DOMAIN rows : k \in DOMAIN rows' /\ rows'[k] = rows[k]
  <2> DEFINE T == RowType
  <2>1. rows \in Seq(T) /\ Entry(x) \in T
    BY EntryTyped DEF RowType
  <2> HIDE DEF T
  <2>2. Len(rows) \in Nat
    BY <2>1
  <2> QED BY <1>3, <2>1, <2>2, Appended
<1>4. CASE Record
  BY <1>4 DEF Record
<1>5. CASE Crash
  BY <1>5 DEF Crash, Holding
<1>6. ASSUME NEW x \in Requests, Alter(x)
      PROVE  UNCHANGED <<rows, pc>> /\ altered \subseteq altered'
  BY <1>6 DEF Alter
<1>7. ASSUME NEW l \in Readers, list_exports(l) \/ ReadFile(l)
      PROVE  UNCHANGED <<rows, pc, altered>>
  BY <1>7 DEF list_exports, ReadFile
<1>8. CASE UNCHANGED vars
  BY <1>8 DEF vars
<1>9. ASSUME NEW x \in Requests, Exporting(x)
      PROVE  Quiet(x) \/ Committing(x)
  BY <1>9 DEF Exporting, Quiet, Committing
<1> HIDE DEF ExportInv, TypeOK, request
<1> QED BY <1>1, <1>2, <1>3, <1>4, <1>5, <1>6, <1>7, <1>8, <1>9 DEF Next

(* A file without a row takes a crash or a failure of the storage.         *)
THEOREM NoFileLeft == Spec => []NoFileIsLeft
<1> USE DEF NoFileIsLeft, Leftover
<1>1. Init => NoFileIsLeft
  BY DEF Init
<1>2. ExportInv /\ ExportInv' /\ NoFileIsLeft /\ [Next]_vars => NoFileIsLeft'
  <2> SUFFICES ASSUME ExportInv, NoFileIsLeft, [Next]_vars, faults' = 0,
                      NEW y \in Requests, stored'[y] # "none",
                      pc'[y] = "failed"
               PROVE  HasRow(y)'
    OBVIOUS
  <2>1. HasRow(y) => HasRow(y)'
    BY Growth DEF HasRow
  <2>2. SUFFICES ASSUME ~HasRow(y) PROVE FALSE
    BY <2>1
  <2> USE DEF request, ExportInv, TypeOK, FileInv, Holding
  <2>3. faults = 0 /\ ~Crash
    <3>1. faults \in Nat
      OBVIOUS
    <3>2. faults' = faults \/ faults' = faults + 1
      BY DEF Next, Exporting, Record, lock_version, snapshot, save, SaveFails,
             save_export, ExportFails, AnswerLost, remove, RemoveFails, Crash,
             Alter, list_exports, ReadFile, vars, Fault
    <3> QED BY <3>1, <3>2 DEF Crash, Fault
  <2>4. pc[y] # "failed" \/ stored[y] = "none"
    BY <2>2, <2>3
  <2>5. ASSUME NEW x \in Requests, Exporting(x) PROVE FALSE
    <3>1. ~SaveFails(x) /\ ~RemoveFails(x)
      BY <2>3 DEF SaveFails, RemoveFails, Fault
    <3>2. CASE lock_version(x) \/ snapshot(x) \/ save(x) \/ save_export(x)
      BY <3>2, <2>4 DEF lock_version, snapshot, save, save_export
    <3>3. CASE ExportFails(x)
      BY <3>3, <2>4 DEF ExportFails, AfterFailure
    <3>4. CASE AnswerLost(x)
      BY <3>4, <2>4 DEF AnswerLost, AfterFailure
    <3>5. CASE remove(x)
      BY <3>5, <2>4 DEF remove
    <3> QED BY <2>5, <3>1, <3>2, <3>3, <3>4, <3>5 DEF Exporting
  <2>6. CASE Record \/ UNCHANGED vars
    BY <2>6, <2>4 DEF Record, vars
  <2>7. ASSUME NEW x \in Requests, Alter(x) PROVE FALSE
    BY <2>7, <2>4 DEF Alter
  <2>8. ASSUME NEW l \in Readers, list_exports(l) \/ ReadFile(l) PROVE FALSE
    BY <2>8, <2>4 DEF list_exports, ReadFile
  <2> QED BY <2>3, <2>5, <2>6, <2>7, <2>8 DEF Next
<1> QED BY <1>1, <1>2, ExportInvariant, PTL DEF Spec

-----------------------------------------------------------------------------
(* What a list reports of a file that nobody altered, and whose request    *)
(* did not fail, is that it is intact, whatever was exported meanwhile.    *)
THEOREM VerdictsAreWarranted == Spec => []VerdictWarranted
<1>1. Init => VerdictWarranted
  BY DEF Init, VerdictWarranted
<1>2. ExportInv /\ VerdictWarranted /\ [Next]_vars => VerdictWarranted'
  <2> SUFFICES ASSUME ExportInv, VerdictWarranted, [Next]_vars
               PROVE  VerdictWarranted'
    OBVIOUS
  <2> DEFINE Warranted(y) == y \in altered \/ pc[y] \in {"undo", "failed"}
             R == [seen : Nat, verdicts : Seq(Verdicts)]
  <2>1. \A y \in Requests : Warranted(y) => Warranted(y)'
    BY Growth
  <2>2. /\ \A k \in DOMAIN rows : /\ k \in DOMAIN rows' /\ rows'[k] = rows[k]
                                 /\ rows[k].request \in Requests
        /\ DOMAIN rows = 1..Len(rows) /\ Len(rows) \in Nat
    <3> DEFINE T == RowType
    <3>1. rows \in Seq(T)
      BY DEF ExportInv, TypeOK, RowType
    <3> HIDE DEF T
    <3>2. DOMAIN rows = 1..Len(rows) /\ Len(rows) \in Nat
      BY <3>1
    <3> QED BY <3>2, Growth, RequestsOfRows DEF ExportInv
  <2>3. \A l \in Readers :
          /\ view[l] \in R
          /\ DOMAIN view[l].verdicts = 1..Len(view[l].verdicts)
          /\ Len(view[l].verdicts) \in Nat
          /\ Len(view[l].verdicts) <= Len(rows)
    <3>1. \A l \in Readers : view[l] \in R
      BY DEF ExportInv, TypeOK, Verdicts
    <3>2. \A l \in Readers : view[l].seen \in Nat
      BY <3>1
    <3>3. \A l \in Readers :
            /\ Len(view[l].verdicts) \in Nat
            /\ DOMAIN view[l].verdicts = 1..Len(view[l].verdicts)
      BY <3>1
    <3>4. \A l \in Readers : /\ Len(view[l].verdicts) <= view[l].seen
                             /\ view[l].seen <= Len(rows)
      BY DEF ExportInv, ViewInv
    <3> QED BY <3>1, <3>2, <3>3, <3>4, <2>2
  <2> DEFINE Kept(l) == \A k \in DOMAIN view[l].verdicts :
                          view[l].verdicts[k] # "intact" =>
                            Warranted(rows[k].request)
  <2>4. \A l \in Readers : Kept(l)
    BY DEF VerdictWarranted
  <2>5. ASSUME NEW l \in Readers, view'[l] = view[l] PROVE Kept(l)'
    <3>1. \A k \in DOMAIN view[l].verdicts : k \in DOMAIN rows
      BY <2>2, <2>3
    <3> QED BY <2>5, <3>1, <2>1, <2>2, <2>4
  <2>6. ASSUME NEW l \in Readers, list_exports(l) PROVE Kept(l)'
    <3>1. view'[l].verdicts = <<>>
      BY <2>6 DEF list_exports, ExportInv, TypeOK
    <3> QED BY <3>1
  <2>7. ASSUME NEW l \in Readers, ReadFile(l) PROVE Kept(l)'
    <3> DEFINE n == Len(view[l].verdicts)
               i == Integrity(rows[n + 1].request)
    <3>1. /\ view'[l].verdicts = Append(view[l].verdicts, i)
          /\ n + 1 <= Len(rows) /\ n \in Nat
          /\ UNCHANGED <<rows, pc, altered>>
      <4>1. view[l].seen <= Len(rows) /\ view[l].seen \in Nat /\ n \in Nat
        BY <2>3 DEF ExportInv, ViewInv
      <4>2. n < view[l].seen /\ UNCHANGED <<rows, pc, altered>>
        BY <2>7 DEF ReadFile
      <4>3. view'[l] = [seen |-> view[l].seen,
                        verdicts |-> Append(view[l].verdicts, i)]
        BY <2>7 DEF ReadFile, ExportInv, TypeOK
      <4>4. view'[l].verdicts = Append(view[l].verdicts, i)
        BY <4>3
      <4> HIDE DEF i
      <4> QED BY <4>1, <4>2, <4>4, <2>2
    <3>2. n + 1 \in DOMAIN rows /\ rows[n + 1].request \in Requests
      BY <3>1, <2>2
    <3>3. i # "intact" => Warranted(rows[n + 1].request)
      BY <3>2 DEF Integrity, ExportInv, RowInv, FileInv
    <3>4. /\ DOMAIN view'[l].verdicts = 1..(n + 1)
          /\ \A k \in 1..n : view'[l].verdicts[k] = view[l].verdicts[k]
          /\ view'[l].verdicts[n + 1] = i
      <4>1. view[l].verdicts \in Seq(Verdicts) /\ i \in Verdicts
        BY <2>3 DEF Integrity, Verdicts
      <4> HIDE DEF i
      <4> QED BY <3>1, <4>1, Appended
    <3> SUFFICES ASSUME NEW k \in 1..(n + 1),
                        view'[l].verdicts[k] # "intact"
                 PROVE  Warranted(rows[k].request)
      BY <3>1, <3>4
    <3>5. CASE k = n + 1
      BY <3>5, <3>3, <3>4
    <3>6. CASE k \in 1..n
      BY <3>6, <3>4, <2>3, <2>4
    <3> QED BY <3>1, <3>5, <3>6
  <2>8. \A l \in Readers : \/ view'[l] = view[l]
                          \/ list_exports(l) \/ ReadFile(l)
    <3>1. CASE \E l \in Readers : list_exports(l) \/ ReadFile(l)
      BY <3>1 DEF list_exports, ReadFile, ExportInv, TypeOK
    <3>2. CASE view' = view
      BY <3>2
    <3>3. ASSUME NEW x \in Requests, Exporting(x) \/ Alter(x) PROVE view' = view
      BY <3>3 DEF Exporting, lock_version, snapshot, save, SaveFails,
                  save_export, ExportFails, AnswerLost, remove, RemoveFails,
                  Alter
    <3>4. CASE Record \/ Crash \/ UNCHANGED vars
      BY <3>4 DEF Record, Crash, vars
    <3> QED BY <3>1, <3>2, <3>3, <3>4 DEF Next
  <2>9. \A l \in Readers : Kept(l)'
    BY <2>5, <2>6, <2>7, <2>8
  <2> QED BY <2>9 DEF VerdictWarranted
<1> QED BY <1>1, <1>2, ExportInvariant, PTL DEF Spec

-----------------------------------------------------------------------------
(* The rows implement the archive: a commit, whether its answer is lost or *)
(* not, is the addition of one true entry, and all other steps but those   *)
(* of people are stutters.                                                 *)
Archive == [k \in DOMAIN rows |-> [name     |-> rows[k].name,
                                  workbook |-> rows[k].workbook,
                                  initial  |-> rows[k].initial]]

LEMMA CommitIsExport ==
  ASSUME ExportInv, NEW x \in Requests, Committing(x)
  PROVE  /\ recorded' = recorded
         /\ Archive' = Append(Archive, [name     |-> recorded,
                                       workbook |-> recorded,
                                       initial  |-> Archive = <<>>])
<1> DEFINE T == RowType
           S == [name : 0..MaxRecords, workbook : 0..MaxRecords,
                 initial : BOOLEAN]
           Shown(row) == [name |-> row.name, workbook |-> row.workbook,
                          initial |-> row.initial]
           e == [name |-> recorded, workbook |-> recorded,
                 initial |-> Archive = <<>>]
           n == Len(rows)
<1>1. /\ pc[x] = "insert" /\ rows' = Append(rows, Entry(x))
      /\ recorded' = recorded
  BY DEF Committing, save_export, AnswerLost
<1>2. head[x] = recorded /\ body[x] = recorded /\ initial[x] = (rows = <<>>)
  BY <1>1 DEF ExportInv, HolderInv, Holding
<1>3. rows \in Seq(T) /\ Entry(x) \in T
  BY EntryTyped DEF ExportInv, TypeOK, RowType
<1>4. \A row \in T : Shown(row) \in S
  BY DEF RowType
<1> HIDE DEF T
<1>5. /\ DOMAIN rows = 1..n /\ n \in Nat /\ \A k \in 1..n : rows[k] \in T
      /\ DOMAIN rows' = 1..(n + 1)
      /\ \A k \in 1..n : rows'[k] = rows[k]
      /\ rows'[n + 1] = Entry(x)
      /\ rows = <<>> <=> n = 0
  <2>1. /\ DOMAIN rows = 1..n /\ n \in Nat /\ \A k \in 1..n : rows[k] \in T
        /\ rows = <<>> <=> n = 0
    BY <1>3
  <2> QED BY <1>1, <1>3, <2>1, Appended
<1>6. /\ Archive = [k \in 1..n |-> Shown(rows[k])]
      /\ Archive' = [k \in 1..(n + 1) |-> Shown(rows'[k])]
  BY <1>5 DEF Archive
<1>7. Archive \in Seq(S) /\ Len(Archive) = n /\ (Archive = <<>> <=> n = 0)
  <2> HIDE DEF S, Shown
  <2>1. Archive \in [1..n -> S]
    BY <1>4, <1>5, <1>6
  <2>2. Archive \in Seq(S)
    BY <2>1, <1>5
  <2>3. Len(Archive) = n
    BY <2>1, <2>2, <1>5
  <2> QED BY <2>2, <2>3
<1>8. Shown(Entry(x)) = e
  BY <1>2, <1>5, <1>7 DEF Entry
<1>9. e \in S
  BY <1>3, <1>4, <1>8
<1> HIDE DEF e, S
<1>10. Append(Archive, e) =
         [k \in 1..(n + 1) |-> IF k = n + 1 THEN e ELSE Archive[k]]
  <2> DEFINE B == Append(Archive, e)
  <2>1. /\ DOMAIN B = 1..(n + 1)
        /\ \A k \in 1..n : B[k] = Archive[k]
        /\ B[n + 1] = e
        /\ B \in Seq(S)
    BY <1>7, <1>9, Appended
  <2>2. \A k \in 1..(n + 1) : B[k] = IF k = n + 1 THEN e ELSE Archive[k]
    <3>1. \A k \in 1..(n + 1) : k # n + 1 => k \in 1..n
      BY <1>5
    <3> QED BY <2>1, <3>1
  <2> HIDE DEF B
  <2>3. B = [k \in DOMAIN B |-> B[k]]
    <3>1. B \in [1..Len(B) -> S]
      BY <2>1, LenProperties
    <3> QED BY <3>1, Zenon
  <2>4. B = [k \in 1..(n + 1) |-> IF k = n + 1 THEN e ELSE Archive[k]]
    BY <2>1, <2>2, <2>3
  <2> QED BY <2>4 DEF B
<1>11. \A k \in 1..(n + 1) :
         Shown(rows'[k]) = IF k = n + 1 THEN e ELSE Archive[k]
  <2> TAKE k \in 1..(n + 1)
  <2>1. CASE k = n + 1
    BY <2>1, <1>5, <1>8
  <2>2. CASE k # n + 1
    <3>1. k \in 1..n /\ rows'[k] = rows[k]
      BY <2>2, <1>5
    <3> HIDE DEF Shown
    <3> QED BY <3>1, <2>2, <1>6
  <2> QED BY <2>1, <2>2
<1> HIDE DEF Shown
<1>12. Archive' = Append(Archive, e)
  BY <1>6, <1>10, <1>11
<1> QED BY <1>1, <1>12 DEF e

LEMMA OthersStutter ==
  ASSUME ExportInv, [Next]_vars, \A x \in Requests : ~Committing(x)
  PROVE  rows' = rows /\ (recorded' = recorded \/ Record)
<1>1. ASSUME NEW x \in Requests, Exporting(x) \/ Alter(x)
      PROVE  UNCHANGED <<rows, recorded>>
  BY <1>1 DEF Exporting, Committing, lock_version, snapshot, save, SaveFails,
              ExportFails, remove, RemoveFails, Alter
<1>2. ASSUME NEW l \in Readers, list_exports(l) \/ ReadFile(l)
      PROVE  UNCHANGED <<rows, recorded>>
  BY <1>2 DEF list_exports, ReadFile
<1>3. CASE Record \/ Crash \/ UNCHANGED vars
  BY <1>3 DEF Record, Crash, vars
<1> QED BY <1>1, <1>2, <1>3 DEF Next

THEOREM ImplementsArchive == Spec => KeepsArchive
<1>1. Init => Promise!Init
  BY DEF Init, Promise!Init
<1>2. ExportInv /\ [Next]_vars => [Promise!Next]_<<recorded, Archive>>
  <2> SUFFICES ASSUME ExportInv, [Next]_vars
               PROVE  [Promise!Next]_<<recorded, Archive>>
    OBVIOUS
  <2>1. CASE \E x \in Requests : Committing(x)
    BY <2>1, CommitIsExport DEF Promise!Next, Promise!Export, Archive
  <2>2. CASE \A x \in Requests : ~Committing(x)
    <3>1. rows' = rows /\ (recorded' = recorded \/ Record)
      BY <2>2, OthersStutter
    <3>2. Archive' = Archive
      BY <3>1 DEF Archive
    <3> QED BY <3>1, <3>2 DEF Record, Promise!Next, Promise!Record, Archive
  <2> QED BY <2>1, <2>2
<1> QED BY <1>1, <1>2, ExportInvariant, PTL
        DEF Spec, KeepsArchive, Promise!Spec, Archive
=============================================================================
