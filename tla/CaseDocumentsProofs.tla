------------------------- MODULE CaseDocumentsProofs ------------------------
(***************************************************************************)
(* Proofs about CaseDocuments, for any documents, requests and runs.       *)
(***************************************************************************)
EXTENDS CaseDocuments, FiniteSetTheorems, TLAPS

-----------------------------------------------------------------------------
(* The invariant: who holds the row of the case, what a run has done by    *)
(* the time it is where it is, and what a finalization has read so far.    *)

ExclusionInv ==
  \A e \in Excluders : exclusion[e] # None =>
    /\ exclusion[e] \in documents
    /\ \A r \in Runs : outcome[r] \in {"absent", "ended"}

IntakeInv == \A i \in Intakes : intake[i] # None => intake[i] \in files

ReservedInv ==
  \A r \in Runs :
    /\ outcome[r] \in {"absent", "reserving"} =>
         scanned[r] = {} /\ reported[r] = {} /\ cited[r] = {}
    /\ outcome[r] = "reserving" => input[r] \cap excluded = {}

CheckInv ==
  \A r \in Runs : check[r].pc # "idle" =>
    /\ outcome[r] = "running"
    /\ finalized[r] = "open"
    /\ check[r].began \subseteq active_document
    /\ RangesOf(check[r].began \ Emails) \subseteq check[r].readable
    /\ check[r].pc = "issues" =>
         RangesOf(check[r].began) \subseteq check[r].readable

DocInv == ExclusionInv /\ IntakeInv /\ ReservedInv /\ CheckInv

USE DocsAssumption

-----------------------------------------------------------------------------
LEMMA RangesMonotone ==
  ASSUME NEW S, NEW T, S \subseteq T
  PROVE  RangesOf(S) \subseteq RangesOf(T)
BY DEF RangesOf

(* Pages and parts together are all the ranges there are.                  *)
LEMMA RangesSplit ==
  ASSUME NEW S
  PROVE  RangesOf(S) = RangesOf(S \ Emails) \cup RangesOf(S \cap Emails)
BY DEF RangesOf

LEMMA RangesTyped ==
  ASSUME NEW S
  PROVE  RangesOf(S) \subseteq AllRanges
BY DEF RangesOf

(* Every step keeps the types.                                             *)
LEMMA TypeStep ==
  ASSUME TypeOK, DocInv, [Next]_vars
  PROVE  TypeOK'
<1> USE DEF TypeOK, people, drafts
<1>1. ASSUME NEW i \in Intakes, NEW d \in Docs, Admit(i, d) PROVE TypeOK'
  BY <1>1 DEF Admit
<1>2. ASSUME NEW i \in Intakes, Insert(i) PROVE TypeOK'
  BY <1>2 DEF Insert, DocInv, IntakeInv
<1>3. ASSUME NEW i \in Intakes, InsertFails(i) PROVE TypeOK'
  BY <1>3 DEF InsertFails
<1>4. ASSUME NEW e \in Excluders, NEW d \in Docs, CheckExclusion(e, d)
      PROVE TypeOK'
  BY <1>4 DEF CheckExclusion
<1>5. ASSUME NEW e \in Excluders, Exclude(e) PROVE TypeOK'
  BY <1>5 DEF Exclude, DocInv, ExclusionInv
<1>6. ASSUME NEW e \in Excluders, ExclusionFails(e) PROVE TypeOK'
  BY <1>6 DEF ExclusionFails
<1>7. ASSUME NEW r \in Runs, Reserving(r) \/ EndRun(r) PROVE TypeOK'
  <2>1. CASE CheckReservation(r)
    <3>1. active_document \in SUBSET Docs
      BY DEF active_document
    <3> QED BY <2>1, <3>1 DEF CheckReservation
  <2>2. CASE Reserve(r)
    BY <2>2 DEF Reserve
  <2>3. CASE ReservationFails(r)
    BY <2>3 DEF ReservationFails
  <2>4. CASE EndRun(r)
    BY <2>4 DEF EndRun
  <2> QED BY <1>7, <2>1, <2>2, <2>3, <2>4 DEF Reserving
<1>8. ASSUME NEW r \in Runs, NEW d \in Docs, NEW ls \in SUBSET Readable[d],
             read_document(r, d, ls)
      PROVE  TypeOK'
  <2>1. {d} \X ls \subseteq AllRanges
    BY DEF AllRanges
  <2> QED BY <1>8, <2>1 DEF read_document
<1>9. ASSUME NEW r \in Runs, NEW d \in Docs, read_email(r, d) PROVE TypeOK'
  <2>1. {d} \X Readable[d] \subseteq AllRanges
    BY DEF AllRanges
  <2> QED BY <1>9, <2>1 DEF read_email
<1>10. ASSUME NEW r \in Runs, NEW d \in Docs, NEW l \in Locators \cup {None},
              report_unreadable(r, d, l)
       PROVE  TypeOK'
  BY <1>10 DEF report_unreadable
<1>11. ASSUME NEW r \in Runs, NEW d \in Docs, _document_in_case(r, d)
       PROVE  TypeOK'
  BY <1>11 DEF _document_in_case
<1>12. ASSUME NEW r \in Runs, SnapshotPages(r) PROVE TypeOK'
  <2> DEFINE now == Phase("parts", active_document, PageRanges)
  <2>1. active_document \subseteq Docs /\ PageRanges \subseteq AllRanges
    BY RangesTyped DEF PageRanges, active_document
  <2>2. now \in [pc : {"idle", "parts", "issues"}, began : SUBSET Docs,
                readable : SUBSET AllRanges]
    BY <2>1 DEF Phase
  <2>3. check' = [check EXCEPT ![r] = now]
    BY <1>12 DEF SnapshotPages
  <2> HIDE DEF now
  <2> QED BY <1>12, <2>2, <2>3 DEF SnapshotPages
<1>13. ASSUME NEW r \in Runs, SnapshotParts(r) PROVE TypeOK'
  <2>1. PartRanges \subseteq AllRanges
    BY RangesTyped DEF PartRanges
  <2> DEFINE now == Phase("issues", check[r].began,
                           check[r].readable \cup PartRanges)
  <2>2. now \in [pc : {"idle", "parts", "issues"}, began : SUBSET Docs,
                readable : SUBSET AllRanges]
    BY <2>1 DEF Phase
  <2>3. /\ check' = [check EXCEPT ![r] = now]
        /\ UNCHANGED <<documents, excluded, outcome, input, people, scanned,
                       reported, cited, finalized>>
    BY <1>13 DEF SnapshotParts
  <2> HIDE DEF now
  <2> QED BY <2>2, <2>3
<1>14. ASSUME NEW r \in Runs, Finalize(r) PROVE TypeOK'
  BY <1>14 DEF Finalize, Phase
<1>15. ASSUME NEW r \in Runs, FinalizeFails(r) PROVE TypeOK'
  BY <1>15 DEF FinalizeFails, Idle, Phase
<1>16. CASE UNCHANGED vars
  BY <1>16 DEF vars
<1> QED
  BY <1>1, <1>2, <1>3, <1>4, <1>5, <1>6, <1>7, <1>8, <1>9, <1>10, <1>11,
     <1>12, <1>13, <1>14, <1>15, <1>16
  DEF Next, Taking, Excluding, Drafting, Finalizing

-----------------------------------------------------------------------------
(* What people do leaves the drafts alone, and lets a run keep what it has.  *)
LEMMA PeopleStep ==
  ASSUME TypeOK, DocInv, Taking \/ Excluding
  PROVE  DocInv'
<1> USE DEF TypeOK, people, drafts
<1>1. ASSUME NEW i \in Intakes,
             (\E d \in Docs : Admit(i, d)) \/ Insert(i) \/ InsertFails(i)
      PROVE  DocInv'
  <2>1. /\ documents \subseteq documents' /\ excluded' = excluded
        /\ UNCHANGED <<exclusion, outcome, input, drafts>>
    BY <1>1 DEF Admit, Insert, InsertFails
  <2>2. IntakeInv'
    BY <1>1 DEF Admit, Insert, InsertFails, IntakeInv, DocInv
  <2>3. ExclusionInv' /\ ReservedInv'
    BY <2>1 DEF ExclusionInv, ReservedInv, DocInv
  <2>4. active_document \subseteq active_document'
    BY <2>1 DEF active_document
  <2>5. CheckInv'
    BY <2>1, <2>4 DEF CheckInv, DocInv, RangesOf
  <2> QED BY <2>2, <2>3, <2>5 DEF DocInv
<1>2. ASSUME NEW e \in Excluders, NEW d \in Docs, CheckExclusion(e, d)
      PROVE  DocInv'
  <2>1. /\ UNCHANGED <<documents, files, excluded, intake, outcome, input,
                       drafts>>
        /\ \A f \in Excluders : f # e => exclusion'[f] = exclusion[f]
        /\ exclusion'[e] = d
    BY <1>2 DEF CheckExclusion
  <2>2. d \in documents /\ \A r \in Runs : outcome[r] \in {"absent", "ended"}
    BY <1>2 DEF CheckExclusion, CaseUnlocked, NoActiveRun, Excludable,
                active_document
  <2>3. ExclusionInv'
    BY <2>1, <2>2 DEF DocInv, ExclusionInv
  <2>4. IntakeInv' /\ ReservedInv' /\ CheckInv'
    BY <2>1 DEF DocInv, IntakeInv, ReservedInv, CheckInv, active_document
  <2> QED BY <2>3, <2>4 DEF DocInv
<1>3. ASSUME NEW e \in Excluders, Exclude(e) PROVE DocInv'
  <2>1. \A r \in Runs : outcome[r] \in {"absent", "ended"}
    BY <1>3 DEF Exclude, DocInv, ExclusionInv
  <2>2. CheckInv' /\ ReservedInv'
    BY <1>3, <2>1 DEF Exclude, DocInv, CheckInv, ReservedInv
  <2> QED BY <1>3, <2>2 DEF Exclude, DocInv, ExclusionInv, IntakeInv
<1>4. ASSUME NEW e \in Excluders, ExclusionFails(e) PROVE DocInv'
  BY <1>4 DEF ExclusionFails, DocInv, ExclusionInv, IntakeInv, ReservedInv,
              CheckInv, active_document
<1> QED BY <1>1, <1>2, <1>3, <1>4 DEF Taking, Excluding

LEMMA RunStep ==
  ASSUME TypeOK, DocInv, NEW r \in Runs, Reserving(r) \/ EndRun(r)
  PROVE  DocInv'
<1> USE DEF TypeOK, people, drafts
<1>1. CASE CheckReservation(r)
  BY <1>1 DEF CheckReservation, NextRun, CaseUnlocked, active_document, DocInv,
              ExclusionInv, IntakeInv, ReservedInv, CheckInv
<1>2. CASE Reserve(r)
  BY <1>2 DEF Reserve, active_document, DocInv, ExclusionInv, IntakeInv,
              ReservedInv, CheckInv
<1>3. CASE ReservationFails(r)
  BY <1>3 DEF ReservationFails, active_document, DocInv, ExclusionInv,
              IntakeInv, ReservedInv, CheckInv
<1>4. CASE EndRun(r)
  BY <1>4 DEF EndRun, active_document, DocInv, ExclusionInv, IntakeInv,
              ReservedInv, CheckInv
<1> QED BY <1>1, <1>2, <1>3, <1>4 DEF Reserving

LEMMA DraftStep ==
  ASSUME TypeOK, DocInv, NEW r \in Runs, Drafting(r)
  PROVE  DocInv'
<1>1. /\ outcome[r] = "running"
      /\ UNCHANGED <<documents, excluded, outcome, input, people, check,
                     finalized>>
      /\ \A q \in Runs : q # r => /\ scanned'[q] = scanned[q]
                                /\ reported'[q] = reported[q]
                                /\ cited'[q] = cited[q]
  BY DEF Drafting, MayWrite, read_document, read_email, report_unreadable,
         _document_in_case, TypeOK
<1> QED BY <1>1 DEF people, active_document, DocInv, ExclusionInv, IntakeInv,
                    ReservedInv, CheckInv

LEMMA FinalizingStep ==
  ASSUME TypeOK, DocInv, NEW r \in Runs, Finalizing(r)
  PROVE  DocInv'
<1> USE DEF TypeOK, people
<1>1. /\ UNCHANGED <<documents, excluded, outcome, input, people, scanned,
                     reported, cited>>
      /\ \A q \in Runs : q # r => /\ check'[q] = check[q]
                                /\ finalized'[q] = finalized[q]
  BY DEF Finalizing, SnapshotPages, SnapshotParts, Finalize, FinalizeFails
<1>2. ExclusionInv' /\ IntakeInv' /\ ReservedInv'
  BY <1>1 DEF DocInv, ExclusionInv, IntakeInv, ReservedInv
<1>3. active_document' = active_document
  BY <1>1 DEF active_document
<1> DEFINE Checked ==
      check[r].pc # "idle" =>
        /\ outcome[r] = "running"
        /\ finalized[r] = "open"
        /\ check[r].began \subseteq active_document
        /\ RangesOf(check[r].began \ Emails) \subseteq check[r].readable
        /\ check[r].pc = "issues" =>
             RangesOf(check[r].began) \subseteq check[r].readable
<1>4. Checked'
  <2>1. CASE SnapshotPages(r)
    BY <2>1, <1>3 DEF SnapshotPages, MayWrite, PageRanges, Phase
  <2>2. CASE SnapshotParts(r)
    <3>1. check[r].began \subseteq active_document
      BY <2>2 DEF SnapshotParts, DocInv, CheckInv
    <3>2. RangesOf(check[r].began \cap Emails) \subseteq PartRanges
      BY <3>1, RangesMonotone DEF PartRanges
    <3>3. RangesOf(check[r].began) \subseteq check[r].readable \cup PartRanges
      <4>1. RangesOf(check[r].began \ Emails) \subseteq check[r].readable
        BY <2>2 DEF SnapshotParts, DocInv, CheckInv
      <4> QED BY <4>1, <3>2, RangesSplit
    <3>4. /\ check'[r].pc = "issues"
          /\ check'[r].began = check[r].began
          /\ check'[r].readable = check[r].readable \cup PartRanges
      BY <2>2 DEF SnapshotParts, Phase
    <3>5. outcome[r] = "running" /\ finalized[r] = "open"
      BY <2>2 DEF SnapshotParts, DocInv, CheckInv
    <3>6. RangesOf(check'[r].began \ Emails) \subseteq check'[r].readable
      BY <2>2, <3>4 DEF SnapshotParts, DocInv, CheckInv
    <3>7. outcome' = outcome /\ finalized' = finalized
      BY <2>2 DEF SnapshotParts
    <3> QED BY <1>3, <3>1, <3>3, <3>4, <3>5, <3>6, <3>7
  <2>3. CASE Finalize(r)
    BY <2>3 DEF Finalize, Phase
  <2>4. CASE FinalizeFails(r)
    BY <2>4 DEF FinalizeFails, Idle, Phase
  <2> QED BY <2>1, <2>2, <2>3, <2>4 DEF Finalizing
<1>5. CheckInv'
  BY <1>1, <1>3, <1>4 DEF DocInv, CheckInv
<1> QED BY <1>2, <1>5 DEF DocInv

(* The invariant holds of every behaviour, and with it the types, which are *)
(* not inductive alone: a document excluded must be one that was listed.   *)
THEOREM DocumentInvariant == Spec => [](TypeOK /\ DocInv)
<1>1. Init => TypeOK /\ DocInv
  BY DEF Init, Idle, Phase, TypeOK, DocInv, ExclusionInv, IntakeInv,
         ReservedInv, CheckInv
<1>2. TypeOK /\ DocInv /\ [Next]_vars => (TypeOK /\ DocInv)'
  <2> SUFFICES ASSUME TypeOK, DocInv, [Next]_vars PROVE DocInv'
    BY TypeStep
  <2>1. CASE UNCHANGED vars
    BY <2>1 DEF vars, active_document, DocInv, ExclusionInv, IntakeInv,
                ReservedInv, CheckInv
  <2> QED BY <2>1, PeopleStep, RunStep, DraftStep, FinalizingStep DEF Next
<1> QED BY <1>1, <1>2, PTL DEF Spec

(* That no run touches what people have excluded, although no tool holds   *)
(* the row of the case and exclusions of the past lie before every run.    *)
LEMMA AvoidStep ==
  ASSUME TypeOK, DocInv, RunAvoidsExcluded, [Next]_vars
  PROVE  RunAvoidsExcluded'
<1> USE DEF TypeOK, people, drafts, RunAvoidsExcluded, Touched
<1>1. CASE Taking
  BY <1>1 DEF Taking, Admit, Insert, InsertFails
<1>2. CASE Excluding
  <2>1. ASSUME NEW e \in Excluders, NEW d \in Docs, CheckExclusion(e, d)
        PROVE  RunAvoidsExcluded'
    BY <2>1 DEF CheckExclusion
  <2>2. ASSUME NEW e \in Excluders, Exclude(e) PROVE RunAvoidsExcluded'
    BY <2>2 DEF Exclude, DocInv, ExclusionInv
  <2>3. ASSUME NEW e \in Excluders, ExclusionFails(e)
        PROVE  RunAvoidsExcluded'
    BY <2>3 DEF ExclusionFails
  <2> QED BY <1>2, <2>1, <2>2, <2>3 DEF Excluding
<1>3. ASSUME NEW r \in Runs, Reserving(r) PROVE RunAvoidsExcluded'
  <2>1. CASE CheckReservation(r)
    BY <2>1 DEF CheckReservation
  <2>2. CASE Reserve(r)
    BY <2>2 DEF Reserve, DocInv, ReservedInv
  <2>3. CASE ReservationFails(r)
    BY <2>3 DEF ReservationFails
  <2> QED BY <1>3, <2>1, <2>2, <2>3 DEF Reserving
<1>4. ASSUME NEW r \in Runs, EndRun(r) PROVE RunAvoidsExcluded'
  BY <1>4 DEF EndRun
<1>5. ASSUME NEW r \in Runs, Drafting(r) PROVE RunAvoidsExcluded'
  <2>1. PICK d \in Docs :
          \/ \E ls \in SUBSET Readable[d] : read_document(r, d, ls)
          \/ read_email(r, d)
          \/ \E l \in Locators \cup {None} : report_unreadable(r, d, l)
          \/ _document_in_case(r, d)
    BY <1>5 DEF Drafting
  <2>2. /\ d \notin excluded
        /\ UNCHANGED <<excluded, outcome, input>>
        /\ \A q \in Runs : q # r => /\ scanned'[q] = scanned[q]
                                  /\ reported'[q] = reported[q]
                                  /\ cited'[q] = cited[q]
    BY <2>1 DEF read_document, read_email, report_unreadable,
                _document_in_case, active_document
  <2>3. Touched(r)' \subseteq Touched(r) \cup {d}
    BY <2>1 DEF read_document, read_email, report_unreadable,
                _document_in_case
  <2>4. \A q \in Runs : q # r => Touched(q)' = Touched(q)
    BY <2>2
  <2> HIDE DEF Touched
  <2> QED BY <2>2, <2>3, <2>4
<1>6. ASSUME NEW r \in Runs, Finalizing(r) PROVE RunAvoidsExcluded'
  BY <1>6 DEF Finalizing, SnapshotPages, SnapshotParts, Finalize,
              FinalizeFails
<1>7. CASE UNCHANGED vars
  BY <1>7 DEF vars
<1> QED BY <1>1, <1>2, <1>3, <1>4, <1>5, <1>6, <1>7 DEF Next

(* No run starts with, reads, reports on or cites an excluded document, of *)
(* any number of documents, requests and runs.                             *)
THEOREM ExcludedIsAvoided == Spec => []RunAvoidsExcluded
<1>1. Init => RunAvoidsExcluded
  BY DEF Init, RunAvoidsExcluded, Touched
<1>2. (TypeOK /\ DocInv) /\ RunAvoidsExcluded /\ [Next]_vars
        => RunAvoidsExcluded'
  BY AvoidStep
<1> QED BY <1>1, <1>2, DocumentInvariant, PTL DEF Spec

-----------------------------------------------------------------------------
(* What a finalization that succeeds has read.                             *)
FinalInv == FinalizedReadAll /\ CompleteIsRead

LEMMA FinalStep ==
  ASSUME TypeOK, DocInv, FinalInv, [Next]_vars
  PROVE  FinalInv'
<1> USE DEF TypeOK, people, drafts, FinalInv, FinalizedReadAll, CompleteIsRead
<1>1. CASE Taking \/ Excluding
  BY <1>1 DEF Taking, Admit, Insert, InsertFails, Excluding, CheckExclusion,
              Exclude, ExclusionFails
<1>2. ASSUME NEW r \in Runs, Reserving(r) \/ EndRun(r) PROVE FinalInv'
  BY <1>2 DEF Reserving, CheckReservation, Reserve, ReservationFails, EndRun
<1>3. ASSUME NEW r \in Runs, Drafting(r) PROVE FinalInv'
  <2>1. /\ finalized[r] = "open"
        /\ UNCHANGED <<check, finalized>>
        /\ \A q \in Runs : q # r => /\ scanned'[q] = scanned[q]
                                  /\ reported'[q] = reported[q]
    BY <1>3 DEF Drafting, MayWrite, read_document, read_email,
                report_unreadable, _document_in_case
  <2> QED BY <2>1 DEF RangesOf
<1>4. ASSUME NEW r \in Runs, Finalizing(r) PROVE FinalInv'
  <2>1. /\ UNCHANGED <<scanned, reported>>
        /\ \A q \in Runs : q # r => /\ check'[q] = check[q]
                                  /\ finalized'[q] = finalized[q]
    BY <1>4 DEF Finalizing, SnapshotPages, SnapshotParts, Finalize,
                FinalizeFails
  <2>2. CASE Finalize(r)
    <3>1. /\ check'[r].began = check[r].began
          /\ finalized'[r] = IF HasIssues(r) THEN "partial" ELSE "complete"
          /\ Unscanned(r) = {}
      BY <2>2 DEF Finalize, Phase
    <3>2. /\ check[r].began \subseteq active_document
          /\ RangesOf(check[r].began) \subseteq check[r].readable
      BY <2>2 DEF Finalize, DocInv, CheckInv
    <3>3. check[r].readable \subseteq scanned[r] \cup reported[r]
      BY <3>1 DEF Unscanned
    <3>4. ~HasIssues(r) => /\ check[r].readable \subseteq scanned[r]
                           /\ check[r].began \cap Flawed = {}
      BY <3>1, <3>2 DEF Unscanned, HasIssues
    <3>5. RangesOf(check'[r].began) = RangesOf(check[r].began)
      BY <3>1
    <3> QED BY <2>1, <3>1, <3>2, <3>3, <3>4, <3>5 DEF RangesOf
  <2>3. CASE ~Finalize(r)
    <3>1. finalized[r] = "open" /\ finalized' = finalized
      BY <1>4, <2>3 DEF Finalizing, SnapshotPages, SnapshotParts,
                        FinalizeFails, MayWrite, DocInv, CheckInv
    <3> QED BY <2>1, <3>1 DEF RangesOf
  <2> QED BY <2>2, <2>3
<1>5. CASE UNCHANGED vars
  BY <1>5 DEF vars
<1> QED BY <1>1, <1>2, <1>3, <1>4, <1>5 DEF Next

THEOREM FinalInvariant == Spec => []FinalInv
<1>1. Init => FinalInv
  BY DEF Init, FinalInv, FinalizedReadAll, CompleteIsRead
<1>2. (TypeOK /\ DocInv) /\ FinalInv /\ [Next]_vars => FinalInv'
  BY FinalStep
<1> QED BY <1>1, <1>2, DocumentInvariant, PTL DEF Spec

(* A finalized version has read, or excused, every range of the documents  *)
(* there were when its finalization began, read in however many statements. *)
THEOREM FinalizedHasRead == Spec => []FinalizedReadAll
<1>1. FinalInv => FinalizedReadAll
  BY DEF FinalInv
<1> QED BY <1>1, FinalInvariant, PTL

(* A complete one has read them all, and none of them was flawed.          *)
THEOREM CompleteHasRead == Spec => []CompleteIsRead
<1>1. FinalInv => CompleteIsRead
  BY DEF FinalInv
<1> QED BY <1>1, FinalInvariant, PTL

-----------------------------------------------------------------------------
(* Only an exclusion takes documents away, and it finds no run.            *)
THEOREM DocumentsOfARunStay == Spec => DocumentsStay
<1>1. TypeOK /\ DocInv /\ [Next]_vars =>
        [(\E r \in Runs : outcome[r] = "running" /\ outcome'[r] = "running")
           => active_document \subseteq active_document']_vars
  <2> SUFFICES ASSUME TypeOK, DocInv, [Next]_vars,
                      NEW r \in Runs, outcome[r] = "running"
               PROVE  active_document \subseteq active_document'
    OBVIOUS
  <2> USE DEF active_document, people, drafts
  <2>1. CASE \E e \in Excluders : Exclude(e)
    BY <2>1 DEF Exclude, DocInv, ExclusionInv
  <2>2. CASE ~(\E e \in Excluders : Exclude(e))
    <3>1. excluded' = excluded /\ documents \subseteq documents'
      <4>1. CASE Taking
        BY <4>1 DEF Taking, Admit, Insert, InsertFails
      <4>2. CASE Excluding
        BY <4>2, <2>2 DEF Excluding, CheckExclusion, ExclusionFails
      <4>3. ASSUME NEW q \in Runs, Reserving(q) \/ EndRun(q)
            PROVE  UNCHANGED <<excluded, documents>>
        BY <4>3 DEF Reserving, CheckReservation, Reserve, ReservationFails,
                    EndRun
      <4>4. ASSUME NEW q \in Runs, Drafting(q)
            PROVE  UNCHANGED <<excluded, documents>>
        BY <4>4 DEF Drafting, read_document, read_email, report_unreadable,
                    _document_in_case
      <4>5. ASSUME NEW q \in Runs, Finalizing(q)
            PROVE  UNCHANGED <<excluded, documents>>
        BY <4>5 DEF Finalizing, SnapshotPages, SnapshotParts, Finalize,
                    FinalizeFails
      <4>6. CASE UNCHANGED vars
        BY <4>6 DEF vars
      <4> QED BY <4>1, <4>2, <4>3, <4>4, <4>5, <4>6 DEF Next
    <3> QED BY <3>1
  <2> QED BY <2>1, <2>2
<1> QED BY <1>1, DocumentInvariant, PTL DEF Spec, DocumentsStay

-----------------------------------------------------------------------------
(* How far the limit of documents can be exceeded.                         *)
LEMMA ActiveFinite ==
  ASSUME TypeOK
  PROVE  IsFiniteSet(active_document) /\ Cardinality(active_document) \in Nat
<1>1. active_document \subseteq Docs
  BY DEF TypeOK, active_document
<1> QED BY <1>1, FS_Subset, FS_CardinalityType

LEMMA PendingFinite ==
  /\ IsFiniteSet(Pending) /\ Cardinality(Pending) \in Nat
  /\ Cardinality(Intakes) \in Nat
  /\ Cardinality(Pending) <= Cardinality(Intakes)
<1>1. Pending \subseteq Intakes
  BY DEF Pending
<1> QED BY <1>1, IntakesAssumption, FS_Subset, FS_CardinalityType

LEMMA OvershootStep ==
  ASSUME TypeOK, TypeOK', DocInv, OvershootBounded, [Next]_vars
  PROVE  OvershootBounded'
<1> DEFINE n == Cardinality(active_document)
           k == Cardinality(Pending)
           I == Cardinality(Intakes)
<1>0. /\ n \in Nat /\ k \in Nat /\ I \in Nat /\ MaxDocuments \in Nat
      /\ n' \in Nat /\ k' \in Nat /\ k' <= I
      /\ n + k < MaxDocuments + I
  <2>1. Pending' \subseteq Intakes
    BY DEF Pending
  <2>2. k' \in Nat /\ k' <= I
    BY <2>1, IntakesAssumption, FS_Subset, FS_CardinalityType
  <2>3. active_document' \subseteq Docs
    BY DEF TypeOK, active_document
  <2>4. n' \in Nat
    BY <2>3, FS_Subset, FS_CardinalityType
  <2> QED BY <2>2, <2>4, ActiveFinite, PendingFinite, LimitAssumption
          DEF OvershootBounded
<1>1. SUFFICES n' + k' < MaxDocuments + I
  BY DEF OvershootBounded
<1>2. ASSUME NEW i \in Intakes, NEW d \in Docs, Admit(i, d)
      PROVE  n' + k' < MaxDocuments + I
  <2>1. active_document' = active_document /\ n + 1 <= MaxDocuments
    BY <1>2 DEF Admit, BelowLimit, active_document
  <2> QED BY <2>1, <1>0
<1>3. ASSUME active_document' \subseteq active_document,
             Pending' \subseteq Pending
      PROVE  n' + k' < MaxDocuments + I
  <2>1. n' <= n /\ k' <= k
    BY <1>3, ActiveFinite, PendingFinite, FS_Subset
  <2> QED BY <2>1, <1>0
<1>4. ASSUME NEW i \in Intakes, Insert(i) PROVE n' + k' < MaxDocuments + I
  <2>1. /\ active_document' \subseteq active_document \cup {intake[i]}
        /\ i \in Pending /\ Pending' = Pending \ {i}
    BY <1>4 DEF Insert, active_document, Pending, TypeOK
  <2>2. k' = k - 1
    BY <2>1, PendingFinite, FS_RemoveElement
  <2>3. n' <= n + 1
    <3>1. /\ IsFiniteSet(active_document \cup {intake[i]})
          /\ Cardinality(active_document \cup {intake[i]}) \in {n, n + 1}
      BY ActiveFinite, FS_AddElement
    <3> QED BY <3>1, <2>1, <1>0, FS_Subset
  <2> QED BY <2>2, <2>3, <1>0
<1> USE DEF people, drafts, active_document, Pending
<1>5. ASSUME NEW i \in Intakes, InsertFails(i)
      PROVE  n' + k' < MaxDocuments + I
  <2>1. /\ active_document' \subseteq active_document
        /\ Pending' \subseteq Pending
    BY <1>5 DEF InsertFails, TypeOK
  <2> QED BY <2>1, <1>3
<1>6. CASE Excluding
  <2>1. /\ active_document' \subseteq active_document
        /\ Pending' \subseteq Pending
    BY <1>6 DEF Excluding, CheckExclusion, Exclude, ExclusionFails
  <2> QED BY <2>1, <1>3
<1>7. ASSUME NEW r \in Runs,
             Reserving(r) \/ EndRun(r) \/ Drafting(r) \/ Finalizing(r)
      PROVE  n' + k' < MaxDocuments + I
  <2>1. UNCHANGED <<documents, excluded, intake>>
    BY <1>7 DEF Reserving, CheckReservation, Reserve, ReservationFails, EndRun,
                Drafting, read_document, read_email, report_unreadable,
                _document_in_case, Finalizing, SnapshotPages, SnapshotParts,
                Finalize, FinalizeFails
  <2>2. /\ active_document' \subseteq active_document
        /\ Pending' \subseteq Pending
    BY <2>1
  <2> QED BY <2>2, <1>3
<1>8. CASE UNCHANGED vars
  <2>1. /\ active_document' \subseteq active_document
        /\ Pending' \subseteq Pending
    BY <1>8 DEF vars
  <2> QED BY <2>1, <1>3
<1> QED BY <1>2, <1>4, <1>5, <1>6, <1>7, <1>8 DEF Next, Taking

(* The limit is exceeded by less than the requests there can be at once.   *)
THEOREM OvershootIsBounded == Spec => []OvershootBounded
<1>1. Init => OvershootBounded
  <2> SUFFICES ASSUME Init PROVE OvershootBounded
    OBVIOUS
  <2>1. active_document = {} /\ Pending = {}
    BY DEF Init, active_document, Pending
  <2> QED BY <2>1, FS_EmptySet, PendingFinite, LimitAssumption
          DEF OvershootBounded
<1>2. (TypeOK /\ DocInv) /\ (TypeOK /\ DocInv)' /\ OvershootBounded
        /\ [Next]_vars => OvershootBounded'
  BY OvershootStep
<1> QED BY <1>1, <1>2, DocumentInvariant, PTL DEF Spec
=============================================================================
