---------------------------- MODULE CaseDocuments ---------------------------
(***************************************************************************)
(* The documents of a case: people take them in and exclude them while     *)
(* runs are reserved, read them, cite them and finalize what they drafted. *)
(*                                                                         *)
(* Exclusion and reservation hold the row of the case from their checks to *)
(* their commit; the tools of a run hold the rows of its version and of    *)
(* the run; taking a document in holds nothing.  A finalization reads the  *)
(* documents in several statements, under READ COMMITTED.                  *)
(***************************************************************************)
EXTENDS Naturals, FiniteSets

CONSTANTS Docs,          (* what may be taken in, each once                 *)
          Locators,      (* where in a document a range can be              *)
          Readable,      (* the locators a reader found text at, by document *)
          Emails,        (* the documents stored as parts, not as pages     *)
          Flawed,        (* the documents a reader recorded an issue of     *)
          Intakes, Excluders,   (* requests                                 *)
          None,
          MaxDocuments,  (* settings.MAX_DOCUMENTS_PER_CASE                 *)
          MaxRuns, MaxReports   (* bounds                                   *)

ASSUME DocsAssumption ==
  /\ IsFiniteSet(Docs) /\ None \notin Docs
  /\ Readable \in [Docs -> SUBSET Locators] /\ None \notin Locators
  /\ Emails \subseteq Docs /\ Flawed \subseteq Docs
ASSUME IntakesAssumption == IsFiniteSet(Intakes)
ASSUME LimitAssumption == MaxDocuments \in Nat \ {0} /\ MaxRuns \in Nat

VARIABLES documents,     (* the rows of documents                           *)
          files,         (* the documents whose original is stored          *)
          excluded,      (* document_exclusions                             *)
          intake,        (* the document each intake has stored, not listed *)
          exclusion,     (* the document each exclusion is about to add     *)
          outcome,       (* of each run: absent, reserving, running, ended  *)
          input,         (* the documents its first step lists              *)
          scanned,       (* the ranges its reading steps name               *)
          reported,      (* its issues: a locator, or None when no excuse   *)
          cited,         (* the documents of its evidence and inventory     *)
          check,         (* the finalization under way                      *)
          finalized      (* of its version: open, partial, complete         *)

vars == <<documents, files, excluded, intake, exclusion, outcome, input,
          scanned, reported, cited, check, finalized>>
people == <<files, intake, exclusion>>
drafts == <<scanned, reported, cited, check, finalized>>

Runs == 1..MaxRuns
AllRanges == Docs \X Locators

RangesOf(ds) == {range \in AllRanges :
                   range[1] \in ds /\ range[2] \in Readable[range[1]]}

-----------------------------------------------------------------------------
active_document == documents \ excluded

PageRanges == RangesOf(active_document \ Emails)
PartRanges_Fault == {}
PartRanges == RangesOf(active_document \cap Emails)

(* Who holds the row of the case has a row to insert.                      *)
CaseUnlocked_Fault == TRUE
CaseUnlocked == /\ \A e \in Excluders : exclusion[e] = None
                /\ \A r \in Runs : outcome[r] # "reserving"

NoActiveRun == \A r \in Runs : outcome[r] # "running"

Excludable(d) == d \in active_document

(* The count is of the documents listed, whatever others have stored.      *)
BelowLimit_Fault == Cardinality(active_document) <= MaxDocuments
BelowLimit == Cardinality(active_document) + 1 <= MaxDocuments

(* Where a finalization is, the documents there were when it began to read *)
(* them, and the ranges it has found in them so far.                       *)
Phase(pc, began, readable) ==
  [pc |-> pc, began |-> began, readable |-> readable]

Idle == Phase("idle", {}, {})

Init ==
  /\ documents = {} /\ files = {} /\ excluded = {}
  /\ intake = [i \in Intakes |-> None]
  /\ exclusion = [e \in Excluders |-> None]
  /\ outcome = [r \in Runs |-> "absent"]
  /\ input = [r \in Runs |-> {}]
  /\ scanned = [r \in Runs |-> {}]
  /\ reported = [r \in Runs |-> {}]
  /\ cited = [r \in Runs |-> {}]
  /\ check = [r \in Runs |-> Idle]
  /\ finalized = [r \in Runs |-> "open"]

-----------------------------------------------------------------------------
(* Taking a document in.                                                   *)

(* The documents are counted, and the original is stored.                  *)
Admit(i, d) ==
  /\ intake[i] = None
  /\ d \notin files
  /\ BelowLimit
  /\ files' = files \cup {d}
  /\ intake' = [intake EXCEPT ![i] = d]
  /\ UNCHANGED <<documents, excluded, exclusion, outcome, input, drafts>>

(* The document is listed with its ranges and its issues.                  *)
Insert(i) ==
  /\ intake[i] # None
  /\ documents' = documents \cup {intake[i]}
  /\ intake' = [intake EXCEPT ![i] = None]
  /\ UNCHANGED <<files, excluded, exclusion, outcome, input, drafts>>

(* The insertion fails, and the original stays.                            *)
InsertFails(i) ==
  /\ intake[i] # None
  /\ intake' = [intake EXCEPT ![i] = None]
  /\ UNCHANGED <<documents, files, excluded, exclusion, outcome, input,
                 drafts>>

-----------------------------------------------------------------------------
(* Excluding a document.                                                   *)

CheckExclusion(e, d) ==
  /\ CaseUnlocked
  /\ exclusion[e] = None
  /\ NoActiveRun
  /\ Excludable(d)
  /\ exclusion' = [exclusion EXCEPT ![e] = d]
  /\ UNCHANGED <<documents, files, excluded, intake, outcome, input, drafts>>

Exclude(e) ==
  /\ exclusion[e] # None
  /\ excluded' = excluded \cup {exclusion[e]}
  /\ exclusion' = [exclusion EXCEPT ![e] = None]
  /\ UNCHANGED <<documents, files, intake, outcome, input, drafts>>

ExclusionFails(e) ==
  /\ exclusion[e] # None
  /\ exclusion' = [exclusion EXCEPT ![e] = None]
  /\ UNCHANGED <<documents, files, excluded, intake, outcome, input, drafts>>

-----------------------------------------------------------------------------
(* Reserving a run, and ending it.                                         *)

NextRun(r) ==
  outcome[r] = "absent" /\ \A q \in 1..(r - 1) : outcome[q] # "absent"

CheckReservation(r) ==
  /\ NextRun(r)
  /\ CaseUnlocked
  /\ NoActiveRun
  /\ RangesOf(active_document) # {}
  /\ Cardinality(active_document) <= MaxDocuments
  /\ outcome' = [outcome EXCEPT ![r] = "reserving"]
  /\ input' = [input EXCEPT ![r] = active_document]
  /\ UNCHANGED <<documents, excluded, people, drafts>>

Reserve(r) ==
  /\ outcome[r] = "reserving"
  /\ outcome' = [outcome EXCEPT ![r] = "running"]
  /\ UNCHANGED <<documents, excluded, input, people, drafts>>

ReservationFails(r) ==
  /\ outcome[r] = "reserving"
  /\ outcome' = [outcome EXCEPT ![r] = "absent"]
  /\ input' = [input EXCEPT ![r] = {}]
  /\ UNCHANGED <<documents, excluded, people, drafts>>

(* Who ends a run waits for the row a finalization holds.                  *)
EndRun(r) ==
  /\ outcome[r] = "running"
  /\ check[r].pc = "idle"
  /\ outcome' = [outcome EXCEPT ![r] = "ended"]
  /\ UNCHANGED <<documents, excluded, input, people, drafts>>

-----------------------------------------------------------------------------
(* The tools of a run.                                                     *)

MayWrite(r) ==
  /\ outcome[r] = "running"
  /\ finalized[r] = "open"
  /\ check[r].pc = "idle"

read_document(r, d, ls) ==
  /\ MayWrite(r)
  /\ d \in active_document \ Emails
  /\ scanned' = [scanned EXCEPT ![r] = @ \cup ({d} \X ls)]
  /\ UNCHANGED <<documents, excluded, outcome, input, people, reported, cited,
                 check, finalized>>

(* The step of an e-mail names all of its parts.                           *)
read_email(r, d) ==
  /\ MayWrite(r)
  /\ d \in active_document \cap Emails
  /\ scanned' = [scanned EXCEPT ![r] = @ \cup ({d} \X Readable[d])]
  /\ UNCHANGED <<documents, excluded, outcome, input, people, reported, cited,
                 check, finalized>>

report_unreadable(r, d, l) ==
  /\ MayWrite(r)
  /\ d \in active_document
  /\ Cardinality(reported[r]) < MaxReports
  /\ reported' = [reported EXCEPT ![r] = @ \cup {<<d, l>>}]
  /\ UNCHANGED <<documents, excluded, outcome, input, people, scanned, cited,
                 check, finalized>>

_document_in_case(r, d) ==
  /\ MayWrite(r)
  /\ d \in active_document
  /\ cited' = [cited EXCEPT ![r] = @ \cup {d}]
  /\ UNCHANGED <<documents, excluded, outcome, input, people, scanned,
                 reported, check, finalized>>

-----------------------------------------------------------------------------
(* Finalizing: pages, then parts, then issues, then the judgement.         *)

SnapshotPages(r) ==
  /\ MayWrite(r)
  /\ check' = [check EXCEPT ![r] =
                  Phase("parts", active_document, PageRanges)]
  /\ UNCHANGED <<documents, excluded, outcome, input, people, scanned,
                 reported, cited, finalized>>

SnapshotParts(r) ==
  /\ check[r].pc = "parts"
  /\ check' = [check EXCEPT ![r] =
                  Phase("issues", @.began, @.readable \cup PartRanges)]
  /\ UNCHANGED <<documents, excluded, outcome, input, people, scanned,
                 reported, cited, finalized>>

(* The issues of the readers and of this run, of no other run.             *)
HasIssues_Fault(r) == reported[r] # {}
HasIssues(r) ==
  \/ active_document \cap Flawed # {}
  \/ \E issue \in reported[r] : issue[1] \in active_document

Unscanned(r) ==
  (check[r].readable \ scanned[r])
     \ {issue \in reported[r] : issue[1] \in active_document}

Finalize(r) ==
  /\ check[r].pc = "issues"
  /\ Unscanned(r) = {}
  /\ finalized' = [finalized EXCEPT ![r] =
                     IF HasIssues(r) THEN "partial" ELSE "complete"]
  /\ check' = [check EXCEPT ![r] = Phase("idle", @.began, @.readable)]
  /\ UNCHANGED <<documents, excluded, outcome, input, people, scanned,
                 reported, cited>>

(* Refused for what it read or for another reason, or cancelled.           *)
FinalizeFails(r) ==
  /\ check[r].pc # "idle"
  /\ check' = [check EXCEPT ![r] = Idle]
  /\ UNCHANGED <<documents, excluded, outcome, input, people, scanned,
                 reported, cited, finalized>>

-----------------------------------------------------------------------------
Taking ==
  \E i \in Intakes :
    (\E d \in Docs : Admit(i, d)) \/ Insert(i) \/ InsertFails(i)

Excluding ==
  \E e \in Excluders :
    (\E d \in Docs : CheckExclusion(e, d)) \/ Exclude(e) \/ ExclusionFails(e)

Reserving(r) == CheckReservation(r) \/ Reserve(r) \/ ReservationFails(r)

Drafting(r) ==
  \E d \in Docs :
    \/ \E ls \in SUBSET Readable[d] : read_document(r, d, ls)
    \/ read_email(r, d)
    \/ \E l \in Locators \cup {None} : report_unreadable(r, d, l)
    \/ _document_in_case(r, d)

Finalizing(r) ==
  SnapshotPages(r) \/ SnapshotParts(r) \/ Finalize(r) \/ FinalizeFails(r)

Next ==
  \/ Taking
  \/ Excluding
  \/ \E r \in Runs :
       Reserving(r) \/ Drafting(r) \/ Finalizing(r) \/ EndRun(r)

Spec == Init /\ [][Next]_vars

-----------------------------------------------------------------------------
(* Properties.                                                             *)

TypeOK ==
  /\ documents \subseteq files /\ files \subseteq Docs
  /\ excluded \subseteq documents
  /\ intake \in [Intakes -> Docs \cup {None}]
  /\ exclusion \in [Excluders -> Docs \cup {None}]
  /\ outcome \in [Runs -> {"absent", "reserving", "running", "ended"}]
  /\ input \in [Runs -> SUBSET Docs]
  /\ scanned \in [Runs -> SUBSET AllRanges]
  /\ reported \in [Runs -> SUBSET (Docs \X (Locators \cup {None}))]
  /\ cited \in [Runs -> SUBSET Docs]
  /\ check \in [Runs -> [pc : {"idle", "parts", "issues"},
                         began : SUBSET Docs, readable : SUBSET AllRanges]]
  /\ finalized \in [Runs -> {"open", "partial", "complete"}]

(* No run starts with, reads, reports on or cites a document people have   *)
(* excluded (04-db.md, document_exclusions): that no tool takes the row of *)
(* the case is made up for by who does.                                    *)
Touched(r) ==
  input[r] \cup cited[r]
    \cup {d \in Docs : \E x \in scanned[r] \cup reported[r] : x[1] = d}

RunAvoidsExcluded ==
  \A r \in Runs : outcome[r] = "running" => Touched(r) \cap excluded = {}

(* The limit is exceeded by the intakes that counted together, no more:    *)
(* by one less than the requests there can be at once.                     *)
Pending == {i \in Intakes : intake[i] # None}

OvershootBounded ==
  Cardinality(active_document) + Cardinality(Pending)
    < MaxDocuments + Cardinality(Intakes)

(* A finalized version has read, or said that it has not, every range of   *)
(* every document there was when its finalization began to read them, in   *)
(* however many statements and whatever was taken in meanwhile.            *)
FinalizedReadAll ==
  \A r \in Runs : finalized[r] # "open" =>
    RangesOf(check[r].began) \subseteq scanned[r] \cup reported[r]

(* One that calls itself complete has read them all, and none was flawed.  *)
CompleteIsRead ==
  \A r \in Runs : finalized[r] = "complete" =>
    /\ RangesOf(check[r].began) \subseteq scanned[r]
    /\ check[r].began \cap Flawed = {}

(* No document a run could read is taken from it while it runs.            *)
DocumentsStay ==
  [][(\E r \in Runs : outcome[r] = "running" /\ outcome'[r] = "running") =>
       active_document \subseteq active_document']_vars
=============================================================================
