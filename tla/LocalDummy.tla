----------------------------- MODULE LocalDummy -----------------------------
(***************************************************************************)
(* The local policy (local_policy.py), which reads every document of a     *)
(* case and drafts the lines it recognizes, through the tools of           *)
(* DraftArtifacts.  A document is a sequence of ranges; a range has a role *)
(* (pages are "page"), and lines, each a row with a number, one "vast",    *)
(* "TBA" or "not applicable" for its quantity, a note with a URL, prose or *)
(* blank.  The policy never looks whether a call was refused: it goes on   *)
(* as if it had not been, until it needs what the reply lacks.  It shares  *)
(* its tools with the agent of DraftArtifacts; a run is driven by one of   *)
(* the two.                                                                *)
(***************************************************************************)
EXTENDS DraftArtifacts

CONSTANTS Cases,       (* sequences of documents                            *)
          LateRanges   (* what may be taken in once these are listed        *)

RowLine == {"number", "vast", "TBA", "not applicable"}
Line == RowLine \cup {"note", "prose", "blank"}

(* The latest body is "addressed" where it has a subject or a sender. *)
Role == {"page", "sheet", "latest_body", "addressed_body", "quoted_body",
         "attachment"}

(* The lines of a case, each named by the document, the range and the line *)
(* where it stands.                                                        *)
Places(docs) ==
  UNION {UNION {{<<d, r, l>> : l \in DOMAIN docs[d][r].lines} :
                  r \in DOMAIN docs[d]} : d \in DOMAIN docs}
LineAt(docs, place) == docs[place[1]][place[2]].lines[place[3]]

Code(prefix, k) == prefix \o Id(k)

ASSUME CasesAssumption ==
  Cases \subseteq Seq(Seq([role : Role, lines : Seq(Line)]))

(* Bound: the texts and integers of the model suffice to number the        *)
(* documents and the lines of a case.                                      *)
ASSUME NumberingAssumption ==
  \A docs \in Cases :
    LET numbers == 1..Cardinality(Places(docs)) IN
    /\ {Id(d) : d \in DOMAIN docs} \subseteq Documents \cap Numerals
    /\ \A k \in numbers :
         Id(k) \in Names \cap Numerals /\ {Code("Q-", k), Code("URL-", k)} \subseteq Names
    /\ \A j, k \in numbers :
         /\ Code("Q-", j) # Code("URL-", k)
         /\ j # k => /\ Id(j) # Id(k)
                     /\ Code("Q-", j) # Code("Q-", k)
                     /\ Code("URL-", j) # Code("URL-", k)
ASSUME LateRangesAssumption == Null \notin LateRanges
ASSUME FieldsAssumption ==
  {"kind", "qty", "source", "items", "LOCAL-UNSUPPORTED"} \subseteq Names

VARIABLES documents,   (* those of the case                                 *)
          document,    (* the one it is at                                  *)
          range,       (* the range of it, 0 before it is read              *)
          line,        (* the line of that                                  *)
          matches,     (* the lines of the range that are no notes          *)
          notes_here,  (* those that are                                    *)
          sources,     (* the rows it has recognized                        *)
          url_notes,   (* the notes                                         *)
          readable,    (* how many ranges had text                          *)
          unsupported, (* whether it met something it cannot interpret      *)
          evidences,   (* what it has drawn up to record                    *)
          questions,
          entries,
          phase        (* "reading", the next call to make, "done", or why  *)
                       (* it stopped; "agent" where it is not at work       *)

reading == <<document, range, line, matches, notes_here, sources, url_notes,
             readable, unsupported>>
drawing == <<evidences, questions, entries>>
dummy_vars == <<vars, documents, reading, drawing, phase>>

-----------------------------------------------------------------------------
(* What there is to read.                                                  *)

Locator(d, r) == ToString(<<d, r>>)

HasText(part) == part.role = "sheet" \/ \E text \in ToSet(part.lines) : text # "blank"
Email(docs, d) == \A part \in ToSet(docs[d]) : part.role \notin {"page", "sheet"}

(* Ranges with text or cells, and attachments, which have a name. *)
RangesOf(docs, d) ==
  {Locator(d, r) : r \in {n \in DOMAIN docs[d] :
                            HasText(docs[d][n]) \/ docs[d][n].role = "attachment"}}

CaseRanges(docs) == UNION {RangesOf(docs, d) : d \in DOMAIN docs}

(* What this policy draws up is not chosen by an agent. *)
Reading(ranges, noted) ==
  [header |-> {}, items |-> {}, evidences |-> {}, questions |-> {},
   entries |-> {}, issues |-> {}, ranges |-> ranges, noted |-> noted]

DummyInit ==
  /\ \/ /\ documents \in Cases /\ phase = "reading"
        /\ \E noted \in SUBSET {Null} :
             inquiry = Reading(CaseRanges(documents), noted)
     \/ documents = <<>> /\ inquiry \in Inquiries /\ phase = "agent"
  /\ Untouched
  /\ document = 1 /\ range = 0 /\ line = 1
  /\ matches = <<>> /\ notes_here = <<>>
  /\ sources = <<>> /\ url_notes = <<>>
  /\ readable = 0 /\ unsupported = FALSE
  /\ evidences = <<>> /\ questions = <<>> /\ entries = <<>>

-----------------------------------------------------------------------------
(* An intake, which locks neither the version nor the run, adds a document *)
(* to those that the policy has listed: its ranges, and what its reader    *)
(* noted of one of them or of none.  (What an agent has to read may come   *)
(* late as well: until it reads it, that makes no difference.)             *)

TakeIn ==
  /\ phase # "agent" /\ finalized = "open"
  /\ \E ranges \in SUBSET (LateRanges \ inquiry.ranges) :
       \E noted \in SUBSET (ranges \cup {Null}) :
         inquiry' = Reading(inquiry.ranges \cup ranges, inquiry.noted \cup noted)
  /\ UNCHANGED <<draft, scanned, reported, finalized, aborted, calls,
                 documents, reading, drawing, phase>>

-----------------------------------------------------------------------------
(* Reading: a document at a call, then range by range and line by line.    *)

ReadDocument ==
  LET parts == documents[document] IN
  /\ phase = "reading" /\ document <= Len(documents) /\ range = 0
  /\ read(RangesOf(documents, document))
  /\ unsupported' = (unsupported \/ (/\ Email(documents, document)
                                     /\ \E part \in ToSet(parts) : part.role # "latest_body"))
  /\ range' = 1
  /\ UNCHANGED <<documents, document, line, matches, notes_here, sources,
                 url_notes, readable, drawing, phase>>

(* The document has no range at all: an issue that names none. *)
ReportDocument ==
  /\ phase = "reading" /\ document <= Len(documents) /\ range = 1
  /\ documents[document] = <<>>
  /\ report_unreadable(Null)
  /\ document' = document + 1 /\ range' = 0
  /\ UNCHANGED <<documents, line, matches, notes_here, sources, url_notes,
                 readable, unsupported, drawing, phase>>

Advance ==
  /\ line' = 1 /\ matches' = <<>> /\ notes_here' = <<>>
  /\ IF range < Len(documents[document])
     THEN range' = range + 1 /\ UNCHANGED document
     ELSE range' = 0 /\ document' = document + 1

AtRange ==
  /\ phase = "reading" /\ document <= Len(documents)
  /\ range \in DOMAIN documents[document]
Part == documents[document][range]

ReportBlank ==
  /\ AtRange /\ ~HasText(Part)
  /\ report_unreadable(Locator(document, range))
  /\ Advance
  /\ UNCHANGED <<documents, sources, url_notes, readable, unsupported, drawing, phase>>

ReadLine ==
  LET here == <<document, range, line>> IN
  /\ AtRange /\ HasText(Part) /\ line <= Len(Part.lines)
  /\ line' = line + 1
  /\ \/ Part.lines[line] = "blank" /\ UNCHANGED <<matches, notes_here>>
     \/ /\ Part.lines[line] = "note"
        /\ notes_here' = Append(notes_here, here) /\ UNCHANGED matches
     \/ /\ Part.lines[line] \notin {"blank", "note"}
        /\ matches' = Append(matches, here) /\ UNCHANGED notes_here
  /\ UNCHANGED <<vars, documents, document, range, sources, url_notes,
                 readable, unsupported, drawing, phase>>

Interpretable ==
  /\ Part.role # "sheet"
  /\ matches # <<>> \/ notes_here # <<>>
  /\ \A place \in ToSet(matches) : LineAt(documents, place) \in RowLine

(* Notes are taken down before the range is found uninterpretable. *)
Interpret ==
  /\ AtRange /\ HasText(Part) /\ line > Len(Part.lines)
  /\ readable' = readable + 1
  /\ url_notes' = url_notes \o notes_here
  /\ \/ /\ Interpretable
        /\ sources' = sources \o matches
        /\ UNCHANGED <<vars, unsupported>>
     \/ /\ ~Interpretable
        /\ unsupported' = TRUE
        /\ report_unreadable(Locator(document, range))
        /\ UNCHANGED sources
  /\ Advance
  /\ UNCHANGED <<documents, drawing, phase>>

Decide_Fault ==
  /\ phase = "reading" /\ document > Len(documents)
  /\ phase' = IF readable = 0 THEN "no_readable_document"
              ELSE IF sources = <<>> THEN "ask" ELSE "header"
  /\ UNCHANGED <<vars, documents, reading, drawing>>
Decide ==
  /\ phase = "reading" /\ document > Len(documents)
  /\ phase' = IF readable = 0 THEN "no_readable_document"
              ELSE IF unsupported \/ sources = <<>> THEN "ask" ELSE "header"
  /\ UNCHANGED <<vars, documents, reading, drawing>>

-----------------------------------------------------------------------------
(* Writing.                                                                *)

UnsupportedQuestion ==
  <<[question_code |-> "LOCAL-UNSUPPORTED", target_field |-> "items",
     reason |-> "text"]>>

DummyHeader ==
  [state \in DOMAIN HeaderStates |-> "not_stated"]
  ++ [quote_deadline_tz_state |-> "missing"]

DummyRow(k, qty) ==
  [row_code |-> Id(k), source_no |-> "text", seq |-> Id(k), kind |-> "text",
   kind_raw |-> "text", grade_raw |-> "text", qty_raw |-> "text",
   qty_state |-> CASE qty \in {"number", "vast"} -> "numeric"
                   [] qty = "TBA" -> "tba"
                   [] qty = "not applicable" -> "not_applicable"]
  ++ [state \in DOMAIN StatedBy |-> "not_stated"]
  ++ (IF qty \in {"number", "vast"}
      THEN [qty_value |-> qty, qty_unit |-> "text"] ELSE <<>>)
DummyRows ==
  [k \in DOMAIN sources |->
     [payload |-> DummyRow(k, LineAt(documents, sources[k])), ends |-> <<>>]]

DummyEvidence(k, field) ==
  [item_id |-> Id(k), field |-> field, document_id |-> Id(sources[k][1]),
   raw_value |-> "text", adopted_value |-> "text", locator |-> "text",
   quote |-> "text"]

TbaQuestion(k) ==
  [question_code |-> Code("Q-", k), item_id |-> Id(k), target_field |-> "qty",
   reason |-> "text", category |-> "unknown"]
NoteQuestion_Fault(k) ==
  [question_code |-> Code("Q-", k - Len(sources)), target_field |-> "source",
   reason |-> "text", category |-> "reference_missing"]
NoteQuestion(k) ==
  [question_code |-> Code("URL-", k), target_field |-> "source",
   reason |-> "text", category |-> "reference_missing"]

DummyEntry(k, place, status) ==
  [document_id |-> Id(place[1]), position |-> "text", seq |-> Id(k),
   excerpt |-> "text", status |-> status]
MappedEntry(k) ==
  [payload |-> DummyEntry(k, sources[k], "mapped") ++ [source_no |-> "text"],
   item_ids |-> <<Id(k)>>]
NoteEntry(k) ==
  [payload |-> DummyEntry(k, url_notes[k - Len(sources)], "excluded")
               ++ [basis |-> "text"],
   item_ids |-> <<>>]

(* Once the items have ids: a source, or then a note, at a time. *)
seq == Len(entries) + 1
DrawSource ==
  /\ phase = "evidence" /\ seq <= Len(sources)
  /\ evidences' = evidences \o <<DummyEvidence(seq, "kind"), DummyEvidence(seq, "qty")>>
  /\ questions' = IF LineAt(documents, sources[seq]) = "TBA"
                  THEN Append(questions, TbaQuestion(seq)) ELSE questions
  /\ entries' = Append(entries, MappedEntry(seq))
  /\ UNCHANGED <<vars, documents, reading, phase>>
DrawNote ==
  /\ phase = "evidence" /\ seq > Len(sources) /\ seq <= Len(sources) + Len(url_notes)
  /\ questions' = Append(questions, NoteQuestion(seq))
  /\ entries' = Append(entries, NoteEntry(seq))
  /\ UNCHANGED <<vars, documents, reading, evidences, phase>>
AllDrawn == seq > Len(sources) + Len(url_notes)

Then(here, next) ==
  phase = here /\ phase' = next /\ UNCHANGED <<documents, reading, drawing>>

Ask == Then("ask", "local_dummy_unsupported") /\ add_questions(UnsupportedQuestion)
RecordHeader == Then("header", "items") /\ save_header(DummyHeader)

(* The reply of an aborted call has no items to go on with. *)
ProposeItems ==
  /\ add_items(DummyRows)
  /\ Then("items", IF aborted' = aborted THEN "evidence" ELSE "raised")
RecordEvidence ==
  /\ AllDrawn
  /\ Then("evidence", IF questions = <<>> THEN "inventory" ELSE "questions")
  /\ add_evidences(evidences)
RecordQuestions == Then("questions", "inventory") /\ add_questions(questions)
RecordInventory == Then("inventory", "validate") /\ add_inventory(entries)
Validate ==
  /\ Then("validate", IF Violations = {} THEN "finalize" ELSE "validation_unresolved")
  /\ UNCHANGED vars
Finalize ==
  \/ Then("finalize", "done") /\ finalize
  \/ Then("finalize", "draft_not_finalized") /\ Violations # {} /\ UNCHANGED vars

Agent == phase = "agent" /\ Next /\ UNCHANGED <<documents, reading, drawing, phase>>

DummyNext ==
  \/ ReadDocument \/ ReportDocument \/ ReportBlank \/ ReadLine \/ Interpret \/ Decide
  \/ Ask \/ RecordHeader \/ ProposeItems \/ DrawSource \/ DrawNote
  \/ RecordEvidence \/ RecordQuestions \/ RecordInventory \/ Validate \/ Finalize
  \/ TakeIn

DummySpec ==
  DummyInit /\ [][Agent \/ DummyNext]_dummy_vars

-----------------------------------------------------------------------------
(* Properties.                                                             *)

(* The policy takes every reply for a success.  Still no call it makes is  *)
(* refused by a contract or by the repository, and no row it drafts is     *)
(* amiss.  Two things end its run: a quantity wider than its column, which *)
(* the database refuses with all of the rows, and a range taken in late,   *)
(* neither read nor noted by its reader, for which the draft is not valid. *)
Unread == unscanned_range(inquiry.ranges \ CaseRanges(documents), scanned, Issues)

RefusedForCause ==
  phase # "agent" =>
    /\ phase = "ask" => QuestionsAccepted(draft, UnsupportedQuestion)
    /\ phase = "header" => HeaderAccepted(draft, DummyHeader)
    /\ phase = "items" => ItemsAccepted(draft, DummyRows)
    /\ phase = "evidence" /\ AllDrawn => EvidencesAccepted(draft, evidences)
    /\ phase = "questions" => QuestionsAccepted(draft, questions)
    /\ phase = "inventory" => EntriesAccepted(draft, entries)
    /\ phase \in {"validate", "finalize"} =>
         Violations = Unread /\ draft.source_inventory_entries # <<>>
    /\ phase \in {"validation_unresolved", "draft_not_finalized"} => Unread # {}
    /\ aborted = IF phase = "raised" THEN {<<"propose_items", "width">>} ELSE {}
    /\ phase = "raised" =>
         /\ draft.items = <<>>
         /\ \E place \in Places(documents) : LineAt(documents, place) = "vast"

Count(kinds) ==
  Cardinality({place \in Places(documents) : LineAt(documents, place) \in kinds})

(* A draft is published only of a case understood to the last line, with   *)
(* no quantity too wide, and then it has a row for every line that is one, *)
(* a question for each of TBA and each note, and an entry in the inventory *)
(* for every line; and it is complete unless a document or range had       *)
(* nothing to read or a reader noted something.                            *)
PublishesAllOrNothing ==
  phase = "done" =>
    /\ finalized # "open"
    /\ Count({"prose", "vast"}) = 0
    /\ Len(draft.items) = Count(RowLine)
    /\ Len(draft.questions) = Count({"TBA", "note"})
    /\ Len(draft.source_inventory_entries) = Count(Line \ {"blank"})
    /\ finalized = "complete" <=>
         /\ inquiry.noted = {}
         /\ \A d \in DOMAIN documents :
              documents[d] # <<>> /\ \A part \in ToSet(documents[d]) : HasText(part)

=============================================================================
