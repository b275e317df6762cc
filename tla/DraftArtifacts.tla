--------------------------- MODULE DraftArtifacts ---------------------------
(***************************************************************************)
(* One run writes the draft of one version with its tools, and finalizes   *)
(* it.  A call that writes holds the locks of the version and of the run   *)
(* from its first read to its commit (DraftRepository.edit), so it is one  *)
(* step; one that is refused, by the contract of its arguments or by the   *)
(* repository, changes nothing and is no step.                             *)
(***************************************************************************)
EXTENDS RowContracts, DraftValidation, InventoryReconciliation

CONSTANTS Documents,   (* the ids of the case's, without those excluded     *)
          Inquiries,   (* what there is to read, what the readers noted of  *)
                       (* it at intake, and what an agent may propose:      *)
                       (* batches, by tool                                  *)
          MaxCalls     (* bound: calls that write                           *)

Tables == {"case_headers", "items", "item_ends", "evidences", "questions",
           "source_inventory_entries", "inventory_links"}

ASSUME MaxCallsAssumption == MaxCalls \in Nat
ASSUME InquiriesAssumption ==
  \A inquiry \in Inquiries :
    DOMAIN inquiry =
      {"header", "items", "evidences", "questions", "entries", "ranges",
       "noted", "issues"}
ASSUME BatchesAssumption ==
  \A inquiry \in Inquiries :
    /\ \A batch \in inquiry.items \cup inquiry.evidences \cup inquiry.questions
                     \cup inquiry.entries : batch \in Seq(ToSet(batch))
    /\ \A batch \in inquiry.items : \A item \in ToSet(batch) :
         item.ends \in Seq(ToSet(item.ends))
    /\ \A batch \in inquiry.entries : \A entry \in ToSet(batch) :
         entry.item_ids \in Seq(ToSet(entry.item_ids))

VARIABLES inquiry,     (* the one at hand                                   *)
          draft,       (* the tables                                        *)
          scanned,     (* the ranges reading steps name                     *)
          reported,    (* the ranges report_unreadable names                *)
          finalized,   (* "open", "complete" or "incomplete"                *)
          aborted,     (* why the database aborted transactions, by tool    *)
          calls        (* how many have written                             *)

vars == <<inquiry, draft, scanned, reported, finalized, aborted, calls>>

Model == INSTANCE DraftModels
Migrated == INSTANCE T201Artifacts

-----------------------------------------------------------------------------
(* What the tables take: in the tests, and in production.                  *)

(* A number that no column is wide enough for: not an IntegrityError. *)
Narrow(rows) ==
  \A row \in ToSet(rows) : \A column \in DOMAIN row : row[column] # "vast"
Fits(d) ==
  /\ \A table \in Tables \ {"item_ends", "inventory_links"} : Narrow(d[table])
  /\ \A ends \in ToSet(d.item_ends) : Narrow(ends)
  /\ \A item_ids \in ToSet(d.inventory_links) : "vast" \notin ToSet(item_ids)

ModelTakes(d) ==
  /\ \A row \in ToSet(d.case_headers) : Model!CaseHeader(row)
  /\ \A row \in ToSet(d.items) : Model!Item(row)
  /\ \A ends \in ToSet(d.item_ends) : \A row \in ToSet(ends) : Model!ItemEnd(row)
  /\ \A row \in ToSet(d.evidences) : Model!Evidence(row)
  /\ \A row \in ToSet(d.questions) : Model!Question(row)
  /\ \A row \in ToSet(d.source_inventory_entries) : Model!InventoryEntry(row)
  /\ \A item_ids \in ToSet(d.inventory_links) : \A item_id \in ToSet(item_ids) :
       Model!InventoryLink(item_id)

MigratedTakes(d) ==
  /\ \A row \in ToSet(d.case_headers) : Migrated!case_headers(row)
  /\ \A row \in ToSet(d.items) : Migrated!items(row)
  /\ \A ends \in ToSet(d.item_ends) : \A row \in ToSet(ends) : Migrated!item_ends(row)
  /\ \A row \in ToSet(d.evidences) : Migrated!evidences(row)
  /\ \A row \in ToSet(d.questions) : Migrated!questions(row)
  /\ \A row \in ToSet(d.source_inventory_entries) :
       Migrated!source_inventory_entries(row)
  /\ \A item_ids \in ToSet(d.inventory_links) : \A item_id \in ToSet(item_ids) :
       Migrated!inventory_links(item_id)

(* The unique constraints and the foreign keys, the same in both. *)
Distinct(d) ==
  /\ Len(d.case_headers) <= 1
  /\ Unique(d.items, {"row_code"})
  /\ \A ends \in ToSet(d.item_ends) : Unique(ends, {"side"})
  /\ Migrated!uq_evidences_item_field(d.evidences)
  /\ Migrated!uq_evidences_header_field(d.evidences)
  /\ Unique(d.questions, {"question_code"})
  /\ \A item_ids \in ToSet(d.inventory_links) : IsInjective(item_ids)
Referenced(d) ==
  /\ \A row \in ToSet(d.evidences) \cup ToSet(d.questions) :
       row["item_id"] \in Ids(d.items) \cup {Null}
  /\ DOMAIN d.item_ends \subseteq DOMAIN d.items
  /\ DOMAIN d.inventory_links \subseteq DOMAIN d.source_inventory_entries
  /\ \A item_ids \in ToSet(d.inventory_links) : ToSet(item_ids) \subseteq Ids(d.items)

Storable(d) ==
  ModelTakes(d) /\ MigratedTakes(d) /\ Distinct(d) /\ Referenced(d)

-----------------------------------------------------------------------------
(* The tools: which calls the contracts and the repository accept, and     *)
(* what these add.                                                         *)

Parse(contract, payloads) ==
  [k \in DOMAIN payloads |-> Parsed(contract, payloads[k])]

item_in_version(d, item) == item \in Ids(d.items) \cup {Null}
document_in_case(document) == document \in Documents

HeaderAccepted(d, payload) ==
  /\ WellTyped(HeaderInput, payload)
  /\ consistent_values(Parsed(HeaderInput, payload))
  /\ d.case_headers = <<>>
WithHeader(d, payload) ==
  [d EXCEPT !.case_headers = <<Parsed(HeaderInput, payload)>>]

ItemRows_Fault(batch) ==
  [k \in DOMAIN batch |->
     batch[k].payload ++ [column \in DOMAIN ItemInput |-> Default(column)]]
ItemRows(batch) == [k \in DOMAIN batch |-> Parsed(ItemInput, batch[k].payload)]
EndRows(batch) == [k \in DOMAIN batch |-> Parse(EndInput, batch[k].ends)]

ItemsAccepted(d, batch) ==
  LET rows == ItemRows(batch) IN
  /\ \A k \in DOMAIN batch :
       /\ WellTyped(ItemInput, batch[k].payload)
       /\ \A end \in ToSet(batch[k].ends) :
            WellTyped(EndInput, end) /\ unit_required(Parsed(EndInput, end))
       /\ consistency_errors(rows[k], EndRows(batch)[k]) = {}
  /\ Unique(d.items \o rows, {"row_code"})
WithItems(d, batch) ==
  [d EXCEPT !.items = @ \o ItemRows(batch),
            !.item_ends = @ \o EndRows(batch)]

EvidencesAccepted_Fault(d, batch) ==
  LET rows == Parse(EvidenceInput, batch) IN
  /\ \A k \in DOMAIN batch :
       /\ WellTyped(EvidenceInput, batch[k])
       /\ item_in_version(d, rows[k]["item_id"])
       /\ document_in_case(rows[k]["document_id"])
  /\ Unique(d.evidences \o rows, {"field"})
EvidencesAccepted(d, batch) ==
  LET rows == Parse(EvidenceInput, batch) IN
  /\ \A k \in DOMAIN batch :
       /\ WellTyped(EvidenceInput, batch[k])
       /\ item_in_version(d, rows[k]["item_id"])
       /\ document_in_case(rows[k]["document_id"])
  /\ Unique(d.evidences \o rows, {"item_id", "field"})
WithEvidences(d, batch) ==
  [d EXCEPT !.evidences = @ \o Parse(EvidenceInput, batch)]

QuestionsAccepted(d, batch) ==
  LET rows == Parse(QuestionInput, batch) IN
  /\ \A k \in DOMAIN batch :
       /\ WellTyped(QuestionInput, batch[k])
       /\ item_in_version(d, rows[k]["item_id"])
  /\ Unique(d.questions \o rows, {"question_code"})
WithQuestions(d, batch) ==
  [d EXCEPT !.questions = @ \o Parse(QuestionInput, batch)]

EntryRows(batch) ==
  [k \in DOMAIN batch |-> Parsed(InventoryInput, batch[k].payload)]
LinkRows(batch) == [k \in DOMAIN batch |-> batch[k].item_ids]

EntriesAccepted(d, batch) ==
  \A k \in DOMAIN batch :
    /\ WellTyped(InventoryInput, batch[k].payload)
    /\ valid_mapping(EntryRows(batch)[k], batch[k].item_ids)
    /\ document_in_case(EntryRows(batch)[k]["document_id"])
    /\ \A item \in ToSet(batch[k].item_ids) : item_in_version(d, item)
WithEntries(d, batch) ==
  [d EXCEPT !.source_inventory_entries = @ \o EntryRows(batch),
            !.inventory_links = @ \o LinkRows(batch)]

-----------------------------------------------------------------------------
(* The steps. *)

Untouched ==
  /\ draft = [table \in Tables |-> <<>>]
  /\ scanned = {} /\ reported = {} /\ finalized = "open"
  /\ aborted = {} /\ calls = 0
Init == inquiry \in Inquiries /\ Untouched

(* The end of a call that the repository has accepted: the transaction     *)
(* commits, or the database aborts it.                                     *)
Commit(tool, next) ==
  /\ finalized = "open"
  /\ calls < MaxCalls
  /\ calls' = calls + 1
  /\ IF Fits(next) /\ Storable(next)
     THEN draft' = next /\ UNCHANGED aborted
     ELSE /\ aborted' = aborted \cup
                {<<tool, IF Fits(next) THEN "constraint" ELSE "width">>}
          /\ UNCHANGED draft
  /\ UNCHANGED <<inquiry, scanned, reported, finalized>>

save_header(payload) ==
  /\ HeaderAccepted(draft, payload)
  /\ Commit("record_case_header", WithHeader(draft, payload))

add_items(batch) ==
  /\ ItemsAccepted(draft, batch)
  /\ Commit("propose_items", WithItems(draft, batch))

add_evidences(batch) ==
  /\ EvidencesAccepted(draft, batch)
  /\ Commit("record_evidence", WithEvidences(draft, batch))

add_questions(batch) ==
  /\ QuestionsAccepted(draft, batch)
  /\ Commit("record_question", WithQuestions(draft, batch))

add_inventory(batch) ==
  /\ EntriesAccepted(draft, batch)
  /\ Commit("record_source_inventory", WithEntries(draft, batch))

(* Reading steps; and an issue, of a range or (Null) of one that excuses     *)
(* none.                                                                   *)
read(ranges) ==
  /\ finalized = "open"
  /\ scanned' = scanned \cup ranges
  /\ UNCHANGED <<inquiry, draft, reported, finalized, aborted, calls>>

report_unreadable(range) ==
  /\ finalized = "open"
  /\ reported' = reported \cup {range}
  /\ UNCHANGED <<inquiry, draft, scanned, finalized, aborted, calls>>

(* The readers' issues belong to no run and count like the run's own: they *)
(* excuse their ranges too, and leave no draft complete.                   *)
Issues == reported \cup inquiry.noted
Violations == validate_snapshot(draft, inquiry.ranges, scanned, Issues)

finalize_Fault ==
  /\ finalized = "open"
  /\ draft.items # <<>>
  /\ draft.source_inventory_entries # <<>>
  /\ finalized' = IF Issues = {} THEN "complete" ELSE "incomplete"
  /\ UNCHANGED <<inquiry, draft, scanned, reported, aborted, calls>>
finalize ==
  /\ finalized = "open"
  /\ draft.items # <<>>
  /\ Violations = {}
  /\ draft.source_inventory_entries # <<>>
  /\ finalized' = IF Issues = {} THEN "complete" ELSE "incomplete"
  /\ UNCHANGED <<inquiry, draft, scanned, reported, aborted, calls>>

Next ==
  \/ \E payload \in inquiry.header : save_header(payload)
  \/ \E batch \in inquiry.items : add_items(batch)
  \/ \E batch \in inquiry.evidences : add_evidences(batch)
  \/ \E batch \in inquiry.questions : add_questions(batch)
  \/ \E batch \in inquiry.entries : add_inventory(batch)
  \/ \E range \in inquiry.ranges : read({range})
  \/ \E range \in inquiry.issues : report_unreadable(range)
  \/ finalize

Spec == Init /\ [][Next]_vars

-----------------------------------------------------------------------------
(* Properties.                                                             *)

Conforms(contract, rows) ==
  \A row \in ToSet(rows) : \A column \in DOMAIN contract :
    row[column] \in contract[column]

(* What is stored has the types its contract promises, blanks stripped.    *)
TypeOK ==
  /\ DOMAIN draft = Tables
  /\ Conforms(HeaderInput, draft.case_headers)
  /\ Conforms(ItemInput, draft.items)
  /\ \A ends \in ToSet(draft.item_ends) : Conforms(EndInput, ends)
  /\ Conforms(EvidenceInput, draft.evidences)
  /\ Conforms(QuestionInput, draft.questions)
  /\ Conforms(InventoryInput, draft.source_inventory_entries)
  /\ scanned \subseteq inquiry.ranges
  /\ finalized \in {"open", "complete", "incomplete"}
  /\ calls \in 0..MaxCalls

(* The contracts, the repository and both schemas agree: no transaction    *)
(* the repository lets through is aborted by a constraint or a unique      *)
(* index, in the tests' tables or in production's; only a number too wide  *)
(* for its column is.                                                      *)
AcceptedIsStorable == \A abort \in aborted : abort[2] = "width"

(* Rules that contracts and the final validation both state agree: the     *)
(* validation never finds a row without unit, source number, basis or      *)
(* target, for which an agent would have no remedy.                        *)
BackstopsAreIdle == Backstops(draft) = {}

(* A finalized draft has items, an inventory, and not one violation; and   *)
(* one that is complete was read to the last range, none of them excused   *)
(* by the run or by a reader.                                              *)
FinalizedIsValid ==
  finalized # "open" =>
    /\ Violations = {}
    /\ draft.items # <<>> /\ draft.source_inventory_entries # <<>>
    /\ finalized = "complete" =>
         inquiry.ranges \subseteq scanned /\ inquiry.noted = {}

(* The call that removes a violation, and the draft after it, if the call  *)
(* is accepted and stored.                                                 *)
Unused(rows, column) ==
  CHOOSE name \in Names : \A row \in ToSet(rows) : row[column] # name

SourceOf(item, field) ==
  [item_id |-> item, field |-> field, document_id |-> CHOOSE d \in Documents : TRUE,
   raw_value |-> "text", adopted_value |-> "text", locator |-> "text",
   quote |-> "text"]
PlainHeader ==
  [state \in DOMAIN HeaderStates |-> "not_stated"]
  ++ [quote_deadline_tz_state |-> "missing"]

(* The row of the item, registered again as the second of its group. *)
Companion(item) ==
  LET row == draft.items[CHOOSE k \in DOMAIN draft.items : Id(k) = item] IN
  [payload |-> [row EXCEPT !["row_code"] = Unused(draft.items, "row_code")],
   ends |-> <<>>]

DeadlineQuestion ==
  [question_code |-> Unused(draft.questions, "question_code"),
   target_field |-> "quote_deadline", reason |-> "text"]

Remedied(violation) ==
  LET source == <<SourceOf(violation.item, violation.field)>>
      companion == <<Companion(violation.item)>>
      question == <<DeadlineQuestion>>
  IN
  CASE violation.kind = "missing_evidence" /\ violation.field = "header" ->
         IF HeaderAccepted(draft, PlainHeader)
         THEN WithHeader(draft, PlainHeader) ELSE draft
    [] violation.kind = "missing_evidence" /\ violation.field # "header" ->
         IF EvidencesAccepted(draft, source)
         THEN WithEvidences(draft, source) ELSE draft
    [] violation.kind = "orphan_candidate" ->
         IF ItemsAccepted(draft, companion)
         THEN WithItems(draft, companion) ELSE draft
    [] violation.kind = "missing_question" ->
         IF QuestionsAccepted(draft, question)
         THEN WithQuestions(draft, question) ELSE draft

(* Rows are only ever added, under codes and fields used once; still every *)
(* violation but two kinds can be removed by one more call.  A range is    *)
(* read or reported; a conflict, see below, stays.                         *)
ViolationsCanBeRemedied ==
  \A violation \in Violations :
    violation.kind \notin {"unscanned_range", "unsplit_conflict"} =>
      LET remedied == Remedied(violation) IN
      /\ violation \notin validate_snapshot(remedied, inquiry.ranges, scanned, Issues)
      /\ Storable(remedied)

(* The inventory view of a draft: no entry is inconsistent, the judgement  *)
(* is the status, the two views show the same links, and the summary       *)
(* counts what they show.                                                  *)
InventoryReconciles ==
  LET rows == draft.source_inventory_entries
      status == [entry \in DOMAIN rows |-> rows[entry]["status"]]
      items == Ids(draft.items)
      links == UNION {{<<entry, item>> : item \in ToSet(draft.inventory_links[entry])} :
                        entry \in DOMAIN draft.inventory_links}
      entries == entry_views(status, items, links)
      views == item_views(status, items, links)
      total == summary(status, items, links)
      Judged(value) == {e \in DOMAIN rows : entries[e].judgement = value}
  IN
  /\ Judged("inconsistent") = {} /\ total.inconsistent_entry_ids = {}
  /\ \A s \in {"mapped", "split", "excluded"} :
       Judged(s) = {e \in DOMAIN rows : status[e] = s}
  /\ Judged("missing") = total.unmapped_entry_ids
  /\ Judged("split") = total.split_entry_ids
  /\ \A e \in DOMAIN rows, i \in items :
       i \in entries[e].linked_items <=> e \in views[i].source_entries
  /\ total.orphan_item_ids = {i \in items : ~views[i].has_source}
  /\ total.source_item_count + Cardinality(total.excluded_entry_ids)
       = total.source_entry_count

(* The message of the violation asks for two candidate rows of one group;  *)
(* some call of propose_items, of rows like the one in question, would     *)
(* then remove it.                                                         *)
ConflictsCanBeSplit ==
  \A violation \in unsplit_conflict(draft) :
    \E codes \in Names \X Names :
      LET candidates ==
            [k \in 1..2 |->
               [Companion(violation.item) EXCEPT
                  !.payload = [row_code |-> codes[k], group_code |-> "G1"] ++ @]]
      IN /\ ItemsAccepted(draft, candidates)
         /\ violation \notin unsplit_conflict(WithItems(draft, candidates))
=============================================================================
