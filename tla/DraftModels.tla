----------------------------- MODULE DraftModels ----------------------------
(***************************************************************************)
(* The tables of a draft as models/drafts.py declares them, which is how   *)
(* the integration tests create them: one predicate a table, true of the   *)
(* rows it takes.                                                          *)
(***************************************************************************)
EXTENDS Columns

HeaderStates == {"inquiry_no_state", "customer_name_state", "due_state",
                 "place_state", "incoterms_state", "quote_deadline_tz_state"}
HeaderTexts == {"inquiry_no", "customer_name", "due_raw", "place_raw",
                "incoterms", "quote_deadline_raw"}

CaseHeader(row) ==
  /\ Fit(row, HeaderTexts \cup HeaderStates
              \cup {"due_granularity", "due_basis", "quote_deadline_at"})
  /\ not_null(row, HeaderStates)
  /\ nonblank(row, HeaderTexts)
  /\ \A state \in {"inquiry_no_state", "customer_name_state"} :
       among(row, state, {"stated", "not_stated"})
  /\ among(row, "due_state", {"stated", "tba", "not_stated"})
  /\ \A state \in {"place_state", "incoterms_state"} :
       among(row, state, {"stated", "not_stated", "not_applicable"})
  /\ pair(row, "inquiry_no_state", "stated", {"inquiry_no"})
  /\ pair(row, "customer_name_state", "stated", {"customer_name"})
  /\ pair(row, "due_state", "stated", {"due_raw"})
  /\ pair(row, "place_state", "stated", {"place_raw"})
  /\ pair(row, "incoterms_state", "stated", {"incoterms"})
  /\ among(row, "due_granularity",
           {"date", "month", "quarter", "period", "month_end", "unknown"})
  /\ among(row, "due_basis", {"shipment", "arrival", "unknown"})
  /\ among(row, "quote_deadline_tz_state", {"stated", "missing"})
  /\ Given(row, {"quote_deadline_at"}) =>
       /\ Value(row, "quote_deadline_tz_state") = "stated"
       /\ Given(row, {"quote_deadline_raw"})

-----------------------------------------------------------------------------
(* items *)

ItemTexts(row) ==
  nonblank(row, {"row_code", "source_no", "kind", "kind_raw", "grade_raw",
                 "qty_raw", "usage_note", "grade", "connection",
                 "connection_raw", "range_class", "qty_reference_note",
                 "due_raw", "place_raw", "note", "group_code",
                 "candidate_label"})
  /\ positive(row, "seq")

ItemMeasures(row) ==
  /\ nonblank(row, {"od_unit", "od_raw", "wall_unit", "wall_raw",
                    "weight_unit", "weight_raw", "length_unit", "length_raw",
                    "qty_unit"})
  /\ needs(row, "od_value", "od_unit")
  /\ needs(row, "wall_value", "wall_unit")
  /\ needs(row, "weight_value", "weight_unit")
  /\ needs(row, "length_value", "length_unit")
  /\ needs(row, "qty_value", "qty_unit")

ItemStates(row) ==
  /\ \A state \in {"od_state", "wall_state", "weight_state", "grade_state",
                   "connection_state", "due_state", "place_state",
                   "length_state"} :
       among(row, state, {"stated", "tba", "not_stated", "not_applicable"})
  /\ among(row, "qty_state", {"numeric", "tba", "not_stated", "not_applicable"})
  /\ pair(row, "od_state", "stated", {"od_value"})
  /\ pair(row, "wall_state", "stated", {"wall_value"})
  /\ pair(row, "weight_state", "stated", {"weight_value"})
  /\ pair(row, "grade_state", "stated", {"grade"})
  /\ pair(row, "connection_state", "stated", {"connection"})
  /\ pair(row, "due_state", "stated", {"due_raw"})
  /\ pair(row, "place_state", "stated", {"place_raw"})
  /\ pair(row, "length_state", "stated", {"range_class", "length_value"})
  /\ pair(row, "qty_state", "numeric", {"qty_value"})
  /\ needs(row, "candidate_label", "group_code")

ItemRequired ==
  {"row_code", "source_no", "kind", "kind_raw", "grade_raw", "qty_raw", "seq",
   "od_state", "wall_state", "weight_state", "grade_state",
   "connection_state", "due_state", "place_state", "length_state",
   "qty_state", "is_inherit_candidate"}
ItemNullable ==
  {"usage_note", "grade", "connection", "connection_raw", "range_class",
   "qty_reference_note", "due_raw", "place_raw", "note", "group_code",
   "candidate_label", "od_value", "od_unit", "od_raw", "wall_value",
   "wall_unit", "wall_raw", "weight_value", "weight_unit", "weight_raw",
   "length_value", "length_unit", "length_raw", "qty_value", "qty_unit"}

Item(row) ==
  /\ Fit(row, ItemRequired \cup ItemNullable)
  /\ not_null(row, ItemRequired)
  /\ ItemTexts(row) /\ ItemMeasures(row) /\ ItemStates(row)

(* An end; it is kept with its item, which its item_id names. *)
ItemEnd(row) ==
  /\ Fit(row, {"side", "od_value", "od_unit", "od_raw", "connection",
               "thread_end"})
  /\ not_null(row, {"side"})
  /\ among(row, "side", {"end_a", "end_b"})
  /\ nonblank(row, {"od_unit", "od_raw", "connection"})
  /\ among(row, "thread_end", {"BOX", "PIN"})
  /\ needs(row, "od_value", "od_unit")

-----------------------------------------------------------------------------
(* The rows that name an item or a document. *)

EvidenceTexts == {"field", "raw_value", "adopted_value", "locator", "quote"}
EvidenceNotes == {"applied_condition", "conversion_note", "change_reason",
                  "prior_value"}

Evidence(row) ==
  /\ Fit(row, {"item_id", "document_id"} \cup EvidenceTexts \cup EvidenceNotes)
  /\ not_null(row, {"document_id"} \cup EvidenceTexts)
  /\ nonblank(row, EvidenceTexts \cup EvidenceNotes)
  /\ among(row, "conversion_note", {"unconverted"})

Question(row) ==
  /\ Fit(row, {"item_id", "question_code", "target_field", "reason",
               "candidates", "category"})
  /\ not_null(row, {"question_code", "target_field", "reason"})
  /\ nonblank(row, {"question_code", "target_field", "reason", "candidates"})
  /\ among(row, "category",
           {"unknown", "conflict", "reference_missing", "alternative",
            "condition_missing", "inherit_candidate"})

InventoryEntry(row) ==
  /\ Fit(row, {"document_id", "position", "excerpt", "source_no",
               "status_detail", "basis", "seq", "status"})
  /\ not_null(row, {"document_id", "position", "excerpt", "seq", "status"})
  /\ nonblank(row, {"position", "excerpt", "source_no", "status_detail",
                    "basis"})
  /\ positive(row, "seq")
  /\ among(row, "status", {"mapped", "split", "excluded", "unmapped"})
  /\ Value(row, "status") = "excluded" => Given(row, {"basis"})

(* A link is kept with its entry, which its entry_id names. *)
InventoryLink(item_id) == item_id # Null
=============================================================================
