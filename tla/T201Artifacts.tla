---------------------------- MODULE T201Artifacts ---------------------------
(***************************************************************************)
(* The tables of a draft as the migration t201_artifacts creates them,     *)
(* which is how production runs: one predicate a table, true of the rows   *)
(* it takes, and what the unique indexes ask of a version's rows.          *)
(***************************************************************************)
EXTENDS Columns

case_headers(row) ==
  LET states == {"inquiry_no_state", "customer_name_state", "due_state",
                 "place_state", "incoterms_state", "quote_deadline_tz_state"}
      texts == {"inquiry_no", "customer_name", "due_raw", "place_raw",
                "incoterms", "quote_deadline_raw"}
      stated == [inquiry_no_state |-> "inquiry_no",
                 customer_name_state |-> "customer_name",
                 due_state |-> "due_raw", place_state |-> "place_raw",
                 incoterms_state |-> "incoterms"]
      allowed == [inquiry_no_state |-> {"stated", "not_stated"},
                  customer_name_state |-> {"stated", "not_stated"},
                  due_state |-> {"stated", "tba", "not_stated"},
                  place_state |-> {"stated", "not_stated", "not_applicable"},
                  incoterms_state |-> {"stated", "not_stated", "not_applicable"},
                  due_granularity |-> {"date", "month", "quarter", "period",
                                       "month_end", "unknown"},
                  due_basis |-> {"shipment", "arrival", "unknown"},
                  quote_deadline_tz_state |-> {"stated", "missing"}]
  IN
  /\ Fit(row, texts \cup DOMAIN allowed \cup {"quote_deadline_at"})
  /\ not_null(row, states)
  /\ nonblank(row, texts)
  /\ \A column \in DOMAIN allowed : among(row, column, allowed[column])
  /\ \A state \in DOMAIN stated : pair(row, state, "stated", {stated[state]})
  /\ needs(row, "quote_deadline_at", "quote_deadline_raw")
  /\ Given(row, {"quote_deadline_at"})
       => Value(row, "quote_deadline_tz_state") = "stated"

-----------------------------------------------------------------------------
(* items *)

items_columns ==
  [not_null |-> {"row_code", "source_no", "kind", "kind_raw", "grade_raw",
                 "qty_raw", "seq", "od_state", "wall_state", "weight_state",
                 "grade_state", "connection_state", "due_state",
                 "place_state", "length_state", "qty_state",
                 "is_inherit_candidate"},
   nullable |-> {"usage_note", "grade", "connection", "connection_raw",
                 "range_class", "qty_reference_note", "due_raw", "place_raw",
                 "note", "group_code", "candidate_label", "od_value",
                 "od_unit", "od_raw", "wall_value", "wall_unit", "wall_raw",
                 "weight_value", "weight_unit", "weight_raw", "length_value",
                 "length_unit", "length_raw", "qty_value", "qty_unit"}]

items_texts(row) ==
  /\ positive(row, "seq")
  /\ nonblank(row, {"row_code", "source_no", "kind", "kind_raw", "grade_raw",
                    "qty_raw", "usage_note", "grade", "connection",
                    "connection_raw", "range_class", "qty_reference_note",
                    "due_raw", "place_raw", "note", "group_code",
                    "candidate_label"})

items_units(row) ==
  LET unit == [od_value |-> "od_unit", wall_value |-> "wall_unit",
               weight_value |-> "weight_unit", length_value |-> "length_unit",
               qty_value |-> "qty_unit"]
  IN
  /\ \A value \in DOMAIN unit :
       needs(row, value, unit[value]) /\ nonblank(row, {unit[value]})
  /\ nonblank(row, {"od_raw", "wall_raw", "weight_raw", "length_raw"})

items_states(row) ==
  LET values == [od_state |-> {"od_value"}, wall_state |-> {"wall_value"},
                 weight_state |-> {"weight_value"}, grade_state |-> {"grade"},
                 connection_state |-> {"connection"}, due_state |-> {"due_raw"},
                 place_state |-> {"place_raw"},
                 length_state |-> {"range_class", "length_value"}]
  IN
  /\ \A state \in DOMAIN values :
       /\ among(row, state, {"stated", "tba", "not_stated", "not_applicable"})
       /\ pair(row, state, "stated", values[state])
  /\ among(row, "qty_state", {"numeric", "tba", "not_stated", "not_applicable"})
  /\ pair(row, "qty_state", "numeric", {"qty_value"})
  /\ needs(row, "candidate_label", "group_code")

items(row) ==
  /\ Fit(row, items_columns.not_null \cup items_columns.nullable)
  /\ not_null(row, items_columns.not_null)
  /\ items_texts(row) /\ items_units(row) /\ items_states(row)

(* An end; it is kept with its item, which its item_id names. *)
item_ends(row) ==
  /\ Fit(row, {"side", "od_value", "od_unit", "od_raw", "connection",
               "thread_end"})
  /\ not_null(row, {"side"})
  /\ among(row, "side", {"end_a", "end_b"})
  /\ among(row, "thread_end", {"BOX", "PIN"})
  /\ nonblank(row, {"od_unit", "od_raw", "connection"})
  /\ needs(row, "od_value", "od_unit")

-----------------------------------------------------------------------------
(* The rows that name an item or a document. *)

evidences(row) ==
  LET source == {"field", "raw_value", "adopted_value", "locator", "quote"}
      notes == {"applied_condition", "conversion_note", "change_reason",
                "prior_value"}
  IN
  /\ Fit(row, source \cup notes \cup {"item_id", "document_id"})
  /\ not_null(row, source \cup {"document_id"})
  /\ nonblank(row, source \cup notes)
  /\ among(row, "conversion_note", {"unconverted"})

questions(row) ==
  LET texts == {"question_code", "target_field", "reason"} IN
  /\ Fit(row, texts \cup {"item_id", "candidates", "category"})
  /\ not_null(row, texts)
  /\ nonblank(row, texts \cup {"candidates"})
  /\ among(row, "category",
           {"unknown", "conflict", "reference_missing", "alternative",
            "condition_missing", "inherit_candidate"})

source_inventory_entries(row) ==
  LET given == {"document_id", "position", "excerpt", "seq", "status"} IN
  /\ Fit(row, given \cup {"source_no", "status_detail", "basis"})
  /\ not_null(row, given)
  /\ nonblank(row, {"position", "excerpt", "source_no", "status_detail",
                    "basis"})
  /\ positive(row, "seq")
  /\ among(row, "status", {"mapped", "split", "excluded", "unmapped"})
  /\ Value(row, "status") = "excluded" => not_null(row, {"basis"})

(* A link is kept with its entry, which its entry_id names. *)
inventory_links(item_id) == item_id # Null

-----------------------------------------------------------------------------
(* The unique indexes of evidence are partial: one for the evidence of     *)
(* items, one for that of the case.                                        *)

uq_evidences_item_field(rows) ==
  UniqueAmong(rows, {k \in DOMAIN rows : Given(rows[k], {"item_id"})},
              {"item_id", "field"})
uq_evidences_header_field(rows) ==
  UniqueAmong(rows, {k \in DOMAIN rows : ~Given(rows[k], {"item_id"})}, {"field"})
=============================================================================
