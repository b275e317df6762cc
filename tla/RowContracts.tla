---------------------------- MODULE RowContracts ----------------------------
(***************************************************************************)
(* The contracts of draft_types.py: what a row must look like as an        *)
(* argument of a tool.                                                     *)
(***************************************************************************)
EXTENDS Columns

CONSTANT Numerals   (* the positive integers that are told apart            *)

ASSUME NumeralsAssumption == Numerals \cap (Unnamed \cup {"0"}) = {}

(* str_strip_whitespace: Unicode blanks, not only the ASCII ones. *)
Strip(value) == CASE value = "padded" -> "text"
                  [] value \in {"blank", "wide"} -> "empty"
                  [] OTHER -> value

Nonblank == Names \cup {"text"}
Number == {"number", "vast"}
Positive == Numerals \cup {"vast"}
State == {"stated", "tba", "not_stated", "not_applicable"}

Default(column) == IF column = "is_inherit_candidate" THEN "false" ELSE Null

(* A payload after the field validators, and whether they all agreed. *)
Parsed(contract, payload) ==
  [column \in DOMAIN contract |->
     IF column \in DOMAIN payload THEN Strip(payload[column]) ELSE Default(column)]
WellTyped(contract, payload) ==
  /\ DOMAIN payload \subseteq DOMAIN contract
  /\ \A column \in DOMAIN contract :
       Parsed(contract, payload)[column] \in contract[column]

-----------------------------------------------------------------------------
(* The contracts of the tools. *)

EndInput ==
  Required({"side"}, {"end_a", "end_b"})
  ++ Optional({"od_value"}, Number)
  ++ Optional({"od_unit", "od_raw", "connection"}, Nonblank)
  ++ Optional({"thread_end"}, {"BOX", "PIN"})

unit_required(end) == end["od_value"] # Null => end["od_unit"] # Null

ItemInput ==
  Required({"row_code", "source_no", "kind", "kind_raw", "grade_raw", "qty_raw"},
           Nonblank)
  ++ Required({"seq"}, Positive)
  ++ Required({"od_state", "wall_state", "weight_state", "grade_state",
               "connection_state", "length_state", "due_state", "place_state"},
              State)
  ++ Required({"qty_state"}, {"numeric", "tba", "not_stated", "not_applicable"})
  ++ Required({"is_inherit_candidate"}, {"true", "false"})
  ++ Optional({"od_value", "wall_value", "weight_value", "length_value",
               "qty_value"}, Number)
  ++ Optional({"usage_note", "od_unit", "od_raw", "wall_unit", "wall_raw",
               "weight_unit", "weight_raw", "grade", "connection",
               "connection_raw", "range_class", "length_unit", "length_raw",
               "qty_unit", "qty_reference_note", "due_raw", "place_raw", "note",
               "group_code", "candidate_label"}, Nonblank)

(* For each state the columns it is about. *)
StatedBy_Fault ==
  [od_state |-> {"od_value"}, wall_state |-> {"wall_value"},
   weight_state |-> {"weight_value"}, grade_state |-> {"grade"},
   connection_state |-> {"connection"}, length_state |-> {"length_value"},
   due_state |-> {"due_raw"}, place_state |-> {"place_raw"}]
StatedBy == [od_state |-> {"od_value"}, wall_state |-> {"wall_value"},
             weight_state |-> {"weight_value"}, grade_state |-> {"grade"},
             connection_state |-> {"connection"},
             length_state |-> {"range_class", "length_value"},
             due_state |-> {"due_raw"}, place_state |-> {"place_raw"}]

(* The columns consistency_errors complains of, all at once. *)
consistency_errors(row, ends) ==
  {column \in {"qty_state"} :
     (row["qty_state"] = "numeric") # (row["qty_value"] # Null)}
  \cup {column \in {"qty_unit"} :
          row["qty_state"] = "numeric" /\ row["qty_unit"] = Null}
  \cup {UnitOf[name] : name \in {measure \in {"od", "wall", "weight", "length"} :
          row[ValueOf[measure]] # Null /\ row[UnitOf[measure]] = Null}}
  \cup {state \in DOMAIN StatedBy :
          (row[state] = "stated") # Given(row, StatedBy[state])}
  \cup {column \in {"group_code"} :
          row["candidate_label"] # Null /\ row["group_code"] = Null}
  \cup {column \in {"ends"} :
          ~Unique(ends, {"side"})}

HeaderInput ==
  Optional({"inquiry_no", "customer_name", "due_raw", "place_raw", "incoterms",
            "quote_deadline_raw"}, Nonblank)
  ++ Required({"inquiry_no_state", "customer_name_state"}, {"stated", "not_stated"})
  ++ Required({"due_state"}, {"stated", "tba", "not_stated"})
  ++ Required({"place_state", "incoterms_state"},
              {"stated", "not_stated", "not_applicable"})
  ++ Optional({"due_granularity"},
              {"date", "month", "quarter", "period", "month_end", "unknown"})
  ++ Optional({"due_basis"}, {"shipment", "arrival", "unknown"})
  ++ Optional({"quote_deadline_at"}, {"zoned", "naive"})
  ++ Required({"quote_deadline_tz_state"}, {"stated", "missing"})

HeaderStates == [inquiry_no_state |-> "inquiry_no",
                 customer_name_state |-> "customer_name", due_state |-> "due_raw",
                 place_state |-> "place_raw", incoterms_state |-> "incoterms"]

consistent_values(row) ==
  /\ \A state \in DOMAIN HeaderStates :
       (row[state] = "stated") <=> (row[HeaderStates[state]] # Null)
  /\ row["quote_deadline_at"] # Null =>
       /\ row["quote_deadline_tz_state"] = "stated"
       /\ row["quote_deadline_raw"] # Null
       /\ row["quote_deadline_at"] = "zoned"

EvidenceInput ==
  Required({"field", "raw_value", "adopted_value", "locator", "quote"}, Nonblank)
  ++ Required({"document_id"}, Positive)
  ++ Optional({"item_id"}, Positive)
  ++ Optional({"applied_condition", "change_reason", "prior_value"}, Nonblank)

QuestionInput ==
  Required({"question_code", "target_field", "reason"}, Nonblank)
  ++ Optional({"candidates"}, Nonblank)
  ++ Optional({"item_id"}, Positive)
  ++ Optional({"category"}, {"unknown", "conflict", "reference_missing",
                             "alternative", "condition_missing",
                             "inherit_candidate"})

InventoryInput ==
  Required({"position", "excerpt"}, Nonblank)
  ++ Required({"seq", "document_id"}, Positive)
  ++ Required({"status"}, {"mapped", "split", "excluded", "unmapped"})
  ++ Optional({"source_no", "status_detail", "basis"}, Nonblank)

valid_mapping_Fault(row, item_ids) ==
  LET count == Len(item_ids) IN
  /\ row["status"] = "excluded" => row["basis"] # Null
  /\ ToSet(item_ids) \subseteq Positive
  /\ IsInjective(item_ids)
  /\ row["status"] = "mapped" => count = 1
  /\ row["status"] = "split" => count >= 2
valid_mapping(row, item_ids) ==
  LET count == Len(item_ids) IN
  /\ row["status"] = "excluded" => row["basis"] # Null
  /\ ToSet(item_ids) \subseteq Positive
  /\ IsInjective(item_ids)
  /\ row["status"] \in {"excluded", "unmapped"} => count = 0
  /\ row["status"] = "mapped" => count = 1
  /\ row["status"] = "split" => count >= 2
=============================================================================
