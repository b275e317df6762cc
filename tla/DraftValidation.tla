--------------------------- MODULE DraftValidation --------------------------
(***************************************************************************)
(* What keeps a draft from being finalized (draft_validation.py).  A draft *)
(* is a record of its tables, each a sequence of rows; an id is the place  *)
(* of the row in its table.  The ends of an item, and the ids of the items *)
(* an entry of the inventory is linked to, stand at the place of the item  *)
(* or of the entry: item_ends[k] are the ends of item k.                   *)
(***************************************************************************)
EXTENDS Columns, TLC

(* The ids of the first rows of a table, and of all of them. *)
Id(k) == ToString(k)
Ids(rows) == {Id(k) : k \in DOMAIN rows}

Present(row, column) ==
  Value(row, column) \notin {Null, "blank", "wide", "empty"}

(* The spellings of targetField that fold to a prefix. *)
field_key(prefix) ==
  CASE prefix = "qty" -> {"qty", "qtyValue"}
    [] prefix = "quotedeadline" -> {"quote_deadline", "quoteDeadlineAt"}

Violation(kind, item, field) == [kind |-> kind, item |-> item, field |-> field]

-----------------------------------------------------------------------------
(* The fields of which a source must be on record. *)

StateOf == [qty |-> "qty_state", od |-> "od_state", wall |-> "wall_state",
            weight |-> "weight_state", grade |-> "grade_state",
            connection |-> "connection_state", length |-> "length_state",
            due |-> "due_state", place |-> "place_state"]
TextOf == [grade |-> "grade", connection |-> "connection",
           length |-> "range_class", due |-> "due_raw", place |-> "place_raw",
           usage_note |-> "usage_note", note |-> "note",
           qty |-> "qty_reference_note"]

required(row) ==
  {"kind"}
  \cup {name \in DOMAIN StateOf : row[StateOf[name]] \in {"tba", "not_applicable"}}
  \cup {name \in DOMAIN ValueOf : row[ValueOf[name]] # Null}
  \cup {name \in DOMAIN TextOf : Present(row, TextOf[name])}

EndField == [end_a |-> [od_value |-> "end_a.od", connection |-> "end_a.connection",
                        thread_end |-> "end_a.thread_end"],
             end_b |-> [od_value |-> "end_b.od", connection |-> "end_b.connection",
                        thread_end |-> "end_b.thread_end"]]

required_of_end(end) ==
  {EndField[end["side"]][column] :
     column \in {c \in {"od_value", "connection", "thread_end"} : Present(end, c)}}

HeaderField == [inquiry_no |-> "inquiry_no", customer_name |-> "customer_name",
                due |-> "due_raw", place |-> "place_raw",
                incoterms |-> "incoterms", quote_deadline |-> "quote_deadline_raw"]
HeaderState == [inquiry_no |-> "inquiry_no_state",
                customer_name |-> "customer_name_state", due |-> "due_state",
                place |-> "place_state", incoterms |-> "incoterms_state"]

required_of_header(header) ==
  {name \in DOMAIN HeaderField :
     \/ Present(header, HeaderField[name])
     \/ /\ name \in DOMAIN HeaderState
        /\ header[HeaderState[name]] \in {"tba", "not_applicable"}}

evidence_fields(draft) ==
  {<<e["item_id"], e["field"]>> :
     e \in {row \in ToSet(draft.evidences) :
              /\ Present(row, "document_id")
              /\ Present(row, "locator")
              /\ Present(row, "quote")}}

(* The unions stand in brackets: TLC and tlapm do not group "UNION a \cup   *)
(* b" alike.                                                               *)
missing_evidence(draft) ==
  LET found == evidence_fields(draft)
      missing(item, names) ==
        {Violation("missing_evidence", item, name) :
           name \in {n \in names : <<item, n>> \notin found}}
  IN
  (UNION {missing(Id(k), required(draft.items[k])) : k \in DOMAIN draft.items})
  \cup (UNION {UNION {missing(Id(k), required_of_end(end)) :
                        end \in ToSet(draft.item_ends[k])} :
                 k \in DOMAIN draft.item_ends})
  \cup (UNION {missing(Null, required_of_header(header)) :
                 header \in ToSet(draft.case_headers)})
  \cup (IF draft.case_headers = <<>>
          THEN {Violation("missing_evidence", Null, "header")} ELSE {})

-----------------------------------------------------------------------------
(* The other conditions on items, questions and the inventory. *)

missing_source_no(draft) ==
  {Violation("missing_source_no", Id(k), "source_no") :
     k \in {j \in DOMAIN draft.items : ~Present(draft.items[j], "source_no")}}

Grouped(draft, group) ==
  {k \in DOMAIN draft.items : Value(draft.items[k], "group_code") = group}

orphan_candidate(draft) ==
  {Violation("orphan_candidate", Id(k), "group_code") :
     k \in {j \in DOMAIN draft.items :
              LET group == Value(draft.items[j], "group_code") IN
              group # Null /\ Cardinality(Grouped(draft, group)) < 2}}

missing_unit(draft) ==
  (UNION {{Violation("missing_unit", Id(k), name) :
             name \in {n \in DOMAIN ValueOf :
                         /\ draft.items[k][ValueOf[n]] # Null
                         /\ ~Present(draft.items[k], UnitOf[n])}} :
            k \in DOMAIN draft.items})
  \cup (UNION {{Violation("missing_unit", Id(k), end["side"]) :
                   end \in {e \in ToSet(draft.item_ends[k]) :
                              e["od_value"] # Null /\ ~Present(e, "od_unit")}} :
                 k \in DOMAIN draft.item_ends})

orphan_question_Fault(draft) ==
  {Violation("orphan_question", q["item_id"], q["question_code"]) :
     q \in {row \in ToSet(draft.questions) :
              \/ row["item_id"] \notin Ids(draft.items)
              \/ ~Present(row, "target_field")}}
orphan_question(draft) ==
  {Violation("orphan_question", q["item_id"], q["question_code"]) :
     q \in {row \in ToSet(draft.questions) :
              \/ row["item_id"] \notin Ids(draft.items) \cup {Null}
              \/ ~Present(row, "target_field")}}

missing_question(draft) ==
  {Violation("missing_question", Null, "quote_deadline") :
     header \in {row \in ToSet(draft.case_headers) :
                   /\ Present(row, "quote_deadline_raw")
                   /\ row["quote_deadline_tz_state"] = "missing"
                   /\ \A q \in ToSet(draft.questions) :
                        \/ q["item_id"] # Null
                        \/ q["target_field"] \notin field_key("quotedeadline")}}

unsplit_conflict(draft) ==
  LET ungrouped == {Id(k) : k \in Grouped(draft, Null)} IN
  {Violation("unsplit_conflict", q["item_id"], "qty") :
     q \in {row \in ToSet(draft.questions) :
              /\ row["category"] = "conflict"
              /\ row["item_id"] \in ungrouped
              /\ row["target_field"] \in field_key("qty")}}

excluded_without_basis(draft) ==
  {Violation("excluded_without_basis", Null, entry["position"]) :
     entry \in {row \in ToSet(draft.source_inventory_entries) :
                  row["status"] = "excluded" /\ ~Present(row, "basis")}}

unscanned_range(readable, scanned, excused) ==
  {Violation("unscanned_range", Null, range) :
     range \in (readable \ scanned) \ excused}

(* The rules the contracts of the tools also enforce. *)
Backstops(draft) ==
  missing_source_no(draft) \cup missing_unit(draft) \cup orphan_question(draft)
  \cup excluded_without_basis(draft)

validate_snapshot(draft, readable, scanned, excused) ==
  unscanned_range(readable, scanned, excused)
  \cup missing_evidence(draft) \cup orphan_candidate(draft)
  \cup missing_question(draft) \cup unsplit_conflict(draft)
  \cup Backstops(draft)
=============================================================================
