------------------------ MODULE DraftArtifactsProofs ------------------------
(***************************************************************************)
(* Theorems about DraftArtifacts: the contracts of the tools, the two      *)
(* schemas, the validation and the reconciliation agree.                   *)
(***************************************************************************)
EXTENDS DraftArtifacts, FiniteSetTheorems, TLAPS

-----------------------------------------------------------------------------
(* The contracts, column by column.                                        *)

Typed(contract, row) ==
  /\ DOMAIN row = DOMAIN contract
  /\ \A column \in DOMAIN contract : row[column] \in contract[column]

(* A well-typed payload parses to a row of the contract's types. *)
LEMMA ParsedTyped ==
  ASSUME NEW contract, NEW payload, WellTyped(contract, payload)
  PROVE  Typed(contract, Parsed(contract, payload))
  BY DEF WellTyped, Typed, Parsed

(* No text that passed a contract is blank, and none is NULL. *)
LEMMA NonblankText ==
  Nonblank \cap {Null, "blank", "wide", "empty", "padded", "vast"} = {}
  BY NamesAssumption DEF Nonblank, Unnamed, Null

(* Nor is a positive integer any of these, or zero.                        *)
LEMMA PositiveNumber ==
  /\ Positive \cap {Null, "blank", "wide", "empty", "padded", "0"} = {}
  /\ Numerals \subseteq Positive /\ "vast" \notin Numerals
  BY NumeralsAssumption DEF Positive, Unnamed, Null

(* The columns of an end's contract and the values of each. *)
LEMMA EndColumns ==
  /\ DOMAIN EndInput = {"side", "od_value", "od_unit", "od_raw", "connection",
                        "thread_end"}
  /\ EndInput["side"] = {"end_a", "end_b"}
  /\ EndInput["od_value"] = Number \cup {Null}
  /\ \A c \in {"od_unit", "od_raw", "connection"} :
       EndInput[c] = Nonblank \cup {Null}
  /\ EndInput["thread_end"] = {"BOX", "PIN"} \cup {Null}
  BY DEF EndInput, ++, Required, Optional

Texts == {"row_code", "source_no", "kind", "kind_raw", "grade_raw", "qty_raw"}
Notes == {"usage_note", "od_unit", "od_raw", "wall_unit", "wall_raw",
          "weight_unit", "weight_raw", "grade", "connection",
          "connection_raw", "range_class", "length_unit", "length_raw",
          "qty_unit", "qty_reference_note", "due_raw", "place_raw", "note",
          "group_code", "candidate_label"}
Measured == {"od_value", "wall_value", "weight_value", "length_value", "qty_value"}
Stated == {"od_state", "wall_state", "weight_state", "grade_state",
           "connection_state", "length_state", "due_state", "place_state"}

LEMMA OptionalIsRequired ==
  ASSUME NEW columns, NEW values
  PROVE  Optional(columns, values) = Required(columns, values \cup {Null})
  BY DEF Required, Optional

LEMMA ItemColumns ==
  /\ DOMAIN ItemInput = Texts \cup Notes \cup Measured \cup Stated
                        \cup {"seq", "qty_state", "is_inherit_candidate"}
  /\ \A c \in Texts : ItemInput[c] = Nonblank
  /\ \A c \in Notes : ItemInput[c] = Nonblank \cup {Null}
  /\ \A c \in Measured : ItemInput[c] = Number \cup {Null}
  /\ \A c \in Stated : ItemInput[c] = State
  /\ ItemInput["seq"] = Positive
  /\ ItemInput["qty_state"] = {"numeric", "tba", "not_stated", "not_applicable"}
  /\ ItemInput["is_inherit_candidate"] = {"true", "false"}
<1> DEFINE Qty == {"numeric", "tba", "not_stated", "not_applicable"}
           A == Required(Texts, Nonblank)
           B == A ++ Required({"seq"}, Positive)
           C == B ++ Required(Stated, State)
           D == C ++ Required({"qty_state"}, Qty)
           E == D ++ Required({"is_inherit_candidate"}, {"true", "false"})
           F == E ++ Required(Measured, Number \cup {Null})
           G == F ++ Required(Notes, Nonblank \cup {Null})
<1>1. ItemInput = G
  <2>1. ItemInput = E ++ Optional(Measured, Number) ++ Optional(Notes, Nonblank)
    BY Zenon DEF ItemInput, Texts, Notes, Measured, Stated
  <2> QED
    BY Zenon, <2>1, OptionalIsRequired
<1> HIDE DEF Qty
<1>2. DOMAIN A = Texts /\ \A c \in Texts : A[c] = Nonblank
  BY DEF Required
<1> HIDE DEF A
<1>3. /\ DOMAIN B = Texts \cup {"seq"} /\ B["seq"] = Positive
      /\ \A c \in DOMAIN A : B[c] = A[c]
  <2>1. {"seq"} \cap DOMAIN A = {}
    BY <1>2 DEF Texts
  <2> QED
    BY <1>2, <2>1 DEF ++, Required
<1> HIDE DEF B
<1>4. /\ DOMAIN C = DOMAIN B \cup Stated
      /\ \A c \in Stated : C[c] = State
      /\ \A c \in DOMAIN B : C[c] = B[c]
  <2>1. Stated \cap DOMAIN B = {}
    BY <1>3 DEF Stated, Texts
  <2> QED
    BY <2>1 DEF ++, Required
<1> HIDE DEF C
<1>5. /\ DOMAIN D = DOMAIN C \cup {"qty_state"} /\ D["qty_state"] = Qty
      /\ \A c \in DOMAIN C : D[c] = C[c]
  <2>1. {"qty_state"} \cap DOMAIN C = {}
    BY <1>3, <1>4 DEF Stated, Texts
  <2> QED
    BY <2>1 DEF ++, Required
<1> HIDE DEF D
<1>6. /\ DOMAIN E = DOMAIN D \cup {"is_inherit_candidate"}
      /\ E["is_inherit_candidate"] = {"true", "false"}
      /\ \A c \in DOMAIN D : E[c] = D[c]
  <2>1. {"is_inherit_candidate"} \cap DOMAIN D = {}
    BY <1>3, <1>4, <1>5 DEF Stated, Texts
  <2> QED
    BY <2>1 DEF ++, Required
<1> HIDE DEF E
<1>7. /\ DOMAIN F = DOMAIN E \cup Measured
      /\ \A c \in Measured : F[c] = Number \cup {Null}
      /\ \A c \in DOMAIN E : F[c] = E[c]
  <2>1. Measured \cap DOMAIN E = {}
    BY <1>3, <1>4, <1>5, <1>6 DEF Stated, Texts, Measured
  <2> QED
    BY <2>1 DEF ++, Required
<1> HIDE DEF F
<1>8. /\ DOMAIN G = DOMAIN F \cup Notes
      /\ \A c \in Notes : G[c] = Nonblank \cup {Null}
      /\ \A c \in DOMAIN F : G[c] = F[c]
  <2>1. Notes \cap DOMAIN F = {}
    BY <1>3, <1>4, <1>5, <1>6, <1>7 DEF Stated, Texts, Measured, Notes
  <2> QED
    BY <2>1 DEF ++, Required
<1> HIDE DEF G
<1> QED
  BY <1>1, <1>2, <1>3, <1>4, <1>5, <1>6, <1>7, <1>8 DEF Qty

EvidenceTexts == {"field", "raw_value", "adopted_value", "locator", "quote"}
EvidenceNotes == {"applied_condition", "change_reason", "prior_value"}

LEMMA EvidenceColumns ==
  /\ DOMAIN EvidenceInput = EvidenceTexts \cup EvidenceNotes
                            \cup {"document_id", "item_id"}
  /\ \A c \in EvidenceTexts : EvidenceInput[c] = Nonblank
  /\ \A c \in EvidenceNotes : EvidenceInput[c] = Nonblank \cup {Null}
  /\ EvidenceInput["document_id"] = Positive
  /\ EvidenceInput["item_id"] = Positive \cup {Null}
  BY DEF EvidenceInput, ++, Required, Optional, EvidenceTexts, EvidenceNotes

LEMMA QuestionColumns ==
  /\ DOMAIN QuestionInput = {"question_code", "target_field", "reason",
                             "candidates", "item_id", "category"}
  /\ \A c \in {"question_code", "target_field", "reason"} :
       QuestionInput[c] = Nonblank
  /\ QuestionInput["candidates"] = Nonblank \cup {Null}
  /\ QuestionInput["item_id"] = Positive \cup {Null}
  /\ QuestionInput["category"] =
       {"unknown", "conflict", "reference_missing", "alternative",
        "condition_missing", "inherit_candidate"} \cup {Null}
  BY DEF QuestionInput, ++, Required, Optional

LEMMA InventoryColumns ==
  /\ DOMAIN InventoryInput = {"position", "excerpt", "seq", "document_id",
                              "status", "source_no", "status_detail", "basis"}
  /\ \A c \in {"position", "excerpt"} : InventoryInput[c] = Nonblank
  /\ \A c \in {"source_no", "status_detail", "basis"} :
       InventoryInput[c] = Nonblank \cup {Null}
  /\ \A c \in {"seq", "document_id"} : InventoryInput[c] = Positive
  /\ InventoryInput["status"] = {"mapped", "split", "excluded", "unmapped"}
  BY DEF InventoryInput, ++, Required, Optional

HeaderTexts == {"inquiry_no", "customer_name", "due_raw", "place_raw",
                "incoterms", "quote_deadline_raw"}

LEMMA HeaderColumns ==
  /\ DOMAIN HeaderInput =
       HeaderTexts \cup {"inquiry_no_state", "customer_name_state", "due_state",
          "place_state", "incoterms_state", "due_granularity", "due_basis",
          "quote_deadline_at", "quote_deadline_tz_state"}
  /\ \A c \in HeaderTexts : HeaderInput[c] = Nonblank \cup {Null}
  /\ \A c \in {"inquiry_no_state", "customer_name_state"} :
       HeaderInput[c] = {"stated", "not_stated"}
  /\ HeaderInput["due_state"] = {"stated", "tba", "not_stated"}
  /\ \A c \in {"place_state", "incoterms_state"} :
       HeaderInput[c] = {"stated", "not_stated", "not_applicable"}
  /\ HeaderInput["due_granularity"] =
       {"date", "month", "quarter", "period", "month_end", "unknown"} \cup {Null}
  /\ HeaderInput["due_basis"] = {"shipment", "arrival", "unknown"} \cup {Null}
  /\ HeaderInput["quote_deadline_at"] = {"zoned", "naive"} \cup {Null}
  /\ HeaderInput["quote_deadline_tz_state"] = {"stated", "missing"}
<1> DEFINE A == Optional(HeaderTexts, Nonblank)
                ++ Required({"inquiry_no_state", "customer_name_state"},
                            {"stated", "not_stated"})
                ++ Required({"due_state"}, {"stated", "tba", "not_stated"})
                ++ Required({"place_state", "incoterms_state"},
                            {"stated", "not_stated", "not_applicable"})
           B == A
                ++ Optional({"due_granularity"},
                            {"date", "month", "quarter", "period", "month_end",
                             "unknown"})
                ++ Optional({"due_basis"}, {"shipment", "arrival", "unknown"})
                ++ Optional({"quote_deadline_at"}, {"zoned", "naive"})
                ++ Required({"quote_deadline_tz_state"}, {"stated", "missing"})
<1>1. HeaderInput = B
  BY Zenon DEF HeaderInput, HeaderTexts
<1>2. /\ DOMAIN A = HeaderTexts \cup {"inquiry_no_state", "customer_name_state",
                        "due_state", "place_state", "incoterms_state"}
      /\ \A c \in HeaderTexts : A[c] = Nonblank \cup {Null}
      /\ \A c \in {"inquiry_no_state", "customer_name_state"} :
           A[c] = {"stated", "not_stated"}
      /\ A["due_state"] = {"stated", "tba", "not_stated"}
      /\ \A c \in {"place_state", "incoterms_state"} :
           A[c] = {"stated", "not_stated", "not_applicable"}
  BY DEF HeaderTexts, ++, Required, Optional
<1> HIDE DEF A
<1>3. /\ DOMAIN B = DOMAIN A \cup {"due_granularity", "due_basis",
                        "quote_deadline_at", "quote_deadline_tz_state"}
      /\ \A c \in DOMAIN A : B[c] = A[c]
  BY DEF ++, Required, Optional
<1>4. {"due_granularity", "due_basis", "quote_deadline_at",
       "quote_deadline_tz_state"} \cap DOMAIN A = {}
  BY <1>2 DEF HeaderTexts
<1>5. /\ B["due_granularity"] =
           {"date", "month", "quarter", "period", "month_end", "unknown"} \cup {Null}
      /\ B["due_basis"] = {"shipment", "arrival", "unknown"} \cup {Null}
      /\ B["quote_deadline_at"] = {"zoned", "naive"} \cup {Null}
      /\ B["quote_deadline_tz_state"] = {"stated", "missing"}
  BY <1>4 DEF ++, Required, Optional
<1> HIDE DEF B
<1> QED
  BY <1>1, <1>2, <1>3, <1>5

-----------------------------------------------------------------------------
(* A row its contract accepts is one that both schemas take.               *)

(* The columns of a typed row: each has the value the row gives it.        *)
LEMMA TypedValue ==
  ASSUME NEW contract, NEW row, Typed(contract, row),
         NEW column \in DOMAIN contract
  PROVE  Value(row, column) = row[column] /\ row[column] \in contract[column]
  BY DEF Typed, Value

(* Null is none of the values of a required column. *)
LEMMA NotNull ==
  /\ Null \notin Nonblank /\ Null \notin Positive /\ Null \notin Number
  /\ Null \notin State /\ "0" \notin Positive
  BY NonblankText, PositiveNumber DEF Null, Number, State

(* Both schemas speak of columns in the same words. *)
LEMMA SameColumns ==
  /\ \A row, column : Model!Value(row, column) = Value(row, column)
  /\ \A row, columns : Model!Given(row, columns) <=> Given(row, columns)
  /\ \A row, columns :
       Model!Fit(row, columns) <=> Fit(row, columns)
  /\ \A row, columns :
       Model!not_null(row, columns) <=> not_null(row, columns)
  /\ \A row, columns :
       Model!nonblank(row, columns) <=> nonblank(row, columns)
  /\ \A row, column, values :
       Model!among(row, column, values) <=> among(row, column, values)
  /\ \A row, column :
       Model!positive(row, column) <=> positive(row, column)
  /\ \A row, state, stated, columns :
       Model!pair(row, state, stated, columns) <=> pair(row, state, stated, columns)
  /\ \A row, column, other :
       Model!needs(row, column, other) <=> needs(row, column, other)
  /\ \A row, column : Migrated!Value(row, column) = Value(row, column)
  /\ \A row, columns : Migrated!Given(row, columns) <=> Given(row, columns)
  /\ \A row, columns :
       Migrated!Fit(row, columns) <=> Fit(row, columns)
  /\ \A row, columns :
       Migrated!not_null(row, columns) <=> not_null(row, columns)
  /\ \A row, columns :
       Migrated!nonblank(row, columns) <=> nonblank(row, columns)
  /\ \A row, column, values :
       Migrated!among(row, column, values) <=> among(row, column, values)
  /\ \A row, column :
       Migrated!positive(row, column) <=> positive(row, column)
  /\ \A row, state, stated, columns :
       Migrated!pair(row, state, stated, columns) <=> pair(row, state, stated, columns)
  /\ \A row, column, other :
       Migrated!needs(row, column, other) <=> needs(row, column, other)
<1>1. /\ \A row, column : Model!Value(row, column) = Value(row, column)
      /\ Model!Null = Null
  BY DEF Value, Model!Value, Null, Model!Null
<1>2. /\ \A row, columns : Model!Given(row, columns) <=> Given(row, columns)
      /\ \A row, columns : Model!Fit(row, columns) <=> Fit(row, columns)
      /\ \A row, columns : Model!not_null(row, columns) <=> not_null(row, columns)
      /\ \A row, columns : Model!nonblank(row, columns) <=> nonblank(row, columns)
      /\ \A row, column, values :
           Model!among(row, column, values) <=> among(row, column, values)
      /\ \A row, column : Model!positive(row, column) <=> positive(row, column)
  BY <1>1 DEF Given, Model!Given, Fit, Model!Fit, not_null, Model!not_null, nonblank, Model!nonblank, among, Model!among, positive, Model!positive
<1>3. /\ \A row, column : Migrated!Value(row, column) = Value(row, column)
      /\ Migrated!Null = Null
  BY DEF Value, Migrated!Value, Null, Migrated!Null
<1>4. /\ \A row, columns : Migrated!Given(row, columns) <=> Given(row, columns)
      /\ \A row, columns : Migrated!Fit(row, columns) <=> Fit(row, columns)
      /\ \A row, columns : Migrated!not_null(row, columns) <=> not_null(row, columns)
      /\ \A row, columns : Migrated!nonblank(row, columns) <=> nonblank(row, columns)
      /\ \A row, column, values :
           Migrated!among(row, column, values) <=> among(row, column, values)
      /\ \A row, column : Migrated!positive(row, column) <=> positive(row, column)
  BY <1>3 DEF Given, Migrated!Given, Fit, Migrated!Fit, not_null, Migrated!not_null, nonblank, Migrated!nonblank, among, Migrated!among, positive, Migrated!positive
<1>5. /\ \A row, state, stated, columns :
           Model!pair(row, state, stated, columns) <=> pair(row, state, stated, columns)
      /\ \A row, column, other :
           Model!needs(row, column, other) <=> needs(row, column, other)
  BY Zenon, <1>1, <1>2 DEF pair, needs, Model!pair, Model!needs
<1>6. /\ \A row, state, stated, columns :
           Migrated!pair(row, state, stated, columns) <=> pair(row, state, stated, columns)
      /\ \A row, column, other :
           Migrated!needs(row, column, other) <=> needs(row, column, other)
  BY Zenon, <1>3, <1>4 DEF pair, needs, Migrated!pair, Migrated!needs
<1> QED
  BY Zenon, <1>1, <1>2, <1>3, <1>4, <1>5, <1>6

(* What a contract says of the columns of its rows. *)
LEMMA TypedColumns ==
  ASSUME NEW contract, NEW row, Typed(contract, row)
  PROVE  /\ \A c \in DOMAIN contract : Value(row, c) \in contract[c]
         /\ \A c : c \notin DOMAIN contract => Value(row, c) = Null
         /\ \A columns : DOMAIN contract \subseteq columns => Fit(row, columns)
  BY DEF Typed, Value, Fit

LEMMA EndAgrees ==
  ASSUME NEW row, Typed(EndInput, row), unit_required(row)
  PROVE  Model!ItemEnd(row) /\ Migrated!item_ends(row)
<1>1. DOMAIN row = DOMAIN EndInput
  BY DEF Typed
<1>2. /\ Value(row, "side") \in {"end_a", "end_b"}
      /\ Value(row, "thread_end") \in {"BOX", "PIN", Null}
      /\ \A c \in {"od_unit", "od_raw", "connection"} :
           Value(row, c) \in Nonblank \cup {Null}
      /\ Value(row, "od_value") # Null => Value(row, "od_unit") # Null
  BY EndColumns DEF Typed, Value, unit_required
<1>3. Fit(row, {"side", "od_value", "od_unit", "od_raw", "connection", "thread_end"})
  BY <1>1, EndColumns DEF Fit
<1>4. /\ not_null(row, {"side"}) /\ among(row, "side", {"end_a", "end_b"})
      /\ among(row, "thread_end", {"BOX", "PIN"})
  BY <1>2 DEF not_null, among, Null
<1>5. /\ nonblank(row, {"od_unit", "od_raw", "connection"})
      /\ needs(row, "od_value", "od_unit")
  BY <1>2, NonblankText DEF nonblank, needs, Given, Null
<1> QED
  BY Zenon, SameColumns, <1>3, <1>4, <1>5 DEF Model!ItemEnd, Migrated!item_ends

LEMMA EvidenceAgrees ==
  ASSUME NEW row, Typed(EvidenceInput, row)
  PROVE  Model!Evidence(row) /\ Migrated!evidences(row)
<1> DEFINE nullable == {"applied_condition", "conversion_note", "change_reason",
                        "prior_value"}
<1>1. /\ \A c \in EvidenceTexts : Value(row, c) \in Nonblank
      /\ \A c \in EvidenceNotes : Value(row, c) \in Nonblank \cup {Null}
      /\ Value(row, "document_id") \in Positive
      /\ Value(row, "conversion_note") = Null
  BY TypedColumns, EvidenceColumns DEF EvidenceTexts, EvidenceNotes
<1>2. Fit(row, {"item_id", "document_id"} \cup EvidenceTexts \cup nullable)
  BY TypedColumns, EvidenceColumns DEF EvidenceNotes
<1>3. not_null(row, {"document_id"} \cup EvidenceTexts)
  BY <1>1, NotNull DEF not_null
<1>4. nonblank(row, EvidenceTexts \cup nullable)
  BY <1>1, NonblankText DEF nonblank, EvidenceNotes, Null
<1>5. among(row, "conversion_note", {"unconverted"})
  BY <1>1 DEF among
<1>6. Model!Evidence(row)
  BY Zenon, SameColumns, <1>2, <1>3, <1>4, <1>5
     DEF Model!Evidence, Model!EvidenceTexts, Model!EvidenceNotes, EvidenceTexts
<1>7. Migrated!evidences(row)
  <2>1. EvidenceTexts \cup nullable \cup {"item_id", "document_id"}
          = {"item_id", "document_id"} \cup EvidenceTexts \cup nullable
    OBVIOUS
  <2>2. EvidenceTexts \cup {"document_id"} = {"document_id"} \cup EvidenceTexts
    OBVIOUS
  <2> QED
    BY Zenon, SameColumns, <1>2, <1>3, <1>4, <1>5, <2>1, <2>2
       DEF Migrated!evidences, EvidenceTexts
<1> QED
  BY <1>6, <1>7

LEMMA QuestionAgrees ==
  ASSUME NEW row, Typed(QuestionInput, row)
  PROVE  Model!Question(row) /\ Migrated!questions(row)
<1> DEFINE texts == {"question_code", "target_field", "reason"}
<1>1. /\ \A c \in texts : Value(row, c) \in Nonblank
      /\ Value(row, "candidates") \in Nonblank \cup {Null}
      /\ Value(row, "category") \in
           {"unknown", "conflict", "reference_missing", "alternative",
            "condition_missing", "inherit_candidate"} \cup {Null}
  BY TypedColumns, QuestionColumns
<1>2. /\ Fit(row, {"item_id", "question_code", "target_field", "reason",
                   "candidates", "category"})
      /\ Fit(row, texts \cup {"item_id", "candidates", "category"})
  BY TypedColumns, QuestionColumns
<1>3. not_null(row, texts)
  BY <1>1, NotNull DEF not_null
<1>4. /\ nonblank(row, {"question_code", "target_field", "reason", "candidates"})
      /\ nonblank(row, texts \cup {"candidates"})
  BY <1>1, NonblankText DEF nonblank, Null
<1>5. among(row, "category",
            {"unknown", "conflict", "reference_missing", "alternative",
             "condition_missing", "inherit_candidate"})
  BY <1>1 DEF among
<1> QED
  BY Zenon, SameColumns, <1>2, <1>3, <1>4, <1>5
     DEF Model!Question, Migrated!questions

LEMMA EntryAgrees ==
  ASSUME NEW row, Typed(InventoryInput, row),
         row["status"] = "excluded" => row["basis"] # Null
  PROVE  Model!InventoryEntry(row) /\ Migrated!source_inventory_entries(row)
<1> DEFINE given == {"document_id", "position", "excerpt", "seq", "status"}
<1>1. /\ \A c \in {"position", "excerpt"} : Value(row, c) \in Nonblank
      /\ \A c \in {"source_no", "status_detail", "basis"} :
           Value(row, c) \in Nonblank \cup {Null}
      /\ Value(row, "seq") \in Positive /\ Value(row, "document_id") \in Positive
      /\ Value(row, "status") \in {"mapped", "split", "excluded", "unmapped"}
  BY TypedColumns, InventoryColumns
<1>2. /\ Fit(row, {"document_id", "position", "excerpt", "source_no",
                   "status_detail", "basis", "seq", "status"})
      /\ Fit(row, given \cup {"source_no", "status_detail", "basis"})
  BY TypedColumns, InventoryColumns
<1>3. not_null(row, given)
  BY <1>1, NotNull DEF not_null, Null
<1>4. nonblank(row, {"position", "excerpt", "source_no", "status_detail", "basis"})
  BY <1>1, NonblankText DEF nonblank, Null
<1>5. /\ positive(row, "seq")
      /\ among(row, "status", {"mapped", "split", "excluded", "unmapped"})
  BY <1>1, NotNull DEF among, positive
<1>6. Value(row, "status") = "excluded" =>
        Given(row, {"basis"}) /\ not_null(row, {"basis"})
  BY InventoryColumns DEF Typed, Value, Given, not_null
<1>7. Model!InventoryEntry(row)
  <2>1. not_null(row, {"document_id", "position", "excerpt", "seq", "status"})
    BY <1>3
  <2> HIDE DEF given
  <2> QED
    BY Zenon, SameColumns, <1>2, <2>1, <1>4, <1>5, <1>6 DEF Model!InventoryEntry
<1>8. Migrated!source_inventory_entries(row)
  BY Zenon, SameColumns, <1>2, <1>3, <1>4, <1>5, <1>6
     DEF Migrated!source_inventory_entries
<1> QED
  BY <1>7, <1>8

LEMMA HeaderAgrees ==
  ASSUME NEW row, Typed(HeaderInput, row), consistent_values(row)
  PROVE  Model!CaseHeader(row) /\ Migrated!case_headers(row)
<1> DEFINE states == {"inquiry_no_state", "customer_name_state", "due_state",
                      "place_state", "incoterms_state", "quote_deadline_tz_state"}
           texts == {"inquiry_no", "customer_name", "due_raw", "place_raw",
                     "incoterms", "quote_deadline_raw"}
           granularities == {"date", "month", "quarter", "period", "month_end",
                             "unknown"}
<1>1. /\ \A c \in texts : Value(row, c) \in Nonblank \cup {Null}
      /\ \A c \in {"inquiry_no_state", "customer_name_state"} :
           Value(row, c) \in {"stated", "not_stated"}
      /\ Value(row, "due_state") \in {"stated", "tba", "not_stated"}
      /\ \A c \in {"place_state", "incoterms_state"} :
           Value(row, c) \in {"stated", "not_stated", "not_applicable"}
      /\ Value(row, "due_granularity") \in granularities \cup {Null}
      /\ Value(row, "due_basis") \in {"shipment", "arrival", "unknown"} \cup {Null}
      /\ Value(row, "quote_deadline_tz_state") \in {"stated", "missing"}
  BY TypedColumns, HeaderColumns DEF HeaderTexts
<1>2. /\ \A c \in DOMAIN HeaderInput : Value(row, c) = row[c]
      /\ Value(row, "quote_deadline_at") # Null =>
           /\ Value(row, "quote_deadline_tz_state") = "stated"
           /\ Value(row, "quote_deadline_raw") # Null
  <2>1. \A c \in DOMAIN HeaderInput : Value(row, c) = row[c]
    BY DEF Typed, Value
  <2> QED
    BY <2>1, HeaderColumns DEF consistent_values, HeaderTexts
<1>3. \A state \in DOMAIN HeaderStates :
        pair(row, state, "stated", {HeaderStates[state]})
  <2> SUFFICES ASSUME NEW state \in DOMAIN HeaderStates
               PROVE  pair(row, state, "stated", {HeaderStates[state]})
    OBVIOUS
  <2>1. (row[state] = "stated") <=> (row[HeaderStates[state]] # Null)
    BY DEF consistent_values
  <2>2. state \in DOMAIN HeaderInput /\ HeaderStates[state] \in DOMAIN HeaderInput
    BY HeaderColumns DEF HeaderStates, HeaderTexts
  <2> QED
    BY <1>2, <2>1, <2>2 DEF pair, Given
<1>4. /\ pair(row, "inquiry_no_state", "stated", {"inquiry_no"})
      /\ pair(row, "customer_name_state", "stated", {"customer_name"})
      /\ pair(row, "due_state", "stated", {"due_raw"})
      /\ pair(row, "place_state", "stated", {"place_raw"})
      /\ pair(row, "incoterms_state", "stated", {"incoterms"})
  BY <1>3 DEF HeaderStates
<1>5. DOMAIN HeaderInput = texts \cup states
        \cup {"due_granularity", "due_basis", "quote_deadline_at"}
  BY HeaderColumns DEF HeaderTexts
<1>6. Fit(row, texts \cup states
               \cup {"due_granularity", "due_basis", "quote_deadline_at"})
  BY <1>5, TypedColumns
<1>7. not_null(row, states)
  BY <1>1 DEF not_null, Null
<1>8. nonblank(row, texts)
  BY <1>1, NonblankText DEF nonblank, Null
<1>9. /\ \A state \in {"inquiry_no_state", "customer_name_state"} :
           among(row, state, {"stated", "not_stated"})
      /\ among(row, "due_state", {"stated", "tba", "not_stated"})
      /\ \A state \in {"place_state", "incoterms_state"} :
           among(row, state, {"stated", "not_stated", "not_applicable"})
      /\ among(row, "due_granularity", granularities)
      /\ among(row, "due_basis", {"shipment", "arrival", "unknown"})
      /\ among(row, "quote_deadline_tz_state", {"stated", "missing"})
  BY <1>1 DEF among
<1>10. /\ needs(row, "quote_deadline_at", "quote_deadline_raw")
       /\ Given(row, {"quote_deadline_at"}) =>
            /\ Value(row, "quote_deadline_tz_state") = "stated"
            /\ Given(row, {"quote_deadline_raw"})
  BY <1>2 DEF needs, Given
<1>11. Model!CaseHeader(row)
  BY Zenon, SameColumns, <1>4, <1>6, <1>7, <1>8, <1>9, <1>10
     DEF Model!CaseHeader, Model!HeaderStates, Model!HeaderTexts
<1>12. Migrated!case_headers(row)
  <2> DEFINE stated == [inquiry_no_state |-> "inquiry_no",
                 customer_name_state |-> "customer_name",
                 due_state |-> "due_raw", place_state |-> "place_raw",
                 incoterms_state |-> "incoterms"]
      allowed == [inquiry_no_state |-> {"stated", "not_stated"},
                  customer_name_state |-> {"stated", "not_stated"},
                  due_state |-> {"stated", "tba", "not_stated"},
                  place_state |-> {"stated", "not_stated", "not_applicable"},
                  incoterms_state |-> {"stated", "not_stated", "not_applicable"},
                  due_granularity |-> {"date", "month", "quarter", "period",
                                       "month_end", "unknown"},
                  due_basis |-> {"shipment", "arrival", "unknown"},
                  quote_deadline_tz_state |-> {"stated", "missing"}]
  <2>1. \A column \in DOMAIN allowed : among(row, column, allowed[column])
    BY <1>9
  <2>2. \A state \in DOMAIN stated : pair(row, state, "stated", {stated[state]})
    BY <1>4
  <2>3. Fit(row, texts \cup DOMAIN allowed \cup {"quote_deadline_at"})
    BY <1>5, TypedColumns
  <2> HIDE DEF stated, allowed, texts, states
  <2>4. Migrated!Fit(row, texts \cup DOMAIN allowed \cup {"quote_deadline_at"})
    BY Zenon, SameColumns, <2>3
  <2>5. /\ Migrated!not_null(row, states) /\ Migrated!nonblank(row, texts)
        /\ \A column \in DOMAIN allowed : Migrated!among(row, column, allowed[column])
        /\ \A state \in DOMAIN stated :
             Migrated!pair(row, state, "stated", {stated[state]})
    BY Zenon, SameColumns, <1>7, <1>8, <2>1, <2>2
  <2>6. /\ Migrated!needs(row, "quote_deadline_at", "quote_deadline_raw")
        /\ Migrated!Given(row, {"quote_deadline_at"})
             => Migrated!Value(row, "quote_deadline_tz_state") = "stated"
    BY Zenon, SameColumns, <1>10
  <2> QED
    BY Zenon, <2>4, <2>5, <2>6
       DEF Migrated!case_headers, stated, allowed, texts, states
<1> QED
  BY <1>11, <1>12

(* What an item no error was found in keeps to. *)
LEMMA NoErrors ==
  ASSUME NEW row, NEW ends, consistency_errors(row, ends) = {}
  PROVE  /\ (row["qty_state"] = "numeric") <=> (row["qty_value"] # Null)
         /\ row["qty_state"] = "numeric" => row["qty_unit"] # Null
         /\ \A m \in {"od", "wall", "weight", "length"} :
              row[ValueOf[m]] # Null => row[UnitOf[m]] # Null
         /\ \A state \in DOMAIN StatedBy :
              (row[state] = "stated") <=> Given(row, StatedBy[state])
         /\ row["candidate_label"] # Null => row["group_code"] # Null
         /\ Unique(ends, {"side"})
<1>1. (row["qty_state"] = "numeric") <=> (row["qty_value"] # Null)
  <2>1. {column \in {"qty_state"} :
           (row["qty_state"] = "numeric") # (row["qty_value"] # Null)} = {}
    BY Zenon DEF consistency_errors
  <2> QED
    BY <2>1
<1>2. row["qty_state"] = "numeric" => row["qty_unit"] # Null
  <2>1. {column \in {"qty_unit"} :
           row["qty_state"] = "numeric" /\ row["qty_unit"] = Null} = {}
    BY Zenon DEF consistency_errors
  <2> QED
    BY <2>1
<1>3. ASSUME NEW m \in {"od", "wall", "weight", "length"},
             row[ValueOf[m]] # Null, row[UnitOf[m]] = Null
      PROVE  FALSE
  BY <1>3, Zenon DEF consistency_errors
<1>4. ASSUME NEW state \in DOMAIN StatedBy
      PROVE  (row[state] = "stated") <=> Given(row, StatedBy[state])
  <2>1. state \notin {s \in DOMAIN StatedBy :
           (row[s] = "stated") # Given(row, StatedBy[s])}
    BY Zenon DEF consistency_errors
  <2> QED
    BY <1>4, <2>1
<1>5. row["candidate_label"] # Null => row["group_code"] # Null
  <2>1. {column \in {"group_code"} :
           row["candidate_label"] # Null /\ row["group_code"] = Null} = {}
    BY Zenon DEF consistency_errors
  <2> QED
    BY <2>1
<1>6. Unique(ends, {"side"})
  <2>1. {column \in {"ends"} : ~Unique(ends, {"side"})} = {}
    BY Zenon DEF consistency_errors
  <2> QED
    BY <2>1
<1> QED
  BY <1>1, <1>2, <1>3, <1>4, <1>5, <1>6

(* The errors of a row do not depend on its code, and without ends it has  *)
(* none more.                                                              *)
LEMMA SameErrors ==
  ASSUME NEW row, NEW other, NEW ends, NEW none,
         Typed(ItemInput, row), Typed(ItemInput, other),
         \A c \in DOMAIN ItemInput \ {"row_code"} : other[c] = row[c],
         consistency_errors(row, ends) = {}, DOMAIN none = {}
  PROVE  consistency_errors(other, none) = {}
<1>1. \A c \in Notes \cup Measured \cup Stated \cup {"qty_state"} :
        other[c] = row[c] /\ Value(other, c) = Value(row, c)
  BY ItemColumns DEF Typed, Value, Texts, Notes, Measured, Stated
<1>2. {column \in {"qty_state"} :
         (other["qty_state"] = "numeric") # (other["qty_value"] # Null)} = {}
  BY <1>1, NoErrors DEF Measured
<1>3. {column \in {"qty_unit"} :
         other["qty_state"] = "numeric" /\ other["qty_unit"] = Null} = {}
  BY <1>1, NoErrors DEF Notes
<1>4. {UnitOf[name] : name \in {measure \in {"od", "wall", "weight", "length"} :
         other[ValueOf[measure]] # Null /\ other[UnitOf[measure]] = Null}} = {}
  <2>1. ASSUME NEW m \in {"od", "wall", "weight", "length"}
        PROVE  ~(other[ValueOf[m]] # Null /\ other[UnitOf[m]] = Null)
    <3>1. ValueOf[m] \in Measured /\ UnitOf[m] \in Notes
      BY <2>1 DEF ValueOf, UnitOf, Measured, Notes
    <3> QED
      BY <1>1, <2>1, <3>1, NoErrors
  <2> QED
    BY <2>1
<1>5. {state \in DOMAIN StatedBy :
         (other[state] = "stated") # Given(other, StatedBy[state])} = {}
  <2>1. ASSUME NEW state \in DOMAIN StatedBy
        PROVE  (other[state] = "stated") <=> Given(other, StatedBy[state])
    <3>1. state \in Stated /\ StatedBy[state] \subseteq Measured \cup Notes
      BY <2>1 DEF StatedBy, Stated, Measured, Notes
    <3>2. Given(other, StatedBy[state]) <=> Given(row, StatedBy[state])
      BY <1>1, <3>1 DEF Given
    <3> QED
      BY <1>1, <2>1, <3>1, <3>2, NoErrors
  <2>2. ASSUME NEW state \in DOMAIN StatedBy
        PROVE  ~((other[state] = "stated") # Given(other, StatedBy[state]))
    BY <2>1, Zenon DEF Given
  <2> QED
    BY <2>2, Zenon
<1>6. {column \in {"group_code"} :
         other["candidate_label"] # Null /\ other["group_code"] = Null} = {}
  BY <1>1, NoErrors DEF Notes
<1>7. {column \in {"ends"} : ~Unique(none, {"side"})} = {}
  BY DEF Unique, UniqueAmong
<1> QED
  BY Zenon, <1>2, <1>3, <1>4, <1>5, <1>6, <1>7 DEF consistency_errors

LEMMA ItemAgrees ==
  ASSUME NEW row, NEW ends, Typed(ItemInput, row),
         consistency_errors(row, ends) = {}
  PROVE  /\ Model!Item(row) /\ Migrated!items(row)
         /\ \A m \in DOMAIN ValueOf :
              row[ValueOf[m]] # Null => Present(row, UnitOf[m])
         /\ Present(row, "source_no")
<1>1. /\ \A c \in DOMAIN ItemInput : Value(row, c) = row[c]
      /\ \A c \in Texts : Value(row, c) \in Nonblank
      /\ \A c \in Notes : Value(row, c) \in Nonblank \cup {Null}
      /\ \A c \in Stated : Value(row, c) \in State
      /\ Value(row, "seq") \in Positive
      /\ Value(row, "qty_state") \in {"numeric", "tba", "not_stated", "not_applicable"}
      /\ Value(row, "is_inherit_candidate") \in {"true", "false"}
  <2>1. \A c \in DOMAIN ItemInput : Value(row, c) = row[c] /\ row[c] \in ItemInput[c]
    BY DEF Typed, Value
  <2> QED
    BY <2>1, ItemColumns
<1>2. \A m \in DOMAIN ValueOf : Given(row, {ValueOf[m]}) => Given(row, {UnitOf[m]})
  <2>1. \A m \in {"od", "wall", "weight", "length"} :
           row[ValueOf[m]] # Null => row[UnitOf[m]] # Null
    BY NoErrors
  <2>2. row["qty_value"] # Null => row["qty_unit"] # Null
    BY NoErrors
  <2>3. \A m \in DOMAIN ValueOf : row[ValueOf[m]] # Null => row[UnitOf[m]] # Null
    BY <2>1, <2>2 DEF ValueOf, UnitOf
  <2>4. \A m \in DOMAIN ValueOf : ValueOf[m] \in Measured /\ UnitOf[m] \in Notes
    BY DEF ValueOf, UnitOf, Measured, Notes
  <2>5. Measured \subseteq DOMAIN ItemInput /\ Notes \subseteq DOMAIN ItemInput
    BY ItemColumns
  <2> QED
    BY <1>1, <2>3, <2>4, <2>5 DEF Given
<1>3. \A state \in DOMAIN StatedBy : pair(row, state, "stated", StatedBy[state])
  <2>1. \A state \in DOMAIN StatedBy :
          (row[state] = "stated") <=> Given(row, StatedBy[state])
    BY NoErrors
  <2>2. \A state \in DOMAIN StatedBy : state \in Stated
    BY DEF StatedBy, Stated
  <2>3. Stated \subseteq DOMAIN ItemInput
    BY ItemColumns
  <2> QED
    BY <1>1, <2>1, <2>2, <2>3 DEF pair
<1>4. pair(row, "qty_state", "numeric", {"qty_value"})
  <2>1. (row["qty_state"] = "numeric") <=> (row["qty_value"] # Null)
    BY NoErrors
  <2>2. "qty_state" \in DOMAIN ItemInput /\ "qty_value" \in DOMAIN ItemInput
    BY ItemColumns DEF Measured
  <2> QED
    BY <1>1, <2>1, <2>2 DEF pair, Given
<1>5. needs(row, "candidate_label", "group_code")
  <2>1. row["candidate_label"] # Null => row["group_code"] # Null
    BY NoErrors
  <2>2. "candidate_label" \in DOMAIN ItemInput /\ "group_code" \in DOMAIN ItemInput
    BY ItemColumns DEF Notes
  <2> QED
    BY <1>1, <2>1, <2>2 DEF needs, Given
<1>6. \A columns : columns \subseteq Texts \cup Notes => nonblank(row, columns)
  BY <1>1, NonblankText DEF nonblank, Null
<1>7. positive(row, "seq")
  BY <1>1, NotNull DEF positive
<1>8. \A columns :
        columns \subseteq Texts \cup Stated \cup {"seq", "qty_state", "is_inherit_candidate"}
          => not_null(row, columns)
  BY <1>1, NotNull DEF not_null, Null
<1>9. /\ \A state \in Stated :
           among(row, state, {"stated", "tba", "not_stated", "not_applicable"})
      /\ among(row, "qty_state", {"numeric", "tba", "not_stated", "not_applicable"})
  BY <1>1 DEF among, State
<1>10. \A columns :
         Texts \cup Notes \cup Measured \cup Stated
           \cup {"seq", "qty_state", "is_inherit_candidate"} \subseteq columns
         => Fit(row, columns)
  BY ItemColumns, TypedColumns
<1>11. /\ needs(row, "od_value", "od_unit") /\ needs(row, "wall_value", "wall_unit")
       /\ needs(row, "weight_value", "weight_unit")
       /\ needs(row, "length_value", "length_unit")
       /\ needs(row, "qty_value", "qty_unit")
  BY <1>2 DEF needs, ValueOf, UnitOf
<1>12. /\ pair(row, "od_state", "stated", {"od_value"})
       /\ pair(row, "wall_state", "stated", {"wall_value"})
       /\ pair(row, "weight_state", "stated", {"weight_value"})
       /\ pair(row, "grade_state", "stated", {"grade"})
       /\ pair(row, "connection_state", "stated", {"connection"})
       /\ pair(row, "due_state", "stated", {"due_raw"})
       /\ pair(row, "place_state", "stated", {"place_raw"})
       /\ pair(row, "length_state", "stated", {"range_class", "length_value"})
  BY <1>3 DEF StatedBy
<1>13. Model!Item(row)
  <2>1. Fit(row, Model!ItemRequired \cup Model!ItemNullable)
    BY <1>10 DEF Model!ItemRequired, Model!ItemNullable, Texts, Notes, Measured, Stated
  <2>2. not_null(row, Model!ItemRequired)
    BY <1>8 DEF Model!ItemRequired, Texts, Stated
  <2>3. Model!ItemTexts(row)
    <3>1. nonblank(row, {"row_code", "source_no", "kind", "kind_raw", "grade_raw",
                 "qty_raw", "usage_note", "grade", "connection",
                 "connection_raw", "range_class", "qty_reference_note",
                 "due_raw", "place_raw", "note", "group_code",
                 "candidate_label"})
      BY <1>6 DEF Texts, Notes
    <3> QED
      BY Zenon, SameColumns, <3>1, <1>7 DEF Model!ItemTexts
  <2>4. Model!ItemMeasures(row)
    <3>1. nonblank(row, {"od_unit", "od_raw", "wall_unit", "wall_raw",
                    "weight_unit", "weight_raw", "length_unit", "length_raw",
                    "qty_unit"})
      BY <1>6 DEF Texts, Notes
    <3> QED
      BY Zenon, SameColumns, <3>1, <1>11 DEF Model!ItemMeasures
  <2>5. Model!ItemStates(row)
    <3>1. \A state \in {"od_state", "wall_state", "weight_state", "grade_state",
                        "connection_state", "due_state", "place_state",
                        "length_state"} :
            among(row, state, {"stated", "tba", "not_stated", "not_applicable"})
      BY <1>9 DEF Stated
    <3> QED
      BY Zenon, SameColumns, <3>1, <1>4, <1>5, <1>9, <1>12 DEF Model!ItemStates
  <2> QED
    BY Zenon, SameColumns, <2>1, <2>2, <2>3, <2>4, <2>5 DEF Model!Item
<1>14. Migrated!items(row)
  <2>1. Migrated!items_texts(row)
    <3>1. nonblank(row, {"row_code", "source_no", "kind", "kind_raw", "grade_raw",
                    "qty_raw", "usage_note", "grade", "connection",
                    "connection_raw", "range_class", "qty_reference_note",
                    "due_raw", "place_raw", "note", "group_code",
                    "candidate_label"})
      BY <1>6 DEF Texts, Notes
    <3> QED
      BY Zenon, SameColumns, <3>1, <1>7 DEF Migrated!items_texts
  <2>2. Migrated!items_units(row)
    <3> DEFINE unit == [od_value |-> "od_unit", wall_value |-> "wall_unit",
               weight_value |-> "weight_unit", length_value |-> "length_unit",
               qty_value |-> "qty_unit"]
    <3>1. nonblank(row, {"od_raw", "wall_raw", "weight_raw", "length_raw"})
      BY <1>6 DEF Notes
    <3>2. \A value \in DOMAIN unit :
            needs(row, value, unit[value]) /\ nonblank(row, {unit[value]})
      <4>1. \A value \in DOMAIN unit : needs(row, value, unit[value])
        BY <1>11
      <4>2. \A value \in DOMAIN unit : {unit[value]} \subseteq Texts \cup Notes
        BY DEF Notes
      <4> HIDE DEF unit
      <4> QED
        BY <4>1, <4>2, <1>6
    <3> HIDE DEF unit
    <3>3. \A value \in DOMAIN unit :
            Migrated!needs(row, value, unit[value]) /\ Migrated!nonblank(row, {unit[value]})
      BY Zenon, SameColumns, <3>2
    <3> QED
      BY Zenon, SameColumns, <3>1, <3>3 DEF Migrated!items_units, unit
  <2>3. Migrated!items_states(row)
    <3> DEFINE values == [od_state |-> {"od_value"}, wall_state |-> {"wall_value"},
                 weight_state |-> {"weight_value"}, grade_state |-> {"grade"},
                 connection_state |-> {"connection"}, due_state |-> {"due_raw"},
                 place_state |-> {"place_raw"},
                 length_state |-> {"range_class", "length_value"}]
    <3>1. \A state \in DOMAIN values :
            /\ among(row, state, {"stated", "tba", "not_stated", "not_applicable"})
            /\ pair(row, state, "stated", values[state])
      <4>1. \A state \in DOMAIN values : state \in Stated
        BY DEF Stated
      <4>2. \A state \in DOMAIN values : pair(row, state, "stated", values[state])
        BY <1>12
      <4> HIDE DEF values
      <4> QED
        BY <4>1, <4>2, <1>9
    <3> HIDE DEF values
    <3>2. \A state \in DOMAIN values :
            /\ Migrated!among(row, state, {"stated", "tba", "not_stated", "not_applicable"})
            /\ Migrated!pair(row, state, "stated", values[state])
      BY Zenon, SameColumns, <3>1
    <3> QED
      BY Zenon, SameColumns, <3>2, <1>4, <1>5, <1>9 DEF Migrated!items_states, values
  <2>4. Fit(row, Migrated!items_columns.not_null \cup Migrated!items_columns.nullable)
    BY <1>10 DEF Migrated!items_columns, Texts, Notes, Measured, Stated
  <2>5. not_null(row, Migrated!items_columns.not_null)
    BY <1>8 DEF Migrated!items_columns, Texts, Stated
  <2> QED
    BY Zenon, SameColumns, <2>1, <2>2, <2>3, <2>4, <2>5 DEF Migrated!items
<1>15. ASSUME NEW m \in DOMAIN ValueOf, row[ValueOf[m]] # Null
       PROVE  Present(row, UnitOf[m])
  <2>1. ValueOf[m] \in Measured /\ UnitOf[m] \in Notes
    BY DEF ValueOf, UnitOf, Measured, Notes
  <2>2. Measured \subseteq DOMAIN ItemInput
    BY ItemColumns
  <2>3. Value(row, UnitOf[m]) \in Nonblank
    BY <1>1, <1>2, <1>15, <2>1, <2>2 DEF Given
  <2> QED
    BY <2>3, NonblankText DEF Present
<1>16. Present(row, "source_no")
  <2>1. Value(row, "source_no") \in Nonblank
    BY <1>1 DEF Texts
  <2> QED
    BY <2>1, NonblankText DEF Present
<1> QED
  BY <1>13, <1>14, <1>15, <1>16

-----------------------------------------------------------------------------
(* Sequences of rows.                                                      *)

IsSequence(s) == s \in Seq(ToSet(s))

LEMMA SequenceFacts ==
  ASSUME NEW s, IsSequence(s)
  PROVE  /\ Len(s) \in Nat /\ DOMAIN s = 1..Len(s)
         /\ \A k \in DOMAIN s : s[k] \in ToSet(s)
         /\ \A x \in ToSet(s) : \E k \in DOMAIN s : x = s[k]
  BY DEF IsSequence, ToSet

LEMMA Retyped ==
  ASSUME NEW S, NEW T, NEW s \in Seq(S), \A k \in 1..Len(s) : s[k] \in T
  PROVE  s \in Seq(T)
  OBVIOUS

(* Rows are only added at the end. *)
LEMMA Joined ==
  ASSUME NEW s, NEW t, IsSequence(s), IsSequence(t)
  PROVE  /\ IsSequence(s \o t)
         /\ Len(s \o t) = Len(s) + Len(t)
         /\ ToSet(s \o t) = ToSet(s) \cup ToSet(t)
         /\ \A k \in 1..Len(s) : (s \o t)[k] = s[k]
         /\ \A k \in 1..Len(t) : (s \o t)[Len(s) + k] = t[k]
         /\ \A k \in DOMAIN (s \o t) :
              k \in DOMAIN s \/ (k - Len(s) \in DOMAIN t /\ (s \o t)[k] = t[k - Len(s)])
<1> DEFINE S == ToSet(s) \cup ToSet(t)
<1>1. s \in Seq(S) /\ t \in Seq(S)
  <2>1. /\ DOMAIN s = 1..Len(s) /\ DOMAIN t = 1..Len(t)
        /\ s \in Seq(ToSet(s)) /\ t \in Seq(ToSet(t))
    BY DEF IsSequence
  <2> HIDE DEF S
  <2>2. ToSet(s) \subseteq S /\ ToSet(t) \subseteq S
    BY DEF S
  <2> QED
    BY <2>1, <2>2
<1>2. /\ Len(s) \in Nat /\ DOMAIN s = 1..Len(s)
      /\ Len(t) \in Nat /\ DOMAIN t = 1..Len(t)
  BY SequenceFacts
<1> HIDE DEF S
<1>3. /\ s \o t \in Seq(S) /\ Len(s \o t) = Len(s) + Len(t)
      /\ DOMAIN (s \o t) = 1..(Len(s) + Len(t))
  BY <1>1
<1>4. /\ \A k \in 1..Len(s) : (s \o t)[k] = s[k]
      /\ \A k \in 1..Len(t) : (s \o t)[Len(s) + k] = t[k]
  BY <1>1, <1>2
<1>5. \A k \in DOMAIN (s \o t) :
        k \in DOMAIN s \/ (k - Len(s) \in DOMAIN t /\ (s \o t)[k] = t[k - Len(s)])
  BY <1>1, <1>2, <1>3
<1>6. ToSet(s \o t) = ToSet(s) \cup ToSet(t)
  <2>1. ASSUME NEW x \in ToSet(s \o t) PROVE x \in ToSet(s) \cup ToSet(t)
    BY <2>1, <1>2, <1>3, <1>4, <1>5 DEF ToSet
  <2>2. ASSUME NEW x \in ToSet(s) PROVE x \in ToSet(s \o t)
    BY <2>2, <1>2, <1>3, <1>4 DEF ToSet
  <2>3. ASSUME NEW x \in ToSet(t) PROVE x \in ToSet(s \o t)
    <3>1. PICK k \in DOMAIN t : x = t[k]
      BY <2>3 DEF ToSet
    <3>2. Len(s) + k \in DOMAIN (s \o t) /\ (s \o t)[Len(s) + k] = x
      BY <3>1, <1>2, <1>3, <1>4
    <3> QED
      BY <3>2 DEF ToSet
  <2> QED
    BY <2>1, <2>2, <2>3
<1>7. IsSequence(s \o t)
  <2>1. \A k \in 1..Len(s \o t) : (s \o t)[k] \in ToSet(s \o t)
    BY <1>3 DEF ToSet
  <2> QED
    BY <2>1, <1>3, Retyped DEF IsSequence
<1> QED
  BY <1>3, <1>4, <1>5, <1>6, <1>7

(* What is drawn up of a batch is as long as the batch. *)
LEMMA MappedSequence ==
  ASSUME NEW n \in Nat, NEW f, f = [k \in 1..n |-> f[k]]
  PROVE  IsSequence(f) /\ Len(f) = n /\ DOMAIN f = 1..n
  BY DEF IsSequence, ToSet

-----------------------------------------------------------------------------
(* What the tables of a draft keep to: the strengthening of the type       *)
(* invariant.  A row is of its contract's type, keeps to what its contract *)
(* checks across columns, and names items that exist.                      *)

HeadersOK(rows) ==
  /\ IsSequence(rows) /\ Len(rows) <= 1
  /\ \A row \in ToSet(rows) : Typed(HeaderInput, row) /\ consistent_values(row)

ItemOK(row) ==
  /\ Typed(ItemInput, row) /\ Model!Item(row) /\ Migrated!items(row)
  /\ \A m \in DOMAIN ValueOf : row[ValueOf[m]] # Null => Present(row, UnitOf[m])
  /\ Present(row, "source_no")
  /\ consistency_errors(row, <<>>) = {}
ItemsOK(rows) ==
  /\ IsSequence(rows) /\ Unique(rows, {"row_code"})
  /\ \A row \in ToSet(rows) : ItemOK(row)

EndsOK(ends) ==
  /\ IsSequence(ends) /\ Unique(ends, {"side"})
  /\ \A row \in ToSet(ends) : Typed(EndInput, row) /\ unit_required(row)
AllEndsOK(tables) ==
  IsSequence(tables) /\ \A ends \in ToSet(tables) : EndsOK(ends)

EvidencesOK(rows, ids) ==
  /\ IsSequence(rows) /\ Unique(rows, {"item_id", "field"})
  /\ \A row \in ToSet(rows) :
       Typed(EvidenceInput, row) /\ row["item_id"] \in ids \cup {Null}

QuestionsOK(rows, ids) ==
  /\ IsSequence(rows) /\ Unique(rows, {"question_code"})
  /\ \A row \in ToSet(rows) :
       Typed(QuestionInput, row) /\ row["item_id"] \in ids \cup {Null}

EntryOK(row, item_ids, ids) ==
  /\ Typed(InventoryInput, row) /\ IsSequence(item_ids)
  /\ valid_mapping(row, item_ids) /\ ToSet(item_ids) \subseteq ids
EntriesOK(rows, links, ids) ==
  /\ IsSequence(rows) /\ IsSequence(links) /\ Len(links) = Len(rows)
  /\ \A k \in DOMAIN rows : EntryOK(rows[k], links[k], ids)

DraftOK(d) ==
  /\ DOMAIN d = Tables
  /\ HeadersOK(d.case_headers)
  /\ ItemsOK(d.items)
  /\ AllEndsOK(d.item_ends) /\ Len(d.item_ends) = Len(d.items)
  /\ EvidencesOK(d.evidences, Ids(d.items))
  /\ QuestionsOK(d.questions, Ids(d.items))
  /\ EntriesOK(d.source_inventory_entries, d.inventory_links, Ids(d.items))

-----------------------------------------------------------------------------
(* What is kept so can be stored.                                          *)

(* The two partial indexes ask for less than the whole. *)
LEMMA PartlyUnique ==
  ASSUME NEW rows, Unique(rows, {"item_id", "field"}), IsSequence(rows),
         \A row \in ToSet(rows) : Typed(EvidenceInput, row)
  PROVE  /\ Migrated!uq_evidences_item_field(rows)
         /\ Migrated!uq_evidences_header_field(rows)
<1>1. \A k \in DOMAIN rows : Migrated!Given(rows[k], {"item_id"}) <=> rows[k]["item_id"] # Null
  BY SequenceFacts, EvidenceColumns
     DEF Typed, Migrated!Given, Migrated!Value, Migrated!Null, Null
<1>2. \A j, k \in DOMAIN rows :
        /\ rows[j]["item_id"] = rows[k]["item_id"]
        /\ rows[j]["field"] = rows[k]["field"]
        => j = k
  BY DEF Unique, UniqueAmong
<1>3. Migrated!uq_evidences_item_field(rows)
  BY <1>2 DEF Migrated!uq_evidences_item_field, Migrated!UniqueAmong
<1>4. Migrated!uq_evidences_header_field(rows)
  BY <1>1, <1>2 DEF Migrated!uq_evidences_header_field, Migrated!UniqueAmong
<1> QED
  BY <1>3, <1>4

(* The contracts of draft_types.py are at least as strict as the CHECKs,   *)
(* NOT NULLs, keys and unique indexes of both schemas: whatever they let   *)
(* through, models/drafts.py and the migration t201 take.                  *)
THEOREM KeptIsStorable ==
  ASSUME NEW d, DraftOK(d)
  PROVE  Storable(d)
<1>1. ModelTakes(d) /\ MigratedTakes(d)
  <2>1. \A row \in ToSet(d.case_headers) :
          Model!CaseHeader(row) /\ Migrated!case_headers(row)
    BY HeaderAgrees DEF DraftOK, HeadersOK
  <2>2. \A row \in ToSet(d.items) : Model!Item(row) /\ Migrated!items(row)
    BY DEF DraftOK, ItemsOK, ItemOK
  <2>3. \A ends \in ToSet(d.item_ends) : \A row \in ToSet(ends) :
          Model!ItemEnd(row) /\ Migrated!item_ends(row)
    BY EndAgrees DEF DraftOK, AllEndsOK, EndsOK
  <2>4. \A row \in ToSet(d.evidences) : Model!Evidence(row) /\ Migrated!evidences(row)
    BY EvidenceAgrees DEF DraftOK, EvidencesOK
  <2>5. \A row \in ToSet(d.questions) : Model!Question(row) /\ Migrated!questions(row)
    BY QuestionAgrees DEF DraftOK, QuestionsOK
  <2>6. \A row \in ToSet(d.source_inventory_entries) :
          Model!InventoryEntry(row) /\ Migrated!source_inventory_entries(row)
    <3> TAKE row \in ToSet(d.source_inventory_entries)
    <3>1. PICK k \in DOMAIN d.source_inventory_entries :
            row = d.source_inventory_entries[k]
      BY DEF ToSet
    <3>2. EntryOK(row, d.inventory_links[k], Ids(d.items))
      BY <3>1 DEF DraftOK, EntriesOK
    <3>3. Typed(InventoryInput, row)
          /\ (row["status"] = "excluded" => row["basis"] # Null)
      BY <3>2 DEF EntryOK, valid_mapping
    <3> QED
      BY <3>3, EntryAgrees
  <2>7. \A item_ids \in ToSet(d.inventory_links) : \A item_id \in ToSet(item_ids) :
          Model!InventoryLink(item_id) /\ Migrated!inventory_links(item_id)
    <3> TAKE item_ids \in ToSet(d.inventory_links)
    <3> TAKE item_id \in ToSet(item_ids)
    <3>1. PICK k \in DOMAIN d.inventory_links : item_ids = d.inventory_links[k]
      BY DEF ToSet
    <3>2. k \in DOMAIN d.source_inventory_entries
      BY SequenceFacts DEF DraftOK, EntriesOK
    <3>3. EntryOK(d.source_inventory_entries[k], item_ids, Ids(d.items))
      BY <3>1, <3>2 DEF DraftOK, EntriesOK
    <3>4. item_id \in Positive
      BY <3>3 DEF EntryOK, valid_mapping
    <3> QED
      BY <3>4, NotNull DEF Model!InventoryLink, Migrated!inventory_links,
                           Model!Null, Migrated!Null, Null
  <2> QED
    BY <2>1, <2>2, <2>3, <2>4, <2>5, <2>6, <2>7 DEF ModelTakes, MigratedTakes
<1>2. Distinct(d)
  <2>1. /\ Migrated!uq_evidences_item_field(d.evidences)
        /\ Migrated!uq_evidences_header_field(d.evidences)
    BY PartlyUnique DEF DraftOK, EvidencesOK
  <2>2. \A item_ids \in ToSet(d.inventory_links) : IsInjective(item_ids)
    <3> TAKE item_ids \in ToSet(d.inventory_links)
    <3>1. PICK k \in DOMAIN d.inventory_links : item_ids = d.inventory_links[k]
      BY DEF ToSet
    <3>2. k \in DOMAIN d.source_inventory_entries
      BY SequenceFacts DEF DraftOK, EntriesOK
    <3> QED
      BY <3>1, <3>2 DEF DraftOK, EntriesOK, EntryOK, valid_mapping
  <2> QED
    BY <2>1, <2>2
       DEF Distinct, DraftOK, HeadersOK, ItemsOK, AllEndsOK, EndsOK, QuestionsOK
<1>3. Referenced(d)
  <2>1. \A row \in ToSet(d.evidences) \cup ToSet(d.questions) :
          row["item_id"] \in Ids(d.items) \cup {Null}
    BY DEF DraftOK, EvidencesOK, QuestionsOK
  <2>2. /\ DOMAIN d.item_ends = DOMAIN d.items
        /\ DOMAIN d.inventory_links = DOMAIN d.source_inventory_entries
    BY SequenceFacts DEF DraftOK, ItemsOK, AllEndsOK, EntriesOK
  <2>3. \A item_ids \in ToSet(d.inventory_links) : ToSet(item_ids) \subseteq Ids(d.items)
    <3> TAKE item_ids \in ToSet(d.inventory_links)
    <3>1. PICK k \in DOMAIN d.inventory_links : item_ids = d.inventory_links[k]
      BY DEF ToSet
    <3> QED
      BY <3>1, <2>2 DEF DraftOK, EntriesOK, EntryOK
  <2> QED
    BY <2>1, <2>2, <2>3 DEF Referenced
<1> QED
  BY <1>1, <1>2, <1>3 DEF Storable

-----------------------------------------------------------------------------
(* What a call adds keeps to it as well.                                   *)

(* Items are only added: what names an item goes on doing so. *)
LEMMA MoreItems ==
  ASSUME NEW rows, NEW links, NEW ids, NEW more, ids \subseteq more
  PROVE  /\ EvidencesOK(rows, ids) => EvidencesOK(rows, more)
         /\ QuestionsOK(rows, ids) => QuestionsOK(rows, more)
         /\ EntriesOK(rows, links, ids) => EntriesOK(rows, links, more)
<1>1. EvidencesOK(rows, ids) => EvidencesOK(rows, more)
  BY DEF EvidencesOK
<1>2. QuestionsOK(rows, ids) => QuestionsOK(rows, more)
  BY DEF QuestionsOK
<1>3. EntriesOK(rows, links, ids) => EntriesOK(rows, links, more)
  BY DEF EntriesOK, EntryOK
<1> QED
  BY <1>1, <1>2, <1>3

(* The rows of a batch are one for each element of it. *)
LEMMA Drawn ==
  ASSUME NEW batch, IsSequence(batch), NEW rows, rows = [k \in DOMAIN batch |-> rows[k]]
  PROVE  /\ IsSequence(rows) /\ Len(rows) = Len(batch)
         /\ DOMAIN rows = DOMAIN batch
<1>1. Len(batch) \in Nat /\ DOMAIN batch = 1..Len(batch)
  BY SequenceFacts
<1> QED
  BY <1>1, MappedSequence

LEMMA HeaderKept ==
  ASSUME NEW d, NEW payload, DraftOK(d), HeaderAccepted(d, payload)
  PROVE  DraftOK(WithHeader(d, payload))
<1> DEFINE row == Parsed(HeaderInput, payload)
           e == WithHeader(d, payload)
<1>1. Typed(HeaderInput, row) /\ consistent_values(row)
  BY ParsedTyped DEF HeaderAccepted
<1> HIDE DEF row
<1>2. HeadersOK(<<row>>)
  BY <1>1 DEF HeadersOK, IsSequence, ToSet
<1>3. /\ DOMAIN e = Tables /\ e.case_headers = <<row>>
      /\ e.items = d.items /\ e.item_ends = d.item_ends
      /\ e.evidences = d.evidences /\ e.questions = d.questions
      /\ e.source_inventory_entries = d.source_inventory_entries
      /\ e.inventory_links = d.inventory_links
  BY DEF WithHeader, DraftOK, Tables, row
<1> HIDE DEF e
<1>4. DraftOK(e)
  BY <1>2, <1>3 DEF DraftOK
<1> QED
  BY <1>4 DEF e

LEMMA ItemsKept ==
  ASSUME NEW d, NEW batch, DraftOK(d), ItemsAccepted(d, batch), IsSequence(batch),
         \A item \in ToSet(batch) : IsSequence(item.ends)
  PROVE  DraftOK(WithItems(d, batch))
<1> DEFINE rows == ItemRows(batch)
           ends == EndRows(batch)
           e == WithItems(d, batch)
<1>1. /\ IsSequence(rows) /\ Len(rows) = Len(batch) /\ DOMAIN rows = DOMAIN batch
      /\ IsSequence(ends) /\ Len(ends) = Len(batch) /\ DOMAIN ends = DOMAIN batch
  <2>1. rows = [k \in DOMAIN batch |-> rows[k]]
    BY DEF ItemRows
  <2>2. ends = [k \in DOMAIN batch |-> ends[k]]
    BY DEF EndRows
  <2> HIDE DEF rows, ends
  <2> QED
    BY <2>1, <2>2, Drawn
<1>2. \A k \in DOMAIN batch : ItemOK(rows[k])
  <2> TAKE k \in DOMAIN batch
  <2>1. Typed(ItemInput, rows[k])
    BY ParsedTyped DEF ItemsAccepted, ItemRows
  <2>2. consistency_errors(rows[k], ends[k]) = {}
    BY DEF ItemsAccepted
  <2> HIDE DEF rows, ends
  <2>3. consistency_errors(rows[k], <<>>) = {}
    BY <2>1, <2>2, SameErrors
  <2> QED
    BY <2>1, <2>2, <2>3, ItemAgrees DEF ItemOK
<1>3. \A k \in DOMAIN batch : EndsOK(ends[k])
  <2> TAKE k \in DOMAIN batch
  <2>1. IsSequence(batch[k].ends)
    BY SequenceFacts
  <2>2. ends[k] = [j \in DOMAIN batch[k].ends |-> Parsed(EndInput, batch[k].ends[j])]
    BY DEF EndRows, Parse
  <2>3. \A j \in DOMAIN batch[k].ends :
          LET row == Parsed(EndInput, batch[k].ends[j]) IN
          Typed(EndInput, row) /\ unit_required(row)
    <3> TAKE j \in DOMAIN batch[k].ends
    <3>1. batch[k].ends[j] \in ToSet(batch[k].ends)
      BY DEF ToSet
    <3> QED
      BY <3>1, ParsedTyped DEF ItemsAccepted
  <2>4. consistency_errors(rows[k], ends[k]) = {}
    BY DEF ItemsAccepted
  <2>5. Unique(ends[k], {"side"})
    BY <2>4, NoErrors
  <2> HIDE DEF rows, ends
  <2>6. ends[k] = [j \in DOMAIN batch[k].ends |-> ends[k][j]]
    BY <2>2
  <2>7. IsSequence(ends[k])
    BY <2>1, <2>6, Drawn
  <2>8. \A row \in ToSet(ends[k]) : Typed(EndInput, row) /\ unit_required(row)
    BY <2>2, <2>3 DEF ToSet
  <2> QED
    BY <2>5, <2>7, <2>8 DEF EndsOK
<1>4. /\ DOMAIN e = Tables
      /\ e.items = d.items \o rows /\ e.item_ends = d.item_ends \o ends
      /\ e.case_headers = d.case_headers
      /\ e.evidences = d.evidences /\ e.questions = d.questions
      /\ e.source_inventory_entries = d.source_inventory_entries
      /\ e.inventory_links = d.inventory_links
  BY DEF WithItems, DraftOK, Tables
<1>5. Unique(e.items, {"row_code"})
  BY <1>4 DEF ItemsAccepted
<1> HIDE DEF rows, ends, e
<1>6. ItemsOK(e.items)
  <2>1. IsSequence(e.items) /\ ToSet(e.items) = ToSet(d.items) \cup ToSet(rows)
    BY <1>1, <1>4, Joined DEF DraftOK, ItemsOK
  <2>2. \A row \in ToSet(rows) : ItemOK(row)
    BY <1>1, <1>2 DEF ToSet
  <2> QED
    BY <1>5, <2>1, <2>2 DEF DraftOK, ItemsOK
<1>7. AllEndsOK(e.item_ends)
  <2>1. IsSequence(e.item_ends) /\ ToSet(e.item_ends) = ToSet(d.item_ends) \cup ToSet(ends)
    BY <1>1, <1>4, Joined DEF DraftOK, AllEndsOK
  <2>2. \A table \in ToSet(ends) : EndsOK(table)
    BY <1>1, <1>3 DEF ToSet
  <2> QED
    BY <2>1, <2>2 DEF DraftOK, AllEndsOK
<1>8. /\ Len(e.item_ends) = Len(e.items)
      /\ DOMAIN d.items \subseteq DOMAIN e.items
  <2>1. /\ IsSequence(d.items) /\ IsSequence(e.items) /\ IsSequence(rows)
        /\ IsSequence(d.item_ends) /\ IsSequence(ends)
    BY <1>1, <1>6 DEF DraftOK, ItemsOK, AllEndsOK
  <2>2. /\ Len(e.items) = Len(d.items) + Len(rows)
        /\ Len(e.item_ends) = Len(d.item_ends) + Len(ends)
    BY <1>4, <2>1, Joined
  <2>3. /\ DOMAIN d.items = 1..Len(d.items) /\ Len(d.items) \in Nat
        /\ DOMAIN e.items = 1..Len(e.items) /\ Len(rows) \in Nat
    BY <2>1, SequenceFacts
  <2> QED
    BY <1>1, <2>2, <2>3 DEF DraftOK
<1>9. Ids(d.items) \subseteq Ids(e.items)
  BY <1>8 DEF Ids
<1>10. /\ EvidencesOK(e.evidences, Ids(e.items))
       /\ QuestionsOK(e.questions, Ids(e.items))
       /\ EntriesOK(e.source_inventory_entries, e.inventory_links, Ids(e.items))
  BY <1>4, <1>9, MoreItems DEF DraftOK
<1>11. HeadersOK(e.case_headers)
  BY <1>4 DEF DraftOK
<1>12. DraftOK(e)
  BY <1>4, <1>6, <1>7, <1>8, <1>10, <1>11 DEF DraftOK
<1> QED
  BY <1>12 DEF e

LEMMA EvidencesKept ==
  ASSUME NEW d, NEW batch, DraftOK(d), EvidencesAccepted(d, batch), IsSequence(batch)
  PROVE  DraftOK(WithEvidences(d, batch))
<1> DEFINE rows == Parse(EvidenceInput, batch)
           e == WithEvidences(d, batch)
<1>1. IsSequence(rows) /\ DOMAIN rows = DOMAIN batch
  <2>1. rows = [k \in DOMAIN batch |-> rows[k]]
    BY DEF Parse
  <2> HIDE DEF rows
  <2> QED
    BY <2>1, Drawn
<1>2. \A k \in DOMAIN batch :
        Typed(EvidenceInput, rows[k]) /\ rows[k]["item_id"] \in Ids(d.items) \cup {Null}
  <2> TAKE k \in DOMAIN batch
  <2>1. WellTyped(EvidenceInput, batch[k]) /\ item_in_version(d, rows[k]["item_id"])
    BY DEF EvidencesAccepted
  <2>2. rows[k] = Parsed(EvidenceInput, batch[k])
    BY DEF Parse
  <2> QED
    BY <2>1, <2>2, ParsedTyped DEF item_in_version
<1>3. /\ DOMAIN e = Tables
      /\ e.evidences = d.evidences \o rows
      /\ e.case_headers = d.case_headers
      /\ e.items = d.items /\ e.item_ends = d.item_ends
      /\ e.questions = d.questions
      /\ e.source_inventory_entries = d.source_inventory_entries
      /\ e.inventory_links = d.inventory_links
  BY DEF WithEvidences, DraftOK, Tables
<1>4. Unique(e.evidences, {"item_id", "field"})
  BY <1>3 DEF EvidencesAccepted
<1> HIDE DEF rows, e
<1>5. EvidencesOK(e.evidences, Ids(e.items))
  <2>1. IsSequence(e.evidences) /\ ToSet(e.evidences) = ToSet(d.evidences) \cup ToSet(rows)
    BY <1>1, <1>3, Joined DEF DraftOK, EvidencesOK
  <2>2. \A row \in ToSet(rows) :
          Typed(EvidenceInput, row) /\ row["item_id"] \in Ids(e.items) \cup {Null}
    BY <1>1, <1>2, <1>3 DEF ToSet
  <2>3. \A row \in ToSet(d.evidences) :
          Typed(EvidenceInput, row) /\ row["item_id"] \in Ids(e.items) \cup {Null}
    BY <1>3 DEF DraftOK, EvidencesOK
  <2> QED
    BY <1>4, <2>1, <2>2, <2>3 DEF EvidencesOK
<1>6. DraftOK(e)
  BY <1>3, <1>5 DEF DraftOK
<1> QED
  BY <1>6 DEF e

LEMMA QuestionsKept ==
  ASSUME NEW d, NEW batch, DraftOK(d), QuestionsAccepted(d, batch), IsSequence(batch)
  PROVE  DraftOK(WithQuestions(d, batch))
<1> DEFINE rows == Parse(QuestionInput, batch)
           e == WithQuestions(d, batch)
<1>1. IsSequence(rows) /\ DOMAIN rows = DOMAIN batch
  <2>1. rows = [k \in DOMAIN batch |-> rows[k]]
    BY DEF Parse
  <2> HIDE DEF rows
  <2> QED
    BY <2>1, Drawn
<1>2. \A k \in DOMAIN batch :
        Typed(QuestionInput, rows[k]) /\ rows[k]["item_id"] \in Ids(d.items) \cup {Null}
  <2> TAKE k \in DOMAIN batch
  <2>1. WellTyped(QuestionInput, batch[k]) /\ item_in_version(d, rows[k]["item_id"])
    BY DEF QuestionsAccepted
  <2>2. rows[k] = Parsed(QuestionInput, batch[k])
    BY DEF Parse
  <2> QED
    BY <2>1, <2>2, ParsedTyped DEF item_in_version
<1>3. /\ DOMAIN e = Tables
      /\ e.questions = d.questions \o rows
      /\ e.case_headers = d.case_headers
      /\ e.items = d.items /\ e.item_ends = d.item_ends
      /\ e.evidences = d.evidences
      /\ e.source_inventory_entries = d.source_inventory_entries
      /\ e.inventory_links = d.inventory_links
  BY DEF WithQuestions, DraftOK, Tables
<1>4. Unique(e.questions, {"question_code"})
  BY <1>3 DEF QuestionsAccepted
<1> HIDE DEF rows, e
<1>5. QuestionsOK(e.questions, Ids(e.items))
  <2>1. IsSequence(e.questions) /\ ToSet(e.questions) = ToSet(d.questions) \cup ToSet(rows)
    BY <1>1, <1>3, Joined DEF DraftOK, QuestionsOK
  <2>2. \A row \in ToSet(rows) :
          Typed(QuestionInput, row) /\ row["item_id"] \in Ids(e.items) \cup {Null}
    BY <1>1, <1>2, <1>3 DEF ToSet
  <2>3. \A row \in ToSet(d.questions) :
          Typed(QuestionInput, row) /\ row["item_id"] \in Ids(e.items) \cup {Null}
    BY <1>3 DEF DraftOK, QuestionsOK
  <2> QED
    BY <1>4, <2>1, <2>2, <2>3 DEF QuestionsOK
<1>6. DraftOK(e)
  BY <1>3, <1>5 DEF DraftOK
<1> QED
  BY <1>6 DEF e

LEMMA EntriesKept ==
  ASSUME NEW d, NEW batch, DraftOK(d), EntriesAccepted(d, batch), IsSequence(batch),
         \A entry \in ToSet(batch) : IsSequence(entry.item_ids)
  PROVE  DraftOK(WithEntries(d, batch))
<1> DEFINE rows == EntryRows(batch)
           links == LinkRows(batch)
           e == WithEntries(d, batch)
<1>1. /\ IsSequence(rows) /\ Len(rows) = Len(batch) /\ DOMAIN rows = DOMAIN batch
      /\ IsSequence(links) /\ Len(links) = Len(batch) /\ DOMAIN links = DOMAIN batch
  <2>1. rows = [k \in DOMAIN batch |-> rows[k]]
    BY DEF EntryRows
  <2>2. links = [k \in DOMAIN batch |-> links[k]]
    BY DEF LinkRows
  <2> HIDE DEF rows, links
  <2> QED
    BY <2>1, <2>2, Drawn
<1>2. \A k \in DOMAIN batch : EntryOK(rows[k], links[k], Ids(d.items))
  <2> TAKE k \in DOMAIN batch
  <2>1. /\ WellTyped(InventoryInput, batch[k].payload)
        /\ valid_mapping(rows[k], batch[k].item_ids)
        /\ \A item \in ToSet(batch[k].item_ids) : item_in_version(d, item)
    BY DEF EntriesAccepted
  <2>2. /\ rows[k] = Parsed(InventoryInput, batch[k].payload)
        /\ links[k] = batch[k].item_ids
    BY DEF EntryRows, LinkRows
  <2>3. IsSequence(links[k])
    BY <2>2, SequenceFacts
  <2>4. ToSet(links[k]) \subseteq Ids(d.items)
    <3>1. ToSet(links[k]) \subseteq Positive
      BY <2>1, <2>2 DEF valid_mapping
    <3> QED
      BY <2>1, <2>2, <3>1, NotNull DEF item_in_version
  <2>5. Typed(InventoryInput, rows[k]) /\ valid_mapping(rows[k], links[k])
    BY <2>1, <2>2, ParsedTyped
  <2> QED
    BY <2>3, <2>4, <2>5 DEF EntryOK
<1>3. /\ DOMAIN e = Tables
      /\ e.source_inventory_entries = d.source_inventory_entries \o rows
      /\ e.inventory_links = d.inventory_links \o links
      /\ e.case_headers = d.case_headers
      /\ e.items = d.items /\ e.item_ends = d.item_ends
      /\ e.evidences = d.evidences /\ e.questions = d.questions
  BY DEF WithEntries, DraftOK, Tables
<1> HIDE DEF rows, links, e
<1>4. EntriesOK(e.source_inventory_entries, e.inventory_links, Ids(e.items))
  <2> DEFINE before == d.source_inventory_entries
             linked == d.inventory_links
  <2>1. EntriesOK(before, linked, Ids(d.items))
    BY DEF DraftOK
  <2> HIDE DEF before, linked
  <2>2. IsSequence(before) /\ IsSequence(linked) /\ Len(linked) = Len(before)
    BY <2>1 DEF EntriesOK
  <2>3. /\ IsSequence(before \o rows) /\ IsSequence(linked \o links)
        /\ Len(before \o rows) = Len(before) + Len(rows)
        /\ Len(linked \o links) = Len(linked) + Len(links)
        /\ \A k \in 1..Len(before) : (before \o rows)[k] = before[k]
        /\ \A k \in 1..Len(linked) : (linked \o links)[k] = linked[k]
        /\ \A k \in 1..Len(rows) : (before \o rows)[Len(before) + k] = rows[k]
        /\ \A k \in 1..Len(links) : (linked \o links)[Len(linked) + k] = links[k]
    BY <1>1, <2>2, Joined
  <2>4. /\ Len(before) \in Nat /\ DOMAIN before = 1..Len(before)
        /\ Len(rows) \in Nat /\ DOMAIN rows = 1..Len(rows)
        /\ DOMAIN (before \o rows) = 1..Len(before \o rows)
    BY <1>1, <2>2, <2>3, SequenceFacts
  <2>5. ASSUME NEW k \in DOMAIN (before \o rows)
        PROVE  EntryOK((before \o rows)[k], (linked \o links)[k], Ids(d.items))
    <3>1. k \in 1..Len(before \o rows)
      BY <2>4
    <3>2. k <= Len(before) \/ k > Len(before)
      BY <3>1, <2>4
    <3>3. CASE k <= Len(before)
      <4>1. k \in 1..Len(before)
        BY <2>4, <3>1, <3>3
      <4>2. (before \o rows)[k] = before[k] /\ (linked \o links)[k] = linked[k]
        BY <2>2, <2>3, <4>1
      <4>3. EntryOK(before[k], linked[k], Ids(d.items))
        BY <2>1, <2>4, <4>1 DEF EntriesOK
      <4> QED
        BY <4>2, <4>3
    <3>4. CASE k > Len(before)
      <4> DEFINE j == k - Len(before)
      <4>1. j \in 1..Len(rows) /\ Len(before) + j = k
        <5>1. Len(before \o rows) = Len(before) + Len(rows)
          BY <2>3
        <5>2. k \in 1..(Len(before) + Len(rows))
          BY <2>4, <5>1
        <5>3. Len(before) \in Nat /\ Len(rows) \in Nat
          BY <2>4
        <5> QED
          BY <3>4, <5>2, <5>3
      <4> HIDE DEF j
      <4>2. (before \o rows)[k] = rows[j] /\ (linked \o links)[k] = links[j]
        <5>1. (before \o rows)[Len(before) + j] = rows[j]
          BY <2>3, <4>1
        <5>2. j \in 1..Len(links)
          BY <1>1, <4>1
        <5>3. (linked \o links)[Len(linked) + j] = links[j]
          BY <2>3, <5>2
        <5> QED
          BY <2>2, <4>1, <5>1, <5>3
      <4>3. EntryOK(rows[j], links[j], Ids(d.items))
        <5>1. DOMAIN batch = 1..Len(rows)
          BY <1>1, <2>4
        <5>2. j \in DOMAIN batch
          BY <4>1, <5>1
        <5> QED
          BY <1>2, <5>2
      <4> QED
        BY <4>2, <4>3
    <3> QED
      BY <3>2, <3>3, <3>4
  <2>6. EntriesOK(before \o rows, linked \o links, Ids(d.items))
    BY <1>1, <2>2, <2>3, <2>5 DEF EntriesOK
  <2> QED
    BY <1>3, <2>6 DEF before, linked
<1>5. DraftOK(e)
  BY <1>3, <1>4 DEF DraftOK
<1> QED
  BY <1>5 DEF e

-----------------------------------------------------------------------------
(* The invariant of the specification.                                     *)

DraftKept ==
  /\ DraftOK(draft)
  /\ scanned \subseteq inquiry.ranges
  /\ finalized \in {"open", "complete", "incomplete"}
  /\ calls \in 0..MaxCalls
  /\ AcceptedIsStorable
  /\ FinalizedIsValid

DraftInv == inquiry \in Inquiries /\ DraftKept

LEMMA DraftInit == Untouched => DraftKept
<1> SUFFICES ASSUME Untouched PROVE DraftKept
  OBVIOUS
<1>1. DraftOK(draft)
  <2>1. /\ DOMAIN draft = Tables
        /\ \A table \in Tables : draft[table] = <<>>
    BY DEF Untouched
  <2>2. /\ IsSequence(<<>>) /\ Len(<<>>) = 0 /\ DOMAIN <<>> = {} /\ ToSet(<<>>) = {}
    BY DEF IsSequence, ToSet
  <2>3. /\ HeadersOK(<<>>) /\ ItemsOK(<<>>) /\ AllEndsOK(<<>>)
        /\ EvidencesOK(<<>>, Ids(<<>>)) /\ QuestionsOK(<<>>, Ids(<<>>))
        /\ EntriesOK(<<>>, <<>>, Ids(<<>>))
    BY <2>2 DEF HeadersOK, ItemsOK, AllEndsOK, EvidencesOK, QuestionsOK, EntriesOK,
                Unique, UniqueAmong
  <2>4. /\ draft.case_headers = <<>> /\ draft.items = <<>> /\ draft.item_ends = <<>>
        /\ draft.evidences = <<>> /\ draft.questions = <<>>
        /\ draft.source_inventory_entries = <<>> /\ draft.inventory_links = <<>>
    BY <2>1 DEF Tables
  <2> QED
    BY <2>1, <2>3, <2>4 DEF DraftOK
<1> QED
  BY <1>1, MaxCallsAssumption
     DEF Untouched, DraftKept, AcceptedIsStorable, FinalizedIsValid

(* A call the repository has accepted is stored, or a number is too wide.  *)
LEMMA CommitKeeps ==
  ASSUME NEW tool, NEW next, DraftKept, DraftOK(next), Commit(tool, next)
  PROVE  /\ DraftKept' /\ inquiry' = inquiry /\ scanned' = scanned
         /\ reported' = reported /\ finalized' = finalized /\ finalized = "open"
         /\ Fits(next) => draft' = next /\ aborted' = aborted
<1>1. Storable(next)
  BY KeptIsStorable
<1>2. /\ finalized = "open" /\ calls < MaxCalls /\ calls' = calls + 1
      /\ inquiry' = inquiry /\ scanned' = scanned /\ finalized' = finalized
      /\ reported' = reported
      /\ Fits(next) => draft' = next /\ aborted' = aborted
      /\ \/ draft' = next /\ aborted' = aborted
         \/ draft' = draft /\ aborted' = aborted \cup {<<tool, "width">>}
  BY <1>1 DEF Commit
<1>3. DraftOK(draft')
  BY <1>2 DEF DraftKept
<1>4. AcceptedIsStorable'
  BY <1>2 DEF AcceptedIsStorable, DraftKept
<1>5. FinalizedIsValid'
  BY <1>2 DEF FinalizedIsValid
<1>6. DraftKept'
  BY <1>2, <1>3, <1>4, <1>5, MaxCallsAssumption DEF DraftKept
<1> QED
  BY <1>2, <1>6

LEMMA ReadKeeps ==
  ASSUME NEW ranges, ranges \subseteq inquiry.ranges, DraftKept, read(ranges)
  PROVE  DraftKept'
  BY DEF read, DraftKept, AcceptedIsStorable, FinalizedIsValid

LEMMA ReportKeeps ==
  ASSUME NEW range, DraftKept, report_unreadable(range)
  PROVE  DraftKept'
  BY DEF report_unreadable, DraftKept, AcceptedIsStorable, FinalizedIsValid

LEMMA FinalizeKeeps ==
  ASSUME DraftKept, finalize
  PROVE  DraftKept'
<1>1. /\ Violations = {} /\ draft.items # <<>>
      /\ draft.source_inventory_entries # <<>>
      /\ finalized' = IF Issues = {} THEN "complete" ELSE "incomplete"
      /\ inquiry' = inquiry /\ draft' = draft /\ scanned' = scanned
      /\ reported' = reported /\ aborted' = aborted /\ calls' = calls
  BY DEF finalize
<1>2. Violations' = {}
  BY <1>1 DEF Violations, Issues
<1>3. Issues = {} => inquiry.ranges \subseteq scanned /\ inquiry.noted = {}
  <2> SUFFICES ASSUME Issues = {}, NEW range \in inquiry.ranges, range \notin scanned
               PROVE  FALSE
    BY DEF Issues
  <2>1. unscanned_range(inquiry.ranges, scanned, Issues) = {}
    BY <1>1 DEF Violations, validate_snapshot
  <2> QED
    BY <2>1 DEF unscanned_range
<1>4. FinalizedIsValid'
  BY <1>1, <1>2, <1>3 DEF FinalizedIsValid
<1>5. AcceptedIsStorable'
  BY <1>1 DEF AcceptedIsStorable, DraftKept
<1> QED
  BY <1>1, <1>4, <1>5 DEF DraftKept

LEMMA StutterKeeps ==
  ASSUME DraftKept, UNCHANGED vars
  PROVE  DraftKept'
<1>1. Violations' = Violations
  BY DEF vars, Violations, Issues
<1> QED
  BY <1>1 DEF vars, DraftKept, AcceptedIsStorable, FinalizedIsValid

LEMMA DraftStep == DraftInv /\ [Next]_vars => DraftInv'
<1> SUFFICES ASSUME DraftInv, [Next]_vars PROVE DraftInv'
  OBVIOUS
<1>1. /\ \A batch \in inquiry.items \cup inquiry.evidences \cup inquiry.questions
                       \cup inquiry.entries : IsSequence(batch)
      /\ \A batch \in inquiry.items : \A item \in ToSet(batch) :
           IsSequence(item.ends)
      /\ \A batch \in inquiry.entries : \A entry \in ToSet(batch) :
           IsSequence(entry.item_ids)
      /\ DraftKept /\ DraftOK(draft)
  BY BatchesAssumption DEF DraftInv, DraftKept, IsSequence
<1>2. inquiry' = inquiry
  BY DEF Next, vars, save_header, add_items, add_evidences, add_questions,
         add_inventory, Commit, read, report_unreadable, finalize
<1>3. ASSUME NEW payload \in inquiry.header, save_header(payload) PROVE DraftKept'
  BY <1>1, <1>3, HeaderKept, CommitKeeps DEF save_header
<1>4. ASSUME NEW batch \in inquiry.items, add_items(batch) PROVE DraftKept'
  BY <1>1, <1>4, ItemsKept, CommitKeeps DEF add_items
<1>5. ASSUME NEW batch \in inquiry.evidences, add_evidences(batch) PROVE DraftKept'
  BY <1>1, <1>5, EvidencesKept, CommitKeeps DEF add_evidences
<1>6. ASSUME NEW batch \in inquiry.questions, add_questions(batch) PROVE DraftKept'
  BY <1>1, <1>6, QuestionsKept, CommitKeeps DEF add_questions
<1>7. ASSUME NEW batch \in inquiry.entries, add_inventory(batch) PROVE DraftKept'
  BY <1>1, <1>7, EntriesKept, CommitKeeps DEF add_inventory
<1>8. ASSUME NEW range \in inquiry.ranges, read({range}) PROVE DraftKept'
  BY <1>1, <1>8, ReadKeeps
<1>9. ASSUME NEW range \in inquiry.issues, report_unreadable(range) PROVE DraftKept'
  BY <1>1, <1>9, ReportKeeps
<1>10. ASSUME finalize PROVE DraftKept'
  BY <1>1, <1>10, FinalizeKeeps
<1>11. ASSUME UNCHANGED vars PROVE DraftKept'
  BY <1>1, <1>11, StutterKeeps
<1>12. DraftKept'
  BY <1>3, <1>4, <1>5, <1>6, <1>7, <1>8, <1>9, <1>10, <1>11 DEF Next
<1> QED
  BY <1>2, <1>12 DEF DraftInv

LEMMA DraftInvariant == Spec => []DraftKept
<1>1. Init => DraftInv
  BY DraftInit DEF Init, DraftInv
<1>2. DraftInv => DraftKept
  BY DEF DraftInv
<1> QED
  BY <1>1, <1>2, DraftStep, PTL DEF Spec

LEMMA KeptIsTyped == DraftKept => TypeOK
<1> SUFFICES ASSUME DraftKept PROVE TypeOK
  OBVIOUS
<1>1. DraftOK(draft)
  BY DEF DraftKept
<1>2. /\ Conforms(HeaderInput, draft.case_headers)
      /\ Conforms(ItemInput, draft.items)
      /\ \A ends \in ToSet(draft.item_ends) : Conforms(EndInput, ends)
      /\ Conforms(EvidenceInput, draft.evidences)
      /\ Conforms(QuestionInput, draft.questions)
  BY <1>1 DEF DraftOK, HeadersOK, ItemsOK, ItemOK, AllEndsOK, EndsOK, EvidencesOK,
              QuestionsOK, Conforms, Typed
<1>3. Conforms(InventoryInput, draft.source_inventory_entries)
  <2> SUFFICES ASSUME NEW k \in DOMAIN draft.source_inventory_entries
               PROVE  Typed(InventoryInput, draft.source_inventory_entries[k])
    BY DEF Conforms, Typed, ToSet
  <2> QED
    BY <1>1 DEF DraftOK, EntriesOK, EntryOK
<1> QED
  BY <1>1, <1>2, <1>3 DEF DraftKept, DraftOK, TypeOK

(* What is stored has the types its contract promises, blanks stripped     *)
(* (DraftRepository, through the contracts of draft_types.py).             *)
THEOREM DraftTypeCorrect == Spec => []TypeOK
  BY KeptIsTyped, DraftInvariant, PTL

(* No transaction that the contracts and DraftRepository let through is    *)
(* aborted by a constraint or a unique index of models/drafts.py or of the *)
(* migration t201: the database only refuses a number too wide.            *)
THEOREM DraftAcceptedIsStorable == Spec => []AcceptedIsStorable
  BY DraftInvariant, PTL DEF DraftKept

(* DraftService.finalize leaves no violation behind, and a complete draft  *)
(* was read to its last range.                                             *)
THEOREM DraftFinalizedIsValid == Spec => []FinalizedIsValid
  BY DraftInvariant, PTL DEF DraftKept

(* The contracts of the tools leave the checks of the same rules nothing   *)
(* to find.                                                                *)
LEMMA BackstopsIdle ==
  ASSUME NEW d, DraftOK(d)
  PROVE  Backstops(d) = {}
<1>1. missing_source_no(d) = {}
  <2>1. \A k \in DOMAIN d.items : Present(d.items[k], "source_no")
    BY SequenceFacts DEF DraftOK, ItemsOK, ItemOK
  <2> QED
    BY <2>1 DEF missing_source_no
<1>2. missing_unit(d) = {}
  <2>1. \A k \in DOMAIN d.items : \A m \in DOMAIN ValueOf :
          d.items[k][ValueOf[m]] # Null => Present(d.items[k], UnitOf[m])
    BY SequenceFacts DEF DraftOK, ItemsOK, ItemOK
  <2>2. \A k \in DOMAIN d.item_ends : \A end \in ToSet(d.item_ends[k]) :
          end["od_value"] # Null => Present(end, "od_unit")
    <3> TAKE k \in DOMAIN d.item_ends
    <3> TAKE end \in ToSet(d.item_ends[k])
    <3>1. Typed(EndInput, end) /\ unit_required(end)
      BY SequenceFacts DEF DraftOK, AllEndsOK, EndsOK
    <3>2. Value(end, "od_unit") \in Nonblank \cup {Null} /\ Value(end, "od_unit") = end["od_unit"]
      BY <3>1, EndColumns DEF Typed, Value
    <3> QED
      BY <3>1, <3>2, NonblankText DEF unit_required, Present
  <2> QED
    BY <2>1, <2>2 DEF missing_unit
<1>3. orphan_question(d) = {}
  <2>1. \A row \in ToSet(d.questions) :
          /\ row["item_id"] \in Ids(d.items) \cup {Null}
          /\ Present(row, "target_field")
    <3> TAKE row \in ToSet(d.questions)
    <3>1. Typed(QuestionInput, row) /\ row["item_id"] \in Ids(d.items) \cup {Null}
      BY DEF DraftOK, QuestionsOK
    <3>2. Value(row, "target_field") \in Nonblank
      BY <3>1, QuestionColumns DEF Typed, Value
    <3> QED
      BY <3>1, <3>2, NonblankText DEF Present
  <2> QED
    BY <2>1 DEF orphan_question
<1>4. excluded_without_basis(d) = {}
  <2>1. \A row \in ToSet(d.source_inventory_entries) :
          row["status"] = "excluded" => Present(row, "basis")
    <3> TAKE row \in ToSet(d.source_inventory_entries)
    <3>1. PICK k \in DOMAIN d.source_inventory_entries :
            row = d.source_inventory_entries[k]
      BY DEF ToSet
    <3>2. EntryOK(row, d.inventory_links[k], Ids(d.items))
      BY <3>1 DEF DraftOK, EntriesOK
    <3>3. /\ Typed(InventoryInput, row)
          /\ row["status"] = "excluded" => row["basis"] # Null
      BY <3>2 DEF EntryOK, valid_mapping
    <3>4. Value(row, "basis") = row["basis"] /\ row["basis"] \in Nonblank \cup {Null}
      BY <3>3, InventoryColumns DEF Typed, Value
    <3> QED
      BY <3>3, <3>4, NonblankText DEF Present
  <2> QED
    BY <2>1 DEF excluded_without_basis
<1> QED
  BY <1>1, <1>2, <1>3, <1>4 DEF Backstops

(* validate_snapshot never finds a row without source number, unit, target *)
(* or basis: the contracts have refused it.                                *)
THEOREM DraftBackstopsAreIdle == Spec => []BackstopsAreIdle
<1>1. DraftKept => BackstopsAreIdle
  BY BackstopsIdle DEF DraftKept, BackstopsAreIdle
<1> QED
  BY <1>1, DraftInvariant, PTL

-----------------------------------------------------------------------------
(* The reconciliation.                                                     *)

(* No entry links an item twice: an entry has as many items as links.      *)
LEMMA LinkCount ==
  ASSUME NEW s, IsSequence(s), IsInjective(s)
  PROVE  /\ IsFiniteSet(ToSet(s)) /\ Cardinality(ToSet(s)) = Len(s)
         /\ Len(s) \in Nat /\ (Len(s) = 0 => ToSet(s) = {})
<1>1. Len(s) \in Nat /\ DOMAIN s = 1..Len(s) /\ s \in Seq(ToSet(s))
  BY SequenceFacts DEF IsSequence
<1>2. s \in Bijection(1..Len(s), ToSet(s))
  <2>1. s \in [1..Len(s) -> ToSet(s)]
    BY <1>1
  <2>2. \A j, k \in 1..Len(s) : s[j] = s[k] => j = k
    BY <1>1 DEF IsInjective
  <2>3. \A x \in ToSet(s) : \E k \in 1..Len(s) : s[k] = x
    BY <1>1 DEF ToSet
  <2> QED
    BY <2>1, <2>2, <2>3 DEF Bijection, Injection, Surjection
<1>3. ExistsBijection(1..Len(s), ToSet(s))
  BY <1>2 DEF ExistsBijection
<1>4. IsFiniteSet(ToSet(s)) /\ Cardinality(ToSet(s)) = Len(s)
  BY <1>1, <1>3, FS_NatBijection, FS_CountingElements
<1>5. Len(s) = 0 => ToSet(s) = {}
  BY <1>1 DEF ToSet
<1> QED
  BY <1>1, <1>4, <1>5

LinksOf(tables) ==
  UNION {{<<entry, item>> : item \in ToSet(tables[entry])} : entry \in DOMAIN tables}

LEMMA LinksByEntry ==
  ASSUME NEW tables, NEW entry \in DOMAIN tables
  PROVE  by_entry(LinksOf(tables), entry) = ToSet(tables[entry])
<1> DEFINE found == by_entry(LinksOf(tables), entry)
<1>1. ASSUME NEW item \in found PROVE item \in ToSet(tables[entry])
  <2>1. PICK link \in LinksOf(tables) : link[1] = entry /\ item = link[2]
    BY <1>1 DEF by_entry
  <2>2. PICK e \in DOMAIN tables : \E i \in ToSet(tables[e]) : link = <<e, i>>
    BY DEF LinksOf
  <2> QED
    BY <2>1, <2>2
<1>2. ASSUME NEW item \in ToSet(tables[entry]) PROVE item \in found
  <2>1. <<entry, item>> \in LinksOf(tables)
    BY <1>2 DEF LinksOf
  <2> QED
    BY <2>1 DEF by_entry
<1> QED
  BY <1>1, <1>2

LEMMA LinksByItem ==
  ASSUME NEW tables, NEW items, NEW item \in items
  PROVE  by_item(items, LinksOf(tables), item)
           = {entry \in DOMAIN tables : item \in ToSet(tables[entry])}
<1> DEFINE found == by_item(items, LinksOf(tables), item)
<1>1. ASSUME NEW entry \in found
      PROVE  entry \in DOMAIN tables /\ item \in ToSet(tables[entry])
  <2>1. PICK link \in LinksOf(tables) : link[2] = item /\ entry = link[1]
    BY <1>1 DEF by_item
  <2>2. PICK e \in DOMAIN tables : \E i \in ToSet(tables[e]) : link = <<e, i>>
    BY DEF LinksOf
  <2> QED
    BY <2>1, <2>2
<1>2. ASSUME NEW entry \in DOMAIN tables, item \in ToSet(tables[entry])
      PROVE  entry \in found
  <2>1. <<entry, item>> \in LinksOf(tables)
    BY <1>2 DEF LinksOf
  <2> QED
    BY <2>1 DEF by_item
<1> QED
  BY <1>1, <1>2

LEMMA Reconciled == DraftKept => InventoryReconciles
<1> SUFFICES ASSUME DraftKept PROVE InventoryReconciles
  OBVIOUS
<1> DEFINE rows == draft.source_inventory_entries
           status == [entry \in DOMAIN rows |-> rows[entry]["status"]]
           items == Ids(draft.items)
           tables == draft.inventory_links
           links == LinksOf(tables)
           count(e) == Cardinality(by_entry(links, e))
<1>1. EntriesOK(rows, tables, items)
  BY DEF DraftKept, DraftOK
<1>2. /\ DOMAIN tables = DOMAIN rows
      /\ DOMAIN rows = 1..Len(rows) /\ Len(rows) \in Nat
  <2>1. IsSequence(rows) /\ IsSequence(tables) /\ Len(tables) = Len(rows)
    BY <1>1 DEF EntriesOK
  <2> HIDE DEF rows, tables
  <2> QED
    BY <2>1, SequenceFacts
<1> HIDE DEF rows, tables, items
<1>3. \A e \in DOMAIN rows :
        /\ by_entry(links, e) = ToSet(tables[e]) /\ by_entry(links, e) \subseteq items
        /\ count(e) \in Nat
        /\ status[e] \in {"mapped", "split", "excluded", "unmapped"}
        /\ status[e] \in {"excluded", "unmapped"} => count(e) = 0 /\ by_entry(links, e) = {}
        /\ status[e] = "mapped" => count(e) = 1
        /\ status[e] = "split" => count(e) >= 2
  <2> TAKE e \in DOMAIN rows
  <2>1. EntryOK(rows[e], tables[e], items)
    BY <1>1 DEF EntriesOK
  <2>2. by_entry(links, e) = ToSet(tables[e])
    BY <1>2, LinksByEntry
  <2>3. /\ Cardinality(ToSet(tables[e])) = Len(tables[e]) /\ Len(tables[e]) \in Nat
        /\ Len(tables[e]) = 0 => ToSet(tables[e]) = {}
    BY <2>1, LinkCount DEF EntryOK, valid_mapping
  <2>4. rows[e]["status"] \in {"mapped", "split", "excluded", "unmapped"}
    BY <2>1, InventoryColumns DEF EntryOK, Typed
  <2> HIDE DEF links
  <2> QED
    BY <2>1, <2>2, <2>3, <2>4 DEF EntryOK, valid_mapping
<1>4. \A i \in items : by_item(items, links, i) = {e \in DOMAIN rows : i \in ToSet(tables[e])}
  BY <1>2, LinksByItem
<1>5. \A link \in links : link[1] \in DOMAIN rows /\ link[2] \in items
  <2> TAKE link \in links
  <2>1. PICK e \in DOMAIN tables : \E i \in ToSet(tables[e]) : link = <<e, i>>
    BY DEF LinksOf
  <2>2. ToSet(tables[e]) \subseteq items
    BY <1>2, <1>3
  <2> QED
    BY <1>2, <2>1, <2>2
<1> HIDE DEF links
<1>6. DOMAIN status = DOMAIN rows
  OBVIOUS
<1> HIDE DEF status
<1>7. inconsistent(status, items, links) = {}
  BY <1>3, <1>5, <1>6 DEF inconsistent
<1>8. \A e \in DOMAIN rows :
        judgement(status, items, links, e) =
          IF status[e] = "unmapped" THEN "missing" ELSE status[e]
  <2> TAKE e \in DOMAIN rows
  <2>1. CASE status[e] = "split"
    BY <1>3, <1>7, <2>1 DEF judgement
  <2>2. CASE status[e] = "mapped"
    BY <1>3, <1>7, <2>2 DEF judgement
  <2>3. CASE status[e] = "excluded"
    BY <1>3, <1>7, <2>3 DEF judgement
  <2>4. CASE status[e] = "unmapped"
    BY <1>3, <1>7, <2>4 DEF judgement
  <2> QED
    BY <1>3, <2>1, <2>2, <2>3, <2>4
<1> DEFINE entries == entry_views(status, items, links)
           views == item_views(status, items, links)
           total == summary(status, items, links)
           Judged(value) == {e \in DOMAIN rows : entries[e].judgement = value}
<1>9. \A e \in DOMAIN rows :
        /\ entries[e].judgement = judgement(status, items, links, e)
        /\ entries[e].linked_items = by_entry(links, e) \cap items
  BY <1>6 DEF entry_views
<1>10. \A i \in items :
         /\ views[i].source_entries = by_item(items, links, i) \cap DOMAIN rows
         /\ views[i].has_source <=> by_item(items, links, i) # {}
  BY <1>6 DEF item_views
<1>11. /\ total.inconsistent_entry_ids = {}
       /\ total.unmapped_entry_ids =
            {e \in DOMAIN rows : status[e] = "unmapped" /\ by_entry(links, e) = {}}
       /\ total.split_entry_ids = {e \in DOMAIN rows : count(e) >= 2}
       /\ total.orphan_item_ids = {i \in items : by_item(items, links, i) = {}}
       /\ total.excluded_entry_ids = {e \in DOMAIN rows : status[e] = "excluded"}
       /\ total.source_entry_count = Cardinality(DOMAIN rows)
       /\ total.source_item_count =
            Cardinality({e \in DOMAIN rows : status[e] # "excluded"})
  BY <1>6, <1>7 DEF summary
<1> HIDE DEF entries, views, total
<1>12. Judged("inconsistent") = {}
  BY <1>3, <1>8, <1>9
<1>13. \A s \in {"mapped", "split", "excluded"} :
         Judged(s) = {e \in DOMAIN rows : status[e] = s}
  BY <1>3, <1>8, <1>9
<1>14. Judged("missing") = total.unmapped_entry_ids
  BY <1>3, <1>8, <1>9, <1>11
<1>15. Judged("split") = total.split_entry_ids
  BY <1>3, <1>8, <1>9, <1>11
<1>16. \A e \in DOMAIN rows, i \in items :
         i \in entries[e].linked_items <=> e \in views[i].source_entries
  BY <1>3, <1>4, <1>9, <1>10
<1>17. total.orphan_item_ids = {i \in items : ~views[i].has_source}
  BY <1>10, <1>11
<1>18. total.source_item_count + Cardinality(total.excluded_entry_ids)
         = total.source_entry_count
  <2> DEFINE All == DOMAIN rows
             Out == {e \in All : status[e] = "excluded"}
             In == {e \in All : status[e] # "excluded"}
  <2>1. IsFiniteSet(All)
    BY <1>2, FS_Interval
  <2>2. IsFiniteSet(In) /\ IsFiniteSet(Out)
    BY <2>1, FS_Subset
  <2>3. In \cup Out = All /\ In \cap Out = {}
    OBVIOUS
  <2> HIDE DEF All, Out, In
  <2>4. Cardinality(All) = Cardinality(In) + Cardinality(Out) - Cardinality({})
    BY <2>2, <2>3, FS_Union
  <2>5. /\ Cardinality({}) = 0 /\ Cardinality(In) \in Nat /\ Cardinality(Out) \in Nat
    BY <2>2, FS_CardinalityType, FS_EmptySet
  <2>6. Cardinality(In) + Cardinality(Out) = Cardinality(All)
    BY <2>4, <2>5
  <2> QED
    BY <1>11, <2>6 DEF All, Out, In
<1> QED
  BY Zenon, <1>11, <1>12, <1>13, <1>14, <1>15, <1>16, <1>17, <1>18
     DEF InventoryReconciles, entries, views, total, status, links, LinksOf,
         rows, items, tables

(* reconcile finds no entry inconsistent: valid_mapping has let none pass, *)
(* and the two views and the summary show the same links.                  *)
THEOREM DraftInventoryReconciles == Spec => []InventoryReconciles
  BY Reconciled, DraftInvariant, PTL

-----------------------------------------------------------------------------
(* The remedies.                                                           *)

(* A row that differs from all the others may be added to a table.         *)
LEMMA RowAdded ==
  ASSUME NEW rows, IsSequence(rows), NEW row, NEW columns, Unique(rows, columns),
         \A r \in ToSet(rows) : \E c \in columns : r[c] # row[c]
  PROVE  /\ Unique(rows \o <<row>>, columns)
         /\ IsSequence(rows \o <<row>>)
         /\ DOMAIN (rows \o <<row>>) = 1..(Len(rows) + 1) /\ Len(rows) \in Nat
         /\ DOMAIN rows = 1..Len(rows)
         /\ \A k \in DOMAIN rows : (rows \o <<row>>)[k] = rows[k]
         /\ (rows \o <<row>>)[Len(rows) + 1] = row
         /\ ToSet(rows \o <<row>>) = ToSet(rows) \cup {row}
<1> DEFINE all == rows \o <<row>>
<1>1. IsSequence(<<row>>) /\ Len(<<row>>) = 1 /\ ToSet(<<row>>) = {row}
      /\ DOMAIN <<row>> = 1..1 /\ <<row>>[1] = row
  BY DEF IsSequence, ToSet
<1>2. /\ IsSequence(all) /\ Len(all) = Len(rows) + 1
      /\ ToSet(all) = ToSet(rows) \cup {row}
      /\ \A k \in 1..Len(rows) : all[k] = rows[k]
      /\ all[Len(rows) + 1] = row
  BY <1>1, Joined
<1>3. /\ Len(rows) \in Nat /\ DOMAIN rows = 1..Len(rows)
      /\ DOMAIN all = 1..(Len(rows) + 1)
  BY <1>2, SequenceFacts
<1> HIDE DEF all
<1>4. \A k \in DOMAIN all : k \in DOMAIN rows \/ k = Len(rows) + 1
  BY <1>3
<1>5. \A k \in DOMAIN rows : rows[k] \in ToSet(rows) /\ all[k] = rows[k]
  BY <1>2, <1>3 DEF ToSet
<1>6. \A k \in DOMAIN rows : \E c \in columns : all[k][c] # row[c]
  BY <1>5
<1>7. ASSUME NEW j \in DOMAIN all, NEW k \in DOMAIN all,
             \A c \in columns : all[j][c] = all[k][c]
      PROVE  j = k
  <2>1. CASE j \in DOMAIN rows /\ k \in DOMAIN rows
    BY <1>5, <1>7, <2>1 DEF Unique, UniqueAmong
  <2>2. CASE j \notin DOMAIN rows \/ k \notin DOMAIN rows
    BY <1>2, <1>4, <1>6, <1>7, <2>2
  <2> QED
    BY <2>1, <2>2
<1>8. Unique(all, columns)
  BY <1>7 DEF Unique, UniqueAmong
<1> QED
  BY <1>2, <1>3, <1>5, <1>8 DEF all

(* What the check of evidence looks for: the fields of an item, of its     *)
(* ends and of the header; and a header.                                   *)
Unproven(d, item, names) ==
  {Violation("missing_evidence", item, name) :
     name \in {n \in names : <<item, n>> \notin evidence_fields(d)}}

LEMMA EvidenceIsMissing ==
  ASSUME NEW d, NEW v
  PROVE  v \in missing_evidence(d) <=>
           \/ \E k \in DOMAIN d.items : v \in Unproven(d, Id(k), required(d.items[k]))
           \/ \E k \in DOMAIN d.item_ends : \E end \in ToSet(d.item_ends[k]) :
                v \in Unproven(d, Id(k), required_of_end(end))
           \/ \E header \in ToSet(d.case_headers) :
                v \in Unproven(d, Null, required_of_header(header))
           \/ d.case_headers = <<>> /\ v = Violation("missing_evidence", Null, "header")
<1> DEFINE Items == UNION {Unproven(d, Id(k), required(d.items[k])) : k \in DOMAIN d.items}
           EndsOf(k) == UNION {Unproven(d, Id(k), required_of_end(end)) :
                                 end \in ToSet(d.item_ends[k])}
           Ends == UNION {EndsOf(k) : k \in DOMAIN d.item_ends}
           Headers == UNION {Unproven(d, Null, required_of_header(header)) :
                               header \in ToSet(d.case_headers)}
           None == IF d.case_headers = <<>>
                     THEN {Violation("missing_evidence", Null, "header")} ELSE {}
<1>1. missing_evidence(d) = Items \cup Ends \cup Headers \cup None
  BY DEF missing_evidence, Unproven
<1>2. v \in Items <=>
        \E k \in DOMAIN d.items : v \in Unproven(d, Id(k), required(d.items[k]))
  BY Zenon
<1>3. v \in Ends <=>
        \E k \in DOMAIN d.item_ends : \E end \in ToSet(d.item_ends[k]) :
          v \in Unproven(d, Id(k), required_of_end(end))
  <2>1. \A k : v \in EndsOf(k) <=>
          \E end \in ToSet(d.item_ends[k]) : v \in Unproven(d, Id(k), required_of_end(end))
    BY Zenon
  <2>2. v \in Ends <=> \E k \in DOMAIN d.item_ends : v \in EndsOf(k)
    BY Zenon
  <2> QED
    BY <2>1, <2>2, Zenon
<1>4. v \in Headers <=>
        \E header \in ToSet(d.case_headers) :
          v \in Unproven(d, Null, required_of_header(header))
  BY Zenon
<1>5. v \in None <=>
        d.case_headers = <<>> /\ v = Violation("missing_evidence", Null, "header")
  BY Zenon
<1> HIDE DEF Items, Ends, Headers, None
<1> QED
  BY <1>1, <1>2, <1>3, <1>4, <1>5

(* The violations of each kind are found by the check of that kind.        *)
OfKind(found, kind) == \A v \in found : v.kind = kind

LEMMA KindsDiffer ==
  ASSUME NEW d, NEW readable, NEW read_ranges, NEW excused
  PROVE  /\ OfKind(missing_evidence(d), "missing_evidence")
         /\ OfKind(orphan_candidate(d), "orphan_candidate")
         /\ OfKind(missing_question(d), "missing_question")
         /\ OfKind(unsplit_conflict(d), "unsplit_conflict")
         /\ OfKind(unscanned_range(readable, read_ranges, excused), "unscanned_range")
<1>1. ASSUME NEW item, NEW names, NEW v \in Unproven(d, item, names)
      PROVE  v.kind = "missing_evidence"
  <2>1. PICK name : v = Violation("missing_evidence", item, name)
    BY Zenon DEF Unproven
  <2> QED
    BY <2>1 DEF Violation
<1>2. OfKind(missing_evidence(d), "missing_evidence")
  <2> SUFFICES ASSUME NEW v \in missing_evidence(d) PROVE v.kind = "missing_evidence"
    BY DEF OfKind
  <2>1. Violation("missing_evidence", Null, "header").kind = "missing_evidence"
    BY DEF Violation
  <2> QED
    BY <1>1, <2>1, EvidenceIsMissing
<1>3. OfKind(orphan_candidate(d), "orphan_candidate")
  BY DEF OfKind, orphan_candidate, Violation
<1>4. OfKind(missing_question(d), "missing_question")
  BY DEF OfKind, missing_question, Violation
<1>5. OfKind(unsplit_conflict(d), "unsplit_conflict")
  BY DEF OfKind, unsplit_conflict, Violation
<1>6. OfKind(unscanned_range(readable, read_ranges, excused), "unscanned_range")
  BY DEF OfKind, unscanned_range, Violation
<1> QED
  BY <1>2, <1>3, <1>4, <1>5, <1>6

LEMMA FoundByKind ==
  ASSUME NEW d, DraftOK(d), NEW readable, NEW read_ranges, NEW excused,
         NEW v \in validate_snapshot(d, readable, read_ranges, excused)
  PROVE  /\ v.kind = "missing_evidence" => v \in missing_evidence(d)
         /\ v.kind = "orphan_candidate" => v \in orphan_candidate(d)
         /\ v.kind = "missing_question" => v \in missing_question(d)
         /\ v.kind \in {"missing_evidence", "orphan_candidate", "missing_question",
                        "unsplit_conflict", "unscanned_range"}
<1>1. \/ v \in unscanned_range(readable, read_ranges, excused)
      \/ v \in missing_evidence(d) \/ v \in orphan_candidate(d)
      \/ v \in missing_question(d) \/ v \in unsplit_conflict(d) \/ v \in Backstops(d)
  BY Zenon DEF validate_snapshot
<1>2. v \notin Backstops(d)
  BY BackstopsIdle
<1> QED
  BY <1>1, <1>2, KindsDiffer DEF OfKind

(* The fields of items, of ends and of headers. *)
FieldNames ==
  {"kind"} \cup DOMAIN StateOf \cup DOMAIN ValueOf \cup DOMAIN TextOf
  \cup {"end_a.od", "end_a.connection", "end_a.thread_end",
        "end_b.od", "end_b.connection", "end_b.thread_end"}
  \cup DOMAIN HeaderField

LEMMA RequiredFields ==
  /\ \A row : required(row) \subseteq FieldNames
  /\ \A end : Typed(EndInput, end) => required_of_end(end) \subseteq FieldNames
  /\ \A header : required_of_header(header) \subseteq FieldNames
  /\ "header" \notin FieldNames /\ "quote_deadline" \in FieldNames
<1>1. \A row : required(row) \subseteq FieldNames
  BY DEF required, FieldNames
<1>2. ASSUME NEW end, Typed(EndInput, end)
      PROVE  required_of_end(end) \subseteq FieldNames
  <2>1. end["side"] \in {"end_a", "end_b"}
    BY <1>2, EndColumns DEF Typed
  <2>2. \A c \in {"od_value", "connection", "thread_end"} :
          /\ EndField["end_a"][c] \in FieldNames
          /\ EndField["end_b"][c] \in FieldNames
    BY DEF EndField, FieldNames
  <2> QED
    BY <2>1, <2>2 DEF required_of_end
<1>3. \A header : required_of_header(header) \subseteq FieldNames
  BY DEF required_of_header, FieldNames
<1>4. "header" \notin FieldNames /\ "quote_deadline" \in FieldNames
  <2>1. "quote_deadline" \in DOMAIN HeaderField /\ "header" \notin DOMAIN HeaderField
    BY DEF HeaderField
  <2>2. "header" \notin DOMAIN StateOf \cup DOMAIN ValueOf \cup DOMAIN TextOf
    BY DEF StateOf, ValueOf, TextOf
  <2> QED
    BY <2>1, <2>2 DEF FieldNames
<1> QED
  BY <1>1, <1>2, <1>3, <1>4

LEMMA WhatIsUnproven ==
  ASSUME NEW d, DraftOK(d), NEW v \in missing_evidence(d)
  PROVE  \/ /\ v.item \in Ids(d.items) \cup {Null}
            /\ v.field \in FieldNames
            /\ <<v.item, v.field>> \notin evidence_fields(d)
         \/ /\ d.case_headers = <<>>
            /\ v = Violation("missing_evidence", Null, "header")
<1>1. \/ \E k \in DOMAIN d.items : v \in Unproven(d, Id(k), required(d.items[k]))
      \/ \E k \in DOMAIN d.item_ends : \E end \in ToSet(d.item_ends[k]) :
           v \in Unproven(d, Id(k), required_of_end(end))
      \/ \E header \in ToSet(d.case_headers) :
           v \in Unproven(d, Null, required_of_header(header))
      \/ d.case_headers = <<>> /\ v = Violation("missing_evidence", Null, "header")
  BY EvidenceIsMissing
<1>2. DOMAIN d.item_ends = DOMAIN d.items
  BY SequenceFacts DEF DraftOK, ItemsOK, AllEndsOK
<1>3. \A k \in DOMAIN d.item_ends : \A end \in ToSet(d.item_ends[k]) : Typed(EndInput, end)
  BY SequenceFacts DEF DraftOK, AllEndsOK, EndsOK
<1>4. ASSUME NEW item \in Ids(d.items) \cup {Null}, NEW names, names \subseteq FieldNames,
             v \in Unproven(d, item, names)
      PROVE  /\ v.item \in Ids(d.items) \cup {Null}
             /\ v.field \in FieldNames
             /\ <<v.item, v.field>> \notin evidence_fields(d)
  <2>1. PICK name \in names : <<item, name>> \notin evidence_fields(d)
                              /\ v = Violation("missing_evidence", item, name)
    BY <1>4 DEF Unproven
  <2>2. v.item = item /\ v.field = name
    BY <2>1 DEF Violation
  <2> QED
    BY <1>4, <2>1, <2>2
<1> QED
  BY <1>1, <1>2, <1>3, <1>4, RequiredFields DEF Ids

(* With the evidence, or with the header, the violation is gone.           *)
LEMMA ProvenIsFound ==
  ASSUME NEW d, DraftOK(d), NEW v, <<v.item, v.field>> \in evidence_fields(d),
         v.field # "header"
  PROVE  v \notin missing_evidence(d)
<1>1. ASSUME v \in missing_evidence(d) PROVE FALSE
  BY <1>1, WhatIsUnproven DEF Violation
<1> QED
  BY <1>1

(* There is room for a remedy: the fields are names, there is a document   *)
(* to cite, items have an id each that the model tells apart, and there is *)
(* a code left for another item and for another question.                  *)
RoomIsLeft ==
  /\ FieldNames \subseteq Names
  /\ Documents # {} /\ Documents \subseteq Positive
  /\ Ids(draft.items) \subseteq Positive
  /\ \A j, k \in 1..(Len(draft.items) + 1) : Id(j) = Id(k) => j = k
  /\ \E name \in Names : \A row \in ToSet(draft.items) : row["row_code"] # name
  /\ \E name \in Names : \A row \in ToSet(draft.questions) : row["question_code"] # name

LEMMA StripStays ==
  \A value : value \notin {"padded", "blank", "wide"} => Strip(value) = value
  BY DEF Strip

LEMMA TextIsNonblank ==
  /\ "text" \in Nonblank /\ Strip("text") = "text"
  /\ \A name \in Names : name \in Nonblank /\ Strip(name) = name
  BY NamesAssumption, StripStays DEF Nonblank, Unnamed

(* What SourceOf proposes is a row about that field of that item.          *)
LEMMA SourceFits ==
  ASSUME NEW item \in Positive \cup {Null}, NEW field \in Names,
         Documents # {}, Documents \subseteq Positive
  PROVE  LET row == Parsed(EvidenceInput, SourceOf(item, field)) IN
         /\ WellTyped(EvidenceInput, SourceOf(item, field))
         /\ row["item_id"] = item /\ row["field"] = field
         /\ row["document_id"] \in Documents
         /\ row["locator"] = "text" /\ row["quote"] = "text"
<1> DEFINE payload == SourceOf(item, field)
           row == Parsed(EvidenceInput, payload)
           cited == CHOOSE d \in Documents : TRUE
<1>1. cited \in Documents
  OBVIOUS
<1> HIDE DEF cited
<1>2. /\ DOMAIN payload = EvidenceTexts \cup {"item_id", "document_id"}
      /\ payload["item_id"] = item /\ payload["field"] = field
      /\ payload["document_id"] = cited
      /\ \A c \in EvidenceTexts \ {"field"} : payload[c] = "text"
  BY DEF SourceOf, EvidenceTexts, cited
<1>3. Strip(item) = item /\ Strip(cited) = cited /\ Strip(field) = field
  BY <1>1, StripStays, TextIsNonblank, PositiveNumber DEF Null
<1> HIDE DEF payload
<1>4. /\ \A c \in EvidenceTexts \ {"field"} : row[c] = "text"
      /\ row["item_id"] = item /\ row["field"] = field /\ row["document_id"] = cited
      /\ \A c \in EvidenceNotes : row[c] = Null
  BY <1>2, <1>3, EvidenceColumns, TextIsNonblank
     DEF Parsed, Default, EvidenceTexts, EvidenceNotes
<1> HIDE DEF row
<1>5. \A c \in DOMAIN EvidenceInput : row[c] \in EvidenceInput[c]
  BY <1>1, <1>4, EvidenceColumns, TextIsNonblank DEF EvidenceTexts, EvidenceNotes
<1>6. WellTyped(EvidenceInput, payload)
  BY <1>2, <1>5, EvidenceColumns DEF WellTyped, row
<1> QED
  BY <1>1, <1>4, <1>6 DEF row, payload, EvidenceTexts

(* One element, one row. *)
LEMMA ParsedOne ==
  ASSUME NEW contract, NEW payload
  PROVE  Parse(contract, <<payload>>) = <<Parsed(contract, payload)>>
  BY DEF Parse

(* A source no row gives can be given, and is then found.                  *)
LEMMA SourceRemedies ==
  ASSUME NEW d, DraftOK(d), FieldNames \subseteq Names,
         Documents # {}, Documents \subseteq Positive, Ids(d.items) \subseteq Positive,
         NEW v \in missing_evidence(d), v.field # "header"
  PROVE  LET source == <<SourceOf(v.item, v.field)>> IN
         /\ EvidencesAccepted(d, source)
         /\ DraftOK(WithEvidences(d, source))
         /\ v \notin missing_evidence(WithEvidences(d, source))
<1> DEFINE payload == SourceOf(v.item, v.field)
           row == Parsed(EvidenceInput, payload)
           e == WithEvidences(d, <<payload>>)
<1>1. /\ v.item \in Ids(d.items) \cup {Null} /\ v.field \in FieldNames
      /\ <<v.item, v.field>> \notin evidence_fields(d)
  BY WhatIsUnproven DEF Violation
<1>2. /\ WellTyped(EvidenceInput, payload)
      /\ row["item_id"] = v.item /\ row["field"] = v.field
      /\ row["document_id"] \in Documents
      /\ row["locator"] = "text" /\ row["quote"] = "text"
  <2>1. v.item \in Positive \cup {Null} /\ v.field \in Names
    BY <1>1
  <2> QED
    BY <2>1, SourceFits, Zenon
<1>3. Parse(EvidenceInput, <<payload>>) = <<row>>
  BY ParsedOne
<1>4. Typed(EvidenceInput, row)
  BY <1>2, ParsedTyped
<1> HIDE DEF row, payload
<1>5. \A r : Typed(EvidenceInput, r) =>
        Present(r, "document_id") /\ Present(r, "locator") /\ Present(r, "quote")
  <2> TAKE r
  <2> HAVE Typed(EvidenceInput, r)
  <2>1. /\ Value(r, "document_id") \in Positive
        /\ Value(r, "locator") \in Nonblank /\ Value(r, "quote") \in Nonblank
    BY EvidenceColumns DEF Typed, Value, EvidenceTexts
  <2> QED
    BY <2>1, NonblankText, PositiveNumber DEF Present, Null
<1>6. \A r \in ToSet(d.evidences) : r["item_id"] # row["item_id"] \/ r["field"] # row["field"]
  <2> TAKE r \in ToSet(d.evidences)
  <2>1. Typed(EvidenceInput, r)
    BY DEF DraftOK, EvidencesOK
  <2>2. <<r["item_id"], r["field"]>> \in evidence_fields(d)
    BY <1>5, <2>1 DEF evidence_fields
  <2> QED
    BY <1>1, <1>2, <2>2
<1>7. /\ IsSequence(d.evidences) /\ Unique(d.evidences, {"item_id", "field"})
  BY DEF DraftOK, EvidencesOK
<1>8. /\ Unique(d.evidences \o <<row>>, {"item_id", "field"})
      /\ ToSet(d.evidences \o <<row>>) = ToSet(d.evidences) \cup {row}
  BY <1>6, <1>7, RowAdded
<1>9. EvidencesAccepted(d, <<payload>>)
  <2>1. \A k \in DOMAIN <<payload>> : <<payload>>[k] = payload /\ <<row>>[k] = row
    OBVIOUS
  <2>2. item_in_version(d, row["item_id"]) /\ document_in_case(row["document_id"])
    BY <1>1, <1>2 DEF item_in_version, document_in_case
  <2> QED
    BY <1>2, <1>3, <1>8, <2>1, <2>2 DEF EvidencesAccepted
<1>10. IsSequence(<<payload>>)
  BY DEF IsSequence, ToSet
<1>11. DraftOK(e)
  BY <1>9, <1>10, EvidencesKept
<1>12. e.evidences = d.evidences \o <<row>>
  BY <1>3 DEF WithEvidences, DraftOK, Tables
<1> HIDE DEF e
<1>13. <<v.item, v.field>> \in evidence_fields(e)
  BY <1>2, <1>4, <1>5, <1>8, <1>12 DEF evidence_fields
<1>14. v \notin missing_evidence(e)
  BY <1>11, <1>13, ProvenIsFound
<1> QED
  BY <1>9, <1>11, <1>14 DEF e, payload

(* A header that states nothing keeps to its contract, and asks for no     *)
(* source.                                                                 *)
LEMMA PlainHeaderFits ==
  LET row == Parsed(HeaderInput, PlainHeader) IN
  /\ WellTyped(HeaderInput, PlainHeader) /\ consistent_values(row)
  /\ required_of_header(row) = {} /\ row["quote_deadline_raw"] = Null
  /\ \A c \in DOMAIN row : row[c] # "vast"
<1> DEFINE row == Parsed(HeaderInput, PlainHeader)
           states == {"inquiry_no_state", "customer_name_state", "due_state",
                      "place_state", "incoterms_state"}
<1>1. /\ DOMAIN PlainHeader = states \cup {"quote_deadline_tz_state"}
      /\ \A state \in states : PlainHeader[state] = "not_stated"
      /\ PlainHeader["quote_deadline_tz_state"] = "missing"
  BY DEF PlainHeader, HeaderStates, ++
<1>2. /\ \A c \in states : row[c] = "not_stated"
      /\ row["quote_deadline_tz_state"] = "missing"
      /\ \A c \in HeaderTexts \cup {"due_granularity", "due_basis", "quote_deadline_at"} :
           row[c] = Null
  <2>1. Strip("not_stated") = "not_stated" /\ Strip("missing") = "missing"
    BY StripStays
  <2> QED
    BY <1>1, <2>1, HeaderColumns DEF Parsed, Default, HeaderTexts
<1>3. DOMAIN row = DOMAIN HeaderInput
  BY DEF Parsed
<1> HIDE DEF row
<1>4. \A c \in DOMAIN HeaderInput : row[c] \in HeaderInput[c]
  BY <1>2, HeaderColumns
<1>5. WellTyped(HeaderInput, PlainHeader)
  BY <1>1, <1>4, HeaderColumns DEF WellTyped, row
<1>6. consistent_values(row)
  BY <1>2 DEF consistent_values, HeaderStates, HeaderTexts, Null
<1>7. required_of_header(row) = {}
  <2>1. \A name \in DOMAIN HeaderField : ~Present(row, HeaderField[name])
    <3>1. \A name \in DOMAIN HeaderField : HeaderField[name] \in HeaderTexts
      BY DEF HeaderField, HeaderTexts
    <3> QED
      BY <1>2, <3>1 DEF Present, Value
  <2>2. \A name \in DOMAIN HeaderState : row[HeaderState[name]] = "not_stated"
    BY <1>2 DEF HeaderState
  <2> QED
    BY <2>1, <2>2 DEF required_of_header
<1>8. \A c \in DOMAIN row : row[c] # "vast"
  BY <1>2, <1>3, HeaderColumns DEF HeaderTexts, Null
<1>9. row["quote_deadline_raw"] = Null
  BY <1>2 DEF HeaderTexts
<1> QED
  BY <1>5, <1>6, <1>7, <1>8, <1>9 DEF row

(* It can be given, if there is none.                                      *)
LEMMA HeaderRemedies ==
  ASSUME NEW d, DraftOK(d), NEW v \in missing_evidence(d), v.field = "header"
  PROVE  /\ HeaderAccepted(d, PlainHeader)
         /\ DraftOK(WithHeader(d, PlainHeader))
         /\ v \notin missing_evidence(WithHeader(d, PlainHeader))
<1> DEFINE row == Parsed(HeaderInput, PlainHeader)
           e == WithHeader(d, PlainHeader)
<1>1. d.case_headers = <<>>
  BY WhatIsUnproven, RequiredFields
<1>2. WellTyped(HeaderInput, PlainHeader) /\ consistent_values(row)
  BY PlainHeaderFits
<1>3. HeaderAccepted(d, PlainHeader)
  BY <1>1, <1>2 DEF HeaderAccepted
<1>4. DraftOK(e)
  BY <1>3, HeaderKept
<1>5. e.case_headers = <<row>>
  BY DEF WithHeader, DraftOK, Tables, row
<1> HIDE DEF e
<1>6. v \notin missing_evidence(e)
  <2>1. e.case_headers # <<>>
    BY <1>5
  <2> QED
    BY <1>4, <2>1, WhatIsUnproven, RequiredFields
<1> QED
  BY <1>3, <1>4, <1>6 DEF e

(* A code that is left is one that no row has. *)
LEMMA UnusedIsNew ==
  ASSUME NEW rows, NEW column,
         \E name \in Names : \A row \in ToSet(rows) : row[column] # name
  PROVE  /\ Unused(rows, column) \in Names
         /\ \A row \in ToSet(rows) : row[column] # Unused(rows, column)
  BY DEF Unused

(* The question about the deadline's time zone can be asked, if there is a *)
(* code for it.                                                            *)
LEMMA QuestionRemedies ==
  ASSUME DraftOK(draft), FieldNames \subseteq Names,
         \E name \in Names : \A row \in ToSet(draft.questions) : row["question_code"] # name,
         NEW v \in missing_question(draft)
  PROVE  LET question == <<DeadlineQuestion>> IN
         /\ QuestionsAccepted(draft, question)
         /\ DraftOK(WithQuestions(draft, question))
         /\ v \notin missing_question(WithQuestions(draft, question))
<1> DEFINE code == Unused(draft.questions, "question_code")
           payload == DeadlineQuestion
           row == Parsed(QuestionInput, payload)
           e == WithQuestions(draft, <<payload>>)
<1>1. /\ code \in Names
      /\ \A r \in ToSet(draft.questions) : r["question_code"] # code
  BY UnusedIsNew
<1>2. /\ DOMAIN payload = {"question_code", "target_field", "reason"}
      /\ payload["question_code"] = code
      /\ payload["target_field"] = "quote_deadline" /\ payload["reason"] = "text"
  BY DEF DeadlineQuestion
<1> HIDE DEF code, payload
<1>3. /\ row["question_code"] = code /\ row["target_field"] = "quote_deadline"
      /\ row["reason"] = "text" /\ row["item_id"] = Null
      /\ row["candidates"] = Null /\ row["category"] = Null
  <2>1. Strip("quote_deadline") = "quote_deadline"
    BY StripStays
  <2> QED
    BY <1>1, <1>2, <2>1, QuestionColumns, TextIsNonblank DEF Parsed, Default
<1>4. Parse(QuestionInput, <<payload>>) = <<row>>
  BY ParsedOne
<1> HIDE DEF row
<1>5. "quote_deadline" \in Nonblank
  BY RequiredFields, TextIsNonblank
<1>6. \A c \in DOMAIN QuestionInput : row[c] \in QuestionInput[c]
  BY <1>1, <1>3, <1>5, QuestionColumns, TextIsNonblank
<1>7. WellTyped(QuestionInput, payload)
  BY <1>2, <1>6, QuestionColumns DEF WellTyped, row
<1>8. /\ IsSequence(draft.questions) /\ Unique(draft.questions, {"question_code"})
  BY DEF DraftOK, QuestionsOK
<1>9. /\ Unique(draft.questions \o <<row>>, {"question_code"})
      /\ ToSet(draft.questions \o <<row>>) = ToSet(draft.questions) \cup {row}
  BY <1>1, <1>3, <1>8, RowAdded
<1>10. QuestionsAccepted(draft, <<payload>>)
  <2>1. \A k \in DOMAIN <<payload>> : <<payload>>[k] = payload /\ <<row>>[k] = row
    OBVIOUS
  <2>2. item_in_version(draft, row["item_id"])
    BY <1>3 DEF item_in_version
  <2> QED
    BY <1>4, <1>7, <1>9, <2>1, <2>2 DEF QuestionsAccepted
<1>11. IsSequence(<<payload>>)
  BY DEF IsSequence, ToSet
<1>12. DraftOK(e)
  BY <1>10, <1>11, QuestionsKept
<1>13. e.questions = draft.questions \o <<row>>
  BY <1>4 DEF WithQuestions, DraftOK, Tables
<1> HIDE DEF e
<1>14. missing_question(e) = {}
  <2>1. row \in ToSet(e.questions)
    BY <1>9, <1>13
  <2>2. "quote_deadline" \in field_key("quotedeadline")
    BY DEF field_key
  <2> QED
    BY <1>3, <2>1, <2>2 DEF missing_question
<1> QED
  BY <1>10, <1>12, <1>14 DEF e, payload

(* A candidate alone in its group can be registered again, under another   *)
(* code: then there are two.                                               *)
LEMMA CompanionRemedies ==
  ASSUME DraftOK(draft), RoomIsLeft, NEW v \in orphan_candidate(draft)
  PROVE  LET companion == <<Companion(v.item)>> IN
         /\ ItemsAccepted(draft, companion)
         /\ DraftOK(WithItems(draft, companion))
         /\ v \notin orphan_candidate(WithItems(draft, companion))
<1> DEFINE code == Unused(draft.items, "row_code")
           last == Len(draft.items) + 1
<1>1. PICK j \in DOMAIN draft.items :
        /\ v = Violation("orphan_candidate", Id(j), "group_code")
        /\ Value(draft.items[j], "group_code") # Null
  BY DEF orphan_candidate
<1>2. /\ IsSequence(draft.items) /\ Unique(draft.items, {"row_code"})
      /\ DOMAIN draft.items = 1..Len(draft.items) /\ Len(draft.items) \in Nat
      /\ \A k \in DOMAIN draft.items : ItemOK(draft.items[k])
  BY SequenceFacts DEF DraftOK, ItemsOK
<1>3. \A i, k \in 1..last : Id(i) = Id(k) => i = k
  BY DEF RoomIsLeft
<1>4. (CHOOSE k \in DOMAIN draft.items : Id(k) = v.item) = j
  <2>1. v.item = Id(j)
    BY <1>1 DEF Violation
  <2>2. \A k \in DOMAIN draft.items : Id(k) = Id(j) => k = j
    BY <1>2, <1>3
  <2> QED
    BY <2>1, <2>2
<1> DEFINE row == draft.items[j]
           payload == [row EXCEPT !["row_code"] = code]
           new == Parsed(ItemInput, payload)
           offer == [payload |-> payload, ends |-> <<>>]
           batch == <<offer>>
           e == WithItems(draft, batch)
<1>5. batch = <<Companion(v.item)>>
  BY <1>4 DEF Companion
<1>6. /\ code \in Names
      /\ \A r \in ToSet(draft.items) : r["row_code"] # code
  BY UnusedIsNew DEF RoomIsLeft
<1>7. Typed(ItemInput, row) /\ consistency_errors(row, <<>>) = {}
  BY <1>2 DEF ItemOK
<1> HIDE DEF code, row
<1>8. /\ DOMAIN payload = DOMAIN ItemInput /\ payload["row_code"] = code
      /\ \A c \in DOMAIN ItemInput \ {"row_code"} : payload[c] = row[c]
  BY <1>7, ItemColumns DEF Typed, Texts
<1> HIDE DEF payload
<1>9. \A c \in DOMAIN ItemInput : Strip(row[c]) = row[c]
  <2> TAKE c \in DOMAIN ItemInput
  <2>1. row[c] \in ItemInput[c]
    BY <1>7 DEF Typed
  <2>2. row[c] \notin {"padded", "blank", "wide"}
    BY <2>1, ItemColumns, NonblankText, PositiveNumber DEF Number, State, Null
  <2> QED
    BY <2>2, StripStays
<1>10. /\ new["row_code"] = code
       /\ \A c \in DOMAIN ItemInput \ {"row_code"} : new[c] = row[c]
       /\ DOMAIN new = DOMAIN ItemInput
  <2>1. "row_code" \in DOMAIN ItemInput
    BY ItemColumns DEF Texts
  <2> QED
    BY <1>6, <1>8, <1>9, <2>1, TextIsNonblank DEF Parsed
<1>11. new = Parsed(ItemInput, payload)
  OBVIOUS
<1> HIDE DEF new
<1>12. Typed(ItemInput, new)
  <2>1. ItemInput["row_code"] = Nonblank
    BY ItemColumns DEF Texts
  <2> QED
    BY <1>6, <1>7, <1>10, <2>1, TextIsNonblank DEF Typed
<1>13. /\ ItemRows(batch) = <<new>>
       /\ EndRows(batch) = <<Parse(EndInput, <<>>)>>
       /\ DOMAIN Parse(EndInput, <<>>) = {}
  <2>1. ItemRows(batch) = <<new>>
    BY <1>11 DEF ItemRows
  <2>2. EndRows(batch) = <<Parse(EndInput, <<>>)>>
    BY DEF EndRows
  <2>3. DOMAIN Parse(EndInput, <<>>) = {}
    BY DEF Parse
  <2> QED
    BY <2>1, <2>2, <2>3
<1>14. consistency_errors(new, Parse(EndInput, <<>>)) = {}
  BY <1>7, <1>10, <1>12, <1>13, SameErrors
<1>15. WellTyped(ItemInput, payload)
  BY <1>8, <1>11, <1>12 DEF WellTyped, Typed
<1>16. /\ Unique(draft.items \o <<new>>, {"row_code"})
       /\ DOMAIN (draft.items \o <<new>>) = 1..last
       /\ \A k \in DOMAIN draft.items : (draft.items \o <<new>>)[k] = draft.items[k]
       /\ (draft.items \o <<new>>)[last] = new
  BY <1>2, <1>6, <1>10, RowAdded
<1>17. ItemsAccepted(draft, batch)
  <2>1. DOMAIN batch = {1} /\ batch[1].payload = payload /\ batch[1].ends = <<>>
    OBVIOUS
  <2>2. ToSet(<<>>) = {}
    BY DEF ToSet
  <2>3. ItemRows(batch)[1] = new /\ EndRows(batch)[1] = Parse(EndInput, <<>>)
    BY <1>13
  <2> HIDE DEF batch, offer
  <2> QED
    BY <1>13, <1>14, <1>15, <1>16, <2>1, <2>2, <2>3 DEF ItemsAccepted
<1>18. DraftOK(e)
  <2>1. IsSequence(batch) /\ ToSet(batch) = {offer}
    BY DEF IsSequence, ToSet
  <2>2. IsSequence(offer.ends)
    BY DEF IsSequence, ToSet
  <2> HIDE DEF batch, offer
  <2> QED
    BY <1>17, <2>1, <2>2, ItemsKept
<1>19. e.items = draft.items \o <<new>>
  BY <1>13 DEF WithItems, DraftOK, Tables
<1> HIDE DEF e, batch
<1>20. v \notin orphan_candidate(e)
  <2> DEFINE group == Value(row, "group_code")
             members == Grouped(e, group)
  <2>1. group # Null
    BY <1>1 DEF row
  <2>2. e.items[j] = row /\ e.items[last] = new /\ DOMAIN e.items = 1..last
    BY <1>16, <1>19 DEF row
  <2>3. Value(new, "group_code") = group
    <3>1. "group_code" \in DOMAIN ItemInput
      BY ItemColumns DEF Notes
    <3> QED
      BY <1>7, <1>10, <3>1 DEF Value, Typed
  <2>4. j \in members /\ last \in members /\ j # last /\ members \subseteq 1..last
    BY <1>2, <2>2, <2>3 DEF Grouped
  <2>5. IsFiniteSet(members)
    <3>1. last \in Nat
      BY <1>2
    <3> HIDE DEF last, members
    <3>2. IsFiniteSet(1..last)
      BY <3>1, FS_Interval
    <3> QED
      BY <2>4, <3>2, FS_Subset
  <2>6. Cardinality(members) >= 2
    <3> HIDE DEF last, members
    <3> DEFINE one == {j}
    <3>1. IsFiniteSet(one) /\ Cardinality(one) = 1 /\ last \notin one
      BY <2>4, FS_Singleton
    <3>2. one \cup {last} \subseteq members
      BY <2>4
    <3> HIDE DEF one
    <3>3. Cardinality(one \cup {last}) = 2
      <4>1. Cardinality(one \cup {last}) =
              IF last \in one THEN Cardinality(one) ELSE Cardinality(one) + 1
        BY <3>1, FS_AddElement, Zenon
      <4> QED
        BY <3>1, <4>1
    <3>4. Cardinality(one \cup {last}) <= Cardinality(members)
      BY <2>5, <3>2, FS_Subset
    <3> QED
      BY <3>3, <3>4
  <2> HIDE DEF members
  <2>7. ASSUME v \in orphan_candidate(e) PROVE FALSE
    <3>1. PICK i \in DOMAIN e.items :
            /\ v = Violation("orphan_candidate", Id(i), "group_code")
            /\ Cardinality(Grouped(e, Value(e.items[i], "group_code"))) < 2
      BY <2>7 DEF orphan_candidate
    <3>2. Id(i) = Id(j)
      BY <1>1, <3>1 DEF Violation
    <3>3. i = j
      BY <1>2, <1>3, <2>2, <3>2
    <3>4. Cardinality(members) < 2
      BY <2>2, <3>1, <3>3 DEF members
    <3> QED
      BY <2>5, <2>6, <3>4, FS_CardinalityType
  <2> QED
    BY <2>7
<1> QED
  BY <1>5, <1>17, <1>18, <1>20 DEF e, batch

LEMMA Remediable ==
  ASSUME DraftKept, RoomIsLeft
  PROVE  ViolationsCanBeRemedied
<1> SUFFICES ASSUME NEW v \in Violations,
                    v.kind \notin {"unscanned_range", "unsplit_conflict"}
             PROVE  LET remedied == Remedied(v) IN
                    /\ v \notin validate_snapshot(remedied, inquiry.ranges,
                                                  scanned, Issues)
                    /\ Storable(remedied)
  BY DEF ViolationsCanBeRemedied
<1> DEFINE remedied == Remedied(v)
<1>1. DraftOK(draft)
  BY DEF DraftKept
<1>2. /\ v.kind \in {"missing_evidence", "orphan_candidate", "missing_question"}
      /\ v.kind = "missing_evidence" => v \in missing_evidence(draft)
      /\ v.kind = "orphan_candidate" => v \in orphan_candidate(draft)
      /\ v.kind = "missing_question" => v \in missing_question(draft)
  BY <1>1, FoundByKind DEF Violations
<1>3. ASSUME DraftOK(remedied),
             v.kind = "missing_evidence" => v \notin missing_evidence(remedied),
             v.kind = "orphan_candidate" => v \notin orphan_candidate(remedied),
             v.kind = "missing_question" => v \notin missing_question(remedied)
      PROVE  /\ v \notin validate_snapshot(remedied, inquiry.ranges, scanned, Issues)
             /\ Storable(remedied)
  <2> HIDE DEF remedied
  <2> QED
    BY <1>2, <1>3, FoundByKind, KeptIsStorable
<1>4. CASE v.kind = "missing_evidence" /\ v.field = "header"
  <2>1. /\ HeaderAccepted(draft, PlainHeader)
        /\ DraftOK(WithHeader(draft, PlainHeader))
        /\ v \notin missing_evidence(WithHeader(draft, PlainHeader))
    BY <1>1, <1>2, <1>4, HeaderRemedies
  <2>2. remedied = WithHeader(draft, PlainHeader)
    BY <1>4, <2>1 DEF Remedied
  <2> QED
    BY <1>3, <1>4, <2>1, <2>2
<1>5. CASE v.kind = "missing_evidence" /\ v.field # "header"
  <2> DEFINE source == <<SourceOf(v.item, v.field)>>
  <2>1. /\ EvidencesAccepted(draft, source)
        /\ DraftOK(WithEvidences(draft, source))
        /\ v \notin missing_evidence(WithEvidences(draft, source))
    BY <1>1, <1>2, <1>5, SourceRemedies DEF RoomIsLeft
  <2>2. remedied = WithEvidences(draft, source)
    BY <1>5, <2>1 DEF Remedied
  <2> QED
    BY <1>3, <1>5, <2>1, <2>2
<1>6. CASE v.kind = "orphan_candidate"
  <2> DEFINE companion == <<Companion(v.item)>>
  <2>1. /\ ItemsAccepted(draft, companion)
        /\ DraftOK(WithItems(draft, companion))
        /\ v \notin orphan_candidate(WithItems(draft, companion))
    BY <1>1, <1>2, <1>6, CompanionRemedies
  <2>2. remedied = WithItems(draft, companion)
    BY <1>6, <2>1 DEF Remedied
  <2> QED
    BY <1>3, <1>6, <2>1, <2>2
<1>7. CASE v.kind = "missing_question"
  <2> DEFINE question == <<DeadlineQuestion>>
  <2>1. /\ QuestionsAccepted(draft, question)
        /\ DraftOK(WithQuestions(draft, question))
        /\ v \notin missing_question(WithQuestions(draft, question))
    BY <1>1, <1>2, <1>7, QuestionRemedies DEF RoomIsLeft
  <2>2. remedied = WithQuestions(draft, question)
    BY <1>7, <2>1 DEF Remedied
  <2> QED
    BY <1>3, <1>7, <2>1, <2>2
<1> QED
  BY <1>2, <1>4, <1>5, <1>6, <1>7

(* As long as codes are left, every violation but an unread range and a    *)
(* conflict can be removed by one more call of the tools, which contracts, *)
(* repository and database accept: no draft is stuck with it.              *)
THEOREM DraftViolationsCanBeRemedied ==
  Spec => [](RoomIsLeft => ViolationsCanBeRemedied)
<1>1. DraftKept /\ RoomIsLeft => ViolationsCanBeRemedied
  BY Remediable
<1> QED
  BY <1>1, DraftInvariant, PTL
=============================================================================
