----------------------------- MODULE ItemValues -----------------------------
(***************************************************************************)
(* The values of one item and the rows that correct them: what an edit     *)
(* request becomes, what the rows not undone make of the drafted values,   *)
(* and when values and states agree.  Nothing here has state.              *)
(*                                                                         *)
(* One column stands for the columns the code treats alike: "od" for od,   *)
(* wall and weight, "grade" for grade and connection, "note" for kind,     *)
(* usage_note and note.                                                    *)
(***************************************************************************)
EXTENDS Naturals, Sequences

CONSTANTS Values,   (* what a person can enter in a field                  *)
          Numbers   (* those of them that are exact decimals               *)

None == "None"

EDITABLE_FIELDS == {"note", "grade", "od_value", "od_unit", "qty_value",
                    "qty_unit", "length_value", "length_unit", "range_class"}

(* The state column a field is paired with, None for a field without one.  *)
STATE_FIELDS ==
  [note |-> None, grade |-> "grade_state",
   od_value |-> "od_state", od_unit |-> "od_state",
   qty_value |-> "qty_state", qty_unit |-> "qty_state",
   length_value |-> "length_state", length_unit |-> "length_state",
   range_class |-> "length_state"]

StateColumns == {"grade_state", "od_state", "qty_state", "length_state"}
Columns == EDITABLE_FIELDS \cup StateColumns
EditState == {"stated", "numeric", "tba", "not_stated", "not_applicable"}

(* The state that goes with a value.                                       *)
ValueState(f) == IF STATE_FIELDS[f] = "qty_state" THEN "numeric" ELSE "stated"

(* The values of an item, by column.                                       *)
IsItem(values) ==
  /\ DOMAIN values = Columns
  /\ \A f \in EDITABLE_FIELDS : values[f] \in Values \cup {None}
  /\ \A s \in StateColumns : values[s] \in EditState

EditInputs == [field : EDITABLE_FIELDS, new_value : Values \cup {None},
               new_state : EditState \cup {None}, qty_unit : Values \cup {None}]

Rows == [field : EDITABLE_FIELDS, new_value : Values \cup {None},
         new_state : EditState \cup {None}, undone : BOOLEAN]

Row(f, value, state) ==
  [field |-> f, new_value |-> value, new_state |-> state, undone |-> FALSE]

(* A request that names neither a value nor a state, a state for a field   *)
(* without one, the state of another kind of value, or a state its value   *)
(* contradicts, is refused before anything is read.                        *)
consistent(in) ==
  LET hasValue == in.new_value # None
  IN /\ hasValue \/ in.new_state # None
     /\ in.new_state # None =>
          /\ STATE_FIELDS[in.field] # None
          /\ (in.new_state = ValueState(in.field)) = hasValue
     /\ in.new_state \in {"stated", "numeric"} =>
          in.new_state = ValueState(in.field)
     /\ hasValue /\ in.field \in {"od_value", "qty_value", "length_value"} =>
          in.new_value \in Numbers
     /\ hasValue /\ in.field = "qty_value" => in.qty_unit # None

(* A row sets its field and the state of the field's group; a state that   *)
(* excludes a value empties every field of the group.                      *)
Excludes(row) == row.new_state \notin {None, "stated", "numeric"}
Sets(row, c) ==
  \/ c = row.field
  \/ c = STATE_FIELDS[row.field]
  \/ /\ Excludes(row)
     /\ c \in EDITABLE_FIELDS
     /\ STATE_FIELDS[c] = STATE_FIELDS[row.field]
StateSet(row) ==
  IF row.new_state = None /\ row.new_value # None THEN ValueState(row.field)
  ELSE row.new_state
SetTo(row, c) ==
  IF c = STATE_FIELDS[row.field] THEN StateSet(row)
  ELSE IF Excludes(row) THEN None ELSE row.new_value

(* The rows, by their place in the table: of those not undone that set a   *)
(* column, the latest has set it.                                         *)
Setting(rows, c) == {k \in DOMAIN rows : ~rows[k].undone /\ Sets(rows[k], c)}
Latest(places) == CHOOSE k \in places : \A l \in places : l <= k
apply_edits(item, rows) ==
  [c \in Columns |->
     LET places == Setting(rows, c)
     IN IF places = {} THEN item[c] ELSE SetTo(rows[Latest(places)], c)]

(* The rows a request adds: one, or both halves of a quantity.             *)
EditRows(current, in) ==
  LET group == STATE_FIELDS[in.field]
      state == IF group # None /\ in.new_state = None
               THEN ValueState(in.field) ELSE in.new_state
      number == IF in.field = "qty_value" THEN in.new_value
                ELSE current["qty_value"]
      unit == IF in.field = "qty_value" THEN in.qty_unit ELSE in.new_value
  IN IF group # "qty_state" THEN <<Row(in.field, in.new_value, state)>>
     ELSE IF state = "numeric"
     THEN <<Row("qty_value", number, state), Row("qty_unit", unit, state)>>
     ELSE <<Row("qty_value", None, state), Row("qty_unit", None, state)>>

(* A value and its state say the same thing, and a measure has a unit.     *)
Consistent(values) ==
  /\ (values["qty_state"] = "numeric") = (values["qty_value"] # None)
  /\ values["qty_state"] = "numeric" => values["qty_unit"] # None
  /\ \A m \in {<<"od_value", "od_unit">>, <<"length_value", "length_unit">>} :
       values[m[1]] # None => values[m[2]] # None
  /\ (values["od_state"] = "stated") = (values["od_value"] # None)
  /\ (values["grade_state"] = "stated") = (values["grade"] # None)
  /\ (values["length_state"] = "stated")
       = (values["range_class"] # None \/ values["length_value"] # None)

(* A request is carried out when it is well formed and leaves the item     *)
(* consistent.                                                             *)
Acceptable_Fault(current, in) == consistent(in)
Acceptable(current, in) ==
  /\ consistent(in)
  /\ Consistent(apply_edits(current, EditRows(current, in)))
=============================================================================
