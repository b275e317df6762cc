--------------------------- MODULE MC_HumanRecords --------------------------
(* HumanRecords with a small item, for TLC.                                *)
EXTENDS HumanRecords
LOCAL INSTANCE SequencesExt

(* An item with a quantity to be announced and an outer diameter.          *)
DraftedItem ==
  [c \in Columns |->
     CASE c = "qty_state" -> "tba"
       [] c = "od_state" -> "stated"
       [] c = "od_value" -> "9"
       [] c = "od_unit" -> "in"
       [] c \in {"grade_state", "length_state"} -> "not_stated"
       [] OTHER -> None]

(* The loop of apply_edits, row after row: the reference for apply_edits.  *)
Apply(values, row) ==
  LET group == STATE_FIELDS[row.field]
      state == IF group # None /\ row.new_state = None /\ row.new_value # None
               THEN ValueState(row.field) ELSE row.new_state
      cleared == IF state \in {None, "stated", "numeric"} THEN {}
                 ELSE {f \in EDITABLE_FIELDS : STATE_FIELDS[f] = group}
  IN IF row.undone THEN values
     ELSE [c \in Columns |->
             CASE c = group -> state
               [] c \in cleared -> None
               [] c = row.field /\ cleared = {} -> row.new_value
               [] OTHER -> values[c]]

MC_Rows ==
  {row \in Rows : row.field \in {"qty_value", "qty_unit", "note"}
                  /\ row.new_state \in {None, "numeric", "tba"}}

ASSUME LatestIsLoop ==
  \A n \in 0..2 : \A rows \in [1..n -> MC_Rows] :
    apply_edits(DraftedItem, rows) = FoldLeft(Apply, DraftedItem, rows)

MC_Drafted == [i \in Items |-> DraftedItem]

(* One correction, of a field without state.                               *)
MC_Note == {[field |-> "note", new_value |-> "in", new_state |-> None,
             qty_unit |-> None]}

(* Every well-formed correction of a quantity, a measure or a length, in   *)
(* one unit, of the states without a value only "tba".                     *)
MC_Measures ==
  {in \in EditInputs :
     /\ consistent(in)
     /\ in.field \notin {"note", "grade"}
     /\ in.field \in {"od_unit", "qty_unit", "length_unit"} =>
          in.new_value # "9"
     /\ in.new_state \notin {"not_stated", "not_applicable"}
     /\ IF in.field = "qty_value" THEN in.qty_unit # "9"
        ELSE in.qty_unit = None}
=============================================================================
