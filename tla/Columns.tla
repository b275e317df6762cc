------------------------------- MODULE Columns ------------------------------
(***************************************************************************)
(* The columns of the rows of a draft, and what PostgreSQL does with them. *)
(* A row is a function from column names to values.  A text is a name,     *)
(* "text", or one of those that blanks tell apart: "padded" (text between  *)
(* blanks), "blank" (ASCII blanks only), "wide" (other blanks only) and    *)
(* "empty".  A number is "number", a JSON "float", a "word" or "vast",     *)
(* finite but too wide for its column; an integer is "0", one of the        *)
(* numerals, or "vast".                                                    *)
(***************************************************************************)
EXTENDS Naturals, FiniteSets, Sequences, SequencesExt

CONSTANT Names      (* the texts that are told apart: codes and field names *)

Null == "null"

(* The values that are no text with a name, and no text of a column. *)
Unnamed == {Null, "blank", "wide", "empty", "padded", "vast"}
ASSUME NamesAssumption == Names \cap Unnamed = {}

(* The columns of two contracts, or of two parts of a row. *)
f ++ g == [column \in DOMAIN f \cup DOMAIN g |->
             IF column \in DOMAIN f THEN f[column] ELSE g[column]]

Required(columns, values) == [column \in columns |-> values]
Optional(columns, values) == [column \in columns |-> values \cup {Null}]

Value(row, column) == IF column \in DOMAIN row THEN row[column] ELSE Null
Given(row, columns) == \E column \in columns : Value(row, column) # Null

(* The measures, by the stem of their columns. *)
ValueOf == [od |-> "od_value", wall |-> "wall_value", weight |-> "weight_value",
            length |-> "length_value", qty |-> "qty_value"]
UnitOf == [od |-> "od_unit", wall |-> "wall_unit", weight |-> "weight_unit",
           length |-> "length_unit", qty |-> "qty_unit"]

-----------------------------------------------------------------------------
(* The CHECK constraints.  A comparison with NULL is no violation.         *)

(* column IS NULL OR length(trim(column)) > 0, for each of the columns:    *)
(* trim removes ASCII blanks alone.                                        *)
nonblank(row, columns) ==
  \A column \in columns : Value(row, column) \notin {"blank", "empty"}

(* column IN values *)
among(row, column, values) == Value(row, column) \in values \cup {Null}

(* column > 0 *)
positive(row, column) == Value(row, column) # "0"

(* (state = stated) = (column IS NOT NULL OR ...) *)
pair(row, state, stated, columns) ==
  (Value(row, state) = stated) <=> Given(row, columns)

(* column IS NULL OR other IS NOT NULL *)
needs(row, column, other) == Given(row, {column}) => Given(row, {other})

not_null(row, columns) == \A column \in columns : Value(row, column) # Null

(* Every value of the row has a column. *)
Fit(row, columns) == DOMAIN row \subseteq columns

(* The rows at those places differ in the columns of a unique index. *)
UniqueAmong(rows, places, columns) ==
  \A j, k \in places :
    (\A column \in columns : rows[j][column] = rows[k][column]) => j = k
Unique(rows, columns) == UniqueAmong(rows, DOMAIN rows, columns)
=============================================================================
