-------------------------- MODULE MC_DraftArtifacts -------------------------
(* DraftArtifacts with small inquiries, for TLC.                           *)
EXTENDS DraftArtifacts

MC_Names ==
  {"R1", "R2", "R3", "G1", "G2", "Q1", "Q2", "kind", "usage_note", "od",
   "wall", "weight", "grade", "connection", "length", "qty", "qtyValue",
   "due", "place", "note", "end_a.od", "end_a.connection",
   "end_a.thread_end", "end_b.od", "end_b.connection", "end_b.thread_end",
   "inquiry_no", "customer_name", "incoterms", "quote_deadline",
   "quoteDeadlineAt"}

(* The spellings of a text, and what a number may be given as. *)
Spellings == {"text", "padded", "blank", "wide", "empty", Null}
Figures == {"number", "float", "word", "vast", Null}
States == {"stated", "numeric", "tba", "not_stated", "not_applicable", Null}

Row(code) ==
  [row_code |-> code, source_no |-> "text", seq |-> "1", kind |-> "text",
   kind_raw |-> "text", grade_raw |-> "text", qty_raw |-> "text",
   qty_state |-> "not_stated"]
  @@ [state \in DOMAIN StatedBy |-> "not_stated"]
Offer(row, ends) == <<[payload |-> row, ends |-> ends]>>

Nothing == [header |-> {}, items |-> {}, evidences |-> {}, questions |-> {},
            entries |-> {}, ranges |-> {}, noted |-> {}, issues |-> {}]

(* Every combination of state, value and unit of each measure. *)
Measured ==
  {Offer([column \in {StateOf[m], ValueOf[m], UnitOf[m]} |->
            CASE column = StateOf[m] -> s
              [] column = ValueOf[m] -> v
              [] column = UnitOf[m] -> u] @@ Row("R1"), <<>>) :
     m \in DOMAIN ValueOf, s \in States, v \in Figures, u \in Spellings}

(* Every spelling of each text, with every state if it is about one. *)
Spelled ==
  {Offer((state :> s) @@ (TextOf[name] :> v) @@ Row("R1"), <<>>) :
     <<name, state>> \in {<<n, StateOf[n]>> : n \in DOMAIN TextOf \cap DOMAIN StateOf},
     s \in States, v \in Spellings}
  \cup {Offer((column :> v) @@ Row("R1"), <<>>) :
          column \in {"source_no", "kind", "kind_raw", "grade_raw", "qty_raw",
                      "usage_note", "note", "candidate_label", "od_raw",
                      "undeclared"},
          v \in Spellings}
  \cup {Offer(("seq" :> n) @@ Row("R1"), <<>>) : n \in {"0", "1", "vast"}}

(* Groups of candidates, and rows with ends. *)
End(side, v, u) ==
  [side |-> side, od_value |-> v, od_unit |-> u, connection |-> "text"]
Candidates ==
  {Offer([group_code |-> g, candidate_label |-> l] @@ Row(code), <<>>) :
     g \in {"G1", "G2", Null}, l \in {"text", Null}, code \in {"R1", "R2"}}
Ended ==
  {Offer(Row("R1"), <<End(s, v, u)>>) :
     s \in {"end_a", "end_b", "end_c"}, v \in Figures, u \in Spellings}
  \cup {Offer(Row("R2"), <<End("end_a", Null, Null), End(s, Null, Null)>>) :
          s \in {"end_a", "end_b"}}

Header ==
  [state \in DOMAIN HeaderStates |-> "not_stated"]
  @@ [quote_deadline_tz_state |-> "missing"]
Headers ==
  {(state :> s) @@ (HeaderStates[state] :> v) @@ Header :
     state \in DOMAIN HeaderStates, s \in States, v \in Spellings}
  \cup {[quote_deadline_tz_state |-> s, quote_deadline_raw |-> v,
         quote_deadline_at |-> d] @@ Header :
          s \in {"stated", "missing"}, v \in Spellings,
          d \in {"zoned", "naive", Null}}

(* A draft from its first row to its finalization: a header with a         *)
(* deadline, a row to be counted and two candidates.                       *)
Numeric(code) ==
  [qty_state |-> "numeric", qty_value |-> "number", qty_unit |-> "text"] @@ Row(code)
Candidate(code) ==
  [group_code |-> "G1", candidate_label |-> "text"] @@ Row(code)

Source(item, field) ==
  [item_id |-> item, field |-> field, document_id |-> "1", raw_value |-> "text",
   adopted_value |-> "text", locator |-> "text", quote |-> "text"]
Sources(item, fields) ==
  SetToSeq({Source(item, field) : field \in fields})

AskOf(code, item, field, category) ==
  <<[question_code |-> code, item_id |-> item, target_field |-> field,
     reason |-> "text", category |-> category]>>

Entry(status, item_ids) ==
  [payload |-> [document_id |-> "1", position |-> "text", seq |-> "1",
                excerpt |-> "text", status |-> status, basis |-> "text"],
   item_ids |-> item_ids]
Drafting ==
  [header |-> {Header, [quote_deadline_raw |-> "text"] @@ Header},
   items |-> {<<[payload |-> Numeric("R1"), ends |-> <<>>]>>},
   evidences |-> {Sources("1", {"kind", "qty"}), Sources("1", {"kind"}),
                  Sources(Null, {"quote_deadline"}),
                  <<Source("1", "qty"), Source("1", "qty")>>},
   questions |-> {AskOf("Q1", Null, "quoteDeadlineAt", Null),
                  AskOf("Q1", "2", "qtyValue", "conflict")},
   entries |-> {<<Entry(s, links)>> : s \in {"mapped", "unmapped"},
                                     links \in {<<>>, <<"1">>}},
   ranges |-> {"page1"}, noted |-> {}, issues |-> {"page1", Null}]
Choosing ==
  [header |-> {Header},
   items |-> {Offer(Candidate("R1"), <<>>),
              Offer(Candidate("R1"), <<>>) \o Offer(Candidate("R2"), <<>>),
              Offer(Row("R3"), <<>>)},
   evidences |-> {Sources("1", {"kind"}),
                  Sources("1", {"kind"}) \o Sources("2", {"kind"})},
   questions |-> {AskOf("Q1", item, "qtyValue", "conflict") : item \in {"1", "2"}},
   entries |-> {<<Entry("split", links)>> : links \in {<<"1", "2">>, <<"1", "1">>}}
               \cup {<<Entry("mapped", <<"1">>), Entry("excluded", <<>>)>>,
                     <<[payload |-> [document_id |-> "1", position |-> "text",
                                     seq |-> "1", excerpt |-> "text",
                                     status |-> "excluded"],
                        item_ids |-> <<>>]>>},
   ranges |-> {"page1"}, noted |-> {"page1"}, issues |-> {}]

MC_Inquiries ==
  {Drafting, Choosing,
   [Nothing EXCEPT !.items = Measured, !.evidences = {Sources("1", {"kind"})}],
   [Nothing EXCEPT !.items = Spelled, !.evidences = {Sources("1", {"kind"})}],
   [Nothing EXCEPT !.items = Candidates \cup Ended,
                   !.evidences = {Sources("1", {"kind", "end_a.connection"})}],
   [Nothing EXCEPT !.header = Headers]}
=============================================================================
