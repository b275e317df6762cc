---------------------------- MODULE MC_LocalDummy ---------------------------
(* LocalDummy with small cases, for TLC.                                   *)
EXTENDS LocalDummy, MC_DraftArtifacts

MC_DummyNames ==
  MC_Names \cup
  {"1", "2", "3", "4", "source", "items", "LOCAL-UNSUPPORTED", "Q-1",
   "Q-2", "Q-3", "Q-4", "URL-1", "URL-2", "URL-3", "URL-4"}

PartOf(role, lines) == [role |-> role, lines |-> lines]

(* Pages of up to two lines, sheets, and the parts of an e-mail.           *)
Pages ==
  {PartOf("page", lines) : lines \in UNION {[1..n -> Line \ {"not applicable"}] : n \in 0..2}}
Others ==
  {PartOf("sheet", <<"number">>), PartOf("latest_body", <<"not applicable">>),
   PartOf("latest_body", <<"note">>), PartOf("addressed_body", <<"number">>),
   PartOf("attachment", <<>>)}

Docs == {<<>>} \cup {<<part>> : part \in Pages \cup Others}
Singles == {<<PartOf("page", <<text>>)>> : text \in {"number", "TBA", "note", "blank"}}

MC_Cases ==
  {<<>>} \cup {<<d>> : d \in Docs}
  \cup {<<d, e>> : d \in Docs, e \in Singles}
  \cup {<<<<PartOf("page", <<"TBA">>), PartOf("page", lines)>>>> :
          lines \in {<<>>, <<"note">>, <<"TBA">>, <<"prose">>}}
=============================================================================
