----------------------- MODULE InventoryReconciliation ----------------------
(***************************************************************************)
(* The source inventory of a version held against its items                *)
(* (inventory_reconciliation.py).  status gives each entry of the version  *)
(* its status, items are the ids of its items, links are the pairs of an   *)
(* entry and an item.                                                      *)
(***************************************************************************)
EXTENDS Naturals, FiniteSets

by_entry(links, entry) == {link[2] : link \in {l \in links : l[1] = entry}}
by_item(items, links, item) ==
  {link[1] : link \in {l \in links : l[2] = item /\ item \in items}}

inconsistent(status, items, links) ==
  {link[1] : link \in {l \in links : l[1] \notin DOMAIN status \/ l[2] \notin items}}
  \cup {entry \in DOMAIN status :
          LET count == Cardinality(by_entry(links, entry)) IN
          \/ status[entry] = "mapped" /\ count # 1
          \/ status[entry] = "split" /\ count < 2
          \/ status[entry] \in {"excluded", "unmapped"} /\ count > 0}

judgement(status, items, links, entry) ==
  CASE entry \in inconsistent(status, items, links) -> "inconsistent"
    [] Cardinality(by_entry(links, entry)) >= 2 -> "split"
    [] status[entry] = "excluded" -> "excluded"
    [] status[entry] = "unmapped" -> "missing"
    [] OTHER -> "mapped"

(* The rows of the two views, each with what it is linked to. *)
entry_views(status, items, links) ==
  [entry \in DOMAIN status |->
     [linked_items |-> by_entry(links, entry) \cap items,
      link_count |-> Cardinality(by_entry(links, entry)),
      judgement |-> judgement(status, items, links, entry)]]
item_views(status, items, links) ==
  [item \in items |->
     [source_entries |-> by_item(items, links, item) \cap DOMAIN status,
      has_source |-> by_item(items, links, item) # {}]]

summary(status, items, links) ==
  [source_entry_count |-> Cardinality(DOMAIN status),
   source_item_count |->
     Cardinality({entry \in DOMAIN status : status[entry] # "excluded"}),
   output_row_count |-> Cardinality(items),
   split_entry_ids |->
     {entry \in DOMAIN status : Cardinality(by_entry(links, entry)) >= 2},
   excluded_entry_ids |-> {entry \in DOMAIN status : status[entry] = "excluded"},
   unmapped_entry_ids |->
     {entry \in DOMAIN status :
        status[entry] = "unmapped" /\ by_entry(links, entry) = {}},
   orphan_item_ids |-> {item \in items : by_item(items, links, item) = {}},
   multi_mapped_item_ids |->
     {item \in items : Cardinality(by_item(items, links, item)) >= 2},
   inconsistent_entry_ids |-> inconsistent(status, items, links)]
=============================================================================
