----------------------------- MODULE PageChains -----------------------------
(***************************************************************************)
(* The two kinds of chains over one pager.  A file is used by statements,  *)
(* which keep the catalogue on page 1 alone and chain the pages of long    *)
(* rows, or through the pager's catalogue chain; the code never mixes the  *)
(* two formats in a file (_executor_drop.py, lines 106 to 111).            *)
(***************************************************************************)
EXTENDS SpilledRows, CatalogChain

VARIABLE use    \* what the file is used for

vars == <<pagerVars, rowVars, catalogVars, use>>

Init ==
  /\ file = [p \in 1..MaxPages |-> Zeroed]
  /\ head = 0
  /\ nextId = 2
  /\ RowsInit
  /\ CatalogInit
  /\ use \in {"tables", "catalogue"}

Next ==
  \/ use = "tables" /\ RowsNext /\ UNCHANGED <<catalogVars, use>>
  \/ use = "catalogue" /\ CatalogNext /\ UNCHANGED <<rowVars, use>>

Spec == Init /\ [][Next]_vars

(***************************************************************************)
(* Rewriting the catalogue chain neither loses a page nor uses one twice,  *)
(* also when a write raises half way: every page is in the chain, on the   *)
(* free list or in the hands of others (write_catalog_chain, which frees   *)
(* the old pages by overwriting the links it is following).                *)
(***************************************************************************)
CatalogPagesKept == use = "catalogue" => PagesAccounted
=============================================================================
