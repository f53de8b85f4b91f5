---------------------------- MODULE AtomicStore ----------------------------
(***************************************************************************)
(* What tinydb promises of its transactions, without a log and without     *)
(* crashes: a map of pages, at most one open transaction, reads that see   *)
(* the transaction's own writes, and a commit that makes all of them part  *)
(* of the store in one step.  A rollback and a crash are the same step:    *)
(* everything the open transaction wrote is gone.                          *)
(***************************************************************************)
CONSTANTS Pages,     \* the page ids of the database file
          Values     \* the contents a page can have

VARIABLES store,     \* what a restart would find
          view,      \* what a read returns
          inTxn      \* a transaction is open and its commit is undecided

vars == <<store, view, inTxn>>

Init ==
  /\ store \in [Pages -> Values]
  /\ view = store
  /\ inTxn = FALSE

Begin ==
  /\ ~inTxn
  /\ inTxn' = TRUE
  /\ UNCHANGED <<store, view>>

Write ==
  /\ inTxn
  /\ \E p \in Pages, v \in Values : view' = [view EXCEPT ![p] = v]
  /\ UNCHANGED <<store, inTxn>>

Commit ==
  /\ inTxn
  /\ store' = view
  /\ inTxn' = FALSE
  /\ UNCHANGED view

Discard ==
  /\ inTxn
  /\ view' = store
  /\ inTxn' = FALSE
  /\ UNCHANGED store

Next == Begin \/ Write \/ Commit \/ Discard

Spec == Init /\ [][Next]_vars
=============================================================================
