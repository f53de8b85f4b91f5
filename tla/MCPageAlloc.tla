---------------------------- MODULE MCPageAlloc -----------------------------
(***************************************************************************)
(* Model-checking instances of PageAlloc.  With pages 2 to 7 a Python set  *)
(* of page ids iterates in ascending order, as TxnFreeAll does.            *)
(***************************************************************************)
EXTENDS PageAlloc

CONSTANTS t1, t2, t3
=============================================================================
