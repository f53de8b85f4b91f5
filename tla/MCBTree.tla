------------------------------ MODULE MCBTree ------------------------------
(***************************************************************************)
(* Model-checking instance of BTree.  A page holds two leaf entries, or two *)
(* separators, of 20 bytes; key 6 fits a leaf alone and key 2 fits no page. *)
(* Five keys make a tree of depth 3, an insert next to key 6 may raise      *)
(* after it has begun to split, and the separators 4 and 5 together fill a  *)
(* node up to the bytes of its last child.                                  *)
(***************************************************************************)
EXTENDS BTree

CONSTANTS r1, r2

UnevenLen ==
  [k \in Keys |-> CASE k = 1 -> 1 [] k = 2 -> 64 [] k = 4 -> 27
                       [] k = 6 -> 51 [] OTHER -> 20]
=============================================================================
