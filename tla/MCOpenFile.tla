----------------------------- MODULE MCOpenFile -----------------------------
(***************************************************************************)
(* Model-checking instance of OpenFile: four calls from two processes,     *)
(* three for a file of any kind and one for a second one with a log.       *)
(***************************************************************************)
EXTENDS OpenFile, TLC

CONSTANTS o1, o2, o3, o4, f1, f2, p1, p2

Target == [o \in Openers |-> IF o = o4 THEN f2 ELSE f1]
Home == [o \in Openers |-> IF o = o1 THEN p1 ELSE p2]

Found(h, n, log, list) ==
  [header |-> h, size |-> n, wal |-> log # {}, log |-> log, free |-> list]

AsFound ==
  {Found("none", 0, {}, {}), Found("other", 2, {}, {}), Found("v1", 3, {}, {}),
   Found("v1", 3, {2}, {})}
    \cup {Found(h, 3, {}, {2}) : h \in {"v2", "v3"}}
    \cup {Found(h, 4, {2}, {3}) : h \in {"v2", "v3"}}

AnyKind == [f \in Files |-> IF f = f1 THEN AsFound ELSE {Found("v3", 3, {2}, {})}]

\* The session on the second file takes no page.
Allowed == [o \in Openers |-> IF o = o4 THEN 0 ELSE 1]

\* Two calls for the same file from the same process.
Alike == Permutations({o2, o3})
=============================================================================
