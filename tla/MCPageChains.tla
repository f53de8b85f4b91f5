---------------------------- MODULE MCPageChains ----------------------------
(***************************************************************************)
(* Model-checking instance of PageChains.  A page of 8 bytes has room for  *)
(* 4 in its slots, one of them for the directory entry: a row of 6 is a    *)
(* chunk of 3 and an overflow page, one of 8 a chunk and two such pages.   *)
(* A segment has room for 10, of which greedy packing uses 8.              *)
(***************************************************************************)
EXTENDS PageChains

CONSTANTS t1, t2, short, long, huge, n1, n2, n3

Lengths == [r \in Rows |-> IF r = short THEN 1 ELSE IF r = long THEN 6 ELSE 8]

InPage == [r \in Rows |-> IF r = short THEN 1 ELSE 3]

Twins == Permutations({t1, t2})

\* A column is its length.  8 fits a continuation segment and no first one.
Columns == [c \in {2, 4, 8} |-> c]

\* One segment: packed, or alone because it passes the threshold; two
\* segments, the second full to the last byte; three; none that would do.
Shapes == {<<2>>, <<2, 2>>, <<2, 4>>, <<4, 4>>, <<4, 8>>, <<2, 4, 4, 4>>, <<8>>}

Entry(n, cols) == [name |-> n, cols |-> cols, ids |-> <<n>>]

UpToTwo == {<< >>} \cup {<<Entry(n1, x)>> : x \in Shapes}
             \cup {<<Entry(n1, x), Entry(n2, y)>> : x, y \in Shapes}

Three == {<<Entry(n1, x), Entry(n2, y), Entry(n3, z)>> :
            x, y, z \in {<<2>>, <<4, 4>>}}

SmallCatalogs == UpToTwo \cup Three
=============================================================================
