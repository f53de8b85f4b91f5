---------------------------- MODULE MCTableStore ----------------------------
(***************************************************************************)
(* Model-checking instances of TableStore: a key column a and a column b   *)
(* whose values have different lengths.                                    *)
(***************************************************************************)
EXTENDS TableStore

TableCols == {"a", "b"}

AllRows == [TableCols -> {1, 2, Null}]
Valid == {r \in AllRows : r.b # Null}
Missing == [a |-> 2, b |-> Null]

\* The key takes a byte unless it is missing, b as many as its value; a row
\* is never empty.
Length ==
  [r \in Rows |-> (IF r.a = Null THEN 0 ELSE 1) + (IF r.b = Null THEN 1 ELSE r.b)]

\* Single rows, and two rows of which the second is accepted, repeats the
\* first's key or misses a value.
Batched ==
  {<<r>> : r \in Valid} \cup
    {<<[a |-> 1, b |-> 1], r>> : r \in [a : {1, 2}, b : {2}] \cup {Missing}}

Clauses ==
  {Everything, [op |-> "eq", col |-> "b", val |-> 1],
   [op |-> "eq", col |-> "a", val |-> 1], [op |-> "ne", col |-> "a", val |-> 1]}

SetEither == {[b |-> v] : v \in Values} \cup {[a |-> v] : v \in Values}
=============================================================================
