----------------------------- MODULE Statements -----------------------------
(***************************************************************************)
(* What a row, a WHERE clause, an assignment and a uniqueness constraint   *)
(* mean, for the abstract table and for the stored one.  A row is a        *)
(* function from the columns to values.                                    *)
(***************************************************************************)
EXTENDS Naturals, FiniteSets

CONSTANTS Cols,        \* the columns
          PKCols,      \* columns declared PRIMARY KEY: one group
          UniqueCols,  \* columns declared UNIQUE: a group each
          NotNullCols, \* columns declared NOT NULL
          Null         \* the missing value

ASSUME StatementsAssumption ==
  PKCols \subseteq Cols /\ UniqueCols \subseteq Cols /\ NotNullCols \subseteq Cols

\* WHERE nothing, col = literal, NOT col = literal.  The comparison has two
\* values: a missing value differs from every literal.
Everything == [op |-> "all"]

Matches(r, w) ==
  CASE w.op = "all" -> TRUE
    [] w.op = "eq"  -> r[w.col] = w.val
    [] w.op = "ne"  -> r[w.col] # w.val

\* SET col = literal, ...: a function from the assigned columns.
Assign(r, sets) == [c \in Cols |-> IF c \in DOMAIN sets THEN sets[c] ELSE r[c]]

NullViolation(r) == \E c \in NotNullCols \cup PKCols : r[c] = Null

UniqueGroups ==
  (IF PKCols = {} THEN {} ELSE {PKCols}) \cup {{c} : c \in UniqueCols \ PKCols}

\* Two rows the constraints forbid together.
SameKey(r, s) ==
  \E g \in UniqueGroups : \A c \in g : r[c] # Null /\ r[c] = s[c]
=============================================================================
