----------------------------- MODULE TypedRows ------------------------------
(***************************************************************************)
(* A table of typed columns on one page (executor.py, index_manager.py).   *)
(* A row is given as values, checked, encoded and put into a slot; an      *)
(* UPDATE decodes it, replaces a value and encodes the whole row again.    *)
(* Uniqueness is checked on values and the index of a unique column is     *)
(* keyed by the bytes of its values.  A statement is for one row and, one  *)
(* column of a table being unique at most, changes nothing if it raises.   *)
(***************************************************************************)
EXTENDS SlottedPage, RowCodec

CONSTANT Schemas       \* the columns of the table; each has the values "lits"
                       \* that statements give for it

ASSUME TypedRowsAssumption ==
  \A s \in Schemas : \A c, d \in DOMAIN s : s[c].unique /\ s[d].unique => c = d

VARIABLES cols,        \* the columns
          given,       \* ghost: the values that were given for each slot's row
          index,       \* of each unique column: the slots of its keys
          loose        \* ghost: the columns given a value that is not stored
                       \* as it is, or updated, or of a row that moved

typedVars == <<cols, given, index, loose>>

Unique == {c \in DOMAIN cols : cols[c].unique}

\* _scan_table: the values that are read from a slot.
ReadRow(i) ==
  LET bytes == Get(page, i)
  IN DecodeRow(cols, [k \in DOMAIN bytes |-> bytes[k][1][bytes[k][2]]])

HasValue(x) == x.is # "null"

\* Mutant: values of different Python types are different.
ClashesByType(c, x) ==
  \E i \in Live(page) : LET y == ReadRow(i)[c] IN HasValue(y) /\ x.is = y.is /\ x.v = y.v

\* _validate_unique_keys: the value is compared with those that are read.
Clashes(c, x) == \E i \in Live(page) : HasValue(ReadRow(i)[c]) /\ Same(x, ReadRow(i)[c])

KeyFor(c, x) == EncodePy(cols[c], x)

IndexInsert(f, key, i) == (key :> i) @@ f

IndexDelete(f, key) == Restrict(f, DOMAIN f \ {key})

\* What comes back for a value is not equal to it.
Changes(c, x) == HasValue(x) /\ ~Same(x, ValueOf(cols[c], EncodePy(cols[c], x)))

InsertRow(vals) ==
  LET r == EncodeRow(cols, vals)
      i == InsertSlot(page, r)
  IN /\ RowEncodes(cols, vals)
     /\ \A c \in Unique : HasValue(vals[c]) => ~Clashes(c, vals[c])
     /\ Insert(r)
     /\ given' = [j \in DOMAIN given \cup {i} |-> IF j = i THEN vals ELSE given[j]]
     /\ index' = [c \in DOMAIN index |->
                    IF HasValue(vals[c]) THEN IndexInsert(index[c], KeyFor(c, vals[c]), i)
                    ELSE index[c]]
     /\ loose' = loose \cup {c \in DOMAIN cols : Changes(c, vals[c])}
     /\ UNCHANGED cols

\* _update_index_for_row, for a row that is in slot i now.
Reindexed(c, old, new, i) ==
  LET without == IF HasValue(old) THEN IndexDelete(index[c], KeyFor(c, old)) ELSE index[c]
  IN IF Same(old, new) THEN index[c]
     ELSE IF HasValue(new) THEN IndexInsert(without, KeyFor(c, new), i)
     ELSE without

\* UPDATE t SET c = x, for the row of slot i.
UpdateRow(i, c, x) ==
  LET old == ReadRow(i)
      new == [old EXCEPT ![c] = x]
      r   == EncodeRow(cols, new)
      j   == IF RowLen[r] > page.slots[i].len THEN InsertSlot(PageDelete(page, i), r) ELSE i
      reindexed == {d \in Unique : ~Same(old[d], new[d])}
  IN /\ Validate(cols[c], x)
     /\ RowEncodes(cols, new)
     /\ \A d \in reindexed : HasValue(old[d]) => Encodes(cols[d], old[d])
     /\ Update(i, r) \/ Move(i, r)
     /\ given' = [k \in DOMAIN given \cup {j} |->
                    CASE k = j -> [given[i] EXCEPT ![c] = x]
                      [] k = i /\ k # j -> << >>
                      [] OTHER -> given[k]]
     /\ index' = [d \in DOMAIN index |-> Reindexed(d, old[d], new[d], j)]
     /\ loose' = loose \cup {c} \cup IF j = i THEN {} ELSE Unique
     /\ UNCHANGED cols

\* _unindex_row encodes the values that were read.
DeleteRow(i) ==
  LET old == ReadRow(i)
  IN /\ \A c \in Unique : HasValue(old[c]) => Encodes(cols[c], old[c])
     /\ Delete(i)
     /\ index' = [c \in DOMAIN index |->
                    IF HasValue(old[c]) THEN IndexDelete(index[c], KeyFor(c, old[c]))
                    ELSE index[c]]
     /\ given' = [given EXCEPT ![i] = << >>]
     /\ UNCHANGED <<cols, loose>>

TypedInit ==
  /\ Init
  /\ cols \in Schemas
  /\ given = << >>
  /\ index = [c \in Unique |-> << >>]
  /\ loose = {}

\* The rows of literals a statement may give.
Literals(schema) ==
  FoldLeft(LAMBDA rows, col : {Append(vals, x) : vals \in rows, x \in col.lits},
           {<< >>}, schema)

TypedNext ==
  \/ \E vals \in Literals(cols) : InsertRow(vals)
  \/ \E i \in Live(page), c \in DOMAIN cols :
       \E x \in cols[c].lits : UpdateRow(i, c, x)
  \/ \E i \in Live(page) : DeleteRow(i)

TypedSpec == TypedInit /\ [][TypedNext]_<<vars, typedVars>>
-----------------------------------------------------------------------------
\* The distance between two values of a DECIMAL or FLOAT.
Spacing(col) == IF col.type = "DECIMAL" THEN Unit \div 10 ^ col.s ELSE col.s

\* What may be read for a value x: x itself, the nearest number, x with spaces
\* up to the length of the type, or the whole second before.
AsPromised(col, x, y) ==
  /\ HasValue(x) = HasValue(y)
  /\ HasValue(x) =>
       CASE col.type = "CHAR" -> /\ Len(Encode(y.v)) = col.n
                                 /\ SubSeq(y.v, 1, Len(x.v)) = x.v
                                 /\ \A k \in (Len(x.v) + 1)..Len(y.v) : y.v[k] = Space
         [] col.type \in {"DECIMAL", "FLOAT"} -> /\ y.v % Spacing(col) = 0
                                                 /\ 2 * AbsOf(y.v - x.v) <= Spacing(col)
         [] col.type \in {"TIME", "TIMESTAMP"} -> /\ y.v % Unit = 0
                                                  /\ AbsOf(y.v) <= AbsOf(x.v)
                                                  /\ AbsOf(y.v - x.v) < Unit
         [] OTHER -> Same(x, y)

(***************************************************************************)
(* Reading a row returns, column by column, what the statements gave for   *)
(* it, as exactly as the types promise and NULL where it was NULL: no      *)
(* value takes bytes of its neighbour, and rewriting the whole row at      *)
(* every UPDATE does not let the other values drift (encode_row,           *)
(* decode_row).                                                            *)
(***************************************************************************)
ValuesKept ==
  \A i \in Live(page) :
    LET row == ReadRow(i)
    IN /\ Len(row) = Len(cols)
       /\ \A c \in DOMAIN cols : AsPromised(cols[c], given[i][c], row[c])

(***************************************************************************)
(* A row that was stored can be updated and deleted again: the codecs take *)
(* back every value they give out, since encode_row and key_for validate   *)
(* them anew.  The one value they refuse is a DECIMAL that was rounded up  *)
(* to the bound of its type, which _to_scaled compares before it rounds.   *)
(***************************************************************************)
StaysRewritable ==
  \A i \in Live(page) :
    LET row == ReadRow(i)
    IN /\ Len(row) = Len(cols)
       /\ \A c \in DOMAIN cols :
            \/ ~HasValue(row[c]) \/ Encodes(cols[c], row[c])
            \/ cols[c].type = "DECIMAL" /\ AbsOf(row[c].v) = MaxAbs(cols[c])

(***************************************************************************)
(* A unique column has no key twice, and its index leads from the key of   *)
(* every row to the row and nowhere else: checking values and indexing     *)
(* their bytes comes to the same.  It is promised for columns that were    *)
(* given only values their codec returns unchanged; a CHAR that is padded  *)
(* or a number that is rounded passes the check of _validate_unique_keys.  *)
(***************************************************************************)
KeysExact ==
  \A c \in Unique \ loose :
    LET rows == {i \in Live(page) : HasValue(ReadRow(i)[c])}
        key(i) == KeyFor(c, ReadRow(i)[c])
    IN /\ \A i \in rows : key(i) \in DOMAIN index[c] /\ index[c][key(i)] = i
       /\ {index[c][k] : k \in DOMAIN index[c]} = rows
=============================================================================
