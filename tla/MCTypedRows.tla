---------------------------- MODULE MCTypedRows -----------------------------
(***************************************************************************)
(* Model-checking instance of TypedRows.  A byte has 2 bits, so a row of   *)
(* three columns needs two for its bitmap, a length of one byte is at most *)
(* 3 and an INT of one byte is from -2 to 1.  Numbers and seconds are in   *)
(* hundredths.  The page has room for every row and every rewrite.         *)
(***************************************************************************)
EXTENDS TypedRows

Alphabet == ("a" :> <<1>>) @@ ("e" :> <<2, 3>>) @@ (" " :> <<0>>)

Text(t) == [is |-> "str", v |-> t]
Whole(k) == [is |-> "int", v |-> k * Unit]
Float(x) == [is |-> "float", v |-> x]
Flag(b) == [is |-> "bool", v |-> b]
Date(d) == [is |-> "date", v |-> d * Unit]
Time(x) == [is |-> "time", v |-> x]
Stamp(x) == [is |-> "datetime", v |-> x]

Column(t, n, s, u, lits) == [type |-> t, n |-> n, s |-> s, unique |-> u, lits |-> lits]

\* Texts: padded or not, of a character of two bytes, too long for the type
\* in bytes only, and too long for the length prefix.
Strings ==
  <<Column("CHAR", 2, 0, TRUE, {Null, Text(<<"a">>), Text(<<"a", " ">>), Text(<<"e">>)}),
    Column("VARCHAR", 2, 0, FALSE, {Null, Text(<<"e">>), Text(<<"a", "e">>)}),
    Column("TEXT", 0, 0, FALSE, {Text(<<"a", "e">>), Text(<<"a", "a", "e">>)})>>

\* Numbers: 1 and 1.0, one that rounds to another, one that rounds to its
\* bound, the least of an INT and one past the greatest.
Numbers ==
  <<Column("DECIMAL", 2, 1, TRUE, {Whole(1), Float(100), Float(104), Float(996)}),
    Column("FLOAT", 2, 25, FALSE, {Null, Float(-110), Float(500)}),
    Column("INT", 1, 0, FALSE, {Whole(-2), Whole(2)})>>

\* A time and a timestamp between seconds, before the epoch, and a datetime where a
\* date is wanted.
Times ==
  <<Column("DATE", 2, 0, TRUE, {Date(-8), Date(7), Stamp(0)}),
    Column("TIME", 2, 0, FALSE, {Null, Time(1599)}),
    Column("TIMESTAMP", 2, 0, FALSE, {Stamp(-150)}),
    Column("BOOL", 0, 0, FALSE, {Null, Flag(1)})>>

SmallSchemas == {Strings, Numbers, Times}

\* The rows that can be encoded.
EncodedRows ==
  UNION {{EncodeRow(s, vals) : vals \in {w \in Literals(s) : RowEncodes(s, w)}} :
         s \in SmallSchemas}

Lengths == [r \in EncodedRows |-> Len(r)]
=============================================================================
