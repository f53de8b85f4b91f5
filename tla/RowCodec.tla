------------------------------ MODULE RowCodec ------------------------------
(***************************************************************************)
(* The types of columns and the bytes of rows (type_system.py,             *)
(* row_codec.py).  A value has the Python type it has in the code; numbers *)
(* and times are counted in fractions of one, texts are sequences of       *)
(* characters.  A column is a record: its type, the width or maximal       *)
(* length n, the scale s of a DECIMAL or the spacing s of a FLOAT, and     *)
(* whether it is unique.  INT stands for SMALLINT and BIGINT and FLOAT for *)
(* DOUBLE, which differ by n and s.  A float is stored as its place on the *)
(* grid of its spacing, and binary fractions are not told from decimal.    *)
(***************************************************************************)
EXTENDS Integers, SequencesExt

CONSTANTS Bits,        \* the bits of a byte
          Unit,        \* the fractions of one
          Utf8,        \* the bytes of each character
          Space,       \* the character CHAR is padded with
          Prefix,      \* the width of a length prefix
          LongWidth    \* the width of a DECIMAL

Byte == 2 ^ Bits

ASSUME RowCodecAssumption ==
  /\ {Bits, Unit, Prefix, LongWidth} \subseteq Nat \ {0}
  /\ \A c \in DOMAIN Utf8 : Utf8[c] \in Seq(0..(Byte - 1))
  /\ Len(Utf8[Space]) = 1

Chars == DOMAIN Utf8

Null == [is |-> "null", v |-> 0]

\* Python's ==, under which 1 and 1.0 are equal.
Same(x, y) ==
  /\ x.is = y.is \/ {x.is, y.is} \subseteq {"int", "float"}
  /\ x.v = y.v

AbsOf(k) == IF k < 0 THEN -k ELSE k

\* struct.pack and unpack of integers, big-endian, in two's complement.
IntBytes(k, w) == [i \in 1..w |-> ((k % Byte ^ w) \div Byte ^ (w - i)) % Byte]

Unsigned(b) ==
  LET upTo[i \in 0..Len(b)] == IF i = 0 THEN 0 ELSE upTo[i - 1] * Byte + b[i]
  IN upTo[Len(b)]

Signed(b) ==
  IF 2 * Unsigned(b) < Byte ^ Len(b) THEN Unsigned(b) ELSE Unsigned(b) - Byte ^ Len(b)

InRange(k, w) == -(Byte ^ w \div 2) <= k /\ k < Byte ^ w \div 2

\* round and int of Python, for x / d.
RoundHalfEven(x, d) ==
  LET q == x \div d  r == x % d
  IN IF 2 * r < d \/ (2 * r = d /\ q % 2 = 0) THEN q ELSE q + 1

TowardZero(x, d) == IF x < 0 THEN -((-x) \div d) ELSE x \div d
-----------------------------------------------------------------------------
(* One value. *)

Encode(t) == FlattenSeq([i \in DOMAIN t |-> Utf8[t[i]]])

\* The text that some bytes are, character by character.
DecodeText(b) ==
  LET starts(i, c) == SubSeq(b, i, i + Len(Utf8[c]) - 1) = Utf8[c]
      from[i \in 1..(Len(b) + 1)] ==
        IF i > Len(b) THEN << >>
        ELSE LET c == CHOOSE x \in Chars : starts(i, x)
             IN <<c>> \o from[i + Len(Utf8[c])]
  IN from[1]

\* _check: the length in bytes.
WithinLength(col, t) == Len(Encode(t)) <= col.n

Scaled(col, x) == RoundHalfEven(x.v * 10 ^ col.s, Unit)

\* _max_abs, in fractions of one.
MaxAbs(col) == Unit * 10 ^ (col.n - col.s)

Validate(col, x) ==
  CASE col.type = "INT"              -> x.is = "int" /\ InRange(x.v \div Unit, col.n)
    [] col.type = "TEXT"             -> x.is = "str"
    [] col.type \in {"VARCHAR", "CHAR"} -> x.is = "str" /\ WithinLength(col, x.v)
    [] col.type = "BOOL"             -> x.is = "bool"
    [] col.type = "FLOAT"            -> x.is = "float"
    [] col.type = "DECIMAL"          -> /\ x.is \in {"int", "float"}
                                        /\ InRange(AbsOf(Scaled(col, x)), LongWidth)
                                        /\ AbsOf(x.v) < MaxAbs(col)
    [] col.type = "DATE"             -> x.is \in {"date", "datetime"}
    [] col.type = "TIME"             -> x.is = "time"
    [] col.type = "TIMESTAMP"        -> x.is = "datetime"

\* encode_py raises though validate does not: a text too long for its length
\* prefix, a float too large, a datetime where a date is subtracted from.
PackRaises(col, x) ==
  \/ col.type \in {"TEXT", "VARCHAR"} /\ Len(Encode(x.v)) >= Byte ^ Prefix
  \/ col.type = "CHAR" /\ col.n >= Byte ^ Prefix
  \/ col.type = "FLOAT" /\ ~InRange(RoundHalfEven(x.v, col.s), col.n)
  \/ col.type = "DATE" /\ x.is = "datetime"

Encodes(col, x) == Validate(col, x) /\ ~PackRaises(col, x)

\* Mutant: CHAR is padded by its length in characters.
PaddingByCharacters(col, t) == [i \in 1..(col.n - Len(t)) |-> Space]

Padding(col, t) == [i \in 1..(col.n - Len(Encode(t))) |-> Space]

LengthPrefixed(b) == IntBytes(Len(b), Prefix) \o b

EncodePy(col, x) ==
  CASE col.type \in {"INT", "DATE", "TIME"} -> IntBytes(x.v \div Unit, col.n)
    [] col.type \in {"TEXT", "VARCHAR"} -> LengthPrefixed(Encode(x.v))
    [] col.type = "CHAR"      -> IntBytes(col.n, Prefix)
                                   \o Encode(x.v) \o Encode(Padding(col, x.v))
    [] col.type = "BOOL"      -> <<x.v>>
    [] col.type = "FLOAT"     -> IntBytes(RoundHalfEven(x.v, col.s), col.n)
    [] col.type = "DECIMAL"   -> IntBytes(Scaled(col, x), LongWidth)
    [] col.type = "TIMESTAMP" -> IntBytes(TowardZero(x.v, Unit), col.n)

\* Mutant: the integer is divided as a DECIMAL is.
IntValueDivided(b) == [is |-> "float", v |-> Signed(b) * Unit]

IntValue(b) == [is |-> "int", v |-> Signed(b) * Unit]

\* The value that the bytes of one value are.
ValueOf(col, b) ==
  CASE col.type = "INT"       -> IntValue(b)
    [] col.type \in {"TEXT", "VARCHAR", "CHAR"} ->
         [is |-> "str", v |-> DecodeText(SubSeq(b, Prefix + 1, Len(b)))]
    [] col.type = "BOOL"      -> [is |-> "bool", v |-> b[1]]
    [] col.type = "FLOAT"     -> [is |-> "float", v |-> Signed(b) * col.s]
    [] col.type = "DECIMAL"   -> [is |-> "float", v |-> (Signed(b) * Unit) \div 10 ^ col.s]
    [] col.type = "DATE"      -> [is |-> "date", v |-> Signed(b) * Unit]
    [] col.type = "TIME"      -> [is |-> "time", v |-> Unsigned(b) * Unit]
    [] col.type = "TIMESTAMP" -> [is |-> "datetime", v |-> Signed(b) * Unit]

\* How many bytes of the buffer the column's value takes; more than there are
\* if it is truncated or, for VARCHAR and CHAR, longer than the type allows.
Width(col, buf) ==
  CASE col.type \in {"TEXT", "VARCHAR", "CHAR"} ->
         LET n == IF Len(buf) < Prefix THEN Len(buf) + 1
                  ELSE Unsigned(SubSeq(buf, 1, Prefix))
         IN IF col.type # "TEXT" /\ n > col.n THEN Len(buf) + 1 ELSE Prefix + n
    [] col.type = "BOOL"    -> 1
    [] col.type = "DECIMAL" -> LongWidth
    [] OTHER                -> col.n
-----------------------------------------------------------------------------
(* A row. *)

BitmapLen(n) == (n + Bits - 1) \div Bits

\* The bit of column i is the first one of byte 1 for i = 1, and so on.
NullBitmap(vals) ==
  [k \in 1..BitmapLen(Len(vals)) |->
     MapThenSumSet(LAMBDA i : 2 ^ ((i - 1) % Bits),
                   {i \in DOMAIN vals : vals[i].is = "null" /\ (i - 1) \div Bits = k - 1})]

IsNull(buf, i) == (buf[(i - 1) \div Bits + 1] \div 2 ^ ((i - 1) % Bits)) % 2 = 1

\* encode_row raises nothing.
RowEncodes(cols, vals) ==
  \A i \in DOMAIN cols : vals[i].is = "null" \/ Encodes(cols[i], vals[i])

EncodeRow(cols, vals) ==
  NullBitmap(vals)
    \o FlattenSeq([i \in DOMAIN vals |->
                     IF vals[i].is = "null" THEN << >> ELSE EncodePy(cols[i], vals[i])])

\* The ValueError of a value that is truncated or too long.
Failed == << >>

DecodeRow(cols, buf) ==
  LET blen == BitmapLen(Len(cols))
      upTo[i \in 0..Len(cols)] ==
        IF i = 0 THEN [vals |-> << >>, off |-> blen]
        ELSE LET acc  == upTo[i - 1]
                 rest == SubSeq(buf, acc.off + 1, Len(buf))
                 w    == Width(cols[i], rest)
             IN IF Len(acc.vals) < i - 1 THEN acc
                ELSE IF IsNull(buf, i) THEN [acc EXCEPT !.vals = Append(@, Null)]
                ELSE IF w > Len(rest) THEN [acc EXCEPT !.vals = Failed]
                ELSE [vals |-> Append(acc.vals, ValueOf(cols[i], SubSeq(rest, 1, w))),
                      off  |-> acc.off + w]
      last == upTo[Len(cols)]
  IN IF Len(last.vals) = Len(cols) THEN last.vals ELSE Failed
=============================================================================
