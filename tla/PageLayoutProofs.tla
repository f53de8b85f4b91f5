-------------------------- MODULE PageLayoutProofs --------------------------
(***************************************************************************)
(* What the operations of a slotted page leave in its slots: facts about   *)
(* the operators of PageLayout, for any rows and sizes; and what a fold    *)
(* computes, for the proofs that use it.                                   *)
(***************************************************************************)
EXTENDS PageLayout, FiniteSetsExt, SequenceTheorems, WellFoundedInduction, TLAPS

Bytes == Rows \X Nat

\* The slot has the row's bytes, in the data area and in order.
Holds(p, i, r) ==
  /\ ~p.slots[i].tomb
  /\ p.slots[i].len = RowLen[r]
  /\ p.slots[i].off + RowLen[r] <= Len(p.data)
  /\ \A j \in 1..RowLen[r] : p.data[p.slots[i].off + j] = <<r, j>>
-----------------------------------------------------------------------------
LEMMA RowBytesType ==
  ASSUME NEW r \in Rows
  PROVE  /\ RowLen[r] \in Nat \ {0}
         /\ RowBytes(r) \in Seq(Bytes)
         /\ Len(RowBytes(r)) = RowLen[r]
         /\ \A j \in 1..RowLen[r] : RowBytes(r)[j] = <<r, j>>
  <1>1. RowLen[r] \in Nat \ {0}
    BY PageLayoutAssumption
  <1>2. RowBytes(r) \in [1..RowLen[r] -> Bytes]
    BY <1>1 DEF RowBytes, Bytes
  <1>3. RowBytes(r) \in Seq(Bytes) /\ Len(RowBytes(r)) = RowLen[r]
    BY <1>1, <1>2
  <1> QED  BY <1>1, <1>3 DEF RowBytes

LEMMA PageType ==
  ASSUME NEW p \in Page
  PROVE  /\ p.slots \in Seq(Slot) /\ p.data \in Seq(Bytes)
         /\ Len(p.slots) \in Nat /\ DOMAIN p.slots = 1..Len(p.slots)
         /\ Len(p.data) \in Nat
         /\ \A i \in 1..Len(p.slots) : /\ p.slots[i] \in Slot
                                       /\ p.slots[i].off \in Nat
                                       /\ p.slots[i].len \in Nat
  <1>1. p.slots \in Seq(Slot) /\ p.data \in Seq(Bytes)
    BY DEF Page, Bytes
  <1>2. /\ Len(p.slots) \in Nat /\ DOMAIN p.slots = 1..Len(p.slots) /\ Len(p.data) \in Nat
        /\ \A i \in 1..Len(p.slots) : p.slots[i] \in Slot
    BY <1>1
  <1>3. \A s \in Slot : s.off \in Nat /\ s.len \in Nat
    BY DEF Slot
  <1> QED  BY <1>1, <1>2, <1>3

\* A sequence with one entry written, old or new.
PutAt(s, i, e) == [j \in (DOMAIN s) \cup {i} |-> IF j = i THEN e ELSE s[j]]

LEMMA PutSlot ==
  ASSUME NEW S, NEW s \in Seq(S), NEW i \in 1..(Len(s) + 1), NEW e \in S
  PROVE  /\ PutAt(s, i, e) \in Seq(S)
         /\ Len(PutAt(s, i, e)) = IF i \in DOMAIN s THEN Len(s) ELSE Len(s) + 1
         /\ PutAt(s, i, e)[i] = e
         /\ \A j \in 1..Len(s) : j # i => PutAt(s, i, e)[j] = s[j]
  <1> DEFINE n == IF i \in DOMAIN s THEN Len(s) ELSE Len(s) + 1
             t == PutAt(s, i, e)
  <1>1. n \in Nat /\ (DOMAIN s) \cup {i} = 1..n
    OBVIOUS
  <1>2. t \in [1..n -> S]
    BY <1>1 DEF PutAt
  <1>3. t \in Seq(S) /\ Len(t) = n
    BY <1>1, <1>2
  <1> QED  BY <1>3 DEF PutAt

LEMMA AppendedPage ==
  ASSUME NEW p \in Page, NEW i \in 1..(Len(p.slots) + 1), NEW r \in Rows,
         NEW q, q = AppendIntoData(p, i, r)
  PROVE  /\ q \in Page
         /\ Len(q.slots) = IF i \in DOMAIN p.slots THEN Len(p.slots) ELSE Len(p.slots) + 1
         /\ Len(q.data) = Len(p.data) + RowLen[r]
         /\ Holds(q, i, r)
         /\ \A j \in 1..Len(p.slots) : j # i => q.slots[j] = p.slots[j]
         /\ \A k \in 1..Len(p.data) : q.data[k] = p.data[k]
  <1> DEFINE s == [off |-> Len(p.data), len |-> RowLen[r], tomb |-> FALSE]
             slots == PutAt(p.slots, i, s)
             data == p.data \o RowBytes(r)
  <1>1. p.slots \in Seq(Slot) /\ p.data \in Seq(Bytes)
    BY DEF Page, Bytes
  <1>2. s \in Slot
    BY <1>1, RowBytesType DEF Slot
  <1>3. q = [slots |-> slots, data |-> data]
    BY DEF AppendIntoData, PutAt
  <1>4. /\ slots \in Seq(Slot)
        /\ Len(slots) = IF i \in DOMAIN p.slots THEN Len(p.slots) ELSE Len(p.slots) + 1
        /\ slots[i] = s
        /\ \A j \in 1..Len(p.slots) : j # i => slots[j] = p.slots[j]
    <2> HIDE DEF s
    <2>1. slots \in Seq(Slot)
      BY <1>1, <1>2, PutSlot
    <2>2. Len(slots) = IF i \in DOMAIN p.slots THEN Len(p.slots) ELSE Len(p.slots) + 1
      BY <1>1, <1>2, PutSlot
    <2>3. slots[i] = s
      BY <1>1, <1>2, PutSlot
    <2>4. \A j \in 1..Len(p.slots) : j # i => slots[j] = p.slots[j]
      BY <1>1, <1>2, PutSlot
    <2> QED  BY <2>1, <2>2, <2>3, <2>4
  <1>5. /\ data \in Seq(Bytes)
        /\ Len(data) = Len(p.data) + RowLen[r]
        /\ \A k \in 1..Len(p.data) : data[k] = p.data[k]
        /\ \A j \in 1..RowLen[r] : data[Len(p.data) + j] = <<r, j>>
    <2>1. /\ data \in Seq(Bytes)
          /\ Len(data) = Len(p.data) + RowLen[r]
          /\ \A k \in 1..(Len(p.data) + RowLen[r]) :
               data[k] = IF k <= Len(p.data) THEN p.data[k] ELSE RowBytes(r)[k - Len(p.data)]
      <3> DEFINE b == RowBytes(r)
      <3>1. b \in Seq(Bytes) /\ Len(b) = RowLen[r]
        BY RowBytesType
      <3> HIDE DEF b
      <3>2. /\ p.data \o b \in Seq(Bytes)
            /\ Len(p.data \o b) = Len(p.data) + Len(b)
            /\ \A k \in 1..(Len(p.data) + Len(b)) :
                 (p.data \o b)[k] = IF k <= Len(p.data) THEN p.data[k] ELSE b[k - Len(p.data)]
        BY <1>1, <3>1, ConcatProperties
      <3> QED  BY <3>1, <3>2 DEF b
    <2>2. Len(p.data) \in Nat /\ RowLen[r] \in Nat
      BY <1>1, RowBytesType
    <2>3. ASSUME NEW j \in 1..RowLen[r] PROVE data[Len(p.data) + j] = <<r, j>>
      BY <2>1, <2>2, RowBytesType
    <2> QED  BY <2>1, <2>2, <2>3
  <1> HIDE DEF slots, data
  <1>6. q.slots = slots /\ q.data = data
    BY <1>3
  <1>7. q \in Page
    BY <1>3, <1>4, <1>5 DEF Page, Bytes
  <1>8. Holds(q, i, r)
    <2>1. /\ q.slots[i].tomb = FALSE
          /\ q.slots[i].len = RowLen[r]
          /\ q.slots[i].off = Len(p.data)
      BY <1>4, <1>6
    <2>2. Len(p.data) + RowLen[r] <= Len(q.data)
      BY <1>1, <1>5, <1>6, RowBytesType
    <2> QED  BY <1>5, <1>6, <2>1, <2>2 DEF Holds
  <1> QED  BY <1>4, <1>5, <1>6, <1>7, <1>8

\* The first reusable tombstone exists when there is one.
LEMMA InsertSlotIn ==
  ASSUME NEW p \in Page, NEW r \in Rows
  PROVE  /\ InsertSlot(p, r) \in 1..(Len(p.slots) + 1)
         /\ Reusable(p, r) # {} => /\ InsertSlot(p, r) \in Reusable(p, r)
                                  /\ InsertSlot(p, r) \in DOMAIN p.slots
         /\ Reusable(p, r) = {} => InsertSlot(p, r) = Len(p.slots) + 1
  <1> DEFINE R == Reusable(p, r)
  <1>1. p.slots \in Seq(Slot) /\ Len(p.slots) \in Nat /\ DOMAIN p.slots = 1..Len(p.slots)
    BY DEF Page
  <1>2. R \subseteq DOMAIN p.slots /\ R \subseteq Nat
    BY <1>1 DEF Reusable
  <1>3. CASE R # {}
    <2>1. PICK i \in R : \A j \in R : ~(<<j, i>> \in OpToRel(<, Nat))
      BY <1>2, <1>3, NatLessThanWellFounded, WFMin
    <2>2. ASSUME NEW j \in R PROVE i <= j
      <3>1. i \in Nat /\ j \in Nat
        BY <1>2
      <3>2. <<j, i>> \in Nat \X Nat
        BY <3>1
      <3>3. j < i => <<j, i>> \in OpToRel(<, Nat)
        BY <3>2 DEF OpToRel
      <3>4. ~(j < i)
        BY <2>1, <3>3, Zenon
      <3> QED  BY <3>1, <3>4
    <2>3. InsertSlot(p, r) \in R
      BY <1>3, <2>2 DEF InsertSlot
    <2> QED  BY <1>1, <1>2, <1>3, <2>3
  <1>4. CASE R = {}
    BY <1>1, <1>4 DEF InsertSlot
  <1> QED  BY <1>3, <1>4

\* A row that a slot holds stays, under an append to another slot.
LEMMA AppendHolds ==
  ASSUME NEW p \in Page, NEW i \in 1..(Len(p.slots) + 1), NEW r \in Rows,
         NEW j \in 1..Len(p.slots), j # i, NEW s \in Rows, Holds(p, j, s)
  PROVE  Holds(AppendIntoData(p, i, r), j, s)
  <1> DEFINE q == AppendIntoData(p, i, r)
  <1>1. /\ Len(q.data) = Len(p.data) + RowLen[r]
        /\ q.slots[j] = p.slots[j]
        /\ \A k \in 1..Len(p.data) : q.data[k] = p.data[k]
    BY AppendedPage
  <1>2. /\ Len(p.data) \in Nat /\ RowLen[r] \in Nat /\ RowLen[s] \in Nat
        /\ p.slots[j].off \in Nat
    BY PageType, RowBytesType
  <1> HIDE DEF q
  <1>3. p.slots[j].off + RowLen[s] <= Len(p.data)
    BY DEF Holds
  <1>4. p.slots[j].off + RowLen[s] <= Len(q.data)
    <2>1. \A a, b, c, d \in Nat : a + b <= c => a + b <= c + d
      OBVIOUS
    <2> QED  BY <1>1, <1>2, <1>3, <2>1, Zenon
  <1>5. ASSUME NEW k \in 1..RowLen[s]
        PROVE  q.data[p.slots[j].off + k] = <<s, k>>
    <2>1. p.slots[j].off + k \in 1..Len(p.data)
      <3>1. \A a, b, c \in Nat : \A h \in 1..b : a + b <= c => a + h \in 1..c
        OBVIOUS
      <3> QED  BY <1>2, <1>3, <3>1, Zenon
    <2> QED  BY <1>1, <2>1 DEF Holds
  <1>6. Holds(q, j, s)
    BY <1>1, <1>4, <1>5 DEF Holds
  <1> QED  BY <1>6 DEF q

LEMMA DeletedPage ==
  ASSUME NEW p \in Page, NEW i \in Live(p), NEW q, q = PageDelete(p, i)
  PROVE  /\ q \in Page
         /\ Len(q.slots) = Len(p.slots)
         /\ q.data = p.data
         /\ q.slots[i].tomb
         /\ \A j \in 1..Len(p.slots) : j # i => q.slots[j] = p.slots[j]
  <1> DEFINE s == [off |-> TombstoneOffset, len |-> p.slots[i].len, tomb |-> TRUE]
  <1>1. p.slots \in Seq(Slot) /\ p.data \in Seq(Bytes) /\ i \in 1..Len(p.slots)
    BY PageType DEF Live
  <1>2. s \in Slot
    BY <1>1, PageType DEF Slot, TombstoneOffset
  <1>3. q = [slots |-> [p.slots EXCEPT ![i] = s], data |-> p.data]
    <2>1. p = [slots |-> p.slots, data |-> p.data]
      BY DEF Page
    <2>2. q = [p EXCEPT !.slots = [p.slots EXCEPT ![i] = s]]
      BY <1>1 DEF PageDelete
    <2> QED  BY <2>1, <2>2
  <1>4. /\ [p.slots EXCEPT ![i] = s] \in Seq(Slot)
        /\ Len([p.slots EXCEPT ![i] = s]) = Len(p.slots)
        /\ \A j \in 1..Len(p.slots) : [p.slots EXCEPT ![i] = s][j] = IF j = i THEN s ELSE p.slots[j]
    <2> HIDE DEF s
    <2> QED  BY <1>1, <1>2, ExceptSeq
  <1>5. s.tomb
    OBVIOUS
  <1> HIDE DEF s
  <1> QED  BY <1>1, <1>3, <1>4, <1>5 DEF Page, Bytes

\* get answers with the row that the slot holds.
LEMMA HeldBytes ==
  ASSUME NEW p \in Page, NEW i \in 1..Len(p.slots), NEW r \in Rows, Holds(p, i, r)
  PROVE  Get(p, i) = RowBytes(r)
  <1> DEFINE off == p.slots[i].off
  <1>1. /\ RowLen[r] \in Nat \ {0}
        /\ RowBytes(r) \in Seq(Bytes)
        /\ Len(RowBytes(r)) = RowLen[r]
        /\ \A j \in 1..RowLen[r] : RowBytes(r)[j] = <<r, j>>
    BY RowBytesType
  <1>2. off \in Nat /\ Len(p.data) \in Nat /\ p.data \in Seq(Bytes) /\ i \in DOMAIN p.slots
    BY PageType
  <1>3. Get(p, i) = SubSeq(p.data, off + 1, off + RowLen[r])
    BY <1>2 DEF Holds, Get, Live
  <1>4. /\ off + RowLen[r] <= Len(p.data)
        /\ \A j \in 1..RowLen[r] : p.data[off + j] = <<r, j>>
    BY DEF Holds
  <1> HIDE DEF off
  <1>5. \A k \in (off + 1)..(off + RowLen[r]) : p.data[k] \in Bytes
    BY <1>1, <1>2, <1>4
  <1> DEFINE got == SubSeq(p.data, off + 1, off + RowLen[r])
  <1>6. /\ got \in Seq(Bytes)
        /\ Len(got) = RowLen[r]
        /\ \A j \in 1..RowLen[r] : got[j] = p.data[off + j]
    BY <1>1, <1>2, <1>5, SubSeqProperties
  <1>7. \A j \in 1..RowLen[r] : got[j] = RowBytes(r)[j]
    BY <1>1, <1>4, <1>6
  <1> HIDE DEF got
  <1>8. got = RowBytes(r)
    BY <1>1, <1>6, <1>7, SeqEqual
  <1> QED  BY <1>3, <1>8 DEF got
-----------------------------------------------------------------------------
(* Folds. *)

\* The library's theorem on induction with the property as a set.
LEMMA Induction ==
  ASSUME NEW T, 0 \in T, \A n \in Nat : n \in T => n + 1 \in T
  PROVE  Nat \subseteq T
<1> SUFFICES ASSUME Nat \ T # {} PROVE FALSE
  OBVIOUS
<1>1. PICK x \in Nat \ T : \A y \in Nat \ T : ~(<<y, x>> \in OpToRel(<, Nat))
  BY NatLessThanWellFounded, WFMin
<1>2. x # 0 /\ x - 1 \in Nat /\ x = (x - 1) + 1
  OBVIOUS
<1>3. x - 1 \notin T
  BY <1>2
<1>4. <<x - 1, x>> \in Nat \X Nat /\ x - 1 < x
  BY <1>2
<1>5. <<x - 1, x>> \in OpToRel(<, Nat)
  BY <1>4 DEF OpToRel
<1> QED
  BY <1>1, <1>2, <1>3, <1>5

LEMMA MaxFacts ==
  ASSUME NEW n \in Nat, NEW t \in SUBSET (1..n)
  PROVE  /\ Max(t \cup {n + 1}) = n + 1
         /\ (t \cup {n + 1}) \ {n + 1} = t
<1>1. \A x \in t : x \in Nat /\ x <= n
  OBVIOUS
<1>2. n + 1 \in t \cup {n + 1} /\ \A y \in t \cup {n + 1} : n + 1 >= y
  BY <1>1
<1>3. ASSUME NEW m \in t \cup {n + 1}, \A y \in t \cup {n + 1} : m >= y
      PROVE  m = n + 1
  BY <1>1, <1>2, <1>3
<1>4. Max(t \cup {n + 1}) = n + 1
  BY <1>2, <1>3 DEF Max
<1> QED
  BY <1>1, <1>4

LEMMA MaxIn ==
  ASSUME NEW n \in Nat, NEW t \in SUBSET (1..n), t # {}
  PROVE  Max(t) \in 1..n
<1> DEFINE T == {k \in Nat : \A u \in SUBSET (1..k) : u # {} => Max(u) \in u}
<1>1. 0 \in T
  <2>1. 1..0 = {}
    OBVIOUS
  <2> QED
    BY <2>1
<1>2. ASSUME NEW k \in Nat, k \in T PROVE k + 1 \in T
  <2> SUFFICES ASSUME NEW u \in SUBSET (1..(k + 1)), u # {} PROVE Max(u) \in u
    OBVIOUS
  <2>1. CASE k + 1 \in u
    <3> DEFINE v == u \ {k + 1}
    <3>1. v \in SUBSET (1..k) /\ u = v \cup {k + 1}
      BY <2>1
    <3> HIDE DEF v
    <3> QED
      BY <3>1, MaxFacts
  <2>2. CASE k + 1 \notin u
    <3>1. u \in SUBSET (1..k)
      BY <2>2
    <3> QED
      BY <1>2, <3>1
  <2> QED
    BY <2>1, <2>2
<1>3. Nat \subseteq T
  <2> HIDE DEF T
  <2> QED
    BY <1>1, <1>2, Induction
<1> QED
  BY <1>3

\* What FoldLeft computes, with the steps as functions.
IsFold(F, n, b, it) ==
  it = [t \in SUBSET (1..n) |-> IF t = {} THEN b ELSE F[Max(t)][it[t \ {Max(t)}]]]

LEMMA FoldExists ==
  ASSUME NEW n \in Nat, NEW U, NEW b \in U, NEW F \in [1..n -> [U -> U]]
  PROVE  \E it \in [SUBSET (1..n) -> U] : IsFold(F, n, b, it)
<1> DEFINE Found(k) == \E it \in [SUBSET (1..k) -> U] : IsFold(F, k, b, it)
           T == {k \in Nat : k <= n => Found(k)}
<1>1. 0 \in T
  <2>1. 1..0 = {} /\ SUBSET (1..0) = {{}}
    OBVIOUS
  <2> DEFINE it == [t \in SUBSET (1..0) |-> b]
  <2>2. it \in [SUBSET (1..0) -> U]
    OBVIOUS
  <2>3. IsFold(F, 0, b, it)
    BY <2>1 DEF IsFold
  <2> QED
    BY <2>2, <2>3
<1>2. ASSUME NEW k \in Nat, k \in T PROVE k + 1 \in T
  <2> HIDE DEF Found
  <2> SUFFICES ASSUME k + 1 <= n PROVE Found(k + 1)
    OBVIOUS
  <2>0. Found(k)
    BY <1>2
  <2>1. PICK g \in [SUBSET (1..k) -> U] : IsFold(F, k, b, g)
    BY <2>0 DEF Found
  <2> DEFINE it == [t \in SUBSET (1..(k + 1)) |->
                      IF k + 1 \in t THEN F[k + 1][g[t \ {k + 1}]] ELSE g[t]]
  <2>2. /\ F[k + 1] \in [U -> U]
        /\ \A t \in SUBSET (1..(k + 1)) : t \ {k + 1} \in SUBSET (1..k)
        /\ \A t \in SUBSET (1..(k + 1)) : k + 1 \notin t => t \in SUBSET (1..k)
    OBVIOUS
  <2>3. \A t \in SUBSET (1..(k + 1)) : it[t] \in U
    BY <2>2
  <2>4. ASSUME NEW t \in SUBSET (1..(k + 1))
        PROVE  it[t] = IF t = {} THEN b ELSE F[Max(t)][it[t \ {Max(t)}]]
    <3>1. CASE k + 1 \in t
      <4> DEFINE u == t \ {k + 1}
      <4>1. u \in SUBSET (1..k) /\ t = u \cup {k + 1} /\ t # {} /\ k + 1 \notin u
        BY <2>2, <3>1
      <4> HIDE DEF u
      <4>2. Max(t) = k + 1 /\ t \ {k + 1} = u
        BY <4>1, MaxFacts
      <4>3. u \in SUBSET (1..(k + 1)) /\ it[u] = g[u]
        BY <4>1
      <4> QED
        BY <3>1, <4>1, <4>2, <4>3
    <3>2. CASE k + 1 \notin t
      <4>1. t \in SUBSET (1..k) /\ it[t] = g[t]
        BY <2>2, <3>2
      <4>2. g[t] = IF t = {} THEN b ELSE F[Max(t)][g[t \ {Max(t)}]]
        BY <2>1, <4>1 DEF IsFold
      <4>3. t \ {Max(t)} \in SUBSET (1..(k + 1)) /\ k + 1 \notin t \ {Max(t)}
        BY <3>2
      <4>4. it[t \ {Max(t)}] = g[t \ {Max(t)}]
        BY <4>3
      <4> QED
        BY <4>1, <4>2, <4>4
    <3> QED
      BY <3>1, <3>2
  <2> HIDE DEF it
  <2>5. it \in [SUBSET (1..(k + 1)) -> U]
    BY <2>3 DEF it
  <2>6. IsFold(F, k + 1, b, it)
    <3>1. it = [t \in SUBSET (1..(k + 1)) |-> it[t]]
      BY DEF it
    <3> QED
      BY <2>4, <3>1, Zenon DEF IsFold
  <2> QED
    BY <2>5, <2>6 DEF Found
<1>3. Found(n)
  <2> HIDE DEF Found
  <2>1. Nat \subseteq T
    <3> HIDE DEF T
    <3> QED
      BY <1>1, <1>2, Induction
  <2> QED
    BY <2>1
<1> QED
  BY <1>3

LEMMA FirstNumbers ==
  ASSUME NEW n \in Nat, NEW k \in 1..n
  PROVE  /\ 1..k \in SUBSET (1..n) /\ 1..k # {}
         /\ Max(1..k) = k /\ (1..k) \ {k} = 1..(k - 1)
<1> DEFINE j == k - 1
<1>1. j \in Nat /\ k = j + 1
  OBVIOUS
<1> HIDE DEF j
<1>2. 1..k = (1..j) \cup {j + 1} /\ 1..j \in SUBSET (1..j)
  BY <1>1
<1>3. Max(1..k) = k /\ (1..k) \ {k} = 1..j
  <2>1. Max((1..j) \cup {j + 1}) = j + 1 /\ ((1..j) \cup {j + 1}) \ {j + 1} = 1..j
    BY <1>1, <1>2, MaxFacts
  <2> QED
    BY <1>1, <1>2, <2>1
<1>4. (\A x \in 1..k : x \in 1..n) /\ k \in 1..k
  BY <1>1
<1> QED
  BY <1>3, <1>4 DEF j

\* A property of the first value that every step keeps is one of the last.
LEMMA AlongChain ==
  ASSUME NEW n \in Nat, NEW U, NEW g, g[0] \in U,
         \A k \in 1..n : g[k - 1] \in U => g[k] \in U
  PROVE  \A k \in 0..n : g[k] \in U
<1> DEFINE T == {k \in Nat : k <= n => g[k] \in U}
<1>1. 0 \in T
  OBVIOUS
<1>2. ASSUME NEW k \in Nat, k \in T PROVE k + 1 \in T
  <2> SUFFICES ASSUME k + 1 <= n PROVE g[k + 1] \in U
    OBVIOUS
  <2>1. k + 1 \in 1..n /\ (k + 1) - 1 = k /\ g[k] \in U
    BY <1>2
  <2> QED
    BY <2>1
<1> HIDE DEF T
<1>3. Nat \subseteq T
  BY <1>1, <1>2, Induction
<1> QED
  BY <1>3 DEF T
=============================================================================
