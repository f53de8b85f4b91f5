-------------------------- MODULE TableStoreProofs --------------------------
(***************************************************************************)
(* TableStore, proved for any columns, constraints, statements, row and    *)
(* page sizes: the pages always hold whole rows, no INSERT makes two rows  *)
(* share a key, an index of one-column keys keeps up with the rows, and    *)
(* the pages implement Table.                                              *)
(***************************************************************************)
EXTENDS TableStore, PageLayoutProofs, FiniteSetTheorems
-----------------------------------------------------------------------------
(* The folds of INSERT. *)

LEMMA InsertFold ==
  ASSUME NEW s \in Seq(Rows), NEW U, NEW b \in U,
         \A x \in U, r \in Rows : InsertRow(x, r) \in U
  PROVE  \E g : /\ g[0] = b
                /\ \A k \in 1..Len(s) : g[k] = InsertRow(g[k - 1], s[k])
                /\ FoldLeft(InsertRow, b, s) = g[Len(s)]
<1> DEFINE n == Len(s)
           F == [k \in 1..n |-> [x \in U |-> InsertRow(x, s[k])]]
           Code(f) == f = [t \in SUBSET (1..n) |->
                             IF t = {} THEN b ELSE InsertRow(f[t \ {Max(t)}], s[Max(t)])]
           it == CHOOSE f : Code(f)
<1>1. n \in Nat /\ DOMAIN s = 1..n /\ \A k \in 1..n : s[k] \in Rows
  OBVIOUS
<1>2. F \in [1..n -> [U -> U]] /\ \A k \in 1..n, x \in U : F[k][x] = InsertRow(x, s[k])
  BY <1>1
<1>3. FoldLeft(InsertRow, b, s) = it[1..n]
  BY <1>1, Zenon DEF FoldLeft, MapThenFoldSet
<1> HIDE DEF n, F
<1>4. PICK f \in [SUBSET (1..n) -> U] : IsFold(F, n, b, f)
  BY <1>1, <1>2, FoldExists
<1>5. Code(f)
  <2>1. ASSUME NEW t \in SUBSET (1..n), t # {}
        PROVE  F[Max(t)][f[t \ {Max(t)}]] = InsertRow(f[t \ {Max(t)}], s[Max(t)])
    <3>1. Max(t) \in 1..n /\ t \ {Max(t)} \in SUBSET (1..n)
      BY <1>1, <2>1, MaxIn
    <3>2. f[t \ {Max(t)}] \in U
      BY <3>1
    <3> QED
      BY <1>2, <3>1, <3>2
  <2> QED
    BY <1>4, <2>1, Zenon DEF IsFold
<1>6. Code(it)
  <2> HIDE DEF Code
  <2> QED
    BY <1>5, Zenon
<1> HIDE DEF it
<1>7. \A t \in SUBSET (1..n) :
        it[t] = IF t = {} THEN b ELSE InsertRow(it[t \ {Max(t)}], s[Max(t)])
  BY <1>6, Zenon
<1> HIDE DEF Code
<1> DEFINE g == [k \in 0..n |-> it[1..k]]
<1>8. g[0] = b
  <2>1. 1..0 = {} /\ {} \in SUBSET (1..n) /\ 0 \in 0..n
    BY <1>1
  <2>2. it[{}] = b
    BY <1>7, <2>1, Zenon
  <2> QED
    BY <2>1, <2>2
<1>9. ASSUME NEW k \in 1..n PROVE g[k] = InsertRow(g[k - 1], s[k])
  <2>1. /\ 1..k \in SUBSET (1..n) /\ 1..k # {}
        /\ Max(1..k) = k /\ (1..k) \ {k} = 1..(k - 1)
    BY <1>1, FirstNumbers
  <2>2. it[1..k] = InsertRow(it[(1..k) \ {Max(1..k)}], s[Max(1..k)])
    BY <1>7, <2>1, Zenon
  <2>3. it[1..k] = InsertRow(it[1..(k - 1)], s[k])
    BY <2>1, <2>2, Zenon
  <2>4. k \in 0..n /\ k - 1 \in 0..n
    BY <1>1
  <2>5. g[k] = it[1..k] /\ g[k - 1] = it[1..(k - 1)]
    BY <2>4
  <2> QED
    BY <2>3, <2>5, Zenon
<1>10. FoldLeft(InsertRow, b, s) = g[n]
  <2>1. n \in 0..n
    BY <1>1
  <2> QED
    BY <1>3, <2>1, Zenon
<1> QED
  BY <1>8, <1>9, <1>10, Zenon DEF n
-----------------------------------------------------------------------------
(* Pages. *)

\* Every slot in use holds a row.
Readable(p) ==
  p \in Page /\ \A i \in Live(p) : \E r \in Rows : Holds(p, i, r)

RowIn(p, i) == Get(p, i)[1][1]

LEMMA RowHeld ==
  ASSUME NEW p \in Page, NEW i \in 1..Len(p.slots), NEW r \in Rows, Holds(p, i, r)
  PROVE  i \in Live(p) /\ RowIn(p, i) = r
<1>1. Get(p, i) = RowBytes(r)
  BY HeldBytes
<1>2. 1 \in 1..RowLen[r] /\ RowBytes(r)[1] = <<r, 1>>
  BY RowBytesType
<1>3. i \in Live(p)
  BY PageType DEF Live, Holds
<1> QED
  BY <1>1, <1>2, <1>3 DEF RowIn

LEMMA RowReadable ==
  ASSUME NEW p, Readable(p), NEW i \in Live(p)
  PROVE  RowIn(p, i) \in Rows /\ Holds(p, i, RowIn(p, i))
<1>1. p \in Page /\ i \in 1..Len(p.slots)
  BY PageType DEF Readable, Live
<1>2. PICK r \in Rows : Holds(p, i, r)
  BY DEF Readable
<1> QED
  BY <1>1, <1>2, RowHeld

LEMMA LivePlaces ==
  ASSUME NEW p \in Page
  PROVE  Live(p) \subseteq 1..Len(p.slots)
BY PageType DEF Live

LEMMA PlacedPage ==
  ASSUME NEW p, Readable(p), NEW i \in 1..(Len(p.slots) + 1), NEW r \in Rows,
         NEW q, q = AppendIntoData(p, i, r)
  PROVE  /\ Readable(q)
         /\ Live(q) = Live(p) \cup {i}
         /\ RowIn(q, i) = r
         /\ \A j \in Live(p) : j # i => RowIn(q, j) = RowIn(p, j)
<1>1. p \in Page /\ Len(p.slots) \in Nat
  BY PageType DEF Readable
<1>2. /\ q \in Page
      /\ Len(q.slots) = IF i \in DOMAIN p.slots THEN Len(p.slots) ELSE Len(p.slots) + 1
      /\ Holds(q, i, r)
      /\ \A j \in 1..Len(p.slots) : j # i => q.slots[j] = p.slots[j]
  BY <1>1, AppendedPage
<1>3. DOMAIN p.slots = 1..Len(p.slots) /\ DOMAIN q.slots = 1..Len(q.slots)
  BY <1>1, <1>2, PageType
<1>4. 1..Len(q.slots) = (1..Len(p.slots)) \cup {i}
  BY <1>1, <1>2, <1>3
<1>5. i \in Live(q) /\ RowIn(q, i) = r
  BY <1>2, <1>4, RowHeld
<1>6. ASSUME NEW j \in Live(p), j # i
      PROVE  /\ j \in Live(q)
             /\ Holds(q, j, RowIn(p, j))
             /\ RowIn(q, j) = RowIn(p, j)
  <2>1. j \in 1..Len(p.slots)
    BY <1>1, LivePlaces
  <2>2. RowIn(p, j) \in Rows /\ Holds(p, j, RowIn(p, j))
    BY RowReadable
  <2>3. Holds(q, j, RowIn(p, j))
    BY <1>1, <1>6, <2>1, <2>2, AppendHolds
  <2> QED
    BY <1>2, <1>4, <2>1, <2>2, <2>3, RowHeld
<1>7. Live(q) \subseteq Live(p) \cup {i}
  BY <1>2, <1>3, <1>4 DEF Live
<1>8. Live(q) = Live(p) \cup {i}
  BY <1>5, <1>6, <1>7
<1>9. Readable(q)
  <2> SUFFICES ASSUME NEW j \in Live(q) PROVE \E s \in Rows : Holds(q, j, s)
    BY <1>2 DEF Readable
  <2>1. CASE j = i
    BY <1>2, <2>1
  <2>2. CASE j # i
    BY <1>6, <1>7, <2>2, RowReadable
  <2> QED
    BY <2>1, <2>2
<1> QED
  BY <1>5, <1>6, <1>8, <1>9

LEMMA FreedPage ==
  ASSUME NEW p, Readable(p), NEW i, NEW q, q = PageDelete(p, i)
  PROVE  /\ Readable(q)
         /\ Live(q) = Live(p) \ {i}
         /\ \A j \in Live(q) : RowIn(q, j) = RowIn(p, j)
<1>1. p \in Page /\ p.slots \in Seq(Slot) /\ DOMAIN p.slots = 1..Len(p.slots)
  BY PageType DEF Readable
<1> DEFINE entry == [off |-> TombstoneOffset, len |-> p.slots[i].len, tomb |-> TRUE]
           slots == [p.slots EXCEPT ![i] = entry]
<1>2. q = [p EXCEPT !.slots = slots]
  BY DEF PageDelete
<1>3. slots \in Seq(Slot) /\ DOMAIN slots = DOMAIN p.slots
  <2>1. CASE i \in DOMAIN p.slots
    <3>1. entry \in Slot
      BY <1>1, <2>1, PageType DEF Slot, TombstoneOffset
    <3> HIDE DEF entry
    <3> QED
      BY <1>1, <2>1, <3>1, ExceptSeq
  <2>2. CASE i \notin DOMAIN p.slots
    <3>1. slots = p.slots
      BY <1>1, <2>2
    <3> QED
      BY <1>1, <3>1
  <2> QED
    BY <2>1, <2>2
<1>4. \A j \in DOMAIN p.slots : slots[j] = IF j = i THEN entry ELSE p.slots[j]
  BY <1>1
<1>5. entry.tomb = TRUE
  OBVIOUS
<1> HIDE DEF entry, slots
<1>6. q = [slots |-> slots, data |-> p.data] /\ q.slots = slots /\ q.data = p.data
  BY <1>1, <1>2 DEF Page
<1>7. q \in Page
  BY <1>1, <1>3, <1>6 DEF Page
<1>8. Live(q) = Live(p) \ {i}
  BY <1>3, <1>4, <1>5, <1>6 DEF Live
<1>9. ASSUME NEW j \in Live(q)
      PROVE  RowIn(p, j) \in Rows /\ Holds(q, j, RowIn(p, j)) /\ RowIn(q, j) = RowIn(p, j)
  <2>1. j \in Live(p) /\ j # i /\ j \in 1..Len(q.slots)
    BY <1>7, <1>8, LivePlaces
  <2>2. RowIn(p, j) \in Rows /\ Holds(p, j, RowIn(p, j))
    BY <2>1, RowReadable
  <2>3. q.slots[j] = p.slots[j]
    BY <1>1, <1>4, <1>6, <2>1 DEF Live
  <2>4. Holds(q, j, RowIn(p, j))
    BY <1>6, <2>2, <2>3 DEF Holds
  <2> QED
    BY <1>7, <2>1, <2>2, <2>4, RowHeld
<1> QED
  BY <1>7, <1>8, <1>9 DEF Readable

\* insert takes a slot that no row has.
LEMMA FreeSlot ==
  ASSUME NEW p \in Page, NEW r \in Rows
  PROVE  InsertSlot(p, r) \in 1..(Len(p.slots) + 1) /\ InsertSlot(p, r) \notin Live(p)
<1>1. DOMAIN p.slots = 1..Len(p.slots) /\ Len(p.slots) \in Nat
  BY PageType
<1>2. InsertSlot(p, r) \in 1..(Len(p.slots) + 1)
  BY InsertSlotIn
<1>3. CASE Reusable(p, r) = {}
  BY <1>1, <1>3, InsertSlotIn DEF Live
<1>4. CASE Reusable(p, r) # {}
  BY <1>4, InsertSlotIn DEF Reusable, Live
<1> QED
  BY <1>2, <1>3, <1>4
-----------------------------------------------------------------------------
(* The pages of a table. *)

PagesReadable(ps) == ps \in Seq(Page) /\ \A i \in DOMAIN ps : Readable(ps[i])

LEMMA RefsOf ==
  ASSUME NEW ps
  PROVE  /\ \A i, s : <<i, s>> \in Refs(ps) <=> i \in DOMAIN ps /\ s \in Live(ps[i])
         /\ \A x \in Refs(ps) : \E i \in DOMAIN ps : \E s \in Live(ps[i]) : x = <<i, s>>
BY DEF Refs

LEMMA RefsType ==
  ASSUME NEW ps, PagesReadable(ps)
  PROVE  /\ \A x \in Refs(ps) : /\ x = <<x[1], x[2]>>
                                /\ x[1] \in 1..Len(ps) /\ x[2] \in Nat \ {0}
                                /\ x[2] \in Live(ps[x[1]])
                                /\ RowAt(ps, x) = RowIn(ps[x[1]], x[2])
                                /\ RowAt(ps, x) \in Rows
         /\ Refs(ps) \subseteq Nat \X Nat
<1>1. DOMAIN ps = 1..Len(ps) /\ Len(ps) \in Nat
  BY DEF PagesReadable
<1>2. ASSUME NEW x \in Refs(ps)
      PROVE  /\ x = <<x[1], x[2]>>
             /\ x[1] \in 1..Len(ps) /\ x[2] \in Nat \ {0}
             /\ x[2] \in Live(ps[x[1]])
             /\ RowAt(ps, x) = RowIn(ps[x[1]], x[2])
             /\ RowAt(ps, x) \in Rows
  <2>1. PICK i \in DOMAIN ps : \E s \in Live(ps[i]) : x = <<i, s>>
    BY RefsOf
  <2>2. PICK s \in Live(ps[i]) : x = <<i, s>>
    BY <2>1
  <2>3. Readable(ps[i])
    BY DEF PagesReadable
  <2>4. s \in 1..Len(ps[i].slots) /\ Len(ps[i].slots) \in Nat
    BY <2>3, LivePlaces, PageType DEF Readable
  <2>5. RowIn(ps[i], s) \in Rows
    BY <2>3, RowReadable
  <2>6. RowAt(ps, x) = RowIn(ps[i], s)
    BY <2>2 DEF RowAt, RowIn
  <2> QED
    BY <1>1, <2>2, <2>4, <2>5, <2>6
<1>3. ASSUME NEW x \in Refs(ps) PROVE x \in Nat \X Nat
  <2>1. x = <<x[1], x[2]>> /\ x[1] \in Nat /\ x[2] \in Nat
    BY <1>1, <1>2
  <2> QED
    BY <2>1
<1> QED
  BY <1>2, <1>3

\* One page written, or a new one linked.
LEMMA PutPage ==
  ASSUME NEW ps, PagesReadable(ps), NEW i \in 1..(Len(ps) + 1), NEW q, Readable(q),
         NEW qs, qs = PutAt(ps, i, q)
  PROVE  /\ PagesReadable(qs)
         /\ Len(qs) = IF i \in DOMAIN ps THEN Len(ps) ELSE Len(ps) + 1
         /\ qs[i] = q /\ i \in DOMAIN qs
         /\ \A s : s \in Live(q) <=> <<i, s>> \in Refs(qs)
         /\ \A s : RowAt(qs, <<i, s>>) = RowIn(q, s)
         /\ \A j, s : j # i => (<<j, s>> \in Refs(qs) <=> <<j, s>> \in Refs(ps))
         /\ \A j, s : j # i /\ j \in DOMAIN ps => RowAt(qs, <<j, s>>) = RowAt(ps, <<j, s>>)
<1>1. ps \in Seq(Page) /\ q \in Page /\ DOMAIN ps = 1..Len(ps) /\ Len(ps) \in Nat
  BY DEF PagesReadable, Readable
<1>2. /\ qs \in Seq(Page)
      /\ Len(qs) = IF i \in DOMAIN ps THEN Len(ps) ELSE Len(ps) + 1
      /\ qs[i] = q
      /\ \A j \in 1..Len(ps) : j # i => qs[j] = ps[j]
  <2>1. qs \in Seq(Page) /\ Len(qs) = IF i \in DOMAIN ps THEN Len(ps) ELSE Len(ps) + 1
    BY <1>1, PutSlot
  <2>2. qs[i] = q
    BY <1>1, PutSlot
  <2>3. \A j \in 1..Len(ps) : j # i => qs[j] = ps[j]
    BY <1>1, PutSlot, SMTT(30)
  <2> QED
    BY <2>1, <2>2, <2>3
<1>3. DOMAIN qs = (DOMAIN ps) \cup {i}
  BY DEF PutAt
<1>4. PagesReadable(qs)
  BY <1>1, <1>2, <1>3 DEF PagesReadable
<1>5. \A s : s \in Live(q) <=> <<i, s>> \in Refs(qs)
  BY <1>2, <1>3, RefsOf
<1>6. \A s : RowAt(qs, <<i, s>>) = RowIn(q, s)
  BY <1>2 DEF RowAt, RowIn
<1>7. \A j, s : j # i => (<<j, s>> \in Refs(qs) <=> <<j, s>> \in Refs(ps))
  BY <1>1, <1>2, <1>3, RefsOf
<1>8. \A j, s : j # i /\ j \in DOMAIN ps => RowAt(qs, <<j, s>>) = RowAt(ps, <<j, s>>)
  BY <1>1, <1>2 DEF RowAt
<1> QED
  BY <1>2, <1>3, <1>4, <1>5, <1>6, <1>7, <1>8

LEMMA PageForIn ==
  ASSUME NEW ps \in Seq(Page), NEW r \in Rows
  PROVE  PageFor(ps, r) \in 1..(Len(ps) + 1)
<1>1. DOMAIN ps = 1..Len(ps) /\ Len(ps) \in Nat
  OBVIOUS
<1> DEFINE R == {i \in DOMAIN ps : CanInsert(ps[i], r)}
<1>2. CASE R = {}
  BY <1>1, <1>2 DEF PageFor
<1>3. CASE R # {}
  <2>1. R \subseteq Nat
    BY <1>1
  <2>2. PICK i \in R : \A j \in R : ~(<<j, i>> \in OpToRel(<, Nat))
    BY <1>3, <2>1, NatLessThanWellFounded, WFMin
  <2>3. ASSUME NEW j \in 1..(i - 1) PROVE ~CanInsert(ps[j], r)
    <3>1. j \in DOMAIN ps /\ j < i /\ <<j, i>> \in Nat \X Nat
      BY <1>1
    <3>2. <<j, i>> \in OpToRel(<, Nat)
      BY <3>1 DEF OpToRel
    <3> QED
      BY <2>2, <3>1, <3>2
  <2>4. PageFor(ps, r) \in DOMAIN ps
    BY <2>3 DEF PageFor
  <2> QED
    BY <1>1, <2>4
<1> QED
  BY <1>2, <1>3

LEMMA EmptyReadable == Readable(EmptyPage) /\ Live(EmptyPage) = {}
BY DEF Readable, EmptyPage, Page, Live

\* The tables ps and qs differ by row r, which qs has at ref.
Added(ps, qs, ref, r) ==
  /\ ref \notin Refs(ps)
  /\ Refs(qs) = Refs(ps) \cup {ref}
  /\ RowAt(qs, ref) = r
  /\ \A x \in Refs(ps) : RowAt(qs, x) = RowAt(ps, x)

\* The row gets a reference of its own; the other rows stay where they are.
LEMMA ChainInsert ==
  ASSUME NEW ps, PagesReadable(ps), NEW r \in Rows,
         NEW placed, placed = InsertRowIntoChain(ps, r)
  PROVE  /\ PagesReadable(placed.pages)
         /\ Len(placed.pages) >= Len(ps)
         /\ placed.ref \in Nat \X Nat
         /\ Added(ps, placed.pages, placed.ref, r)
<1> DEFINE i   == PageFor(ps, r)
           old == IF i \in DOMAIN ps THEN ps[i] ELSE EmptyPage
           s   == InsertSlot(old, r)
           new == PageInsert(old, r)
           qs  == PutAt(ps, i, new)
<1>1. placed = [pages |-> qs, ref |-> <<i, s>>]
  BY DEF InsertRowIntoChain, PutAt
<1>2. ps \in Seq(Page) /\ DOMAIN ps = 1..Len(ps) /\ Len(ps) \in Nat
  BY DEF PagesReadable
<1>3. i \in 1..(Len(ps) + 1)
  BY <1>2, PageForIn
<1>4. Readable(old) /\ \A t : t \in Live(old) <=> <<i, t>> \in Refs(ps)
  <2>1. CASE i \in DOMAIN ps
    BY <2>1, RefsOf DEF PagesReadable
  <2>2. CASE i \notin DOMAIN ps
    BY <2>2, RefsOf, EmptyReadable
  <2> QED
    BY <2>1, <2>2
<1>5. i \in DOMAIN ps => \A t : RowAt(ps, <<i, t>>) = RowIn(old, t)
  BY DEF RowAt, RowIn
<1> HIDE DEF i, old
<1>6. s \in 1..(Len(old.slots) + 1) /\ s \notin Live(old) /\ Len(old.slots) \in Nat
  BY <1>4, FreeSlot, PageType DEF Readable
<1>7. /\ Readable(new)
      /\ Live(new) = Live(old) \cup {s}
      /\ RowIn(new, s) = r
      /\ \A t \in Live(old) : t # s => RowIn(new, t) = RowIn(old, t)
  <2>1. new = AppendIntoData(old, s, r)
    BY DEF PageInsert
  <2> HIDE DEF s, new
  <2> QED
    BY <1>4, <1>6, <2>1, PlacedPage
<1> HIDE DEF s, new
<1>8. /\ PagesReadable(qs)
      /\ Len(qs) = IF i \in DOMAIN ps THEN Len(ps) ELSE Len(ps) + 1
      /\ \A t : t \in Live(new) <=> <<i, t>> \in Refs(qs)
      /\ \A t : RowAt(qs, <<i, t>>) = RowIn(new, t)
      /\ \A j, t : j # i => (<<j, t>> \in Refs(qs) <=> <<j, t>> \in Refs(ps))
      /\ \A j, t : j # i /\ j \in DOMAIN ps => RowAt(qs, <<j, t>>) = RowAt(ps, <<j, t>>)
  BY <1>3, <1>7, PutPage
<1> HIDE DEF qs
<1>9. <<i, s>> \notin Refs(ps) /\ <<i, s>> \in Nat \X Nat
  BY <1>2, <1>3, <1>4, <1>6
<1>10. Refs(qs) = Refs(ps) \cup {<<i, s>>}
  <2>1. ASSUME NEW x \in Refs(qs) PROVE x \in Refs(ps) \cup {<<i, s>>}
    <3>1. PICK j, t : x = <<j, t>>
      BY RefsOf
    <3> QED
      BY <1>4, <1>7, <1>8, <3>1
  <2>2. ASSUME NEW x \in Refs(ps) PROVE x \in Refs(qs)
    <3>1. PICK j, t : x = <<j, t>>
      BY RefsOf
    <3> QED
      BY <1>4, <1>7, <1>8, <3>1
  <2>3. <<i, s>> \in Refs(qs)
    BY <1>7, <1>8
  <2> QED
    BY <2>1, <2>2, <2>3
<1>11. ASSUME NEW x \in Refs(ps) PROVE RowAt(qs, x) = RowAt(ps, x)
  <2>1. PICK j \in DOMAIN ps : \E t : x = <<j, t>>
    BY RefsOf
  <2>2. PICK t : x = <<j, t>>
    BY <2>1
  <2>3. CASE j # i
    BY <1>8, <2>2, <2>3
  <2>4. CASE j = i
    BY <1>4, <1>5, <1>6, <1>7, <1>8, <2>2, <2>4
  <2> QED
    BY <2>3, <2>4
<1> QED
  BY <1>1, <1>2, <1>7, <1>8, <1>9, <1>10, <1>11 DEF Added
-----------------------------------------------------------------------------
(* The indexes. *)

IndexType == [IndexedColumns -> [Values -> Nat \X Nat]]

LEMMA IndexTyped ==
  ASSUME NEW ix \in IndexType, NEW r, NEW ref \in Nat \X Nat
  PROVE  IndexRow(ix, r, ref) \in IndexType
<1>1. ASSUME NEW c \in IndexedColumns
      PROVE  (IF r[c] = Null THEN ix[c] ELSE [ix[c] EXCEPT ![r[c]] = ref])
               \in [Values -> Nat \X Nat]
  BY DEF IndexType
<1> QED
  BY <1>1 DEF IndexRow, IndexType

LEMMA UpdateIndexTyped ==
  ASSUME NEW ix \in IndexType, NEW old, NEW new, NEW ref \in Nat \X Nat
  PROVE  UpdateIndexForRow(ix, old, new, ref) \in IndexType
<1> DEFINE moved == IndexRow(UnindexRow(ix, old), new, ref)
<1>1. NoRef \in Nat \X Nat
  BY DEF NoRef
<1>2. UnindexRow(ix, old) \in IndexType
  BY <1>1, IndexTyped DEF UnindexRow
<1>3. moved \in IndexType
  BY <1>2, IndexTyped
<1> HIDE DEF moved
<1>4. UpdateIndexForRow(ix, old, new, ref) =
        [c \in IndexedColumns |-> IF old[c] = new[c] THEN ix[c] ELSE moved[c]]
  BY DEF UpdateIndexForRow, moved
<1> QED
  BY <1>3, <1>4 DEF IndexType

\* No key has two columns.
OneColumnKey == \A a, b \in PKCols : a = b

HeldRows(ps) == {RowAt(ps, x) : x \in Refs(ps)}

\* A literal has a reference only while one of the rows has the literal.
Backed(ix, rows) ==
  \A c \in IndexedColumns, v \in Values : ix[c][v] # NoRef => \E r \in rows : r[c] = v

\* The references of literal v are those of the rows that have it.
Agrees(ix, ps) ==
  \A c \in IndexedColumns, v \in Values : \A x \in Refs(ps) :
    x = ix[c][v] <=> RowAt(ps, x)[c] = v

LEMMA AgreesIs ==
  ASSUME NEW ix, NEW ps
  PROVE  Agrees(ix, ps) <=>
           \A c \in IndexedColumns, v \in Values :
             {ix[c][v]} \cap Refs(ps) = {x \in Refs(ps) : RowAt(ps, x)[c] = v}
<1>1. ASSUME NEW c, NEW v
      PROVE  (\A x \in Refs(ps) : x = ix[c][v] <=> RowAt(ps, x)[c] = v) <=>
               {ix[c][v]} \cap Refs(ps) = {x \in Refs(ps) : RowAt(ps, x)[c] = v}
  OBVIOUS
<1> QED
  BY <1>1 DEF Agrees

LEMMA RowValues ==
  ASSUME NEW r \in Rows, NEW c \in IndexedColumns
  PROVE  r[c] \in Values \cup {Null} /\ c \in Cols
<1>1. c \in Cols
  BY StatementsAssumption DEF IndexedColumns
<1> QED
  BY <1>1, TableStoreAssumption

LEMMA IndexRowIs ==
  ASSUME NEW ix \in IndexType, NEW r \in Rows, NEW ref,
         NEW c \in IndexedColumns, NEW v \in Values
  PROVE  IndexRow(ix, r, ref)[c][v] = IF r[c] = v THEN ref ELSE ix[c][v]
<1>1. r[c] \in Values \cup {Null} /\ v # Null /\ ix[c] \in [Values -> Nat \X Nat]
  BY RowValues, TableStoreAssumption DEF IndexType
<1>2. IndexRow(ix, r, ref)[c] = IF r[c] = Null THEN ix[c] ELSE [ix[c] EXCEPT ![r[c]] = ref]
  BY DEF IndexRow
<1> QED
  BY <1>1, <1>2

LEMMA UpdateIndexIs ==
  ASSUME NEW ix \in IndexType, NEW old \in Rows, NEW new \in Rows, NEW ref,
         NEW c \in IndexedColumns, NEW v \in Values
  PROVE  UpdateIndexForRow(ix, old, new, ref)[c][v] =
           IF old[c] = new[c] THEN ix[c][v]
           ELSE IF new[c] = v THEN ref
           ELSE IF old[c] = v THEN NoRef ELSE ix[c][v]
<1> DEFINE gone == UnindexRow(ix, old)
<1>1. NoRef \in Nat \X Nat
  BY DEF NoRef
<1>2. gone \in IndexType
  BY <1>1, IndexTyped DEF UnindexRow
<1>3. gone[c][v] = IF old[c] = v THEN NoRef ELSE ix[c][v]
  BY IndexRowIs DEF UnindexRow
<1> HIDE DEF gone
<1>4. IndexRow(gone, new, ref)[c][v] = IF new[c] = v THEN ref ELSE gone[c][v]
  BY <1>2, IndexRowIs
<1>5. UpdateIndexForRow(ix, old, new, ref)[c] =
        IF old[c] = new[c] THEN ix[c] ELSE IndexRow(gone, new, ref)[c]
  BY DEF UpdateIndexForRow, gone
<1> QED
  BY <1>3, <1>4, <1>5

LEMMA BackedMore ==
  ASSUME NEW ix, NEW rows, Backed(ix, rows), NEW more, rows \subseteq more
  PROVE  Backed(ix, more)
BY DEF Backed

LEMMA BackedAdded ==
  ASSUME NEW ix \in IndexType, NEW rows, Backed(ix, rows), NEW r \in Rows, NEW ref,
         NEW more, rows \subseteq more, r \in more
  PROVE  Backed(IndexRow(ix, r, ref), more)
BY IndexRowIs DEF Backed

LEMMA BackedMoved ==
  ASSUME NEW ix \in IndexType, NEW rows, Backed(ix, rows),
         NEW old \in Rows, NEW new \in Rows, NEW ref,
         NEW more, rows \ {old} \subseteq more, new \in more
  PROVE  Backed(UpdateIndexForRow(ix, old, new, ref), more)
<1> DEFINE jx == UpdateIndexForRow(ix, old, new, ref)
<1>1. ASSUME NEW c \in IndexedColumns, NEW v \in Values, jx[c][v] # NoRef
      PROVE  \E r \in more : r[c] = v
  <2>1. jx[c][v] = IF old[c] = new[c] THEN ix[c][v]
                   ELSE IF new[c] = v THEN ref
                   ELSE IF old[c] = v THEN NoRef ELSE ix[c][v]
    BY UpdateIndexIs
  <2> HIDE DEF jx
  <2>2. CASE new[c] = v
    BY <2>2
  <2>3. CASE new[c] # v
    <3>1. ix[c][v] # NoRef /\ old[c] # v
      BY <1>1, <2>1, <2>3
    <3>2. PICK r \in rows : r[c] = v
      BY <3>1 DEF Backed
    <3> QED
      BY <3>1, <3>2
  <2> QED
    BY <2>2, <2>3
<1> QED
  BY <1>1 DEF Backed

\* Rows that agree on an indexed column have one key.
LEMMA OneColumnSame ==
  ASSUME OneColumnKey, NEW c \in IndexedColumns, NEW r, NEW s, r[c] = s[c], r[c] # Null
  PROVE  SameKey(r, s)
<1>1. CASE c \in PKCols
  <2>1. PKCols \in UniqueGroups /\ PKCols = {c}
    BY <1>1 DEF UniqueGroups, OneColumnKey
  <2> QED
    BY <2>1 DEF SameKey
<1>2. CASE c \notin PKCols
  <2>1. {c} \in UniqueGroups
    BY <1>2 DEF UniqueGroups, IndexedColumns
  <2> QED
    BY <2>1 DEF SameKey
<1> QED
  BY <1>1, <1>2

LEMMA NoRefNowhere ==
  ASSUME NEW ps, PagesReadable(ps)
  PROVE  NoRef \notin Refs(ps)
<1>1. \A x \in Refs(ps) : x[1] \in 1..Len(ps)
  BY RefsType
<1> QED
  BY <1>1 DEF NoRef
-----------------------------------------------------------------------------
(* INSERT. *)

TypeOK == PagesReadable(pages) /\ index \in IndexType

\* The states between two rows of a batch.
InsertStates ==
  {st \in [pages : Seq(Page), index : IndexType, raised : BOOLEAN] : PagesReadable(st.pages)}

LEMMA InsertRowTyped ==
  ASSUME NEW st \in InsertStates, NEW r \in Rows
  PROVE  InsertRow(st, r) \in InsertStates
<1>1. CASE st.raised \/ NullViolation(r) \/ IsDuplicate(st.pages, r)
  BY <1>1 DEF InsertRow, InsertStates
<1>2. CASE ~(st.raised \/ NullViolation(r) \/ IsDuplicate(st.pages, r))
  <2> DEFINE placed == InsertRowIntoChain(st.pages, r)
  <2>1. PagesReadable(st.pages) /\ st.index \in IndexType
    BY DEF InsertStates
  <2>2. PagesReadable(placed.pages) /\ placed.ref \in Nat \X Nat
    BY <2>1, ChainInsert
  <2>3. InsertRow(st, r) = [pages  |-> placed.pages,
                            index  |-> IndexRow(st.index, r, placed.ref),
                            raised |-> FALSE]
    BY <1>2 DEF InsertRow
  <2> HIDE DEF placed
  <2>4. IndexRow(st.index, r, placed.ref) \in IndexType
    BY <2>1, <2>2, IndexTyped
  <2> QED
    BY <2>2, <2>3, <2>4 DEF InsertStates, PagesReadable
<1> QED
  BY <1>1, <1>2

\* What one row of an INSERT does when it is not rejected.
LEMMA InsertRowAdds ==
  ASSUME NEW st \in InsertStates, NEW r \in Rows, NEW after,
         after = InsertRow(st, r), ~after.raised
  PROVE  /\ ~st.raised /\ ~NullViolation(r) /\ ~IsDuplicate(st.pages, r)
         /\ \E ref \in Nat \X Nat : /\ Added(st.pages, after.pages, ref, r)
                                    /\ after.index = IndexRow(st.index, r, ref)
<1>1. ~(st.raised \/ NullViolation(r) \/ IsDuplicate(st.pages, r))
  BY DEF InsertRow, InsertStates
<1> DEFINE placed == InsertRowIntoChain(st.pages, r)
<1>2. PagesReadable(st.pages)
  BY DEF InsertStates
<1>3. after = [pages  |-> placed.pages,
               index  |-> IndexRow(st.index, r, placed.ref),
               raised |-> FALSE]
  BY <1>1 DEF InsertRow
<1>4. placed.ref \in Nat \X Nat /\ Added(st.pages, placed.pages, placed.ref, r)
  BY <1>2, ChainInsert
<1> HIDE DEF placed
<1>5. after.pages = placed.pages /\ after.index = IndexRow(st.index, r, placed.ref)
  BY <1>3
<1> QED
  BY <1>1, <1>4, <1>5

LEMMA SameKeySymmetric ==
  ASSUME NEW r, NEW s, SameKey(r, s)
  PROVE  SameKey(s, r)
BY DEF SameKey

LEMMA InsertRowUnique ==
  ASSUME NEW st \in InsertStates, NEW r \in Rows, NEW after,
         after = InsertRow(st, r), ~after.raised, NoDuplicates(st.pages)
  PROVE  NoDuplicates(after.pages)
<1>1. ~IsDuplicate(st.pages, r)
  BY InsertRowAdds
<1>2. PICK ref \in Nat \X Nat :
        /\ ref \notin Refs(st.pages)
        /\ Refs(after.pages) = Refs(st.pages) \cup {ref}
        /\ RowAt(after.pages, ref) = r
        /\ \A x \in Refs(st.pages) : RowAt(after.pages, x) = RowAt(st.pages, x)
  BY InsertRowAdds DEF Added
<1>3. ASSUME NEW x \in Refs(after.pages), NEW y \in Refs(after.pages), x # y,
             SameKey(RowAt(after.pages, x), RowAt(after.pages, y))
      PROVE  FALSE
  <2>1. CASE x = ref
    BY <1>1, <1>2, <1>3, <2>1 DEF IsDuplicate
  <2>2. CASE y = ref
    BY <1>1, <1>2, <1>3, <2>2, SameKeySymmetric DEF IsDuplicate
  <2>3. CASE x # ref /\ y # ref
    BY <1>2, <1>3, <2>3 DEF NoDuplicates
  <2> QED
    BY <2>1, <2>2, <2>3
<1> QED
  BY <1>3 DEF NoDuplicates

LEMMA BatchRows ==
  ASSUME NEW batch \in Batches
  PROVE  /\ batch \in Seq(Rows) /\ Len(batch) \in Nat
         /\ \A k \in 1..Len(batch) : batch[k] \in Rows
BY TableStoreAssumption

\* The states of an INSERT, from the first row to the last.
InsertRun(g, batch) ==
  /\ g[0] = Begun
  /\ \A k \in 1..Len(batch) : g[k] = InsertRow(g[k - 1], batch[k])
  /\ \A k \in 0..Len(batch) : g[k] \in InsertStates
  /\ FoldLeft(InsertRow, Begun, batch) = g[Len(batch)]

LEMMA InsertSteps ==
  ASSUME TypeOK, NEW batch \in Batches
  PROVE  \E g : InsertRun(g, batch)
<1>1. batch \in Seq(Rows) /\ Len(batch) \in Nat /\ \A k \in 1..Len(batch) : batch[k] \in Rows
  BY BatchRows
<1>2. Begun \in InsertStates
  BY DEF TypeOK, Begun, InsertStates, PagesReadable
<1>3. PICK g : /\ g[0] = Begun
               /\ \A k \in 1..Len(batch) : g[k] = InsertRow(g[k - 1], batch[k])
               /\ FoldLeft(InsertRow, Begun, batch) = g[Len(batch)]
  BY <1>1, <1>2, InsertRowTyped, InsertFold
<1>4. \A k \in 0..Len(batch) : g[k] \in InsertStates
  <2>1. \A k \in 1..Len(batch) : g[k - 1] \in InsertStates => g[k] \in InsertStates
    BY <1>1, <1>3, InsertRowTyped
  <2> QED
    BY <1>1, <1>2, <1>3, <2>1, AlongChain
<1> QED
  BY <1>3, <1>4 DEF InsertRun

\* No row before the last was rejected.
LEMMA NoneRaised ==
  ASSUME NEW batch \in Batches, NEW g, InsertRun(g, batch), ~g[Len(batch)].raised
  PROVE  \A k \in 0..Len(batch) : ~g[k].raised
<1> DEFINE n == Len(batch)
           U == {st \in InsertStates : ~st.raised}
           h == [k \in 0..n |-> g[n - k]]
<1>1. n \in Nat /\ \A k \in 1..n : batch[k] \in Rows
  BY BatchRows
<1>2. h[0] \in U
  BY <1>1 DEF InsertRun
<1>3. ASSUME NEW k \in 1..n, h[k - 1] \in U PROVE h[k] \in U
  <2>1. /\ n - k \in 0..n /\ n - (k - 1) \in 1..n /\ (n - (k - 1)) - 1 = n - k
        /\ h[k] = g[n - k] /\ h[k - 1] = g[n - (k - 1)]
    BY <1>1
  <2> DEFINE j == n - (k - 1)
  <2>2. g[j] = InsertRow(g[j - 1], batch[j]) /\ g[j - 1] \in InsertStates /\ j - 1 = n - k
    BY <2>1 DEF InsertRun
  <2>3. batch[j] \in Rows /\ ~g[j].raised
    BY <1>1, <1>3, <2>1
  <2> HIDE DEF j
  <2>4. ~g[j - 1].raised
    BY <2>2, <2>3, InsertRowAdds
  <2> QED
    BY <2>1, <2>2, <2>4
<1>4. \A k \in 0..n : h[k] \in U
  <2> HIDE DEF h, U
  <2> QED
    BY <1>1, <1>2, <1>3, AlongChain
<1>5. ASSUME NEW k \in 0..n PROVE ~g[k].raised
  <2>1. n - k \in 0..n /\ n - (n - k) = k
    BY <1>1
  <2>2. h[n - k] = g[k]
    BY <2>1
  <2> QED
    BY <1>4, <2>1, <2>2
<1> QED
  BY <1>5

LEMMA InsertUnique ==
  ASSUME TypeOK, NoDuplicates(pages), NEW batch \in Batches, Insert(batch)
  PROVE  NoDuplicates(pages')
<1>1. PICK g : InsertRun(g, batch)
  BY InsertSteps
<1> DEFINE n == Len(batch)
<1>2. CASE g[n].raised
  <2>1. UNCHANGED pages
    BY <1>1, <1>2, Zenon DEF Insert, InsertRun, vars
  <2> QED
    BY <2>1 DEF NoDuplicates, Refs, RowAt
<1>3. CASE ~g[n].raised
  <2> DEFINE U == {st \in InsertStates : NoDuplicates(st.pages)}
  <2>1. n \in Nat /\ \A k \in 1..n : batch[k] \in Rows
    BY BatchRows
  <2>2. \A k \in 0..n : ~g[k].raised
    BY <1>1, <1>3, NoneRaised
  <2>3. g[0] \in U
    BY <1>1, <2>1 DEF InsertRun, Begun
  <2>4. ASSUME NEW k \in 1..n, g[k - 1] \in U PROVE g[k] \in U
    <3>1. k \in 0..n /\ g[k] = InsertRow(g[k - 1], batch[k]) /\ g[k] \in InsertStates
      BY <1>1, <2>1 DEF InsertRun
    <3> QED
      BY <2>1, <2>2, <2>4, <3>1, InsertRowUnique
  <2>5. \A k \in 0..n : g[k] \in U
    <3> HIDE DEF U, n
    <3> QED
      BY <2>1, <2>3, <2>4, AlongChain
  <2>6. pages' = g[n].pages
    BY <1>1, <1>3, Zenon DEF Insert, InsertRun, Commit
  <2> QED
    BY <2>1, <2>5, <2>6
<1> QED
  BY <1>2, <1>3

\* The index after one row of an INSERT.
LEMMA InsertRowIndexed ==
  ASSUME NEW st \in InsertStates, NEW r \in Rows, NEW after,
         after = InsertRow(st, r), ~after.raised, Backed(st.index, HeldRows(st.pages))
  PROVE  /\ Backed(after.index, HeldRows(after.pages))
         /\ OneColumnKey /\ Agrees(st.index, st.pages) => Agrees(after.index, after.pages)
<1> DEFINE ps == st.pages
           qs == after.pages
           ix == st.index
           jx == after.index
<1>1. ~IsDuplicate(ps, r)
  BY InsertRowAdds
<1>2. PICK ref \in Nat \X Nat : Added(ps, qs, ref, r) /\ jx = IndexRow(ix, r, ref)
  BY InsertRowAdds
<1>3. /\ ref \notin Refs(ps)
      /\ Refs(qs) = Refs(ps) \cup {ref}
      /\ RowAt(qs, ref) = r
      /\ \A x \in Refs(ps) : RowAt(qs, x) = RowAt(ps, x)
  BY <1>2 DEF Added
<1>4. ix \in IndexType /\ PagesReadable(ps) /\ PagesReadable(qs) /\ Backed(ix, HeldRows(ps))
  BY InsertRowTyped DEF InsertStates
<1> HIDE DEF ps, qs, ix, jx
<1>5. Backed(jx, HeldRows(qs))
  <2>1. HeldRows(ps) \subseteq HeldRows(qs) /\ r \in HeldRows(qs)
    BY <1>3 DEF HeldRows
  <2> QED
    BY <1>2, <1>4, <2>1, BackedAdded
<1>6. ASSUME OneColumnKey, Agrees(ix, ps) PROVE Agrees(jx, qs)
  <2> SUFFICES ASSUME NEW c \in IndexedColumns, NEW v \in Values, NEW x \in Refs(qs)
               PROVE  x = jx[c][v] <=> RowAt(qs, x)[c] = v
    BY DEF Agrees
  <2>1. jx[c][v] = IF r[c] = v THEN ref ELSE ix[c][v]
    BY <1>2, <1>4, IndexRowIs
  <2>2. v # Null
    BY TableStoreAssumption
  <2>3. CASE r[c] = v
    <3>1. ASSUME NEW y \in Refs(ps), RowAt(ps, y)[c] = v PROVE FALSE
      BY <1>1, <1>6, <2>2, <2>3, <3>1, OneColumnSame DEF IsDuplicate
    <3> QED
      BY <1>3, <2>1, <2>3, <3>1
  <2>4. CASE r[c] # v /\ x # ref
    BY <1>3, <1>6, <2>1, <2>4 DEF Agrees
  <2>5. CASE r[c] # v /\ x = ref
    <3>1. ix[c][v] # ref
      <4>1. SUFFICES ASSUME ix[c][v] = ref PROVE FALSE
        OBVIOUS
      <4>2. ref # NoRef
        BY <1>3, <1>4, NoRefNowhere
      <4>3. PICK s \in HeldRows(ps) : s[c] = v
        BY <1>4, <4>1, <4>2 DEF Backed
      <4>4. PICK y \in Refs(ps) : RowAt(ps, y)[c] = v
        BY <4>3 DEF HeldRows
      <4>5. y = ix[c][v]
        BY <1>6, <4>4 DEF Agrees
      <4> QED
        BY <1>3, <4>1, <4>5
    <3> QED
      BY <1>3, <2>1, <2>5, <3>1
  <2> QED
    BY <2>3, <2>4, <2>5
<1> QED
  BY <1>5, <1>6 DEF ps, qs, ix, jx

LEMMA InsertIndexed ==
  ASSUME TypeOK, Backed(index, HeldRows(pages)), NEW batch \in Batches, Insert(batch)
  PROVE  /\ Backed(index', HeldRows(pages'))
         /\ OneColumnKey /\ Agrees(index, pages) => Agrees(index', pages')
<1>1. PICK g : InsertRun(g, batch)
  BY InsertSteps
<1> DEFINE n == Len(batch)
<1>2. CASE g[n].raised
  <2>1. pages' = pages /\ index' = index
    BY <1>1, <1>2, Zenon DEF Insert, InsertRun, vars
  <2> QED
    BY <2>1, Zenon
<1>3. CASE ~g[n].raised
  <2> DEFINE U == {st \in InsertStates :
                     /\ Backed(st.index, HeldRows(st.pages))
                     /\ OneColumnKey /\ Agrees(index, pages) => Agrees(st.index, st.pages)}
  <2>1. n \in Nat /\ \A k \in 1..n : batch[k] \in Rows
    BY BatchRows
  <2>2. \A k \in 0..n : ~g[k].raised
    BY <1>1, <1>3, NoneRaised
  <2>3. g[0] \in U
    <3>1. g[0] \in InsertStates /\ g[0] = Begun
      BY <1>1, <2>1 DEF InsertRun
    <3>2. Begun.pages = pages /\ Begun.index = index
      BY DEF Begun
    <3> QED
      BY <3>1, <3>2, Zenon
  <2>4. ASSUME NEW k \in 1..n, g[k - 1] \in U PROVE g[k] \in U
    <3>1. k \in 0..n /\ g[k] = InsertRow(g[k - 1], batch[k]) /\ g[k] \in InsertStates
      BY <1>1, <2>1 DEF InsertRun
    <3>2. g[k - 1] \in InsertStates /\ batch[k] \in Rows /\ ~g[k].raised
          /\ Backed(g[k - 1].index, HeldRows(g[k - 1].pages))
      BY <2>1, <2>2, <2>4, <3>1
    <3>3. /\ Backed(g[k].index, HeldRows(g[k].pages))
          /\ OneColumnKey /\ Agrees(g[k - 1].index, g[k - 1].pages)
               => Agrees(g[k].index, g[k].pages)
      BY <3>1, <3>2, InsertRowIndexed
    <3> QED
      BY <2>4, <3>1, <3>3
  <2>5. \A k \in 0..n : g[k] \in U
    <3> HIDE DEF U, n
    <3> QED
      BY <2>1, <2>3, <2>4, AlongChain
  <2>6. pages' = g[n].pages /\ index' = g[n].index
    BY <1>1, <1>3, Zenon DEF Insert, InsertRun, Commit
  <2>7. n \in 0..n
    BY <2>1
  <2>8. g[n] \in U
    BY <2>5, <2>7
  <2> HIDE DEF n
  <2> QED
    BY <2>6, <2>8, Zenon
<1> QED
  BY <1>2, <1>3
-----------------------------------------------------------------------------
(* DELETE. *)

LEMMA DeletedSlots ==
  ASSUME NEW p, Readable(p), NEW gone, NEW q, q = DeleteSlots(p, gone)
  PROVE  /\ Readable(q)
         /\ Live(q) = Live(p) \ gone
         /\ \A j \in Live(q) : RowIn(q, j) = RowIn(p, j)
<1>1. p \in Page /\ p.slots \in Seq(Slot) /\ DOMAIN p.slots = 1..Len(p.slots)
      /\ Len(p.slots) \in Nat
  BY PageType DEF Readable
<1> DEFINE slots == [s \in DOMAIN p.slots |->
                       IF s \in gone
                       THEN [off |-> TombstoneOffset, len |-> p.slots[s].len, tomb |-> TRUE]
                       ELSE p.slots[s]]
<1>2. q = [p EXCEPT !.slots = slots]
  BY DEF DeleteSlots
<1>3. /\ \A j \in DOMAIN p.slots : slots[j] \in Slot
      /\ \A j \in DOMAIN p.slots : j \in gone => slots[j].tomb = TRUE
      /\ \A j \in DOMAIN p.slots : j \notin gone => slots[j] = p.slots[j]
  <2>1. ASSUME NEW j \in DOMAIN p.slots PROVE slots[j] \in Slot
    BY <1>1, PageType DEF Slot, TombstoneOffset
  <2> QED
    BY <2>1
<1>4. slots \in [1..Len(p.slots) -> Slot] /\ DOMAIN slots = DOMAIN p.slots
  <2>1. slots = [j \in 1..Len(p.slots) |-> slots[j]]
    BY <1>1
  <2> HIDE DEF slots
  <2> QED
    BY <1>1, <1>3, <2>1
<1> HIDE DEF slots
<1>5. slots \in Seq(Slot) /\ Len(slots) = Len(p.slots)
  BY <1>1, <1>4
<1>6. q = [slots |-> slots, data |-> p.data] /\ q.slots = slots /\ q.data = p.data
  BY <1>1, <1>2 DEF Page
<1>7. q \in Page
  BY <1>1, <1>5, <1>6 DEF Page
<1>8. Live(q) = Live(p) \ gone
  BY <1>3, <1>4, <1>6 DEF Live
<1>9. ASSUME NEW j \in Live(q)
      PROVE  RowIn(p, j) \in Rows /\ Holds(q, j, RowIn(p, j)) /\ RowIn(q, j) = RowIn(p, j)
  <2>1. j \in Live(p) /\ j \notin gone /\ j \in 1..Len(q.slots)
    BY <1>7, <1>8, LivePlaces
  <2>2. RowIn(p, j) \in Rows /\ Holds(p, j, RowIn(p, j))
    BY <2>1, RowReadable
  <2>3. q.slots[j] = p.slots[j]
    BY <1>3, <1>6, <2>1 DEF Live
  <2>4. Holds(q, j, RowIn(p, j))
    BY <1>6, <2>2, <2>3 DEF Holds
  <2> QED
    BY <1>7, <2>1, <2>2, <2>4, RowHeld
<1> QED
  BY <1>7, <1>8, <1>9 DEF Readable

\* A DELETE takes away the references of the rows it matches.
LEMMA DeleteTakes ==
  ASSUME TypeOK, NEW w \in Wheres, Delete(w)
  PROVE  /\ PagesReadable(pages')
         /\ Refs(pages') = Refs(pages) \ Matched(w)
         /\ \A x \in Refs(pages') : RowAt(pages', x) = RowAt(pages, x)
         /\ index' = UnindexRows(index, {RowAt(pages, x) : x \in Matched(w)})
<1> DEFINE gone(i) == {s \in Live(pages[i]) : <<i, s>> \in Matched(w)}
           qs == [i \in DOMAIN pages |-> DeleteSlots(pages[i], gone(i))]
<1>1. pages' = qs /\ index' = UnindexRows(index, {RowAt(pages, x) : x \in Matched(w)})
  BY DEF Delete, Commit
<1>2. PagesReadable(pages) /\ DOMAIN pages = 1..Len(pages) /\ Len(pages) \in Nat
  BY DEF TypeOK, PagesReadable
<1> HIDE DEF gone
<1>3. ASSUME NEW i \in DOMAIN pages
      PROVE  /\ qs[i] = DeleteSlots(pages[i], gone(i))
             /\ Readable(qs[i])
             /\ Live(qs[i]) = Live(pages[i]) \ gone(i)
             /\ \A s \in Live(qs[i]) : RowIn(qs[i], s) = RowIn(pages[i], s)
  <2>1. Readable(pages[i])
    BY <1>2 DEF PagesReadable
  <2>2. qs[i] = DeleteSlots(pages[i], gone(i))
    OBVIOUS
  <2> HIDE DEF qs
  <2> QED
    BY <2>1, <2>2, DeletedSlots
<1>4. DOMAIN qs = DOMAIN pages /\ qs = [i \in 1..Len(pages) |-> qs[i]]
  BY <1>2
<1> HIDE DEF qs
<1>5. qs \in Seq(Page)
  <2>1. \A i \in 1..Len(pages) : qs[i] \in Page
    BY <1>2, <1>3 DEF Readable
  <2> QED
    BY <1>2, <1>4, <2>1
<1>6. PagesReadable(qs)
  BY <1>3, <1>4, <1>5 DEF PagesReadable
<1>7. Refs(qs) = Refs(pages) \ Matched(w)
  <2>1. ASSUME NEW i, NEW s
        PROVE  <<i, s>> \in Refs(qs) <=> <<i, s>> \in Refs(pages) \ Matched(w)
    <3>1. <<i, s>> \in Refs(qs) <=> i \in DOMAIN pages /\ s \in Live(pages[i]) \ gone(i)
      BY <1>3, <1>4, RefsOf
    <3>2. i \in DOMAIN pages /\ s \in Live(pages[i]) => (s \in gone(i) <=> <<i, s>> \in Matched(w))
      BY DEF gone
    <3>3. <<i, s>> \in Refs(pages) <=> i \in DOMAIN pages /\ s \in Live(pages[i])
      BY RefsOf
    <3> QED
      BY <3>1, <3>2, <3>3
  <2>2. /\ \A x \in Refs(qs) : \E i, s : x = <<i, s>>
        /\ \A x \in Refs(pages) : \E i, s : x = <<i, s>>
    BY RefsOf
  <2> QED
    BY <2>1, <2>2
<1>8. ASSUME NEW x \in Refs(qs) PROVE RowAt(qs, x) = RowAt(pages, x)
  <2>1. PICK i \in DOMAIN pages : \E s \in Live(qs[i]) : x = <<i, s>>
    BY <1>4, RefsOf
  <2>2. PICK s \in Live(qs[i]) : x = <<i, s>>
    BY <2>1
  <2> QED
    BY <1>3, <2>2 DEF RowAt, RowIn
<1> QED
  BY <1>1, <1>6, <1>7, <1>8

LEMMA DeleteUnique ==
  ASSUME TypeOK, NoDuplicates(pages), NEW w \in Wheres, Delete(w)
  PROVE  NoDuplicates(pages')
BY DeleteTakes DEF NoDuplicates

LEMMA Unindexed ==
  ASSUME NEW ix \in IndexType, NEW rows
  PROVE  UnindexRows(ix, rows) \in IndexType
<1>1. NoRef \in Nat \X Nat
  BY DEF NoRef
<1>2. \A c \in IndexedColumns, v \in Values : ix[c][v] \in Nat \X Nat
  BY DEF IndexType
<1> QED
  BY <1>1, <1>2 DEF UnindexRows, IndexType

\* The index after a DELETE.
LEMMA DeleteIndexed ==
  ASSUME TypeOK, Backed(index, HeldRows(pages)), NEW w \in Wheres, Delete(w)
  PROVE  /\ Backed(index', HeldRows(pages'))
         /\ OneColumnKey /\ NoDuplicates(pages) /\ Agrees(index, pages)
              => Agrees(index', pages')
<1> DEFINE gone == {RowAt(pages, x) : x \in Matched(w)}
<1>1. /\ PagesReadable(pages')
      /\ Refs(pages') = Refs(pages) \ Matched(w)
      /\ \A x \in Refs(pages') : RowAt(pages', x) = RowAt(pages, x)
      /\ index' = UnindexRows(index, gone)
  BY DeleteTakes
<1>2. Matched(w) \subseteq Refs(pages)
  BY DEF Matched
<1>3. ASSUME NEW c \in IndexedColumns, NEW v \in Values
      PROVE  index'[c][v] = IF \E x \in Matched(w) : RowAt(pages, x)[c] = v
                            THEN NoRef ELSE index[c][v]
  <2>1. index'[c][v] = IF \E r \in gone : r[c] = v THEN NoRef ELSE index[c][v]
    <3> HIDE DEF gone
    <3> QED
      BY <1>1 DEF UnindexRows
  <2> QED
    BY <2>1
<1>4. ASSUME NEW c \in IndexedColumns, NEW v \in Values, index'[c][v] # NoRef
      PROVE  \E r \in HeldRows(pages') : r[c] = v
  <2>1. index[c][v] # NoRef /\ \A x \in Matched(w) : RowAt(pages, x)[c] # v
    BY <1>3, <1>4
  <2>2. PICK x \in Refs(pages) : RowAt(pages, x)[c] = v
    BY <2>1 DEF Backed, HeldRows
  <2>3. x \in Refs(pages') /\ RowAt(pages', x)[c] = v
    BY <1>1, <2>1, <2>2
  <2> QED
    BY <2>3 DEF HeldRows
<1>5. ASSUME OneColumnKey, NoDuplicates(pages), Agrees(index, pages),
             NEW c \in IndexedColumns, NEW v \in Values, NEW x \in Refs(pages')
      PROVE  x = index'[c][v] <=> RowAt(pages', x)[c] = v
  <2>1. x \in Refs(pages) /\ x \notin Matched(w) /\ RowAt(pages', x) = RowAt(pages, x)
    BY <1>1
  <2>2. CASE \E y \in Matched(w) : RowAt(pages, y)[c] = v
    <3>1. PICK y \in Matched(w) : RowAt(pages, y)[c] = v
      BY <2>2
    <3>2. x # NoRef
      BY <2>1, NoRefNowhere DEF TypeOK
    <3>3. RowAt(pages, x)[c] # v
      <4>1. SUFFICES ASSUME RowAt(pages, x)[c] = v PROVE FALSE
        OBVIOUS
      <4>2. v # Null
        BY TableStoreAssumption
      <4>3. SameKey(RowAt(pages, x), RowAt(pages, y))
        BY <1>5, <3>1, <4>1, <4>2, OneColumnSame
      <4> QED
        BY <1>2, <1>5, <2>1, <3>1, <4>3 DEF NoDuplicates
    <3> QED
      BY <1>3, <2>1, <2>2, <3>2, <3>3
  <2>3. CASE ~\E y \in Matched(w) : RowAt(pages, y)[c] = v
    BY <1>3, <1>5, <2>1, <2>3 DEF Agrees
  <2> QED
    BY <2>2, <2>3
<1> QED
  BY <1>4, <1>5 DEF Backed, Agrees
-----------------------------------------------------------------------------
(* The folds of UPDATE. *)

LEMMA PendingFold ==
  ASSUME NEW s \in Seq(Rows \X Rows), NEW U, NEW b \in U,
         \A x \in U, c \in Rows \X Rows : InsertPending(x, c) \in U
  PROVE  \E g : /\ g[0] = b
                /\ \A k \in 1..Len(s) : g[k] = InsertPending(g[k - 1], s[k])
                /\ FoldLeft(InsertPending, b, s) = g[Len(s)]
<1> DEFINE n == Len(s)
           F == [k \in 1..n |-> [x \in U |-> InsertPending(x, s[k])]]
           Code(f) == f = [t \in SUBSET (1..n) |->
                             IF t = {} THEN b ELSE InsertPending(f[t \ {Max(t)}], s[Max(t)])]
           it == CHOOSE f : Code(f)
<1>1. n \in Nat /\ DOMAIN s = 1..n /\ \A k \in 1..n : s[k] \in Rows \X Rows
  OBVIOUS
<1>2. F \in [1..n -> [U -> U]] /\ \A k \in 1..n, x \in U : F[k][x] = InsertPending(x, s[k])
  BY <1>1
<1>3. FoldLeft(InsertPending, b, s) = it[1..n]
  BY <1>1, Zenon DEF FoldLeft, MapThenFoldSet
<1> HIDE DEF n, F
<1>4. PICK f \in [SUBSET (1..n) -> U] : IsFold(F, n, b, f)
  BY <1>1, <1>2, FoldExists
<1>5. Code(f)
  <2>1. ASSUME NEW t \in SUBSET (1..n), t # {}
        PROVE  F[Max(t)][f[t \ {Max(t)}]] = InsertPending(f[t \ {Max(t)}], s[Max(t)])
    <3>1. Max(t) \in 1..n /\ t \ {Max(t)} \in SUBSET (1..n)
      BY <1>1, <2>1, MaxIn
    <3>2. f[t \ {Max(t)}] \in U
      BY <3>1
    <3> QED
      BY <1>2, <3>1, <3>2
  <2> QED
    BY <1>4, <2>1, Zenon DEF IsFold
<1>6. Code(it)
  <2> HIDE DEF Code
  <2> QED
    BY <1>5, Zenon
<1> HIDE DEF it
<1>7. \A t \in SUBSET (1..n) :
        it[t] = IF t = {} THEN b ELSE InsertPending(it[t \ {Max(t)}], s[Max(t)])
  BY <1>6, Zenon
<1> HIDE DEF Code
<1> DEFINE g == [k \in 0..n |-> it[1..k]]
<1>8. g[0] = b
  <2>1. 1..0 = {} /\ {} \in SUBSET (1..n) /\ 0 \in 0..n
    BY <1>1
  <2>2. it[{}] = b
    BY <1>7, <2>1, Zenon
  <2> QED
    BY <2>1, <2>2
<1>9. ASSUME NEW k \in 1..n PROVE g[k] = InsertPending(g[k - 1], s[k])
  <2>1. /\ 1..k \in SUBSET (1..n) /\ 1..k # {}
        /\ Max(1..k) = k /\ (1..k) \ {k} = 1..(k - 1)
    BY <1>1, FirstNumbers
  <2>2. it[1..k] = InsertPending(it[(1..k) \ {Max(1..k)}], s[Max(1..k)])
    BY <1>7, <2>1, Zenon
  <2>3. it[1..k] = InsertPending(it[1..(k - 1)], s[k])
    BY <2>1, <2>2, Zenon
  <2>4. k \in 0..n /\ k - 1 \in 0..n
    BY <1>1
  <2>5. g[k] = it[1..k] /\ g[k - 1] = it[1..(k - 1)]
    BY <2>4
  <2> QED
    BY <2>3, <2>5, Zenon
<1>10. FoldLeft(InsertPending, b, s) = g[n]
  <2>1. n \in 0..n
    BY <1>1
  <2> QED
    BY <1>3, <2>1, Zenon
<1> QED
  BY <1>8, <1>9, <1>10, Zenon DEF n

\* The state before the first slot of a page.
SlotStart(st, pid) == [page |-> st.pages[pid], index |-> st.index, pending |-> << >>]

LEMMA SlotFold ==
  ASSUME NEW st, NEW pid, NEW matched, NEW sets, NEW n \in Nat, n = Len(pages[pid].slots),
         NEW U, SlotStart(st, pid) \in U,
         \A x \in U, sid \in 1..n : UpdateMatched(x, pid, sid, matched, sets) \in U
  PROVE  \E g : /\ g[0] = SlotStart(st, pid)
                /\ \A k \in 1..n : g[k] = UpdateMatched(g[k - 1], pid, k, matched, sets)
                /\ UpdateSlots(st, pid, matched, sets) = g[n]
<1> DEFINE b == SlotStart(st, pid)
           s == Upto(n)
           F == [k \in 1..n |-> [x \in U |-> UpdateMatched(x, pid, k, matched, sets)]]
           Code(f) == f = [t \in SUBSET (1..n) |->
                             IF t = {} THEN b
                             ELSE UpdateMatched(f[t \ {Max(t)}], pid, s[Max(t)], matched, sets)]
           it == CHOOSE f : Code(f)
<1>1. DOMAIN s = 1..n /\ \A k \in 1..n : s[k] = k
  BY DEF Upto
<1>2. /\ F \in [1..n -> [U -> U]]
      /\ \A k \in 1..n, x \in U : F[k][x] = UpdateMatched(x, pid, k, matched, sets)
  BY <1>1
<1>3. UpdateSlots(st, pid, matched, sets) = it[1..n]
  <2>1. UpdateSlots(st, pid, matched, sets) =
          FoldLeft(LAMBDA p, sid : UpdateMatched(p, pid, sid, matched, sets), b, s)
    BY Zenon DEF UpdateSlots, SlotStart
  <2>2. FoldLeft(LAMBDA p, sid : UpdateMatched(p, pid, sid, matched, sets), b, s)
          = it[1..n]
    BY <1>1, ZenonT(60) DEF FoldLeft, MapThenFoldSet
  <2> QED
    BY <2>1, <2>2, Zenon
<1>0. b \in U
  OBVIOUS
<1> HIDE DEF F, b, s
<1>4. PICK f \in [SUBSET (1..n) -> U] : IsFold(F, n, b, f)
  BY <1>0, <1>1, <1>2, FoldExists
<1>5. Code(f)
  <2>1. ASSUME NEW t \in SUBSET (1..n), t # {}
        PROVE  F[Max(t)][f[t \ {Max(t)}]] =
                 UpdateMatched(f[t \ {Max(t)}], pid, s[Max(t)], matched, sets)
    <3>1. Max(t) \in 1..n /\ t \ {Max(t)} \in SUBSET (1..n)
      BY <1>1, <2>1, MaxIn
    <3>2. f[t \ {Max(t)}] \in U
      BY <3>1
    <3>3. s[Max(t)] = Max(t)
      BY <1>1, <3>1
    <3> QED
      BY <1>2, <3>1, <3>2, <3>3, ZenonT(60)
  <2> QED
    BY <1>4, <2>1, Zenon DEF IsFold
<1>6. Code(it)
  <2> HIDE DEF Code
  <2> QED
    BY <1>5, Zenon
<1> HIDE DEF it
<1>7. \A t \in SUBSET (1..n) :
        it[t] = IF t = {} THEN b ELSE UpdateMatched(it[t \ {Max(t)}], pid, s[Max(t)], matched, sets)
  BY <1>6, Zenon
<1> HIDE DEF Code
<1> DEFINE g == [k \in 0..n |-> it[1..k]]
<1>8. g[0] = b
  <2>1. 1..0 = {} /\ {} \in SUBSET (1..n) /\ 0 \in 0..n
    BY <1>1
  <2>2. it[{}] = b
    BY <1>7, <2>1, Zenon
  <2> QED
    BY <2>1, <2>2
<1>9. ASSUME NEW k \in 1..n PROVE g[k] = UpdateMatched(g[k - 1], pid, k, matched, sets)
  <2>1. /\ 1..k \in SUBSET (1..n) /\ 1..k # {}
        /\ Max(1..k) = k /\ (1..k) \ {k} = 1..(k - 1)
    BY <1>1, FirstNumbers
  <2>2. it[1..k] = UpdateMatched(it[(1..k) \ {Max(1..k)}], pid, s[Max(1..k)], matched, sets)
    BY <1>7, <2>1, Zenon
  <2>0. s[k] = k
    BY <1>1
  <2>3. it[1..k] = UpdateMatched(it[1..(k - 1)], pid, k, matched, sets)
    BY <2>0, <2>1, <2>2, Zenon
  <2>4. k \in 0..n /\ k - 1 \in 0..n
    BY <1>1
  <2>5. g[k] = it[1..k] /\ g[k - 1] = it[1..(k - 1)]
    BY <2>4
  <2> QED
    BY <2>3, <2>5, Zenon
<1>10. UpdateSlots(st, pid, matched, sets) = g[n]
  <2>1. n \in 0..n
    BY <1>1
  <2> QED
    BY <1>3, <2>1, Zenon
<1> QED
  BY <1>8, <1>9, <1>10, Zenon DEF b

LEMMA PageFold ==
  ASSUME NEW w, NEW sets, NEW n \in Nat, n = Len(pages), NEW U, Begun \in U,
         \A x \in U, pid \in 1..n : UpdatePage(x, pid, Matched(w), sets) \in U
  PROVE  \E g : /\ g[0] = Begun
                /\ \A k \in 1..n : g[k] = UpdatePage(g[k - 1], k, Matched(w), sets)
                /\ ApplyUpdate(sets, w) = g[n]
<1> DEFINE b == Begun
           s == Upto(n)
           F == [k \in 1..n |-> [x \in U |-> UpdatePage(x, k, Matched(w), sets)]]
           Code(f) == f = [t \in SUBSET (1..n) |->
                             IF t = {} THEN b
                             ELSE UpdatePage(f[t \ {Max(t)}], s[Max(t)], Matched(w), sets)]
           it == CHOOSE f : Code(f)
<1>1. DOMAIN s = 1..n /\ \A k \in 1..n : s[k] = k
  BY DEF Upto
<1>2. /\ F \in [1..n -> [U -> U]]
      /\ \A k \in 1..n, x \in U : F[k][x] = UpdatePage(x, k, Matched(w), sets)
  BY <1>1
<1>3. ApplyUpdate(sets, w) = it[1..n]
  <2>1. ApplyUpdate(sets, w) =
          FoldLeft(LAMBDA st, pid : UpdatePage(st, pid, Matched(w), sets), b, s)
    BY Zenon DEF ApplyUpdate
  <2>2. FoldLeft(LAMBDA st, pid : UpdatePage(st, pid, Matched(w), sets), b, s)
          = it[1..n]
    BY <1>1, ZenonT(60) DEF FoldLeft, MapThenFoldSet
  <2> QED
    BY <2>1, <2>2, Zenon
<1>0. b \in U
  OBVIOUS
<1> HIDE DEF F, b, s
<1>4. PICK f \in [SUBSET (1..n) -> U] : IsFold(F, n, b, f)
  BY <1>0, <1>1, <1>2, FoldExists
<1>5. Code(f)
  <2>1. ASSUME NEW t \in SUBSET (1..n), t # {}
        PROVE  F[Max(t)][f[t \ {Max(t)}]] = UpdatePage(f[t \ {Max(t)}], s[Max(t)], Matched(w), sets)
    <3>1. Max(t) \in 1..n /\ t \ {Max(t)} \in SUBSET (1..n)
      BY <1>1, <2>1, MaxIn
    <3>2. f[t \ {Max(t)}] \in U
      BY <3>1
    <3>3. s[Max(t)] = Max(t)
      BY <1>1, <3>1
    <3> QED
      BY <1>2, <3>1, <3>2, <3>3, ZenonT(60)
  <2> QED
    BY <1>4, <2>1, Zenon DEF IsFold
<1>6. Code(it)
  <2> HIDE DEF Code
  <2> QED
    BY <1>5, Zenon
<1> HIDE DEF it
<1>7. \A t \in SUBSET (1..n) :
        it[t] = IF t = {} THEN b ELSE UpdatePage(it[t \ {Max(t)}], s[Max(t)], Matched(w), sets)
  BY <1>6, Zenon
<1> HIDE DEF Code
<1> DEFINE g == [k \in 0..n |-> it[1..k]]
<1>8. g[0] = b
  <2>1. 1..0 = {} /\ {} \in SUBSET (1..n) /\ 0 \in 0..n
    BY <1>1
  <2>2. it[{}] = b
    BY <1>7, <2>1, Zenon
  <2> QED
    BY <2>1, <2>2
<1>9. ASSUME NEW k \in 1..n PROVE g[k] = UpdatePage(g[k - 1], k, Matched(w), sets)
  <2>1. /\ 1..k \in SUBSET (1..n) /\ 1..k # {}
        /\ Max(1..k) = k /\ (1..k) \ {k} = 1..(k - 1)
    BY <1>1, FirstNumbers
  <2>2. it[1..k] = UpdatePage(it[(1..k) \ {Max(1..k)}], s[Max(1..k)], Matched(w), sets)
    BY <1>7, <2>1, Zenon
  <2>0. s[k] = k
    BY <1>1
  <2>3. it[1..k] = UpdatePage(it[1..(k - 1)], k, Matched(w), sets)
    BY <2>0, <2>1, <2>2, Zenon
  <2>4. k \in 0..n /\ k - 1 \in 0..n
    BY <1>1
  <2>5. g[k] = it[1..k] /\ g[k - 1] = it[1..(k - 1)]
    BY <2>4
  <2> QED
    BY <2>3, <2>5, Zenon
<1>10. ApplyUpdate(sets, w) = g[n]
  <2>1. n \in 0..n
    BY <1>1
  <2> QED
    BY <1>3, <2>1, Zenon
<1> QED
  BY <1>8, <1>9, <1>10, Zenon DEF b
-----------------------------------------------------------------------------
(* The steps of UPDATE. *)

\* The states while the slots of a page are visited.
SlotStates ==
  {st \in [page : Page, index : IndexType, pending : Seq(Rows \X Rows)] : Readable(st.page)}

\* A page q that is p but for the row of slot sid, which is now row r in slot s
\* or has gone.
Replaced(p, q, sid, s, r) ==
  /\ s \notin Live(p) \ {sid}
  /\ Live(q) = (Live(p) \ {sid}) \cup {s}
  /\ RowIn(q, s) = r
  /\ \A j \in Live(p) \ {sid} : RowIn(q, j) = RowIn(p, j)

Removed(p, q, sid) ==
  /\ Live(q) = Live(p) \ {sid}
  /\ \A j \in Live(q) : RowIn(q, j) = RowIn(p, j)

\* The row at a reference is in a slot of its page again, or in the queue.
SlotOutcome(st, after, pid, sid, old, new) ==
  \/ \E s \in Nat : /\ Replaced(st.page, after.page, sid, s, new)
                    /\ after.pending = st.pending
                    /\ after.index = UpdateIndexForRow(st.index, old, new, <<pid, s>>)
  \/ /\ Removed(st.page, after.page, sid)
     /\ after.pending = Append(st.pending, <<old, new>>)
     /\ after.index = st.index

\* One row of a page is put back, into its own slot or another, or queued.
LEMMA UpdateSlotDoes ==
  ASSUME PagesReadable(pages), NEW st \in SlotStates, NEW pid, NEW sid,
         <<pid, sid>> \in Refs(pages), NEW sets \in Assignments,
         NEW old, old = RowAt(pages, <<pid, sid>>), NEW new, new = Assign(old, sets),
         NEW after, after = UpdateSlot(st, pid, sid, sets)
  PROVE  /\ old \in Rows /\ new \in Rows
         /\ after \in SlotStates
         /\ SlotOutcome(st, after, pid, sid, old, new)
<1>1. pid \in Nat /\ sid \in Nat /\ old \in Rows
  BY RefsType
<1>2. new \in Rows
  BY <1>1, TableStoreAssumption
<1>3. /\ Readable(st.page) /\ st.page \in Page /\ st.index \in IndexType
      /\ st.pending \in Seq(Rows \X Rows)
      /\ st = [page |-> st.page, index |-> st.index, pending |-> st.pending]
  BY DEF SlotStates
<1>4. CASE CanUpdate(st.page, sid, new)
  <2> DEFINE q  == PageUpdate(st.page, sid, new)
             ix == UpdateIndexForRow(st.index, old, new, <<pid, sid>>)
  <2>1. after = [st EXCEPT !.page = q, !.index = ix]
    BY <1>4 DEF UpdateSlot
  <2>2. ix \in IndexType
    BY <1>1, <1>3, UpdateIndexTyped
  <2>3. sid \in Live(st.page) /\ sid \in 1..(Len(st.page.slots) + 1)
    BY <1>3, <1>4, LivePlaces, PageType DEF CanUpdate
  <2>4. /\ Readable(q) /\ Live(q) = Live(st.page) \cup {sid} /\ RowIn(q, sid) = new
        /\ \A j \in Live(st.page) : j # sid => RowIn(q, j) = RowIn(st.page, j)
    <3>1. q = AppendIntoData(st.page, sid, new)
      BY DEF PageUpdate
    <3> HIDE DEF q
    <3>2. Readable(q) /\ Live(q) = Live(st.page) \cup {sid}
      BY <1>2, <1>3, <2>3, <3>1, PlacedPage
    <3>3. RowIn(q, sid) = new
      BY <1>2, <1>3, <2>3, <3>1, PlacedPage
    <3>4. \A j \in Live(st.page) : j # sid => RowIn(q, j) = RowIn(st.page, j)
      BY <1>2, <1>3, <2>3, <3>1, PlacedPage
    <3> QED
      BY <3>2, <3>3, <3>4
  <2> HIDE DEF q, ix
  <2>5. after = [page |-> q, index |-> ix, pending |-> st.pending]
    BY <1>3, <2>1
  <2>6. after \in SlotStates
    BY <1>3, <2>2, <2>4, <2>5 DEF SlotStates, Readable
  <2>7. after.page = q /\ after.pending = st.pending /\ after.index = ix
    BY <2>5
  <2>8. Live(q) = (Live(st.page) \ {sid}) \cup {sid}
    BY <2>3, <2>4
  <2> QED
    BY <1>1, <1>2, <2>4, <2>6, <2>7, <2>8 DEF Replaced, SlotOutcome, ix
<1>5. CASE ~CanUpdate(st.page, sid, new)
  <2> DEFINE freed == PageDelete(st.page, sid)
             s  == InsertSlot(freed, new)
             q  == PageInsert(freed, new)
             ix == UpdateIndexForRow(st.index, old, new, <<pid, s>>)
  <2>1. /\ Readable(freed)
        /\ Live(freed) = Live(st.page) \ {sid}
        /\ \A j \in Live(freed) : RowIn(freed, j) = RowIn(st.page, j)
    BY <1>3, FreedPage
  <2> HIDE DEF freed
  <2>2. freed \in Page /\ Len(freed.slots) \in Nat
    BY <2>1, PageType DEF Readable
  <2>3. CASE CanInsert(freed, new)
    <3>1. after = [st EXCEPT !.page = q, !.index = ix]
      BY <1>5, <2>3 DEF UpdateSlot, freed
    <3>2. s \in 1..(Len(freed.slots) + 1) /\ s \notin Live(freed)
      BY <1>2, <2>2, FreeSlot
    <3>3. q = AppendIntoData(freed, s, new)
      BY DEF PageInsert
    <3> HIDE DEF s, q
    <3>4. s \in Nat
      BY <2>2, <3>2
    <3>5. ix \in IndexType
      BY <1>1, <1>3, <3>4, UpdateIndexTyped
    <3>6. /\ Readable(q) /\ Live(q) = Live(freed) \cup {s} /\ RowIn(q, s) = new
          /\ \A j \in Live(freed) : j # s => RowIn(q, j) = RowIn(freed, j)
      BY <1>2, <2>1, <3>2, <3>3, PlacedPage
    <3> HIDE DEF ix
    <3>7. after = [page |-> q, index |-> ix, pending |-> st.pending]
      BY <1>3, <3>1
    <3>8. after \in SlotStates
      <4>1. q \in Page /\ Readable(q)
        BY <3>6 DEF Readable
      <4> QED
        BY <1>3, <3>5, <3>7, <4>1 DEF SlotStates
    <3>9. after.page = q /\ after.pending = st.pending /\ after.index = ix
      BY <3>7
    <3>10. \A j \in Live(st.page) \ {sid} : RowIn(q, j) = RowIn(st.page, j)
      BY <2>1, <3>2, <3>6
    <3> QED
      BY <1>1, <1>2, <2>1, <3>2, <3>4, <3>6, <3>8, <3>9, <3>10 DEF Replaced, SlotOutcome, ix
  <2>4. CASE ~CanInsert(freed, new)
    <3>1. after = [st EXCEPT !.page = freed, !.pending = Append(st.pending, <<old, new>>)]
      BY <1>5, <2>4 DEF UpdateSlot, freed
    <3>2. after = [page |-> freed, index |-> st.index,
                   pending |-> Append(st.pending, <<old, new>>)]
      BY <1>3, <3>1
    <3>3. Append(st.pending, <<old, new>>) \in Seq(Rows \X Rows)
      BY <1>1, <1>2, <1>3
    <3>4. after \in SlotStates
      BY <1>3, <2>1, <2>2, <3>2, <3>3 DEF SlotStates
    <3> QED
      BY <1>1, <1>2, <2>1, <3>2, <3>4 DEF Removed, SlotOutcome
  <2> QED
    BY <2>3, <2>4
<1> QED
  BY <1>4, <1>5

\* A queued change has its row in the chain, and the index knows where.
PutBack(st, after, change, ref) ==
  /\ ref \in Nat \X Nat
  /\ Added(st.pages, after.pages, ref, change[2])
  /\ after.index = UpdateIndexForRow(st.index, change[1], change[2], ref)

LEMMA InsertPendingDoes ==
  ASSUME NEW st \in InsertStates, NEW change \in Rows \X Rows,
         NEW after, after = InsertPending(st, change)
  PROVE  /\ after \in InsertStates
         /\ Len(after.pages) >= Len(st.pages)
         /\ \E ref : PutBack(st, after, change, ref)
<1>1. change[1] \in Rows /\ change[2] \in Rows
  OBVIOUS
<1>2. /\ PagesReadable(st.pages) /\ st.index \in IndexType /\ st.raised \in BOOLEAN
      /\ st = [pages |-> st.pages, index |-> st.index, raised |-> st.raised]
  BY DEF InsertStates
<1> DEFINE placed == InsertRowIntoChain(st.pages, change[2])
           ix == UpdateIndexForRow(st.index, change[1], change[2], placed.ref)
<1>3. after = [st EXCEPT !.pages = placed.pages, !.index = ix]
  BY DEF InsertPending
<1>4. /\ PagesReadable(placed.pages)
      /\ Len(placed.pages) >= Len(st.pages)
      /\ placed.ref \in Nat \X Nat
      /\ Added(st.pages, placed.pages, placed.ref, change[2])
  BY <1>1, <1>2, ChainInsert
<1> HIDE DEF placed
<1>5. ix \in IndexType
  BY <1>2, <1>4, UpdateIndexTyped
<1> HIDE DEF ix
<1>6. after = [pages |-> placed.pages, index |-> ix, raised |-> st.raised]
  BY <1>2, <1>3
<1>7. after \in InsertStates
  BY <1>2, <1>4, <1>5, <1>6 DEF InsertStates, PagesReadable
<1>8. after.pages = placed.pages /\ after.index = ix
  BY <1>6
<1> QED
  BY <1>4, <1>7, <1>8 DEF ix, PutBack
-----------------------------------------------------------------------------
(* Where the rows of the table are during an UPDATE. *)

\* The entries of a page's queue that have not been inserted yet.
Queued(queue, next) == {0} \X (next..Len(queue))

\* Each place with the row it has: a slot reference or, as <<0, k>>, an entry
\* of the queue.
Content(ps, queue, next) ==
  [x \in Refs(ps) \cup Queued(queue, next) |->
     IF x[1] = 0 THEN queue[x[2]][2] ELSE RowAt(ps, x)]

\* m is where each row of the table has gone; the rows at the references done
\* have been updated and the others are where they were.
Track(m, c, done, sets) ==
  /\ m \in Bijection(Refs(pages), DOMAIN c)
  /\ \A x \in done : c[m[x]] = Assign(RowAt(pages, x), sets)
  /\ \A x \in Refs(pages) \ done : m[x] = x /\ c[x] = RowAt(pages, x)

Tracked(c, done, sets) == \E m : Track(m, c, done, sets)

\* What was at place x is now at place z; nothing else has moved.
Shifted(c, d, x, z) ==
  /\ z \notin DOMAIN c \ {x}
  /\ DOMAIN d = (DOMAIN c \ {x}) \cup {z}
  /\ \A y \in DOMAIN c \ {x} : d[y] = c[y]

LEMMA BijectionFacts ==
  ASSUME NEW S, NEW T, NEW m
  PROVE  m \in Bijection(S, T) <=>
           /\ m \in [S -> T]
           /\ \A a, b \in S : m[a] = m[b] => a = b
           /\ \A t \in T : \E s \in S : m[s] = t
<1>1. m \in [S -> T] => DOMAIN m = S
  OBVIOUS
<1> QED
  BY <1>1 DEF Bijection, Injection, Surjection, IsInjective

LEMMA ReplaceOne ==
  ASSUME NEW D, NEW A, NEW m \in Bijection(D, A), NEW x \in D, NEW z,
         z \notin A \ {m[x]}, NEW B, B = (A \ {m[x]}) \cup {z},
         NEW n, n = [m EXCEPT ![x] = z]
  PROVE  n \in Bijection(D, B)
<1>1. /\ m \in [D -> A]
      /\ \A a, b \in D : m[a] = m[b] => a = b
      /\ \A t \in A : \E s \in D : m[s] = t
  BY BijectionFacts
<1>2. n[x] = z /\ \A a \in D : a # x => n[a] = m[a]
  BY <1>1
<1>3. n \in [D -> B]
  <2>1. \A a \in D : n[a] \in B
    BY <1>1, <1>2
  <2>2. n = [a \in D |-> n[a]]
    BY <1>1
  <2> QED
    BY <2>1, <2>2
<1>4. \A a, b \in D : n[a] = n[b] => a = b
  BY <1>1, <1>2
<1>5. \A t \in B : \E s \in D : n[s] = t
  BY <1>1, <1>2
<1> QED
  BY <1>3, <1>4, <1>5, BijectionFacts

LEMMA TrackUpdated ==
  ASSUME NEW c, NEW done, NEW sets, Tracked(c, done, sets), done \subseteq Refs(pages),
         NEW x \in Refs(pages) \ done, NEW z, NEW d, Shifted(c, d, x, z),
         d[z] = Assign(RowAt(pages, x), sets)
  PROVE  x \in DOMAIN c /\ Tracked(d, done \cup {x}, sets)
<1>0. /\ z \notin DOMAIN c \ {x}
      /\ DOMAIN d = (DOMAIN c \ {x}) \cup {z}
      /\ \A y \in DOMAIN c \ {x} : d[y] = c[y]
  BY DEF Shifted
<1>1. PICK m : Track(m, c, done, sets)
  BY DEF Tracked
<1>2. /\ m \in Bijection(Refs(pages), DOMAIN c)
      /\ \A y \in done : c[m[y]] = Assign(RowAt(pages, y), sets)
      /\ \A y \in Refs(pages) \ done : m[y] = y /\ c[y] = RowAt(pages, y)
  BY <1>1 DEF Track
<1>3. /\ m \in [Refs(pages) -> DOMAIN c]
      /\ \A a, b \in Refs(pages) : m[a] = m[b] => a = b
  BY <1>2, BijectionFacts
<1> DEFINE n == [m EXCEPT ![x] = z]
<1>4. n[x] = z /\ \A y \in Refs(pages) : y # x => n[y] = m[y] /\ m[y] # x
  BY <1>2, <1>3
<1>5. n \in Bijection(Refs(pages), DOMAIN d)
  BY <1>0, <1>2, ReplaceOne
<1> HIDE DEF n
<1>6. \A y \in done \cup {x} : d[n[y]] = Assign(RowAt(pages, y), sets)
  BY <1>0, <1>2, <1>3, <1>4
<1>7. \A y \in Refs(pages) \ (done \cup {x}) : n[y] = y /\ d[y] = RowAt(pages, y)
  BY <1>0, <1>2, <1>3, <1>4
<1>8. Track(n, d, done \cup {x}, sets)
  BY <1>5, <1>6, <1>7 DEF Track
<1> QED
  BY <1>2, <1>3, <1>8 DEF Tracked

LEMMA TrackMoved ==
  ASSUME NEW c, NEW done, NEW sets, Tracked(c, done, sets), done \subseteq Refs(pages),
         NEW from \in DOMAIN c, from \notin Refs(pages), NEW z,
         NEW d, Shifted(c, d, from, z), d[z] = c[from]
  PROVE  Tracked(d, done, sets)
<1>0. /\ z \notin DOMAIN c \ {from}
      /\ DOMAIN d = (DOMAIN c \ {from}) \cup {z}
      /\ \A y \in DOMAIN c \ {from} : d[y] = c[y]
  BY DEF Shifted
<1>1. PICK m : Track(m, c, done, sets)
  BY DEF Tracked
<1>2. /\ m \in Bijection(Refs(pages), DOMAIN c)
      /\ \A y \in done : c[m[y]] = Assign(RowAt(pages, y), sets)
      /\ \A y \in Refs(pages) \ done : m[y] = y /\ c[y] = RowAt(pages, y)
  BY <1>1 DEF Track
<1>3. /\ m \in [Refs(pages) -> DOMAIN c]
      /\ \A a, b \in Refs(pages) : m[a] = m[b] => a = b
      /\ \A t \in DOMAIN c : \E s \in Refs(pages) : m[s] = t
  BY <1>2, BijectionFacts
<1>4. PICK x \in Refs(pages) : m[x] = from
  BY <1>3
<1>5. x \in done
  BY <1>2, <1>4
<1> DEFINE n == [m EXCEPT ![x] = z]
<1>6. n[x] = z /\ \A y \in Refs(pages) : y # x => n[y] = m[y] /\ m[y] # from
  BY <1>3, <1>4
<1>7. n \in Bijection(Refs(pages), DOMAIN d)
  BY <1>0, <1>2, <1>4, ReplaceOne
<1> HIDE DEF n
<1>8. \A y \in done : d[n[y]] = Assign(RowAt(pages, y), sets)
  BY <1>0, <1>2, <1>3, <1>4, <1>6
<1>9. \A y \in Refs(pages) \ done : n[y] = y /\ d[y] = RowAt(pages, y)
  BY <1>0, <1>2, <1>3, <1>5, <1>6
<1>10. Track(n, d, done, sets)
  BY <1>7, <1>8, <1>9 DEF Track
<1> QED
  BY <1>10 DEF Tracked

LEMMA ContentFacts ==
  ASSUME NEW ps, PagesReadable(ps), NEW queue, NEW next
  PROVE  /\ DOMAIN Content(ps, queue, next) = Refs(ps) \cup Queued(queue, next)
         /\ \A x \in Refs(ps) :
              Content(ps, queue, next)[x] = RowAt(ps, x) /\ x \notin Queued(queue, next)
         /\ \A k \in next..Len(queue) :
              <<0, k>> \in DOMAIN Content(ps, queue, next) /\ <<0, k>> \notin Refs(ps)
              /\ Content(ps, queue, next)[<<0, k>>] = queue[k][2]
         /\ \A x \in Queued(queue, next) :
              \E k \in next..Len(queue) : x = <<0, k>>
<1> DEFINE c == Content(ps, queue, next)
<1>1. \A x \in Refs(ps) : x[1] # 0 /\ x = <<x[1], x[2]>>
  <2>1. \A x \in Refs(ps) : x[1] \in 1..Len(ps) /\ x = <<x[1], x[2]>>
    BY RefsType
  <2> QED
    BY <2>1
<1>2. \A x : x \in Queued(queue, next) <=>
               \E k \in next..Len(queue) : x = <<0, k>>
  BY DEF Queued
<1>3. /\ DOMAIN c = Refs(ps) \cup Queued(queue, next)
      /\ \A x \in DOMAIN c : c[x] = IF x[1] = 0 THEN queue[x[2]][2] ELSE RowAt(ps, x)
  BY DEF Content
<1> HIDE DEF c
<1>4. /\ DOMAIN c = Refs(ps) \cup Queued(queue, next)
      /\ \A x \in Refs(ps) : c[x] = RowAt(ps, x) /\ x \notin Queued(queue, next)
      /\ \A k \in next..Len(queue) :
           <<0, k>> \in DOMAIN c /\ <<0, k>> \notin Refs(ps) /\ c[<<0, k>>] = queue[k][2]
  BY <1>1, <1>2, <1>3
<1> QED
  BY <1>2, <1>4 DEF c

\* Page pid is p in ps and q in qs, and only what slot sid had is elsewhere.
OnlySlot(ps, qs, p, q, pid, sid) ==
  /\ PagesReadable(ps) /\ PagesReadable(qs)
  /\ \A s : s \in Live(p) <=> <<pid, s>> \in Refs(ps)
  /\ \A s : s \in Live(q) <=> <<pid, s>> \in Refs(qs)
  /\ \A s : RowAt(ps, <<pid, s>>) = RowIn(p, s)
  /\ \A s : RowAt(qs, <<pid, s>>) = RowIn(q, s)
  /\ \A i, s : i # pid => (<<i, s>> \in Refs(qs) <=> <<i, s>> \in Refs(ps))
  /\ \A y \in Refs(ps) \ {<<pid, sid>>} : y \in Refs(qs) /\ RowAt(qs, y) = RowAt(ps, y)

LEMMA SlotChanged ==
  ASSUME NEW base, PagesReadable(base), NEW pid \in DOMAIN base,
         NEW p, Readable(p), NEW q, Readable(q), NEW sid,
         \A s \in Live(p) \ {sid} : s \in Live(q) /\ RowIn(q, s) = RowIn(p, s),
         NEW ps, ps = PutAt(base, pid, p), NEW qs, qs = PutAt(base, pid, q)
  PROVE  OnlySlot(ps, qs, p, q, pid, sid)
<1>1. pid \in 1..(Len(base) + 1)
  BY DEF PagesReadable
<1>2. /\ PagesReadable(ps) /\ PagesReadable(qs)
      /\ \A s : s \in Live(p) <=> <<pid, s>> \in Refs(ps)
      /\ \A s : s \in Live(q) <=> <<pid, s>> \in Refs(qs)
      /\ \A s : RowAt(ps, <<pid, s>>) = RowIn(p, s)
      /\ \A s : RowAt(qs, <<pid, s>>) = RowIn(q, s)
  BY <1>1, PutPage
<1>3. \A i, s : i # pid => (<<i, s>> \in Refs(qs) <=> <<i, s>> \in Refs(ps))
  <2>1. \A i, s : i # pid => (<<i, s>> \in Refs(qs) <=> <<i, s>> \in Refs(base))
    BY <1>1, PutPage
  <2>2. \A i, s : i # pid => (<<i, s>> \in Refs(ps) <=> <<i, s>> \in Refs(base))
    BY <1>1, PutPage
  <2> QED
    BY <2>1, <2>2
<1>4. \A i, s : i # pid /\ <<i, s>> \in Refs(ps) => RowAt(qs, <<i, s>>) = RowAt(ps, <<i, s>>)
  BY RefsOf DEF RowAt, PutAt
<1>5. ASSUME NEW y \in Refs(ps) \ {<<pid, sid>>}
      PROVE  y \in Refs(qs) /\ RowAt(qs, y) = RowAt(ps, y)
  <2>1. PICK i, s : y = <<i, s>>
    BY RefsOf
  <2>2. CASE i = pid
    <3>1. s \in Live(p) \ {sid}
      BY <1>2, <2>1, <2>2
    <3>2. s \in Live(q) /\ RowIn(q, s) = RowIn(p, s)
      BY <3>1
    <3> QED
      BY <1>2, <2>1, <2>2, <3>2
  <2>3. CASE i # pid
    BY <1>3, <1>4, <2>1, <2>3
  <2> QED
    BY <2>2, <2>3
<1> QED
  BY <1>2, <1>3, <1>5 DEF OnlySlot

\* A page being visited, in the chain.
LEMMA TrackSlot ==
  ASSUME PagesReadable(pages), NEW base, PagesReadable(base),
         NEW pid \in DOMAIN base, NEW st \in SlotStates, NEW sid, NEW done,
         NEW sets \in Assignments,
         <<pid, sid>> \in Refs(pages) \ done, done \subseteq Refs(pages),
         Tracked(Content(PutAt(base, pid, st.page), st.pending, 1), done, sets),
         NEW after, after = UpdateSlot(st, pid, sid, sets)
  PROVE  Tracked(Content(PutAt(base, pid, after.page), after.pending, 1),
                 done \cup {<<pid, sid>>}, sets)
<1> DEFINE x   == <<pid, sid>>
           old == RowAt(pages, x)
           new == Assign(old, sets)
           ps  == PutAt(base, pid, st.page)
           qs  == PutAt(base, pid, after.page)
           c   == Content(ps, st.pending, 1)
           d   == Content(qs, after.pending, 1)
<1>1. /\ old \in Rows /\ new \in Rows
      /\ after \in SlotStates
      /\ SlotOutcome(st, after, pid, sid, old, new)
  BY UpdateSlotDoes
<1>2. pid \in 1..(Len(base) + 1) /\ pid # 0 /\ Readable(st.page) /\ Readable(after.page)
  <2>1. DOMAIN base = 1..Len(base) /\ Len(base) \in Nat
    BY DEF PagesReadable
  <2> QED
    BY <1>1, <2>1 DEF SlotStates
<1>3. /\ PagesReadable(ps) /\ PagesReadable(qs)
      /\ \A s : s \in Live(st.page) <=> <<pid, s>> \in Refs(ps)
      /\ \A s : s \in Live(after.page) <=> <<pid, s>> \in Refs(qs)
      /\ \A s : RowAt(qs, <<pid, s>>) = RowIn(after.page, s)
      /\ \A i, s : i # pid => (<<i, s>> \in Refs(qs) <=> <<i, s>> \in Refs(ps))
      /\ \A y \in Refs(ps) \ {x} : y \in Refs(qs) /\ RowAt(qs, y) = RowAt(ps, y)
  <2>1. \A s \in Live(st.page) \ {sid} :
          s \in Live(after.page) /\ RowIn(after.page, s) = RowIn(st.page, s)
    BY <1>1 DEF SlotOutcome, Replaced, Removed
  <2>2. OnlySlot(ps, qs, st.page, after.page, pid, sid)
    BY <1>2, <2>1, SlotChanged
  <2> QED
    BY <2>2 DEF OnlySlot
<1> HIDE DEF ps, qs, c, d
<1>4. /\ \A y \in Refs(ps) : \E i, s : y = <<i, s>>
      /\ \A y \in Refs(qs) : \E i, s : y = <<i, s>>
  BY RefsOf
<1>5. Tracked(c, done, sets)
  BY DEF c, ps
<1>6. /\ DOMAIN c = Refs(ps) \cup Queued(st.pending, 1)
      /\ \A y \in Refs(ps) : c[y] = RowAt(ps, y) /\ y \notin Queued(st.pending, 1)
      /\ \A k \in 1..Len(st.pending) :
           <<0, k>> \in DOMAIN c /\ <<0, k>> \notin Refs(ps) /\ c[<<0, k>>] = st.pending[k][2]
      /\ \A y \in Queued(st.pending, 1) : \E k \in 1..Len(st.pending) : y = <<0, k>>
  <2> QED
    BY <1>3, ContentFacts DEF c
<1>7. /\ DOMAIN d = Refs(qs) \cup Queued(after.pending, 1)
      /\ \A y \in Refs(qs) : d[y] = RowAt(qs, y) /\ y \notin Queued(after.pending, 1)
      /\ \A k \in 1..Len(after.pending) :
           <<0, k>> \in DOMAIN d /\ <<0, k>> \notin Refs(qs) /\ d[<<0, k>>] = after.pending[k][2]
      /\ \A y \in Queued(after.pending, 1) : \E k \in 1..Len(after.pending) : y = <<0, k>>
  <2> QED
    BY <1>3, ContentFacts DEF d
<1>8. x \in Refs(pages) \ done /\ x \notin Queued(st.pending, 1)
  BY <1>2, <1>6
<1>9. CASE \E s \in Nat : /\ Replaced(st.page, after.page, sid, s, new)
                          /\ after.pending = st.pending
  <2>1. PICK s \in Nat : /\ s \notin Live(st.page) \ {sid}
                         /\ Live(after.page) = (Live(st.page) \ {sid}) \cup {s}
                         /\ RowIn(after.page, s) = new
                         /\ \A j \in Live(st.page) \ {sid} :
                              RowIn(after.page, j) = RowIn(st.page, j)
                         /\ after.pending = st.pending
    BY <1>9 DEF Replaced
  <2> DEFINE z == <<pid, s>>
  <2>2. z \in Refs(qs) /\ RowAt(qs, z) = new
    BY <1>3, <2>1
  <2>3. z \notin DOMAIN c \ {x}
    BY <1>2, <1>3, <1>6, <2>1
  <2>4. Refs(qs) \subseteq (Refs(ps) \ {x}) \cup {z}
    <3> SUFFICES ASSUME NEW y \in Refs(qs), y # z PROVE y \in Refs(ps) \ {x}
      OBVIOUS
    <3>1. PICK i, t : y = <<i, t>>
      BY <1>4
    <3>2. CASE i = pid
      BY <1>3, <2>1, <3>1, <3>2
    <3>3. CASE i # pid
      BY <1>3, <3>1, <3>3
    <3> QED
      BY <3>2, <3>3
  <2> HIDE DEF x, z
  <2>5. DOMAIN d = (DOMAIN c \ {x}) \cup {z}
    BY <1>3, <1>6, <1>7, <1>8, <2>1, <2>2, <2>4
  <2>6. d[z] = new
    BY <1>7, <2>2
  <2>7. \A y \in DOMAIN c \ {x} : d[y] = c[y]
    BY <1>3, <1>6, <1>7, <2>1
  <2>8. Tracked(d, done \cup {x}, sets)
    <3>1. Shifted(c, d, x, z)
      BY <2>3, <2>5, <2>7 DEF Shifted
    <3> QED
      BY <1>5, <1>8, <2>6, <3>1, TrackUpdated
  <2> QED
    BY <2>8 DEF d, qs, x
<1>10. CASE /\ Removed(st.page, after.page, sid)
            /\ after.pending = Append(st.pending, <<old, new>>)
  <2> DEFINE n == Len(st.pending)
             z == <<0, n + 1>>
  <2>1. /\ n \in Nat /\ Len(after.pending) = n + 1
        /\ after.pending[n + 1] = <<old, new>>
        /\ \A k \in 1..n : after.pending[k] = st.pending[k]
    <3>1. st.pending \in Seq(Rows \X Rows) /\ <<old, new>> \in Rows \X Rows
      BY <1>1 DEF SlotStates
    <3> QED
      BY <1>10, <3>1
  <2>2. 1..(n + 1) = (1..n) \cup {n + 1} /\ n + 1 \notin 1..n
    BY <2>1
  <2>3. z \in DOMAIN d /\ d[z] = new
    BY <1>7, <2>1, <2>2
  <2>4. z \notin DOMAIN c \ {x}
    <3>1. z \notin Refs(ps)
      <4>1. \A y \in Refs(ps) : y[1] \in 1..Len(ps)
        BY <1>3, RefsType
      <4> QED
        BY <4>1
    <3> QED
      BY <1>6, <2>2, <3>1
  <2>5. Refs(qs) \subseteq Refs(ps) \ {x}
    <3> SUFFICES ASSUME NEW y \in Refs(qs) PROVE y \in Refs(ps) \ {x}
      OBVIOUS
    <3>1. PICK i, t : y = <<i, t>>
      BY <1>4
    <3>2. CASE i = pid
      BY <1>3, <1>10, <3>1, <3>2 DEF Removed
    <3>3. CASE i # pid
      BY <1>3, <3>1, <3>3
    <3> QED
      BY <3>2, <3>3
  <2>6. ASSUME NEW y \in DOMAIN c \ {x} PROVE y \in DOMAIN d /\ d[y] = c[y]
    <3>1. CASE y \in Refs(ps)
      BY <1>3, <1>6, <1>7, <2>6, <3>1
    <3>2. CASE y \in Queued(st.pending, 1)
      <4>1. PICK k \in 1..n : y = <<0, k>>
        BY <1>6, <3>2
      <4> QED
        BY <1>6, <1>7, <2>1, <2>2, <4>1
    <3> QED
      BY <1>6, <2>6, <3>1, <3>2
  <2>7. DOMAIN d \subseteq (DOMAIN c \ {x}) \cup {z}
    <3>1. ASSUME NEW y \in Queued(after.pending, 1), y # z PROVE y \in DOMAIN c \ {x}
      <4>1. PICK k \in 1..Len(after.pending) : y = <<0, k>>
        BY <1>7
      <4> QED
        BY <1>2, <1>6, <2>1, <2>2, <3>1, <4>1
    <3> QED
      BY <1>6, <1>7, <2>5, <3>1
  <2> HIDE DEF x, z
  <2>8. DOMAIN d = (DOMAIN c \ {x}) \cup {z}
    BY <2>3, <2>6, <2>7
  <2>9. Tracked(d, done \cup {x}, sets)
    <3>1. Shifted(c, d, x, z)
      BY <2>4, <2>6, <2>8 DEF Shifted
    <3> QED
      BY <1>5, <1>8, <2>3, <3>1, TrackUpdated
  <2> QED
    BY <2>9 DEF d, qs, x
<1> QED
  BY <1>1, <1>9, <1>10 DEF SlotOutcome

\* An entry of the queue, once the page has been written.
LEMMA TrackQueued ==
  ASSUME PagesReadable(pages), NEW st \in InsertStates, NEW queue \in Seq(Rows \X Rows),
         NEW k \in 1..Len(queue), NEW done, done \subseteq Refs(pages), NEW sets,
         Tracked(Content(st.pages, queue, k), done, sets),
         NEW after, after = InsertPending(st, queue[k])
  PROVE  Tracked(Content(after.pages, queue, k + 1), done, sets)
<1> DEFINE ps   == st.pages
           qs   == after.pages
           c    == Content(ps, queue, k)
           d    == Content(qs, queue, k + 1)
           from == <<0, k>>
<1>1. /\ queue[k] \in Rows \X Rows /\ k \in Nat /\ Len(queue) \in Nat
      /\ k..Len(queue) = {k} \cup ((k + 1)..Len(queue)) /\ k \notin (k + 1)..Len(queue)
  OBVIOUS
<1>2. after \in InsertStates /\ \E ref : PutBack(st, after, queue[k], ref)
  BY <1>1, InsertPendingDoes
<1>3. PICK z \in Nat \X Nat :
           /\ z \notin Refs(ps)
           /\ Refs(qs) = Refs(ps) \cup {z}
           /\ RowAt(qs, z) = queue[k][2]
           /\ \A x \in Refs(ps) : RowAt(qs, x) = RowAt(ps, x)
  BY <1>2 DEF Added, PutBack
<1>4. PagesReadable(ps) /\ PagesReadable(qs)
  BY <1>2 DEF InsertStates
<1> HIDE DEF ps, qs
<1>5. /\ DOMAIN c = Refs(ps) \cup Queued(queue, k)
      /\ \A x \in Refs(ps) : c[x] = RowAt(ps, x) /\ x \notin Queued(queue, k)
      /\ \A j \in k..Len(queue) :
           <<0, j>> \in DOMAIN c /\ <<0, j>> \notin Refs(ps) /\ c[<<0, j>>] = queue[j][2]
      /\ \A x \in Queued(queue, k) : \E j \in k..Len(queue) : x = <<0, j>>
  BY <1>4, ContentFacts
<1>6. /\ DOMAIN d = Refs(qs) \cup Queued(queue, k + 1)
      /\ \A x \in Refs(qs) : d[x] = RowAt(qs, x) /\ x \notin Queued(queue, k + 1)
      /\ \A j \in (k + 1)..Len(queue) :
           <<0, j>> \in DOMAIN d /\ <<0, j>> \notin Refs(qs) /\ d[<<0, j>>] = queue[j][2]
      /\ \A x \in Queued(queue, k + 1) : \E j \in (k + 1)..Len(queue) : x = <<0, j>>
  BY <1>4, ContentFacts
<1>7. Tracked(c, done, sets)
  BY DEF c, ps
<1> HIDE DEF c, d
<1>8. Queued(queue, k) = Queued(queue, k + 1) \cup {from} /\ from \notin Queued(queue, k + 1)
  BY <1>1 DEF Queued
<1>9. from \in DOMAIN c \ Refs(pages) /\ from \notin Refs(ps) /\ c[from] = queue[k][2]
  <2>1. \A x \in Refs(pages) : x[1] \in 1..Len(pages)
    BY RefsType
  <2>2. from \notin Refs(pages)
    BY <2>1
  <2> QED
    BY <1>1, <1>5, <2>2
<1>10. z \in Refs(qs) /\ z # from
  <2>1. \A x \in Refs(qs) : x[1] \in 1..Len(qs)
    BY <1>4, RefsType
  <2> QED
    BY <1>3, <2>1
<1>11. z \notin DOMAIN c \ {from}
  BY <1>3, <1>5, <1>6, <1>8, <1>10
<1>12. DOMAIN d = (DOMAIN c \ {from}) \cup {z}
  BY <1>3, <1>5, <1>6, <1>8, <1>9
<1>13. d[z] = c[from]
  BY <1>3, <1>6, <1>9, <1>10
<1>14. ASSUME NEW y \in DOMAIN c \ {from} PROVE d[y] = c[y]
  <2>1. CASE y \in Refs(ps)
    BY <1>3, <1>5, <1>6, <2>1
  <2>2. CASE y \in Queued(queue, k)
    <3>1. PICK j \in (k + 1)..Len(queue) : y = <<0, j>>
      BY <1>6, <1>8, <1>14, <2>2
    <3>2. j \in k..Len(queue)
      BY <1>1
    <3> QED
      BY <1>5, <1>6, <3>1, <3>2
  <2> QED
    BY <1>5, <1>14, <2>1, <2>2
<1> HIDE DEF from
<1>15. Shifted(c, d, from, z)
  BY <1>11, <1>12, <1>14 DEF Shifted
<1>16. Tracked(d, done, sets)
  BY <1>7, <1>9, <1>13, <1>15, TrackMoved
<1> QED
  BY <1>16 DEF d, qs

-----------------------------------------------------------------------------
(* The index during an UPDATE. *)

\* The rows an index entry may be for: a queued row still has its old key.
KeyRows(ps, queue, next) == HeldRows(ps) \cup {queue[k][1] : k \in next..Len(queue)}

SlotLen(ps, x) == ps[x[1]].slots[x[2]].len

\* The row that the UPDATE leaves for the one at x.
Final(w, sets, x) ==
  IF x \in Matched(w) THEN Assign(RowAt(pages, x), sets) ELSE RowAt(pages, x)

\* The UPDATE starts with an index that agrees with the rows, and gives no two
\* rows one key.
Settled(w, sets) ==
  /\ OneColumnKey
  /\ Agrees(index, pages)
  /\ NoDuplicates(pages)
  /\ \A x, y \in Refs(pages) : x # y => ~SameKey(Final(w, sets, x), Final(w, sets, y))

\* Every row is in its slot, those at the references done updated.
Stayed(ps, ix, done, w, sets) ==
  /\ Refs(ps) = Refs(pages)
  /\ \A x \in done : RowAt(ps, x) = Assign(RowAt(pages, x), sets)
  /\ \A x \in Refs(pages) \ done :
       RowAt(ps, x) = RowAt(pages, x) /\ SlotLen(ps, x) = SlotLen(pages, x)
  /\ Settled(w, sets) => Agrees(ix, ps)

LEMMA StayedUpdated ==
  ASSUME PagesReadable(pages), NEW ix \in IndexType, NEW ps, NEW done, NEW w,
         NEW sets \in Assignments, Stayed(ps, ix, done, w, sets), done \subseteq Matched(w),
         NEW x \in Matched(w) \ done,
         NEW old, old = RowAt(pages, x), NEW new, new = Assign(old, sets),
         NEW qs, Refs(qs) = Refs(ps), RowAt(qs, x) = new,
         \A y \in Refs(ps) \ {x} : RowAt(qs, y) = RowAt(ps, y) /\ SlotLen(qs, y) = SlotLen(ps, y),
         NEW jx, jx = UpdateIndexForRow(ix, old, new, x)
  PROVE  Stayed(qs, jx, done \cup {x}, w, sets)
<1>1. /\ Refs(ps) = Refs(pages)
      /\ \A y \in done : RowAt(ps, y) = Assign(RowAt(pages, y), sets)
      /\ \A y \in Refs(pages) \ done :
           RowAt(ps, y) = RowAt(pages, y) /\ SlotLen(ps, y) = SlotLen(pages, y)
      /\ Settled(w, sets) => Agrees(ix, ps)
  BY DEF Stayed
<1>2. Matched(w) \subseteq Refs(pages)
  BY DEF Matched
<1>3. old \in Rows /\ new \in Rows
  BY <1>2, RefsType, TableStoreAssumption
<1>4. /\ Refs(qs) = Refs(pages)
      /\ \A y \in done \cup {x} : RowAt(qs, y) = Assign(RowAt(pages, y), sets)
      /\ \A y \in Refs(pages) \ (done \cup {x}) :
           RowAt(qs, y) = RowAt(pages, y) /\ SlotLen(qs, y) = SlotLen(pages, y)
  BY <1>1, <1>2
<1>5. ASSUME Settled(w, sets) PROVE Agrees(jx, qs)
  <2> SUFFICES ASSUME NEW c \in IndexedColumns, NEW v \in Values, NEW y \in Refs(qs)
               PROVE  y = jx[c][v] <=> RowAt(qs, y)[c] = v
    BY DEF Agrees
  <2>1. /\ OneColumnKey
        /\ NoDuplicates(pages)
        /\ \A a, b \in Refs(pages) : a # b => ~SameKey(Final(w, sets, a), Final(w, sets, b))
    BY <1>5 DEF Settled
  <2>2. jx[c][v] = IF old[c] = new[c] THEN ix[c][v]
                   ELSE IF new[c] = v THEN x
                   ELSE IF old[c] = v THEN NoRef ELSE ix[c][v]
    BY <1>3, UpdateIndexIs
  <2>3. y \in Refs(ps) /\ (y = ix[c][v] <=> RowAt(ps, y)[c] = v)
    BY <1>1, <1>5 DEF Agrees
  <2>4. v # Null /\ c \in Cols
    BY <1>3, RowValues, TableStoreAssumption
  <2>5. RowAt(ps, x) = old /\ x \in Refs(pages)
    BY <1>1, <1>2
  <2>6. y # x => RowAt(qs, y) = RowAt(ps, y)
    BY <2>3
  <2>7. ASSUME old[c] # new[c]
        PROVE  \A r : Assign(r, sets)[c] = new[c]
    BY <2>4, <2>7 DEF Assign
  <2>8. CASE old[c] = new[c]
    BY <2>2, <2>3, <2>5, <2>6, <2>8
  <2>9. CASE old[c] # new[c] /\ new[c] = v
    <3>1. ASSUME y # x, RowAt(ps, y)[c] = v PROVE FALSE
      <4>1. Final(w, sets, x)[c] = v
        BY <2>9 DEF Final
      <4>2. Final(w, sets, y)[c] = v
        <5>1. CASE y \in Matched(w)
          BY <2>7, <2>9, <5>1 DEF Final
        <5>2. CASE y \notin Matched(w)
          BY <1>1, <2>3, <3>1, <5>2 DEF Final
        <5> QED
          BY <5>1, <5>2
      <4>3. SameKey(Final(w, sets, x), Final(w, sets, y))
        BY <2>1, <2>4, <4>1, <4>2, OneColumnSame
      <4> QED
        BY <1>1, <2>1, <2>3, <2>5, <3>1, <4>3
    <3> QED
      BY <2>2, <2>6, <2>9, <3>1
  <2>10. CASE old[c] # new[c] /\ new[c] # v /\ old[c] = v
    <3>1. ASSUME y # x, RowAt(ps, y)[c] = v PROVE FALSE
      <4>1. CASE y \in done
        BY <1>1, <2>7, <2>10, <3>1, <4>1
      <4>2. CASE y \notin done
        <5>1. RowAt(pages, y)[c] = v /\ y \in Refs(pages)
          BY <1>1, <2>3, <3>1, <4>2
        <5>2. SameKey(RowAt(pages, x), RowAt(pages, y))
          BY <2>1, <2>4, <2>10, <5>1, OneColumnSame
        <5> QED
          BY <2>1, <2>5, <3>1, <5>1, <5>2 DEF NoDuplicates
      <4> QED
        BY <4>1, <4>2
    <3>2. y # NoRef
      BY <1>1, <2>3, NoRefNowhere
    <3> QED
      BY <2>2, <2>6, <2>10, <3>1, <3>2
  <2>11. CASE old[c] # new[c] /\ new[c] # v /\ old[c] # v
    BY <2>2, <2>3, <2>5, <2>6, <2>11
  <2> QED
    BY <2>8, <2>9, <2>10, <2>11
<1> QED
  BY <1>4, <1>5 DEF Stayed

\* Tracked, with the index, and what holds besides when no row has to move.
Followed(ps, ix, queue, next, done, w, sets) ==
  /\ Tracked(Content(ps, queue, next), done, sets)
  /\ Backed(index, HeldRows(pages)) => Backed(ix, KeyRows(ps, queue, next))
  /\ ~Moves(sets, w) => queue = << >> /\ Stayed(ps, ix, done, w, sets)

LEMMA StillThere ==
  ASSUME NEW c, NEW done, NEW sets, Tracked(c, done, sets), NEW x \in Refs(pages) \ done
  PROVE  x \in DOMAIN c /\ c[x] = RowAt(pages, x)
<1>1. PICK m : Track(m, c, done, sets)
  BY DEF Tracked
<1>2. /\ m \in Bijection(Refs(pages), DOMAIN c)
      /\ m[x] = x /\ c[x] = RowAt(pages, x)
  BY <1>1 DEF Track
<1> QED
  BY <1>2, BijectionFacts

\* A slot visited.
LEMMA FollowSlot ==
  ASSUME PagesReadable(pages), NEW base, PagesReadable(base),
         NEW pid \in DOMAIN base, NEW st \in SlotStates, NEW sid, NEW done, NEW w,
         NEW sets \in Assignments,
         <<pid, sid>> \in Matched(w) \ done, done \subseteq Matched(w),
         Followed(PutAt(base, pid, st.page), st.index, st.pending, 1, done, w, sets),
         NEW after, after = UpdateSlot(st, pid, sid, sets)
  PROVE  Followed(PutAt(base, pid, after.page), after.index, after.pending, 1,
                  done \cup {<<pid, sid>>}, w, sets)
<1> DEFINE x   == <<pid, sid>>
           old == RowAt(pages, x)
           new == Assign(old, sets)
           ps  == PutAt(base, pid, st.page)
           qs  == PutAt(base, pid, after.page)
           R   == KeyRows(ps, st.pending, 1)
           S   == KeyRows(qs, after.pending, 1)
<1>1. /\ Tracked(Content(ps, st.pending, 1), done, sets)
      /\ Backed(index, HeldRows(pages)) => Backed(st.index, R)
      /\ ~Moves(sets, w) => st.pending = << >> /\ Stayed(ps, st.index, done, w, sets)
  BY DEF Followed
<1>2. x \in Refs(pages) \ done /\ done \subseteq Refs(pages)
  BY DEF Matched
<1>3. Tracked(Content(qs, after.pending, 1), done \cup {x}, sets)
  BY <1>1, <1>2, TrackSlot
<1>4. /\ old \in Rows /\ new \in Rows
      /\ after \in SlotStates
      /\ SlotOutcome(st, after, pid, sid, old, new)
  BY <1>2, UpdateSlotDoes
<1>5. /\ PagesReadable(ps) /\ PagesReadable(qs)
      /\ \A s : s \in Live(st.page) <=> <<pid, s>> \in Refs(ps)
      /\ \A s : s \in Live(after.page) <=> <<pid, s>> \in Refs(qs)
      /\ \A s : RowAt(qs, <<pid, s>>) = RowIn(after.page, s)
      /\ \A i, s : i # pid => (<<i, s>> \in Refs(qs) <=> <<i, s>> \in Refs(ps))
      /\ \A y \in Refs(ps) \ {x} : y \in Refs(qs) /\ RowAt(qs, y) = RowAt(ps, y)
  <2>1. \A s \in Live(st.page) \ {sid} :
          s \in Live(after.page) /\ RowIn(after.page, s) = RowIn(st.page, s)
    BY <1>4 DEF SlotOutcome, Replaced, Removed
  <2>2. Readable(st.page) /\ Readable(after.page)
    BY <1>4 DEF SlotStates
  <2>3. OnlySlot(ps, qs, st.page, after.page, pid, sid)
    BY <2>1, <2>2, SlotChanged
  <2> QED
    BY <2>3 DEF OnlySlot
<1>6. x \in Refs(ps) /\ RowAt(ps, x) = old
  <2>1. /\ x \in DOMAIN Content(ps, st.pending, 1)
        /\ Content(ps, st.pending, 1)[x] = old
    BY <1>1, <1>2, StillThere
  <2>2. pid # 0
    BY DEF PagesReadable
  <2>3. PagesReadable(ps)
    BY <1>5
  <2> HIDE DEF ps, old
  <2>4. x \in Refs(ps) \cup Queued(st.pending, 1)
    BY <2>1, <2>3, ContentFacts
  <2>5. x \notin Queued(st.pending, 1)
    BY <2>2 DEF Queued
  <2>6. Content(ps, st.pending, 1)[x] = RowAt(ps, x)
    BY <2>3, <2>4, <2>5, ContentFacts
  <2> QED
    BY <2>1, <2>4, <2>5, <2>6
<1>7. st.index \in IndexType /\ st.pending \in Seq(Rows \X Rows)
  BY DEF SlotStates
<1> HIDE DEF ps, qs
<1>8. ASSUME Backed(st.index, R) PROVE Backed(after.index, S)
  <2>1. \A y \in Refs(ps) \ {x} : RowAt(ps, y) \in HeldRows(qs)
    BY <1>5 DEF HeldRows
  <2>2. HeldRows(ps) \subseteq HeldRows(qs) \cup {old}
    BY <1>6, <2>1 DEF HeldRows
  <2>3. ASSUME NEW s \in Nat, Replaced(st.page, after.page, sid, s, new),
               after.pending = st.pending,
               after.index = UpdateIndexForRow(st.index, old, new, <<pid, s>>)
        PROVE  Backed(after.index, S)
    <3>1. <<pid, s>> \in Refs(qs) /\ RowAt(qs, <<pid, s>>) = new
      BY <1>5, <2>3 DEF Replaced
    <3>2. R \ {old} \subseteq S
      BY <2>2, <2>3 DEF KeyRows
    <3>3. new \in S
      BY <3>1 DEF KeyRows, HeldRows
    <3> HIDE DEF R, S, old, new
    <3> QED
      BY <1>4, <1>7, <1>8, <2>3, <3>2, <3>3, BackedMoved
  <2>4. ASSUME after.pending = Append(st.pending, <<old, new>>), after.index = st.index
        PROVE  Backed(after.index, S)
    <3> DEFINE n == Len(st.pending)
    <3>1. /\ n \in Nat /\ Len(after.pending) = n + 1
          /\ after.pending[n + 1] = <<old, new>>
          /\ \A k \in 1..n : after.pending[k] = st.pending[k]
      BY <1>4, <1>7, <2>4
    <3>2. 1..(n + 1) = (1..n) \cup {n + 1}
      BY <3>1
    <3>3. old \in S
      BY <3>1, <3>2 DEF KeyRows
    <3>4. ASSUME NEW k \in 1..n PROVE st.pending[k][1] \in S
      <4>1. k \in 1..Len(after.pending) /\ after.pending[k] = st.pending[k]
        BY <3>1, <3>2
      <4> QED
        BY <4>1 DEF KeyRows
    <3>5. R \subseteq S
      BY <2>2, <3>3, <3>4 DEF KeyRows
    <3> HIDE DEF R, S
    <3> QED
      BY <1>8, <2>4, <3>5, BackedMore
  <2> QED
    BY <1>4, <2>3, <2>4 DEF SlotOutcome
<1>9. ASSUME ~Moves(sets, w)
      PROVE  after.pending = << >> /\ Stayed(qs, after.index, done \cup {x}, w, sets)
  <2>1. st.pending = << >> /\ Stayed(ps, st.index, done, w, sets)
    BY <1>1, <1>9
  <2>2. CanUpdate(st.page, sid, new)
    <3>1. sid \in Live(st.page)
      BY <1>5, <1>6
    <3>2. ~(RowLen[new] > pages[pid].slots[sid].len)
      BY <1>9 DEF Moves
    <3>3. st.page.slots[sid].len = pages[pid].slots[sid].len
      <4>1. SlotLen(ps, x) = SlotLen(pages, x)
        BY <1>2, <2>1 DEF Stayed
      <4>2. ps[pid] = st.page
        BY DEF ps, PutAt
      <4> QED
        BY <4>1, <4>2 DEF SlotLen
    <3>4. st.page.slots[sid].len \in Nat /\ RowLen[new] \in Nat
      <4>1. st.page \in Page /\ sid \in DOMAIN st.page.slots
        BY <3>1 DEF SlotStates, Live
      <4>2. st.page.slots[sid].len \in Nat
        BY <4>1, PageType
      <4>3. RowLen[new] \in Nat
        BY <1>4, PageLayoutAssumption
      <4> QED
        BY <4>2, <4>3
    <3> QED
      BY <3>1, <3>2, <3>3, <3>4 DEF CanUpdate
  <2>3. /\ after.page = AppendIntoData(st.page, sid, new)
        /\ after.pending = st.pending
        /\ after.index = UpdateIndexForRow(st.index, old, new, x)
    BY <2>2 DEF UpdateSlot, SlotStates, PageUpdate
  <2>4. sid \in Live(st.page) /\ sid \in DOMAIN st.page.slots
    BY <2>2 DEF CanUpdate, Live
  <2>5. \A s \in Live(st.page) : s # sid => after.page.slots[s] = st.page.slots[s]
    BY <2>3 DEF AppendIntoData, Live
  <2>6. /\ Live(after.page) = Live(st.page)
        /\ RowIn(after.page, sid) = new
    <3>1. Readable(st.page) /\ sid \in 1..(Len(st.page.slots) + 1)
      BY <2>4, PageType DEF SlotStates
    <3>2. /\ Live(after.page) = Live(st.page) \cup {sid}
          /\ RowIn(after.page, sid) = new
      BY <1>4, <2>3, <3>1, PlacedPage
    <3> QED
      BY <2>4, <3>2
  <2>7. Refs(qs) = Refs(ps)
    <3>1. \A i, s : <<i, s>> \in Refs(qs) <=> <<i, s>> \in Refs(ps)
      BY <1>5, <2>6
    <3>2. /\ \A y \in Refs(ps) : \E i, s : y = <<i, s>>
          /\ \A y \in Refs(qs) : \E i, s : y = <<i, s>>
      BY RefsOf
    <3> QED
      BY <3>1, <3>2
  <2>8. ASSUME NEW y \in Refs(ps) \ {x} PROVE SlotLen(qs, y) = SlotLen(ps, y)
    <3>1. PICK i \in DOMAIN ps : \E s \in Live(ps[i]) : y = <<i, s>>
      BY RefsOf
    <3>2. PICK s \in Live(ps[i]) : y = <<i, s>>
      BY <3>1
    <3>3. ps[pid] = st.page /\ qs[pid] = after.page
      BY DEF ps, qs, PutAt
    <3>4. i # pid => qs[i] = ps[i]
      BY <3>1 DEF ps, qs, PutAt
    <3>5. i = pid => qs[i].slots[s] = ps[i].slots[s]
      BY <2>5, <2>8, <3>2, <3>3
    <3> QED
      BY <3>2, <3>4, <3>5 DEF SlotLen
  <2>9. RowAt(qs, x) = new
    BY <1>5, <2>6
  <2>10. Stayed(qs, after.index, done \cup {x}, w, sets)
    <3> HIDE DEF x, old, new
    <3>1. x \in Matched(w) \ done
      BY DEF x
    <3>2. old = RowAt(pages, x) /\ new = Assign(old, sets)
      BY DEF old, new
    <3> QED
      BY <1>5, <1>7, <2>1, <2>3, <2>7, <2>8, <2>9, <3>1, <3>2, StayedUpdated
  <2> QED
    BY <2>1, <2>3, <2>10
<1> QED
  BY <1>1, <1>3, <1>8, <1>9 DEF Followed, qs

\* An entry of the queue inserted.
LEMMA FollowQueued ==
  ASSUME PagesReadable(pages), NEW st \in InsertStates, NEW queue \in Seq(Rows \X Rows),
         NEW k \in 1..Len(queue), NEW done, done \subseteq Refs(pages), NEW w, NEW sets,
         Followed(st.pages, st.index, queue, k, done, w, sets),
         NEW after, after = InsertPending(st, queue[k])
  PROVE  Followed(after.pages, after.index, queue, k + 1, done, w, sets)
<1> DEFINE ps  == st.pages
           qs  == after.pages
           R   == KeyRows(ps, queue, k)
           S   == KeyRows(qs, queue, k + 1)
           old == queue[k][1]
           new == queue[k][2]
<1>1. /\ Tracked(Content(ps, queue, k), done, sets)
      /\ Backed(index, HeldRows(pages)) => Backed(st.index, R)
      /\ ~Moves(sets, w) => queue = << >>
  BY DEF Followed
<1>2. Tracked(Content(qs, queue, k + 1), done, sets)
  BY <1>1, TrackQueued
<1>3. Moves(sets, w)
  BY <1>1
<1>4. /\ queue[k] \in Rows \X Rows /\ old \in Rows /\ new \in Rows
      /\ k..Len(queue) = {k} \cup ((k + 1)..Len(queue))
  OBVIOUS
<1>5. PICK ref \in Nat \X Nat : /\ Added(ps, qs, ref, new)
                                /\ after.index = UpdateIndexForRow(st.index, old, new, ref)
  BY <1>4, InsertPendingDoes DEF PutBack
<1>6. HeldRows(ps) \subseteq HeldRows(qs) /\ new \in HeldRows(qs)
  BY <1>5 DEF HeldRows, Added
<1>7. R \ {old} \subseteq S /\ new \in S
  BY <1>4, <1>6 DEF KeyRows
<1>8. st.index \in IndexType
  BY DEF InsertStates
<1> HIDE DEF R, S, old, new
<1>9. Backed(st.index, R) => Backed(after.index, S)
  BY <1>4, <1>5, <1>7, <1>8, BackedMoved
<1> QED
  BY <1>1, <1>2, <1>3, <1>9 DEF Followed, S

\* The queue is done with.
LEMMA FollowedOn ==
  ASSUME NEW ps, PagesReadable(ps), NEW ix, NEW queue \in Seq(Rows \X Rows),
         NEW done, NEW w, NEW sets,
         Followed(ps, ix, queue, Len(queue) + 1, done, w, sets)
  PROVE  Followed(ps, ix, << >>, 1, done, w, sets)
<1> DEFINE last == Len(queue)
<1>1. last \in Nat /\ (last + 1)..last = {} /\ 1..Len(<< >>) = {}
  OBVIOUS
<1>2. Content(ps, queue, last + 1) = Content(ps, << >>, 1)
  <2>1. Queued(queue, last + 1) = {} /\ Queued(<< >>, 1) = {}
    BY <1>1 DEF Queued
  <2>2. ASSUME NEW x \in Refs(ps) PROVE x[1] # 0
    <3>1. x[1] \in 1..Len(ps)
      BY RefsType
    <3> QED
      BY <3>1
  <2> QED
    BY <2>1, <2>2 DEF Content
<1>3. KeyRows(ps, queue, last + 1) = KeyRows(ps, << >>, 1)
  BY <1>1 DEF KeyRows
<1> QED
  BY <1>2, <1>3, Zenon DEF Followed
-----------------------------------------------------------------------------
(* The run of an UPDATE. *)

\* The states between two pages of an UPDATE.
UpdateStates == {st \in InsertStates : Len(st.pages) >= Len(pages)}

QueueStart(st, pid, applied) == [st EXCEPT !.pages[pid] = applied.page, !.index = applied.index]

\* The states while a page is updated: over its slots and over its queue.
PageRun(st, pid, w, sets, g, h) ==
  LET n == Len(pages[pid].slots)
  IN /\ g[0] = SlotStart(st, pid)
     /\ \A k \in 1..n : g[k] = UpdateMatched(g[k - 1], pid, k, Matched(w), sets)
     /\ \A k \in 0..n : g[k] \in SlotStates
     /\ h[0] = QueueStart(st, pid, g[n])
     /\ \A k \in 1..Len(g[n].pending) : h[k] = InsertPending(h[k - 1], g[n].pending[k])
     /\ \A k \in 0..Len(g[n].pending) : h[k] \in UpdateStates
     /\ UpdatePage(st, pid, Matched(w), sets) = h[Len(g[n].pending)]

LEMMA UpdatePageRuns ==
  ASSUME PagesReadable(pages), NEW st \in UpdateStates, NEW pid \in 1..Len(pages),
         NEW w, NEW sets \in Assignments
  PROVE  \E g, h : PageRun(st, pid, w, sets, g, h)
<1> DEFINE n == Len(pages[pid].slots)
<1>1. /\ pages[pid] \in Page /\ n \in Nat /\ Len(pages) \in Nat
      /\ PagesReadable(st.pages) /\ st.index \in IndexType /\ st.raised \in BOOLEAN
      /\ st = [pages |-> st.pages, index |-> st.index, raised |-> st.raised]
      /\ pid \in DOMAIN st.pages /\ pid \in 1..(Len(st.pages) + 1)
      /\ DOMAIN st.pages = 1..Len(st.pages)
  <2>1. /\ PagesReadable(st.pages) /\ st.index \in IndexType /\ st.raised \in BOOLEAN
        /\ st = [pages |-> st.pages, index |-> st.index, raised |-> st.raised]
        /\ Len(st.pages) >= Len(pages)
    BY DEF UpdateStates, InsertStates
  <2>2. pages \in Seq(Page) /\ st.pages \in Seq(Page)
    BY <2>1 DEF PagesReadable
  <2>3. pages[pid] \in Page
    BY <2>2
  <2>4. n \in Nat
    BY <2>3, PageType
  <2> QED
    BY <2>1, <2>2, <2>3, <2>4
<1>2. SlotStart(st, pid) \in SlotStates
  <2>1. Readable(st.pages[pid]) /\ st.pages[pid] \in Page
    BY <1>1 DEF PagesReadable, Readable
  <2> QED
    BY <1>1, <2>1 DEF SlotStart, SlotStates
<1>3. ASSUME NEW x \in SlotStates, NEW sid \in 1..n
      PROVE  UpdateMatched(x, pid, sid, Matched(w), sets) \in SlotStates
  <2>1. Matched(w) \subseteq Refs(pages)
    BY DEF Matched
  <2>2. CASE <<pid, sid>> \in Matched(w)
    BY <2>1, <2>2, UpdateSlotDoes DEF UpdateMatched
  <2>3. CASE <<pid, sid>> \notin Matched(w)
    BY <2>3 DEF UpdateMatched
  <2> QED
    BY <2>2, <2>3
<1>4. PICK g : /\ g[0] = SlotStart(st, pid)
               /\ \A k \in 1..n : g[k] = UpdateMatched(g[k - 1], pid, k, Matched(w), sets)
               /\ UpdateSlots(st, pid, Matched(w), sets) = g[n]
  <2>1. n = Len(pages[pid].slots)
    OBVIOUS
  <2> HIDE DEF n
  <2> QED
    BY <1>1, <1>2, <1>3, <2>1, SlotFold, SMTT(30)
<1>5. \A k \in 0..n : g[k] \in SlotStates
  <2> HIDE DEF n
  <2>1. ASSUME NEW k \in 1..n, g[k - 1] \in SlotStates PROVE g[k] \in SlotStates
    BY <1>3, <1>4, <2>1
  <2> QED
    BY <1>1, <1>2, <1>4, <2>1, AlongChain
<1> DEFINE start == QueueStart(st, pid, g[n])
           queue == g[n].pending
<1>6. g[n] \in SlotStates
  <2>1. n \in 0..n
    BY <1>1
  <2> QED
    BY <1>5, <2>1
<1>7. queue \in Seq(Rows \X Rows) /\ Readable(g[n].page) /\ g[n].index \in IndexType
  BY <1>6 DEF SlotStates
<1>8. start \in UpdateStates
  <2>1. start = [pages |-> PutAt(st.pages, pid, g[n].page), index |-> g[n].index,
                 raised |-> st.raised]
    <3>1. [st.pages EXCEPT ![pid] = g[n].page] = PutAt(st.pages, pid, g[n].page)
      BY <1>1 DEF PutAt
    <3>2. start = [st EXCEPT !.pages = [st.pages EXCEPT ![pid] = g[n].page],
                             !.index = g[n].index]
      BY <1>1 DEF QueueStart
    <3> QED
      BY <1>1, <3>1, <3>2
  <2>2. /\ PagesReadable(PutAt(st.pages, pid, g[n].page))
        /\ Len(PutAt(st.pages, pid, g[n].page)) = Len(st.pages)
    BY <1>1, <1>7, PutPage
  <2> HIDE DEF n, start
  <2>3. start \in InsertStates
    BY <1>1, <1>7, <2>1, <2>2 DEF InsertStates, PagesReadable
  <2> QED
    BY <2>1, <2>2, <2>3 DEF UpdateStates
<1> HIDE DEF n, start, queue
<1>9. ASSUME NEW x \in UpdateStates, NEW change \in Rows \X Rows
      PROVE  InsertPending(x, change) \in UpdateStates
  <2>1. x \in InsertStates /\ Len(x.pages) >= Len(pages) /\ Len(x.pages) \in Nat
    BY DEF UpdateStates, InsertStates
  <2> DEFINE after == InsertPending(x, change)
  <2>2. after \in InsertStates /\ Len(after.pages) >= Len(x.pages)
    BY <2>1, InsertPendingDoes
  <2> HIDE DEF after
  <2>3. Len(after.pages) \in Nat
    BY <2>2 DEF InsertStates
  <2>4. Len(after.pages) >= Len(pages)
    BY <1>1, <2>1, <2>2, <2>3
  <2>5. after \in UpdateStates
    BY <2>2, <2>4 DEF UpdateStates
  <2> QED
    BY <2>5 DEF after
<1>10. PICK h : /\ h[0] = start
                /\ \A k \in 1..Len(queue) : h[k] = InsertPending(h[k - 1], queue[k])
                /\ FoldLeft(InsertPending, start, queue) = h[Len(queue)]
  BY <1>7, <1>8, <1>9, PendingFold, ZenonT(60)
<1>11. \A k \in 0..Len(queue) : h[k] \in UpdateStates
  <2>1. Len(queue) \in Nat /\ \A k \in 1..Len(queue) : queue[k] \in Rows \X Rows
    BY <1>7
  <2>2. ASSUME NEW k \in 1..Len(queue), h[k - 1] \in UpdateStates PROVE h[k] \in UpdateStates
    BY <1>9, <1>10, <2>1, <2>2
  <2> QED
    BY <1>8, <1>10, <2>1, <2>2, AlongChain
<1>12. UpdatePage(st, pid, Matched(w), sets) = h[Len(queue)]
  <2>1. UpdatePage(st, pid, Matched(w), sets) = FoldLeft(InsertPending, start, queue)
    BY <1>4, Zenon DEF UpdatePage, start, queue, n, QueueStart
  <2> QED
    BY <1>10, <2>1
<1> QED
  BY <1>4, <1>5, <1>10, <1>11, <1>12, Zenon DEF PageRun, n, start, queue

\* The matched references up to slot k of page pid.
Visited(w, pid, k) ==
  {x \in Matched(w) : x[1] < pid \/ (x[1] = pid /\ x[2] <= k)}

LEMMA MatchedType ==
  ASSUME PagesReadable(pages), NEW w
  PROVE  /\ Matched(w) \subseteq Refs(pages) /\ Len(pages) \in Nat
         /\ \A x \in Matched(w) : /\ x = <<x[1], x[2]>>
                                  /\ x[1] \in 1..Len(pages) /\ x[2] \in Nat \ {0}
                                  /\ x[2] \in Live(pages[x[1]])
BY RefsType DEF Matched, PagesReadable

LEMMA VisitOne ==
  ASSUME PagesReadable(pages), NEW w, NEW pid, NEW j \in Nat, NEW k, k = j + 1
  PROVE  /\ Visited(w, pid, j) \subseteq Refs(pages)
         /\ <<pid, k>> \in Matched(w) =>
              /\ <<pid, k>> \in Refs(pages) \ Visited(w, pid, j)
              /\ Visited(w, pid, k) = Visited(w, pid, j) \cup {<<pid, k>>}
         /\ <<pid, k>> \notin Matched(w) => Visited(w, pid, k) = Visited(w, pid, j)
<1>1. /\ ~(k <= j) /\ \A n \in Nat : n <= k <=> (n <= j \/ n = k)
  OBVIOUS
<1>2. /\ Matched(w) \subseteq Refs(pages)
      /\ \A x \in Matched(w) : x = <<x[1], x[2]>> /\ x[1] \in Nat /\ x[2] \in Nat
  BY MatchedType
<1>3. ASSUME NEW x \in Matched(w), x # <<pid, k>>
      PROVE  x \in Visited(w, pid, k) <=> x \in Visited(w, pid, j)
  <2>1. ~(x[1] = pid /\ x[2] = k)
    BY <1>2, <1>3
  <2> QED
    BY <1>1, <1>2, <2>1 DEF Visited
<1>4. Visited(w, pid, k) \subseteq Matched(w) /\ Visited(w, pid, j) \subseteq Matched(w)
  BY DEF Visited
<1>5. <<pid, k>> \notin Visited(w, pid, j)
  <2>1. <<pid, k>> \in Matched(w) => pid \in Nat
    BY <1>2
  <2> QED
    BY <1>1, <2>1 DEF Visited
<1>6. <<pid, k>> \in Matched(w) => <<pid, k>> \in Visited(w, pid, k)
  BY DEF Visited
<1> QED
  BY <1>2, <1>3, <1>4, <1>5, <1>6

LEMMA VisitPage ==
  ASSUME PagesReadable(pages), NEW w, NEW pid \in 1..Len(pages),
         NEW n, n = Len(pages[pid].slots)
  PROVE  Visited(w, pid, n) = Visited(w, pid + 1, 0) /\ Visited(w, pid, n) \subseteq Refs(pages)
<1>1. Live(pages[pid]) \subseteq 1..n /\ n \in Nat
  <2>1. pages[pid] \in Page
    BY DEF PagesReadable
  <2> QED
    BY <2>1, LivePlaces, PageType
<1>2. ASSUME NEW x \in Matched(w)
      PROVE  x \in Visited(w, pid, n) <=> x \in Visited(w, pid + 1, 0)
  <2>1. x[1] \in Nat /\ x[2] \in Nat \ {0} /\ x[2] \in Live(pages[x[1]])
    BY MatchedType
  <2>2. x[1] = pid => x[2] <= n
    BY <1>1, <2>1
  <2>3. x[1] < pid + 1 <=> (x[1] < pid \/ x[1] = pid)
    BY <2>1
  <2>4. ~(x[2] <= 0)
    BY <2>1
  <2> QED
    BY <2>2, <2>3, <2>4 DEF Visited
<1>3. Matched(w) \subseteq Refs(pages)
  BY MatchedType
<1> QED
  BY <1>2, <1>3 DEF Visited

LEMMA VisitAll ==
  ASSUME PagesReadable(pages), NEW w
  PROVE  Visited(w, 1, 0) = {} /\ Visited(w, Len(pages) + 1, 0) = Matched(w)
<1>1. \A x \in Matched(w) : ~(x[1] < 1) /\ ~(x[2] <= 0) /\ x[1] < Len(pages) + 1
  <2>1. Len(pages) \in Nat
    BY DEF PagesReadable
  <2> QED
    BY <2>1, MatchedType
<1> QED
  BY <1>1 DEF Visited

LEMMA FollowPage ==
  ASSUME PagesReadable(pages), NEW st \in UpdateStates, NEW pid \in 1..Len(pages),
         NEW w, NEW sets \in Assignments,
         Followed(st.pages, st.index, << >>, 1, Visited(w, pid, 0), w, sets),
         NEW after, after = UpdatePage(st, pid, Matched(w), sets)
  PROVE  /\ after \in UpdateStates
         /\ Followed(after.pages, after.index, << >>, 1, Visited(w, pid + 1, 0), w, sets)
<1> DEFINE n == Len(pages[pid].slots)
<1>1. PICK g, h : PageRun(st, pid, w, sets, g, h)
  BY UpdatePageRuns
<1> DEFINE queue == g[n].pending
           last  == Len(queue)
           put(k) == PutAt(st.pages, pid, g[k].page)
<1>2. /\ g[0] = SlotStart(st, pid)
      /\ \A k \in 1..n : g[k] = UpdateMatched(g[k - 1], pid, k, Matched(w), sets)
      /\ \A k \in 0..n : g[k] \in SlotStates
      /\ h[0] = QueueStart(st, pid, g[n])
      /\ \A k \in 1..last : h[k] = InsertPending(h[k - 1], queue[k])
      /\ \A k \in 0..last : h[k] \in UpdateStates
      /\ after = h[last]
  BY <1>1 DEF PageRun
<1>3. /\ PagesReadable(st.pages)
      /\ st = [pages |-> st.pages, index |-> st.index, raised |-> st.raised]
      /\ st.pages \in Seq(Page) /\ DOMAIN st.pages = 1..Len(st.pages)
      /\ Len(st.pages) \in Nat /\ Len(pages) \in Nat /\ Len(st.pages) >= Len(pages)
  BY DEF UpdateStates, InsertStates, PagesReadable
<1>4. pid \in DOMAIN st.pages /\ n \in Nat /\ 0 \in 0..n /\ n \in 0..n
  <2>1. pages[pid] \in Page
    BY DEF PagesReadable
  <2>2. n \in Nat
    BY <2>1, PageType
  <2> QED
    BY <1>3, <2>2
<1>5. \A k \in 0..n : Followed(put(k), g[k].index, g[k].pending, 1, Visited(w, pid, k), w, sets)
  <2> DEFINE T == {k \in Nat : k <= n =>
                     Followed(put(k), g[k].index, g[k].pending, 1, Visited(w, pid, k), w, sets)}
  <2>1. 0 \in T
    <3>1. g[0].page = st.pages[pid] /\ g[0].index = st.index /\ g[0].pending = << >>
      BY <1>2 DEF SlotStart
    <3>2. PutAt(st.pages, pid, st.pages[pid]) = st.pages
      <4>1. DOMAIN st.pages = (DOMAIN st.pages) \cup {pid}
        BY <1>4
      <4>2. st.pages = [j \in DOMAIN st.pages |-> st.pages[j]]
        BY <1>3
      <4>3. PutAt(st.pages, pid, st.pages[pid]) = [j \in DOMAIN st.pages |-> st.pages[j]]
        BY <4>1 DEF PutAt
      <4> QED
        BY <4>2, <4>3
    <3> QED
      BY <3>1, <3>2
  <2>2. ASSUME NEW k \in Nat, k \in T PROVE k + 1 \in T
    <3> DEFINE i == k + 1
    <3> SUFFICES ASSUME i <= n
                 PROVE  Followed(put(i), g[i].index, g[i].pending, 1, Visited(w, pid, i), w, sets)
      OBVIOUS
    <3>1. i \in 1..n /\ i - 1 = k /\ k \in 0..n /\ i \in Nat /\ i = k + 1
      BY <1>4
    <3>2. Followed(put(k), g[k].index, g[k].pending, 1, Visited(w, pid, k), w, sets)
      BY <1>4, <2>2
    <3> HIDE DEF n, T, i
    <3>3. g[i] = UpdateMatched(g[k], pid, i, Matched(w), sets) /\ g[k] \in SlotStates
      BY <1>2, <3>1
    <3>4. CASE <<pid, i>> \in Matched(w)
      <4>1. g[i] = UpdateSlot(g[k], pid, i, sets)
        BY <3>3, <3>4 DEF UpdateMatched
      <4>2. Visited(w, pid, k) \subseteq Matched(w)
        BY DEF Visited
      <4>3. /\ <<pid, i>> \in Matched(w) \ Visited(w, pid, k)
            /\ Visited(w, pid, i) = Visited(w, pid, k) \cup {<<pid, i>>}
        BY <3>1, <3>4, VisitOne
      <4>4. Followed(put(i), g[i].index, g[i].pending, 1,
                       Visited(w, pid, k) \cup {<<pid, i>>}, w, sets)
        BY <1>3, <1>4, <3>2, <3>3, <4>1, <4>2, <4>3, FollowSlot
      <4> QED
        BY <4>3, <4>4
    <3>5. CASE <<pid, i>> \notin Matched(w)
      <4>1. g[i] = g[k]
        BY <3>3, <3>5 DEF UpdateMatched
      <4>2. Visited(w, pid, i) = Visited(w, pid, k)
        BY <3>1, <3>5, VisitOne
      <4> QED
        BY <3>2, <4>1, <4>2
    <3> QED
      BY <3>4, <3>5
  <2>3. Nat \subseteq T
    <3> HIDE DEF T
    <3> QED
      BY <2>1, <2>2, Induction
  <2> QED
    BY <1>4, <2>3
<1> DEFINE done == Visited(w, pid + 1, 0)
<1>6. done = Visited(w, pid, n) /\ done \subseteq Refs(pages)
  BY VisitPage
<1>7. queue \in Seq(Rows \X Rows) /\ last \in Nat
  <2>1. g[n] \in SlotStates
    BY <1>2, <1>4
  <2> QED
    BY <2>1 DEF SlotStates
<1>8. h[0].pages = put(n) /\ h[0].index = g[n].index
  <2>1. [st.pages EXCEPT ![pid] = g[n].page] = PutAt(st.pages, pid, g[n].page)
    BY <1>3, <1>4 DEF PutAt
  <2>2. h[0] = [st EXCEPT !.pages = [st.pages EXCEPT ![pid] = g[n].page], !.index = g[n].index]
    BY <1>2, <1>3 DEF QueueStart
  <2>3. h[0].pages = [st.pages EXCEPT ![pid] = g[n].page] /\ h[0].index = g[n].index
    BY <1>3, <2>2
  <2> QED
    BY <2>1, <2>3
<1>9. Followed(h[0].pages, h[0].index, queue, 1, done, w, sets)
  BY <1>4, <1>5, <1>6, <1>8
<1> HIDE DEF n, queue, done, put
<1>10. \A k \in 0..last : Followed(h[k].pages, h[k].index, queue, k + 1, done, w, sets)
  <2> DEFINE T == {k \in Nat : k <= last =>
                     Followed(h[k].pages, h[k].index, queue, k + 1, done, w, sets)}
  <2>1. 0 \in T
    <3>1. 0 + 1 = 1
      OBVIOUS
    <3> QED
      BY <1>9, <3>1
  <2>2. ASSUME NEW k \in Nat, k \in T PROVE k + 1 \in T
    <3> SUFFICES ASSUME k + 1 <= last
                 PROVE  Followed(h[k + 1].pages, h[k + 1].index, queue, (k + 1) + 1, done, w, sets)
      OBVIOUS
    <3>1. k + 1 \in 1..last /\ (k + 1) - 1 = k /\ k \in 0..last /\ k <= last
      BY <1>7
    <3>2. h[k + 1] = InsertPending(h[k], queue[k + 1]) /\ h[k] \in InsertStates
      BY <1>2, <3>1 DEF UpdateStates
    <3>3. Followed(h[k].pages, h[k].index, queue, k + 1, done, w, sets)
      BY <2>2, <3>1
    <3> HIDE DEF T
    <3> DEFINE j == k + 1
    <3>4. j \in 1..Len(queue) /\ h[j] = InsertPending(h[k], queue[j])
          /\ Followed(h[k].pages, h[k].index, queue, j, done, w, sets)
      BY <3>1, <3>2, <3>3
    <3> HIDE DEF j
    <3>5. Followed(h[j].pages, h[j].index, queue, j + 1, done, w, sets)
      BY <1>6, <1>7, <3>2, <3>4, FollowQueued
    <3> QED
      BY <3>5 DEF j
  <2>3. Nat \subseteq T
    <3> HIDE DEF T
    <3> QED
      BY <2>1, <2>2, Induction
  <2> QED
    BY <1>7, <2>3
<1>11. after \in UpdateStates /\ Followed(after.pages, after.index, queue, last + 1, done, w, sets)
  <2>1. last \in 0..last
    BY <1>7
  <2> QED
    BY <1>2, <1>10, <2>1
<1>12. Followed(after.pages, after.index, << >>, 1, done, w, sets)
  <2>1. PagesReadable(after.pages)
    BY <1>11 DEF UpdateStates, InsertStates
  <2> QED
    BY <1>7, <1>11, <2>1, FollowedOn
<1> QED
  BY <1>11, <1>12 DEF done

LEMMA ContentOfPages ==
  ASSUME NEW ps, PagesReadable(ps)
  PROVE  /\ DOMAIN Content(ps, << >>, 1) = Refs(ps)
         /\ \A x \in Refs(ps) : Content(ps, << >>, 1)[x] = RowAt(ps, x)
<1>1. Queued(<< >>, 1) = {}
  BY DEF Queued
<1>2. DOMAIN Content(ps, << >>, 1) = Refs(ps) \cup Queued(<< >>, 1)
  BY ContentFacts
<1>3. ASSUME NEW x \in Refs(ps) PROVE Content(ps, << >>, 1)[x] = RowAt(ps, x)
  <2>1. x[1] # 0
    BY RefsType
  <2> QED
    BY <2>1 DEF Content
<1> QED
  BY <1>1, <1>2, <1>3

LEMMA FollowAll ==
  ASSUME TypeOK, NEW w, NEW sets \in Assignments, NEW after, after = ApplyUpdate(sets, w)
  PROVE  /\ after \in UpdateStates
         /\ Followed(after.pages, after.index, << >>, 1, Matched(w), w, sets)
<1> DEFINE n == Len(pages)
<1>1. PagesReadable(pages) /\ index \in IndexType /\ n \in Nat
  BY DEF TypeOK, PagesReadable
<1>2. Begun \in UpdateStates /\ Begun.pages = pages /\ Begun.index = index
  BY <1>1 DEF Begun, UpdateStates, InsertStates, PagesReadable
<1>3. ASSUME NEW x \in UpdateStates, NEW pid \in 1..n
      PROVE  UpdatePage(x, pid, Matched(w), sets) \in UpdateStates
  <2>1. PICK g, h : PageRun(x, pid, w, sets, g, h)
    BY <1>1, UpdatePageRuns
  <2> DEFINE m == Len(pages[pid].slots)
  <2>2. Len(g[m].pending) \in 0..Len(g[m].pending)
    <3>1. pages[pid] \in Page
      BY <1>1 DEF PagesReadable
    <3>2. m \in 0..m
      BY <3>1, PageType
    <3>3. g[m] \in SlotStates
      BY <2>1, <3>2 DEF PageRun
    <3> QED
      BY <3>3 DEF SlotStates
  <2> QED
    BY <2>1, <2>2 DEF PageRun
<1>4. PICK g : /\ g[0] = Begun
               /\ \A k \in 1..n : g[k] = UpdatePage(g[k - 1], k, Matched(w), sets)
               /\ ApplyUpdate(sets, w) = g[n]
  <2>1. n = Len(pages)
    OBVIOUS
  <2> HIDE DEF n
  <2> QED
    BY <1>1, <1>2, <1>3, <2>1, PageFold
<1> DEFINE T == {k \in Nat : k <= n =>
                   /\ g[k] \in UpdateStates
                   /\ Followed(g[k].pages, g[k].index, << >>, 1, Visited(w, k + 1, 0), w, sets)}
<1>5. 0 \in T
  <2> DEFINE c == Content(pages, << >>, 1)
             m == [x \in Refs(pages) |-> x]
  <2>1. DOMAIN c = Refs(pages) /\ \A x \in Refs(pages) : c[x] = RowAt(pages, x)
    BY <1>1, ContentOfPages
  <2> HIDE DEF c
  <2>2. m \in Bijection(Refs(pages), Refs(pages))
    BY BijectionFacts
  <2>3. Track(m, c, {}, sets)
    BY <2>1, <2>2 DEF Track
  <2>4. Tracked(c, {}, sets)
    BY <2>3 DEF Tracked
  <2>5. Visited(w, 0 + 1, 0) = {}
    BY <1>1, VisitAll
  <2>6. Backed(index, HeldRows(pages)) => Backed(index, KeyRows(pages, << >>, 1))
    BY BackedMore DEF KeyRows
  <2>7. Stayed(pages, index, {}, w, sets)
    BY DEF Stayed, Settled
  <2>8. Followed(pages, index, << >>, 1, {}, w, sets)
    BY <2>4, <2>6, <2>7 DEF Followed, c
  <2> QED
    BY <1>2, <1>4, <2>5, <2>8
<1>6. ASSUME NEW k \in Nat, k \in T PROVE k + 1 \in T
  <2> DEFINE i == k + 1
  <2> SUFFICES ASSUME i <= n
               PROVE  /\ g[i] \in UpdateStates
                      /\ Followed(g[i].pages, g[i].index, << >>, 1, Visited(w, i + 1, 0), w, sets)
    OBVIOUS
  <2>1. i \in 1..n /\ i - 1 = k
    BY <1>1
  <2>2. /\ g[k] \in UpdateStates
        /\ Followed(g[k].pages, g[k].index, << >>, 1, Visited(w, i, 0), w, sets)
    BY <1>1, <1>6
  <2>3. g[i] = UpdatePage(g[k], i, Matched(w), sets)
    BY <1>4, <2>1
  <2> HIDE DEF i
  <2> QED
    BY <1>1, <2>1, <2>2, <2>3, FollowPage
<1>7. n \in T
  <2> HIDE DEF T
  <2> QED
    BY <1>1, <1>5, <1>6, Induction
<1>8. Visited(w, n + 1, 0) = Matched(w)
  BY <1>1, VisitAll
<1> QED
  BY <1>1, <1>4, <1>7, <1>8

\* Every row goes to a place of its own, and the matched ones are assigned.
Carried(m, ps, qs, w, sets) ==
  /\ m \in Bijection(Refs(ps), Refs(qs))
  /\ \A x \in Refs(ps) :
       RowAt(qs, m[x]) = IF Matches(RowAt(ps, x), w) THEN Assign(RowAt(ps, x), sets)
                         ELSE RowAt(ps, x)

LEMMA UpdateCarries ==
  ASSUME TypeOK, NEW w \in Wheres, NEW sets \in Assignments, Update(sets, w)
  PROVE  /\ PagesReadable(pages') /\ index' \in IndexType
         /\ \E m : Carried(m, pages, pages', w, sets)
<1> DEFINE after == ApplyUpdate(sets, w)
<1>1. after \in UpdateStates /\ Tracked(Content(after.pages, << >>, 1), Matched(w), sets)
  BY FollowAll DEF Followed
<1>2. pages' = after.pages /\ index' = after.index
  BY DEF Update, Commit
<1> HIDE DEF after
<1>3. PagesReadable(after.pages) /\ after.index \in IndexType
  BY <1>1 DEF UpdateStates, InsertStates
<1> DEFINE qs == after.pages
           c  == Content(qs, << >>, 1)
<1>4. DOMAIN c = Refs(qs) /\ \A x \in Refs(qs) : c[x] = RowAt(qs, x)
  BY <1>3, ContentOfPages
<1>5. PICK m : Track(m, c, Matched(w), sets)
  BY <1>1 DEF Tracked
<1> HIDE DEF c, qs
<1>6. /\ m \in Bijection(Refs(pages), Refs(qs))
      /\ \A x \in Matched(w) : c[m[x]] = Assign(RowAt(pages, x), sets)
      /\ \A x \in Refs(pages) \ Matched(w) : m[x] = x /\ c[x] = RowAt(pages, x)
  BY <1>4, <1>5 DEF Track
<1>7. ASSUME NEW x \in Refs(pages)
      PROVE  RowAt(qs, m[x]) = IF Matches(RowAt(pages, x), w) THEN Assign(RowAt(pages, x), sets)
                               ELSE RowAt(pages, x)
  <2>1. x \in Matched(w) <=> Matches(RowAt(pages, x), w)
    BY DEF Matched
  <2>2. m[x] \in Refs(qs)
    BY <1>6, BijectionFacts
  <2> QED
    BY <1>4, <1>6, <2>1, <2>2
<1>8. Carried(m, pages, qs, w, sets)
  BY <1>6, <1>7 DEF Carried
<1> QED
  BY <1>2, <1>3, <1>8 DEF qs

\* The index after an UPDATE.
LEMMA UpdateIndexed ==
  ASSUME TypeOK, Backed(index, HeldRows(pages)), NEW w \in Wheres, NEW sets \in Assignments,
         Update(sets, w)
  PROVE  /\ Backed(index', HeldRows(pages'))
         /\ OneColumnKey /\ Agrees(index, pages) /\ NoDuplicates(pages)
                /\ NoDuplicates(pages') /\ ~Moves(sets, w)
              => Agrees(index', pages')
<1> DEFINE after == ApplyUpdate(sets, w)
<1>1. /\ Backed(after.index, KeyRows(after.pages, << >>, 1))
      /\ ~Moves(sets, w) => Stayed(after.pages, after.index, Matched(w), w, sets)
  BY FollowAll DEF Followed
<1>2. pages' = after.pages /\ index' = after.index
  BY DEF Update, Commit
<1> HIDE DEF after
<1>3. KeyRows(after.pages, << >>, 1) = HeldRows(after.pages)
  BY DEF KeyRows
<1>4. ASSUME OneColumnKey, Agrees(index, pages), NoDuplicates(pages),
             NoDuplicates(pages'), ~Moves(sets, w)
      PROVE  Agrees(after.index, after.pages)
  <2>1. /\ Refs(after.pages) = Refs(pages)
        /\ \A x \in Matched(w) : RowAt(after.pages, x) = Assign(RowAt(pages, x), sets)
        /\ \A x \in Refs(pages) \ Matched(w) : RowAt(after.pages, x) = RowAt(pages, x)
        /\ Settled(w, sets) => Agrees(after.index, after.pages)
    BY <1>1, <1>4 DEF Stayed
  <2>2. \A x \in Refs(pages) : RowAt(after.pages, x) = Final(w, sets, x)
    BY <2>1 DEF Final
  <2>3. \A x, y \in Refs(pages) : x # y => ~SameKey(Final(w, sets, x), Final(w, sets, y))
    BY <1>2, <1>4, <2>1, <2>2 DEF NoDuplicates
  <2> QED
    BY <1>4, <2>1, <2>3 DEF Settled
<1> QED
  BY <1>1, <1>2, <1>3, <1>4, Zenon
-----------------------------------------------------------------------------
(* The invariant, and the keys. *)

LEMMA InitTyped == Init => TypeOK
<1> SUFFICES ASSUME Init PROVE TypeOK
  OBVIOUS
<1>1. pages \in Seq(Page) /\ pages = <<EmptyPage>> /\ EmptyPage \in Page
  BY EmptyReadable DEF Init, Readable
<1>2. \A i \in DOMAIN pages : pages[i] = EmptyPage
  BY <1>1
<1>3. index \in IndexType
  BY DEF Init, EmptyIndex, NoRef, IndexType
<1> QED
  BY <1>1, <1>2, <1>3, EmptyReadable DEF TypeOK, PagesReadable

LEMMA InsertTyped ==
  ASSUME TypeOK, NEW batch \in Batches, Insert(batch)
  PROVE  TypeOK'
<1>1. PICK g : InsertRun(g, batch)
  BY InsertSteps
<1> DEFINE n == Len(batch)
<1>2. FoldLeft(InsertRow, Begun, batch) = g[n] /\ g[n] \in InsertStates
  <2>1. n \in 0..n
    BY BatchRows
  <2> QED
    BY <1>1, <2>1 DEF InsertRun
<1>3. CASE g[n].raised
  <2>1. UNCHANGED vars
    BY <1>2, <1>3, Zenon DEF Insert
  <2> QED
    BY <2>1 DEF vars, TypeOK
<1>4. CASE ~g[n].raised
  <2>1. pages' = g[n].pages /\ index' = g[n].index
    BY <1>2, <1>4, Zenon DEF Insert, Commit
  <2> QED
    BY <1>2, <2>1 DEF InsertStates, TypeOK
<1> QED
  BY <1>3, <1>4

LEMMA DeleteTyped ==
  ASSUME TypeOK, NEW w \in Wheres, Delete(w)
  PROVE  TypeOK'
<1>1. PagesReadable(pages') /\ index' = UnindexRows(index, {RowAt(pages, x) : x \in Matched(w)})
  BY DeleteTakes
<1>2. UnindexRows(index, {RowAt(pages, x) : x \in Matched(w)}) \in IndexType
  BY Unindexed DEF TypeOK
<1> QED
  BY <1>1, <1>2 DEF TypeOK

LEMMA ReopenTyped ==
  ASSUME TypeOK, Reopen
  PROVE  TypeOK'
<1>1. index' \in IndexType
  BY DEF Reopen, EmptyIndex, NoRef, IndexType
<1> QED
  BY <1>1 DEF Reopen, TypeOK

\* Every slot in use holds a row, and the index has a reference or none for
\* every literal.
THEOREM TypeInvariance == Spec => []TypeOK
<1>1. Init => TypeOK
  BY InitTyped
<1>2. TypeOK /\ [Next]_vars => TypeOK'
  <2> SUFFICES ASSUME TypeOK, [Next]_vars PROVE TypeOK'
    OBVIOUS
  <2>1. CASE UNCHANGED vars
    BY <2>1 DEF vars, TypeOK
  <2>2. ASSUME NEW batch \in Batches, Insert(batch) PROVE TypeOK'
    BY <2>2, InsertTyped
  <2>3. ASSUME NEW w \in Wheres, Delete(w) PROVE TypeOK'
    BY <2>3, DeleteTyped
  <2>4. ASSUME NEW sets \in Assignments, NEW w \in Wheres, Update(sets, w) PROVE TypeOK'
    BY <2>4, UpdateCarries DEF TypeOK
  <2>5. CASE Reopen
    BY <2>5, ReopenTyped
  <2> QED
    BY <2>1, <2>2, <2>3, <2>4, <2>5 DEF Next
<1> QED
  BY <1>1, <1>2, PTL DEF Spec

\* No INSERT, DELETE or reopening puts two rows of one key into the table.
THEOREM KeysStayUnique == Spec => KeysUnique
<1>1. TypeOK /\ [Next]_vars =>
        [NoDuplicates(pages) =>
           \/ NoDuplicates(pages')
           \/ \E sets \in Assignments, w \in Wheres : Update(sets, w)]_vars
  <2> SUFFICES ASSUME TypeOK, [Next]_vars, NoDuplicates(pages),
                      ~\E sets \in Assignments, w \in Wheres : Update(sets, w),
                      ~UNCHANGED vars
               PROVE  NoDuplicates(pages')
    OBVIOUS
  <2>1. ASSUME NEW batch \in Batches, Insert(batch) PROVE NoDuplicates(pages')
    BY <2>1, InsertUnique
  <2>2. ASSUME NEW w \in Wheres, Delete(w) PROVE NoDuplicates(pages')
    BY <2>2, DeleteUnique
  <2>3. CASE Reopen
    BY <2>3 DEF Reopen
  <2> QED
    BY <2>1, <2>2, <2>3 DEF Next
<1> QED
  BY <1>1, TypeInvariance, PTL DEF Spec, KeysUnique

\* An index never has a reference for a literal that no row has.
IndexBacked == Backed(index, HeldRows(pages))

THEOREM EntriesBacked == Spec => [](TypeOK /\ IndexBacked)
<1>1. Init => IndexBacked
  <2> SUFFICES ASSUME Init PROVE IndexBacked
    OBVIOUS
  <2>1. index = EmptyIndex
    BY DEF Init
  <2> QED
    BY <2>1 DEF IndexBacked, Backed, EmptyIndex
<1>2. TypeOK /\ IndexBacked /\ [Next]_vars => IndexBacked'
  <2> SUFFICES ASSUME TypeOK, IndexBacked, [Next]_vars
               PROVE  Backed(index', HeldRows(pages'))
    BY DEF IndexBacked
  <2>0. Backed(index, HeldRows(pages))
    BY DEF IndexBacked
  <2>1. CASE UNCHANGED vars
    BY <2>0, <2>1, Zenon DEF vars
  <2>2. ASSUME NEW batch \in Batches, Insert(batch) PROVE Backed(index', HeldRows(pages'))
    BY <2>0, <2>2, InsertIndexed
  <2>3. ASSUME NEW w \in Wheres, Delete(w) PROVE Backed(index', HeldRows(pages'))
    BY <2>0, <2>3, DeleteIndexed
  <2>4. ASSUME NEW sets \in Assignments, NEW w \in Wheres, Update(sets, w)
        PROVE  Backed(index', HeldRows(pages'))
    BY <2>0, <2>4, UpdateIndexed
  <2>5. CASE Reopen
    BY <2>5 DEF Reopen, Backed, EmptyIndex
  <2> QED
    BY <2>1, <2>2, <2>3, <2>4, <2>5 DEF Next
<1> QED
  BY <1>1, <1>2, TypeInvariance, PTL DEF Spec

LEMMA AgreesNow == IndexAgrees <=> Agrees(index, pages)
BY AgreesIs DEF IndexAgrees, IndexSelect, ScanSelect

LEMMA AgreesNext == IndexAgrees' <=> Agrees(index', pages')
BY AgreesIs DEF IndexAgrees, IndexSelect, ScanSelect

\* With keys of one column, an index that finds the rows a scan finds goes on
\* doing so, except for a reopening, an UPDATE that moves a row and an UPDATE
\* that gives two rows one key.
THEOREM IndexKeepsUp ==
  ASSUME OneColumnKey
  PROVE  Spec => IndexKept
<1>1. TypeOK /\ IndexBacked /\ [Next]_vars =>
        [IndexAgrees /\ NoDuplicates(pages) =>
           \/ IndexAgrees'
           \/ Reopen
           \/ ~NoDuplicates(pages')
           \/ \E sets \in Assignments, w \in Wheres : Moves(sets, w) /\ Update(sets, w)]_vars
  <2> SUFFICES ASSUME TypeOK, IndexBacked, [Next]_vars, IndexAgrees, NoDuplicates(pages),
                      ~Reopen, NoDuplicates(pages'),
                      ~\E sets \in Assignments, w \in Wheres : Moves(sets, w) /\ Update(sets, w),
                      ~UNCHANGED vars
               PROVE  Agrees(index', pages')
    BY AgreesNext
  <2>0. Backed(index, HeldRows(pages)) /\ Agrees(index, pages)
    BY AgreesNow DEF IndexBacked
  <2>1. ASSUME NEW batch \in Batches, Insert(batch) PROVE Agrees(index', pages')
    BY <2>0, <2>1, InsertIndexed
  <2>2. ASSUME NEW w \in Wheres, Delete(w) PROVE Agrees(index', pages')
    BY <2>0, <2>2, DeleteIndexed
  <2>3. ASSUME NEW sets \in Assignments, NEW w \in Wheres, Update(sets, w)
        PROVE  Agrees(index', pages')
    BY <2>0, <2>3, UpdateIndexed
  <2> QED
    BY <2>1, <2>2, <2>3 DEF Next
<1> QED
  BY <1>1, EntriesBacked, PTL DEF Spec, IndexKept
-----------------------------------------------------------------------------
(* The rows as a bag. *)

LEMMA RefsFinite ==
  ASSUME NEW ps, PagesReadable(ps)
  PROVE  IsFiniteSet(Refs(ps))
<1> DEFINE D == DOMAIN ps
           S == {{i} \X Live(ps[i]) : i \in D}
           f == [i \in D |-> {i} \X Live(ps[i])]
<1>1. D = 1..Len(ps) /\ Len(ps) \in Nat
  BY DEF PagesReadable
<1>2. IsFiniteSet(D)
  BY <1>1, FS_Interval
<1>3. f \in Surjection(D, S)
  BY DEF Surjection
<1>4. IsFiniteSet(S)
  <2> HIDE DEF f, S, D
  <2> QED
    BY <1>2, <1>3, FS_Surjection
<1>5. ASSUME NEW i \in D PROVE IsFiniteSet({i} \X Live(ps[i]))
  <2>1. ps[i] \in Page
    BY DEF PagesReadable, Readable
  <2>2. Len(ps[i].slots) \in Nat /\ Live(ps[i]) \subseteq 1..Len(ps[i].slots)
    BY <2>1, PageType, LivePlaces
  <2>3. IsFiniteSet(1..Len(ps[i].slots))
    BY <2>2, FS_Interval
  <2>4. IsFiniteSet(Live(ps[i]))
    BY <2>2, <2>3, FS_Subset
  <2>5. IsFiniteSet({i})
    BY FS_Singleton
  <2> QED
    BY <2>4, <2>5, FS_Product
<1>6. \A T \in S : IsFiniteSet(T)
  BY <1>5
<1>7. Refs(ps) = UNION S
  BY DEF Refs
<1> HIDE DEF S
<1> QED
  BY <1>4, <1>6, <1>7, FS_UNION

\* The references of one row.
At(ps, r) == {x \in Refs(ps) : RowAt(ps, x) = r}

LEMMA BagCounts ==
  ASSUME NEW ps, PagesReadable(ps)
  PROVE  /\ \A r \in Rows : Bag(ps)[r] = Cardinality(At(ps, r))
         /\ \A r : IsFiniteSet(At(ps, r)) /\ Cardinality(At(ps, r)) \in Nat
         /\ Bag(ps) \in [Rows -> Nat]
<1>1. ASSUME NEW r PROVE IsFiniteSet(At(ps, r)) /\ Cardinality(At(ps, r)) \in Nat
  <2>1. At(ps, r) \in SUBSET Refs(ps)
    BY DEF At
  <2>2. IsFiniteSet(At(ps, r))
    BY <2>1, RefsFinite, FS_Subset
  <2> QED
    BY <2>2, FS_CardinalityType
<1>2. \A r \in Rows : Bag(ps)[r] = Cardinality(At(ps, r))
  BY DEF Bag, At
<1>3. Bag(ps) = [r \in Rows |-> Bag(ps)[r]]
  BY DEF Bag
<1> QED
  BY <1>1, <1>2, <1>3

LEMMA BagEqual ==
  ASSUME NEW b, NEW c, b = [r \in Rows |-> b[r]], c = [r \in Rows |-> c[r]],
         \A r \in Rows : b[r] = c[r]
  PROVE  b = c
OBVIOUS

LEMMA BagAdded ==
  ASSUME NEW ps, PagesReadable(ps), NEW qs, PagesReadable(qs), NEW ref, NEW r \in Rows,
         Added(ps, qs, ref, r)
  PROVE  Bag(qs) = [Bag(ps) EXCEPT ![r] = @ + 1]
<1>1. /\ ref \notin Refs(ps)
      /\ Refs(qs) = Refs(ps) \cup {ref}
      /\ RowAt(qs, ref) = r
      /\ \A x \in Refs(ps) : RowAt(qs, x) = RowAt(ps, x)
  BY DEF Added
<1>2. At(qs, r) = At(ps, r) \cup {ref} /\ ref \notin At(ps, r)
  BY <1>1 DEF At
<1>3. Cardinality(At(qs, r)) = Cardinality(At(ps, r)) + 1
  BY <1>2, BagCounts, FS_AddElement
<1>4. \A s \in Rows : s # r => At(qs, s) = At(ps, s)
  BY <1>1 DEF At
<1> DEFINE b == [Bag(ps) EXCEPT ![r] = @ + 1]
<1>5. Bag(ps) \in [Rows -> Nat] /\ Bag(qs) \in [Rows -> Nat]
  BY BagCounts
<1>6. \A s \in Rows : b[s] = Bag(qs)[s]
  <2>1. b[r] = Bag(ps)[r] + 1 /\ \A s \in Rows : s # r => b[s] = Bag(ps)[s]
    BY <1>5
  <2> HIDE DEF b
  <2> QED
    BY <1>3, <1>4, <2>1, BagCounts
<1>7. b = [s \in Rows |-> b[s]] /\ Bag(qs) = [s \in Rows |-> Bag(qs)[s]]
  BY <1>5
<1> HIDE DEF b
<1>8. b = Bag(qs)
  BY <1>6, <1>7, BagEqual
<1> QED
  BY <1>8 DEF b

LEMMA InitAbstract == Init => Abstract!Init
<1> SUFFICES ASSUME Init PROVE Abstract!Init
  OBVIOUS
<1>1. Refs(pages) = {}
  BY EmptyReadable DEF Init, Refs
<1>2. \A r \in Rows : Bag(pages)[r] = 0
  BY <1>1, FS_EmptySet DEF Bag
<1>3. Bag(pages) = [r \in Rows |-> Bag(pages)[r]]
  BY DEF Bag
<1>4. Bag(pages) = [r \in Rows |-> 0]
  BY <1>2, <1>3
<1> QED
  BY <1>4 DEF Abstract!Init, Abstract!Empty

LEMMA DeleteAbstract ==
  ASSUME TypeOK, NEW w \in Wheres, Delete(w)
  PROVE  Abstract!Delete(w)
<1>1. /\ PagesReadable(pages) /\ PagesReadable(pages')
      /\ Refs(pages') = Refs(pages) \ Matched(w)
      /\ \A x \in Refs(pages') : RowAt(pages', x) = RowAt(pages, x)
  BY DeleteTakes DEF TypeOK
<1>2. ASSUME NEW r \in Rows
      PROVE  Bag(pages')[r] = IF Matches(r, w) THEN 0 ELSE Bag(pages)[r]
  <2>1. Bag(pages')[r] = Cardinality(At(pages', r)) /\ Bag(pages)[r] = Cardinality(At(pages, r))
    BY <1>1, BagCounts
  <2>2. CASE Matches(r, w)
    <3>1. At(pages', r) = {}
      BY <1>1, <2>2 DEF At, Matched
    <3> QED
      BY <2>1, <2>2, <3>1, FS_EmptySet
  <2>3. CASE ~Matches(r, w)
    <3>1. At(pages', r) = At(pages, r)
      BY <1>1, <2>3 DEF At, Matched
    <3> QED
      BY <2>1, <2>3, <3>1
  <2> QED
    BY <2>2, <2>3
<1>3. Bag(pages') = [r \in Rows |-> Bag(pages')[r]]
  BY DEF Bag
<1>4. Bag(pages') = [r \in Rows |-> IF Matches(r, w) THEN 0 ELSE Bag(pages)[r]]
  BY <1>2, <1>3
<1> QED
  BY <1>4 DEF Abstract!Delete, Bag, Abstract!Matches, Matches

\* After k rows of a batch that is not rejected the table is what the
\* abstract one is.
LEMMA BatchBags ==
  ASSUME TypeOK, NEW batch \in Batches, NEW g, InsertRun(g, batch), ~g[Len(batch)].raised
  PROVE  \A k \in 0..Len(batch) : Abstract!AfterBatch(batch)[k] = Bag(g[k].pages)
<1> DEFINE n == Len(batch)
           Code(f) == f = [i \in 0..n |->
                             IF i = 0 THEN Bag(pages) ELSE Abstract!Add(f[i - 1], batch[i])]
           a == CHOOSE f : Code(f)
           f == [k \in 0..n |-> Bag(g[k].pages)]
<1>1. Abstract!AfterBatch(batch) = a
  BY Zenon DEF Abstract!AfterBatch
<1>2. n \in Nat /\ \A k \in 1..n : batch[k] \in Rows
  BY BatchRows
<1>3. g[0].pages = pages
  BY DEF InsertRun, Begun
<1>4. ASSUME NEW k \in 1..n
      PROVE  Bag(g[k].pages) = Abstract!Add(Bag(g[k - 1].pages), batch[k])
  <2>1. k \in 0..n /\ k - 1 \in 0..n
    BY <1>2
  <2>2. /\ g[k] = InsertRow(g[k - 1], batch[k]) /\ ~g[k].raised /\ batch[k] \in Rows
        /\ g[k - 1] \in InsertStates /\ g[k] \in InsertStates
    BY <1>2, <2>1, NoneRaised DEF InsertRun
  <2>3. PICK ref \in Nat \X Nat : Added(g[k - 1].pages, g[k].pages, ref, batch[k])
    BY <2>2, InsertRowAdds
  <2>4. PagesReadable(g[k - 1].pages) /\ PagesReadable(g[k].pages)
    BY <2>2 DEF InsertStates
  <2> QED
    BY <2>2, <2>3, <2>4, BagAdded DEF Abstract!Add
<1>5. Code(f)
  <2>1. \A k \in 0..n : f[k] = Bag(g[k].pages)
    OBVIOUS
  <2>2. ASSUME NEW k \in 0..n
        PROVE  f[k] = IF k = 0 THEN Bag(pages) ELSE Abstract!Add(f[k - 1], batch[k])
    <3>1. CASE k = 0
      BY <1>3, <3>1
    <3>2. CASE k # 0
      <4>1. k \in 1..n /\ k - 1 \in 0..n
        BY <1>2, <3>2
      <4>2. f[k - 1] = Bag(g[k - 1].pages) /\ f[k] = Bag(g[k].pages)
        BY <4>1
      <4> HIDE DEF f
      <4> QED
        BY <1>4, <3>2, <4>1, <4>2
    <3> QED
      BY <3>1, <3>2
  <2> QED
    BY <2>2, Zenon
<1>6. Code(a)
  <2> HIDE DEF Code, f
  <2> QED
    BY <1>5, Zenon
<1> HIDE DEF a
<1>7. \A k \in 0..n : a[k] = IF k = 0 THEN Bag(pages) ELSE Abstract!Add(a[k - 1], batch[k])
  BY <1>6, Zenon
<1> HIDE DEF Code
<1> DEFINE T == {k \in Nat : k <= n => a[k] = Bag(g[k].pages)}
<1>8. 0 \in T
  <2>1. 0 \in 0..n
    BY <1>2
  <2> QED
    BY <1>3, <1>7, <2>1
<1>9. ASSUME NEW k \in Nat, k \in T PROVE k + 1 \in T
  <2> SUFFICES ASSUME k + 1 <= n PROVE a[k + 1] = Bag(g[k + 1].pages)
    OBVIOUS
  <2>1. k + 1 \in 1..n /\ k + 1 \in 0..n /\ (k + 1) - 1 = k /\ k + 1 # 0 /\ a[k] = Bag(g[k].pages)
    BY <1>2, <1>9
  <2>2. a[k + 1] = Abstract!Add(a[k], batch[k + 1])
    BY <1>7, <2>1
  <2>3. Bag(g[k + 1].pages) = Abstract!Add(Bag(g[k].pages), batch[k + 1])
    BY <1>4, <2>1
  <2> QED
    BY <2>1, <2>2, <2>3
<1>10. Nat \subseteq T
  <2> HIDE DEF T
  <2> QED
    BY <1>8, <1>9, Induction
<1> QED
  BY <1>1, <1>2, <1>10

LEMMA InsertAbstract ==
  ASSUME TypeOK, NEW batch \in Batches, Insert(batch)
  PROVE  Abstract!Insert(batch) \/ Bag(pages') = Bag(pages)
<1>1. PICK g : InsertRun(g, batch)
  BY InsertSteps
<1> DEFINE n == Len(batch)
<1>2. CASE g[n].raised
  <2>1. pages' = pages
    BY <1>1, <1>2, Zenon DEF Insert, InsertRun, vars
  <2> QED
    BY <2>1
<1>3. CASE ~g[n].raised
  <2>1. n \in Nat /\ n \in 0..n /\ \A k \in 1..n : batch[k] \in Rows
    BY BatchRows
  <2>2. \A k \in 0..n : Abstract!AfterBatch(batch)[k] = Bag(g[k].pages)
    BY <1>1, <1>3, BatchBags
  <2>3. ASSUME NEW k \in 1..n
        PROVE  ~Abstract!Rejected(Abstract!AfterBatch(batch)[k - 1], batch[k])
    <3>1. k \in 0..n /\ k - 1 \in 0..n
      BY <2>1
    <3>2. /\ g[k] = InsertRow(g[k - 1], batch[k]) /\ ~g[k].raised /\ batch[k] \in Rows
          /\ g[k - 1] \in InsertStates
      BY <1>1, <1>3, <2>1, <3>1, NoneRaised DEF InsertRun
    <3> DEFINE ps == g[k - 1].pages
    <3>3. PagesReadable(ps)
      BY <3>2 DEF InsertStates
    <3>4. ~NullViolation(batch[k]) /\ ~IsDuplicate(ps, batch[k])
      BY <3>2, InsertRowAdds
    <3>5. Abstract!AfterBatch(batch)[k - 1] = Bag(ps)
      BY <2>2, <3>1
    <3> HIDE DEF ps
    <3>6. ASSUME NEW s \in Rows, Bag(ps)[s] > 0 PROVE ~SameKey(batch[k], s)
      <4>1. At(ps, s) # {}
        BY <3>3, <3>6, BagCounts, FS_EmptySet
      <4>2. PICK x \in Refs(ps) : RowAt(ps, x) = s
        BY <4>1 DEF At
      <4> QED
        BY <3>4, <4>2 DEF IsDuplicate
    <3>7. /\ ~Abstract!NullViolation(batch[k])
          /\ \A s \in Rows : Bag(ps)[s] > 0 => ~Abstract!SameKey(batch[k], s)
      BY <3>4, <3>6 DEF Abstract!NullViolation, NullViolation, Abstract!SameKey, SameKey,
           Abstract!UniqueGroups, UniqueGroups
    <3> QED
      BY <3>5, <3>7 DEF Abstract!Rejected
  <2>4. pages' = g[n].pages
    BY <1>1, <1>3, Zenon DEF Insert, InsertRun, Commit
  <2>5. Bag(pages') = Abstract!AfterBatch(batch)[n]
    BY <2>1, <2>2, <2>4
  <2> QED
    BY <2>3, <2>5 DEF Abstract!Insert
<1> QED
  BY <1>2, <1>3

\* MapThenSumSet of a bag over a set of rows.
Summed(b, S) ==
  LET iter[t \in SUBSET S] ==
        IF t = {} THEN 0 ELSE LET x == CHOOSE x \in t : TRUE IN b[x] + iter[t \ {x}]
  IN iter[S]

\* c has the sum of every subset, whichever row is taken from it first.
Sums(c, b, S) ==
  /\ c = [t \in SUBSET S |-> c[t]]
  /\ c[{}] = 0
  /\ \A t \in SUBSET S, x \in S : x \in t => c[t] = b[x] + c[t \ {x}]

LEMMA SummedIs ==
  ASSUME NEW S, IsFiniteSet(S), NEW b, NEW c, Sums(c, b, S)
  PROVE  Summed(b, S) = c[S]
<1> DEFINE pick(t) == CHOOSE x \in t : TRUE
           Code(f) == f = [t \in SUBSET S |-> IF t = {} THEN 0 ELSE b[pick(t)] + f[t \ {pick(t)}]]
           it == CHOOSE f : Code(f)
<1>1. Summed(b, S) = it[S]
  BY Zenon DEF Summed
<1>2. \A t \in SUBSET S : t # {} => pick(t) \in t /\ pick(t) \in S
  OBVIOUS
<1>0. /\ c = [t \in SUBSET S |-> c[t]] /\ c[{}] = 0
      /\ \A t \in SUBSET S, x \in S : x \in t => c[t] = b[x] + c[t \ {x}]
  BY DEF Sums
<1> HIDE DEF pick
<1>3. \A t \in SUBSET S : c[t] = IF t = {} THEN 0 ELSE b[pick(t)] + c[t \ {pick(t)}]
  BY <1>0, <1>2
<1>4. Code(c)
  BY <1>0, <1>3, Zenon
<1>5. Code(it)
  <2> HIDE DEF Code
  <2> QED
    BY <1>4, Zenon
<1> HIDE DEF it
<1>6. \A t \in SUBSET S : it[t] = IF t = {} THEN 0 ELSE b[pick(t)] + it[t \ {pick(t)}]
  BY <1>5, Zenon
<1> HIDE DEF Code
<1> DEFINE T == {k \in Nat : \A t \in SUBSET S : Cardinality(t) = k => it[t] = c[t]}
<1>7. \A t \in SUBSET S : IsFiniteSet(t) /\ Cardinality(t) \in Nat
  BY FS_Subset, FS_CardinalityType
<1>8. 0 \in T
  <2> SUFFICES ASSUME NEW t \in SUBSET S, Cardinality(t) = 0 PROVE it[t] = c[t]
    OBVIOUS
  <2>1. t = {}
    BY <1>7, FS_EmptySet
  <2> QED
    BY <1>3, <1>6, <2>1
<1>9. ASSUME NEW k \in Nat, k \in T PROVE k + 1 \in T
  <2> DEFINE i == k + 1
  <2>0. i \in Nat /\ i # 0 /\ i - 1 = k
    OBVIOUS
  <2> HIDE DEF i
  <2> SUFFICES ASSUME NEW t \in SUBSET S, Cardinality(t) = i PROVE it[t] = c[t]
    BY <2>0 DEF i
  <2> DEFINE x == pick(t)
             u == t \ {x}
  <2>1. t # {}
    BY <2>0, FS_EmptySet, Zenon
  <2>2. x \in t /\ u \in SUBSET S
    BY <1>2, <2>1
  <2>3. Cardinality(u) = k
    <3>1. IsFiniteSet(t)
      BY <1>7
    <3> HIDE DEF x
    <3>2. Cardinality(u) = Cardinality(t) - 1
      BY <2>2, <3>1, FS_RemoveElement
    <3> QED
      BY <2>0, <3>2
  <2>4. it[u] = c[u]
    BY <1>9, <2>2, <2>3
  <2>5. it[t] = b[x] + it[u] /\ c[t] = b[x] + c[u]
    BY <1>3, <1>6, <2>1
  <2> QED
    BY <2>4, <2>5
<1>10. Nat \subseteq T
  <2> HIDE DEF T
  <2> QED
    BY <1>8, <1>9, Induction
<1> QED
  BY <1>1, <1>7, <1>10

\* The references of the rows of a set.
AtAny(ps, S) == {x \in Refs(ps) : RowAt(ps, x) \in S}

LEMMA RowsSummed ==
  ASSUME NEW ps, PagesReadable(ps), NEW S \in SUBSET Rows
  PROVE  Summed(Bag(ps), S) = Cardinality(AtAny(ps, S))
<1> DEFINE c == [t \in SUBSET S |-> Cardinality(AtAny(ps, t))]
<1>1. IsFiniteSet(S)
  BY TableStoreAssumption, FS_Subset
<1>2. c[{}] = 0
  <2>1. AtAny(ps, {}) = {}
    BY DEF AtAny
  <2> QED
    BY <2>1, FS_EmptySet
<1>3. ASSUME NEW t \in SUBSET S, NEW s \in S, s \in t
      PROVE  c[t] = Bag(ps)[s] + c[t \ {s}]
  <2>1. t \ {s} \in SUBSET S /\ c[t] = Cardinality(AtAny(ps, t))
        /\ c[t \ {s}] = Cardinality(AtAny(ps, t \ {s}))
    OBVIOUS
  <2> HIDE DEF c
  <2>2. AtAny(ps, t) = AtAny(ps, t \ {s}) \cup At(ps, s)
    BY <1>3 DEF AtAny, At
  <2>3. AtAny(ps, t \ {s}) \cap At(ps, s) = {}
    BY DEF AtAny, At
  <2>4. AtAny(ps, t \ {s}) \in SUBSET Refs(ps)
    BY DEF AtAny
  <2>5. IsFiniteSet(AtAny(ps, t \ {s})) /\ IsFiniteSet(At(ps, s))
    BY <2>4, RefsFinite, FS_Subset, BagCounts
  <2>6. /\ Cardinality(AtAny(ps, t \ {s})) \in Nat /\ Cardinality(At(ps, s)) \in Nat
        /\ Cardinality({}) = 0
    BY <2>5, FS_CardinalityType, FS_EmptySet
  <2>7. Cardinality(AtAny(ps, t)) = Cardinality(AtAny(ps, t \ {s})) + Cardinality(At(ps, s))
                                    - Cardinality(AtAny(ps, t \ {s}) \cap At(ps, s))
    BY <2>2, <2>5, FS_Union
  <2>8. Bag(ps)[s] = Cardinality(At(ps, s))
    BY BagCounts
  <2>9. Cardinality(AtAny(ps, t \ {s}) \cap At(ps, s)) = 0
    BY <2>3, <2>6, Zenon
  <2> QED
    BY <2>1, <2>6, <2>7, <2>8, <2>9
<1>4. c = [t \in SUBSET S |-> c[t]] /\ S \in SUBSET S /\ c[S] = Cardinality(AtAny(ps, S))
  OBVIOUS
<1> HIDE DEF c
<1>5. Sums(c, Bag(ps), S)
  BY <1>2, <1>3, <1>4, Zenon DEF Sums
<1>6. Summed(Bag(ps), S) = c[S]
  BY <1>1, <1>5, SummedIs
<1> QED
  BY <1>4, <1>6

\* The rows that become r: those that are r and stay, and those assigned so.
LEMMA CarriedCounts ==
  ASSUME NEW ps, PagesReadable(ps), NEW qs, PagesReadable(qs), NEW w, NEW sets,
         NEW m, Carried(m, ps, qs, w, sets), NEW r \in Rows,
         NEW from, from = {s \in Rows : Matches(s, w) /\ Assign(s, sets) = r}
  PROVE  Bag(qs)[r] = (IF Matches(r, w) THEN 0 ELSE Bag(ps)[r]) + Summed(Bag(ps), from)
<1> DEFINE stay == {x \in Refs(ps) : RowAt(ps, x) = r /\ ~Matches(r, w)}
           come == AtAny(ps, from)
           both == stay \cup come
<1>1. /\ m \in [Refs(ps) -> Refs(qs)]
      /\ \A a, b \in Refs(ps) : m[a] = m[b] => a = b
      /\ \A t \in Refs(qs) : \E s \in Refs(ps) : m[s] = t
  BY BijectionFacts DEF Carried
<1>2. \A x \in Refs(ps) : RowAt(ps, x) \in Rows
  BY RefsType
<1>3. ASSUME NEW x \in Refs(ps) PROVE RowAt(qs, m[x]) = r <=> x \in both
  <2>1. RowAt(qs, m[x]) = IF Matches(RowAt(ps, x), w) THEN Assign(RowAt(ps, x), sets)
                          ELSE RowAt(ps, x)
    BY DEF Carried
  <2>2. x \in come <=> Matches(RowAt(ps, x), w) /\ Assign(RowAt(ps, x), sets) = r
    BY <1>2 DEF AtAny
  <2>3. x \in stay <=> RowAt(ps, x) = r /\ ~Matches(RowAt(ps, x), w)
    OBVIOUS
  <2> QED
    BY <2>1, <2>2, <2>3
<1>4. stay \in SUBSET Refs(ps) /\ come \in SUBSET Refs(ps) /\ both \in SUBSET Refs(ps)
      /\ stay \cap come = {}
  BY DEF AtAny
<1>5. Summed(Bag(ps), from) = Cardinality(come)
  <2>1. from \in SUBSET Rows
    OBVIOUS
  <2> QED
    BY <2>1, RowsSummed
<1>6. Cardinality(stay) = IF Matches(r, w) THEN 0 ELSE Bag(ps)[r]
  <2>1. CASE Matches(r, w)
    <3>1. stay = {}
      BY <2>1
    <3> QED
      BY <2>1, <3>1, FS_EmptySet
  <2>2. CASE ~Matches(r, w)
    <3>1. stay = At(ps, r)
      BY <2>2 DEF At
    <3> QED
      BY <2>2, <3>1, BagCounts
  <2> QED
    BY <2>1, <2>2
<1>7. At(qs, r) = {m[x] : x \in both}
  BY <1>1, <1>3, <1>4 DEF At
<1> HIDE DEF stay, come
<1>8. Cardinality(At(qs, r)) = Cardinality(both)
  <2> DEFINE h == [x \in both |-> m[x]]
  <2>1. \A x \in both : m[x] \in At(qs, r)
    BY <1>7
  <2>2. h \in [both -> At(qs, r)] /\ \A x \in both : h[x] = m[x]
    BY <2>1
  <2>3. /\ \A a, b \in both : h[a] = h[b] => a = b
        /\ \A t \in At(qs, r) : \E s \in both : h[s] = t
    BY <1>1, <1>4, <1>7, <2>2
  <2> HIDE DEF h
  <2>4. h \in Bijection(both, At(qs, r))
    BY <2>2, <2>3, BijectionFacts
  <2>5. ExistsBijection(both, At(qs, r))
    BY <2>4 DEF ExistsBijection
  <2>6. IsFiniteSet(both)
    BY <1>4, RefsFinite, FS_Subset
  <2> QED
    BY <2>5, <2>6, FS_Bijection
<1>9. IsFiniteSet(stay) /\ IsFiniteSet(come)
  BY <1>4, RefsFinite, FS_Subset
<1>10. Cardinality(stay) \in Nat /\ Cardinality(come) \in Nat /\ Cardinality({}) = 0
  BY <1>9, FS_CardinalityType, FS_EmptySet
<1>11. Cardinality(both) = Cardinality(stay) + Cardinality(come) - Cardinality(stay \cap come)
  BY <1>9, FS_Union
<1>12. Bag(qs)[r] = Cardinality(At(qs, r))
  BY BagCounts
<1>13. Cardinality(stay \cap come) = 0
  BY <1>4, <1>10, Zenon
<1>14. Cardinality(both) = Cardinality(stay) + Cardinality(come)
  BY <1>10, <1>11, <1>13
<1> HIDE DEF both
<1>15. Bag(qs)[r] = Cardinality(stay) + Summed(Bag(ps), from)
  BY <1>5, <1>8, <1>12, <1>14
<1> QED
  BY <1>6, <1>15, Zenon

LEMMA UpdateAbstract ==
  ASSUME TypeOK, NEW w \in Wheres, NEW sets \in Assignments, Update(sets, w)
  PROVE  Abstract!Update(sets, w)
<1> DEFINE from(r) == {s \in Rows : Matches(s, w) /\ Assign(s, sets) = r}
<1>1. PagesReadable(pages) /\ PagesReadable(pages')
  BY UpdateCarries DEF TypeOK
<1>2. PICK m : Carried(m, pages, pages', w, sets)
  BY UpdateCarries
<1>3. ASSUME NEW r \in Rows
      PROVE  Bag(pages')[r] = (IF Matches(r, w) THEN 0 ELSE Bag(pages)[r])
                                + Summed(Bag(pages), from(r))
  BY <1>1, <1>2, CarriedCounts
<1>4. Bag(pages') = [r \in Rows |-> Bag(pages')[r]]
  BY DEF Bag
<1> HIDE DEF from
<1>5. Bag(pages') = [r \in Rows |-> (IF Matches(r, w) THEN 0 ELSE Bag(pages)[r])
                                      + Summed(Bag(pages), from(r))]
  BY <1>3, <1>4, Zenon
<1> QED
  BY <1>5, Zenon DEF from, Summed, Abstract!Update, Abstract!MapThenSumSet, Abstract!MapThenFoldSet,
     Abstract!Matches, Matches, Abstract!Assign, Assign
-----------------------------------------------------------------------------
(* The refinement. *)

LEMMA StepAbstract ==
  ASSUME TypeOK, Next
  PROVE  Abstract!Next \/ Bag(pages') = Bag(pages)
<1>1. ASSUME NEW batch \in Batches, Insert(batch)
      PROVE  Abstract!Next \/ Bag(pages') = Bag(pages)
  BY <1>1, InsertAbstract DEF Abstract!Next
<1>2. ASSUME NEW w \in Wheres, Delete(w) PROVE Abstract!Next
  BY <1>2, DeleteAbstract DEF Abstract!Next
<1>3. ASSUME NEW sets \in Assignments, NEW w \in Wheres, Update(sets, w) PROVE Abstract!Next
  BY <1>3, UpdateAbstract DEF Abstract!Next
<1>4. CASE Reopen
  BY <1>4 DEF Reopen
<1> QED
  BY <1>1, <1>2, <1>3, <1>4 DEF Next

\* The pages, scanned, are a table: INSERT adds the rows of a batch it does not
\* reject, DELETE takes the matching rows away, UPDATE assigns each of them
\* once, and reopening changes nothing.
THEOREM RefinesTable == Spec => ImplementsTable
<1>1. Init => Abstract!Init
  BY InitAbstract
<1>2. TypeOK /\ [Next]_vars => [Abstract!Next]_(Bag(pages))
  <2>1. ASSUME TypeOK, Next PROVE Abstract!Next \/ Bag(pages') = Bag(pages)
    BY <2>1, StepAbstract
  <2>2. ASSUME UNCHANGED vars PROVE Bag(pages') = Bag(pages)
    BY <2>2 DEF vars
  <2> QED
    BY <2>1, <2>2
<1> QED
  BY <1>1, <1>2, TypeInvariance, PTL DEF Spec, ImplementsTable, Abstract!Spec
=============================================================================
