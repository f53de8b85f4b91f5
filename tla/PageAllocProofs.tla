--------------------------- MODULE PageAllocProofs --------------------------
(***************************************************************************)
(* A page has one owner, for any tables, any size of file and any sequence *)
(* of statements (pager.py, executor.py, _executor_drop.py).               *)
(*                                                                         *)
(* The invariant PageInv looks at two outcomes at once.  E is the free     *)
(* list the main file has, what a rollback would leave; F is the one with  *)
(* the page buffer written over it, what a commit would leave.  alloc_page *)
(* takes its pages from E, DROP TABLE adds its pages to F, and the tables  *)
(* of the snapshot must stay clear of the one, those of the running        *)
(* transaction of the other.                                               *)
(***************************************************************************)
EXTENDS PageAlloc, FiniteSetTheorems, FunctionTheorems, WellFoundedInduction, TLAPS

-----------------------------------------------------------------------------
(* Naturals. *)

LEMMA LeastElement ==
  ASSUME NEW T, T \subseteq Nat, T # {}
  PROVE  \E x \in T : \A y \in T : x <= y
<1>1. PICK x \in T : \A y \in T : ~(<<y, x>> \in OpToRel(<, Nat))
  BY NatLessThanWellFounded, WFMin
<1>2. ASSUME NEW y \in T PROVE x <= y
  <2>1. x \in Nat /\ y \in Nat /\ <<y, x>> \in Nat \X Nat
    OBVIOUS
  <2>2. y < x => <<y, x>> \in OpToRel(<, Nat)
    BY <2>1 DEF OpToRel
  <2>3. ~(y < x)
    BY <1>1, <2>2, Zenon
  <2> QED
    BY <2>1, <2>3
<1> QED
  BY <1>2

\* Induction, for a property given as the set of numbers that have it.
LEMMA Induction ==
  ASSUME NEW P, 0 \in P, \A n \in Nat : n \in P => n + 1 \in P
  PROVE  Nat \subseteq P
<1> SUFFICES ASSUME Nat \ P # {} PROVE FALSE
  OBVIOUS
<1>1. PICK x \in Nat \ P : \A y \in Nat \ P : x <= y
  BY LeastElement
<1>2. x # 0 /\ x - 1 \in Nat /\ (x - 1) + 1 = x
  BY <1>1
<1>3. x - 1 \in P
  BY <1>1, <1>2
<1> QED
  BY <1>1, <1>2, <1>3
-----------------------------------------------------------------------------
(* The free list. *)

\* Page 0 of the file image f heads a list, through the pages of F and no
\* others, that ends.  s is the list from its end: s[0] is the null link.
Threads(s, n, f, F) ==
  /\ s \in [0..n -> F \cup {0}]
  /\ s[0] = 0 /\ s[n] = f[0]
  /\ \A i \in 1..n : s[i] \in F /\ f[s[i]] = s[i - 1]
  /\ \A i, j \in 0..n : s[i] = s[j] => i = j
  /\ \A p \in F : \E i \in 1..n : s[i] = p

Lists(f, F) ==
  /\ F \subseteq Pages
  /\ \E n \in Nat : \E s : Threads(s, n, f, F)

LEMMA PageFacts ==
  /\ MaxPages \in Nat /\ MaxPages >= 1
  /\ 0 \notin Pages /\ Pages \subseteq Nat /\ Pages \subseteq 0..MaxPages
  /\ Bytes \in Nat /\ Bytes \notin Pages
BY PageAllocAssumption DEF Pages, Bytes

LEMMA EmptyList ==
  ASSUME NEW f, f[0] = 0
  PROVE  Lists(f, {})
<1> DEFINE s == [i \in 0..0 |-> 0]
<1>1. s \in [0..0 -> {} \cup {0}]
  OBVIOUS
<1>2. Threads(s, 0, f, {})
  BY <1>1 DEF Threads
<1> QED
  BY <1>1, <1>2 DEF Lists

\* A head of 0 is the empty list.
LEMMA HeadNull ==
  ASSUME NEW f, NEW F, Lists(f, F)
  PROVE  /\ f[0] = 0 => F = {}
         /\ f[0] # 0 => f[0] \in F
<1>0. PICK n \in Nat : \E s : Threads(s, n, f, F)
  BY DEF Lists
<1>1. PICK s : Threads(s, n, f, F)
  BY <1>0
<1>2. CASE n = 0
  BY <1>1, <1>2 DEF Threads
<1>3. CASE n # 0
  <2>1. n \in 1..n /\ 0 \in 0..n /\ n \in 0..n
    BY <1>3
  <2>2. s[n] \in F /\ s[n] # 0
    BY <1>1, <1>3, <2>1 DEF Threads
  <2> QED
    BY <1>1, <2>2 DEF Threads
<1> QED
  BY <1>2, <1>3

\* The list is where it was if its pages and the head are.
LEMMA SameList ==
  ASSUME NEW f, NEW g, NEW F, Lists(f, F),
         g[0] = f[0], \A p \in F : g[p] = f[p]
  PROVE  Lists(g, F)
<1>0. PICK n \in Nat : \E s : Threads(s, n, f, F)
  BY DEF Lists
<1>1. PICK s : Threads(s, n, f, F)
  BY <1>0
<1>2. Threads(s, n, g, F)
  BY <1>1 DEF Threads
<1> QED
  BY <1>2 DEF Lists

\* alloc_page takes the first page off.
LEMMA PopList ==
  ASSUME NEW f, NEW g, NEW F, Lists(f, F), f[0] # 0,
         g[0] = f[f[0]], \A p \in F \ {f[0]} : g[p] = f[p]
  PROVE  Lists(g, F \ {f[0]})
<1>0. PICK n \in Nat : \E s : Threads(s, n, f, F)
  BY DEF Lists
<1>1. PICK s : Threads(s, n, f, F)
  BY <1>0
<1>2. n # 0 /\ n - 1 \in Nat /\ n \in 1..n /\ n \in 0..n
  BY <1>1 DEF Threads
<1> DEFINE G == F \ {f[0]}
           z == [i \in 0..(n - 1) |-> s[i]]
<1>3. ASSUME NEW i \in 1..(n - 1)
      PROVE  s[i] \in G /\ i \in 1..n /\ i \in 0..(n - 1) /\ i - 1 \in 0..(n - 1)
  <2>1. i \in 1..n /\ i \in 0..n /\ i # n
    BY <1>2
  <2> QED
    BY <1>1, <1>2, <2>1 DEF Threads
<1>4. z \in [0..(n - 1) -> G \cup {0}]
  <2> SUFFICES ASSUME NEW i \in 0..(n - 1) PROVE s[i] \in G \cup {0}
    OBVIOUS
  <2>1. i = 0 \/ i \in 1..(n - 1)
    BY <1>2
  <2> QED
    BY <1>1, <1>3, <2>1 DEF Threads
<1>5. z[0] = 0 /\ z[n - 1] = g[0]
  <2>1. 0 \in 0..(n - 1) /\ n - 1 \in 0..(n - 1)
    BY <1>2
  <2>2. f[s[n]] = s[n - 1] /\ s[n] = f[0]
    BY <1>1, <1>2 DEF Threads
  <2> QED
    BY <1>1, <2>1, <2>2 DEF Threads
<1>6. ASSUME NEW i \in 1..(n - 1) PROVE z[i] \in G /\ g[z[i]] = z[i - 1]
  <2>1. f[s[i]] = s[i - 1] /\ z[i] = s[i] /\ z[i - 1] = s[i - 1]
    BY <1>1, <1>3 DEF Threads
  <2> QED
    BY <1>3, <2>1
<1>7. ASSUME NEW i \in 0..(n - 1), NEW j \in 0..(n - 1), z[i] = z[j] PROVE i = j
  <2>1. i \in 0..n /\ j \in 0..n /\ s[i] = s[j]
    BY <1>2, <1>7
  <2> QED
    BY <1>1, <2>1 DEF Threads
<1>8. ASSUME NEW p \in G PROVE \E i \in 1..(n - 1) : z[i] = p
  <2>1. PICK i \in 1..n : s[i] = p
    BY <1>1 DEF Threads
  <2>2. i # n
    BY <1>1, <2>1 DEF Threads
  <2>3. i \in 1..(n - 1) /\ z[i] = p
    BY <1>2, <2>1, <2>2
  <2> QED
    BY <2>3
<1>9. Threads(z, n - 1, g, G)
  BY <1>4, <1>5, <1>6, <1>7, <1>8 DEF Threads
<1>10. G \subseteq Pages
  BY DEF Lists
<1> QED
  BY <1>2, <1>4, <1>9, <1>10 DEF Lists

\* _txn_free_page puts page p in front.
LEMMA PushList ==
  ASSUME NEW f, NEW g, NEW F, Lists(f, F), NEW p \in Pages \ F,
         g[0] = p, g[p] = f[0], \A q \in F : g[q] = f[q]
  PROVE  Lists(g, F \cup {p})
<1>0. PICK n \in Nat : \E s : Threads(s, n, f, F)
  BY DEF Lists
<1>1. PICK s : Threads(s, n, f, F)
  BY <1>0
<1> DEFINE G == F \cup {p}
           z == [i \in 0..(n + 1) |-> IF i = n + 1 THEN p ELSE s[i]]
<1>2. n + 1 \in Nat /\ p # 0 /\ p \notin F
  BY PageFacts
<1>3. ASSUME NEW i \in 0..(n + 1), i # n + 1 PROVE i \in 0..n /\ z[i] = s[i]
  BY <1>3
<1>4. z[n + 1] = p
  BY <1>2
<1>5. z \in [0..(n + 1) -> G \cup {0}]
  BY <1>1, <1>3 DEF Threads
<1>6. z[0] = 0 /\ z[n + 1] = g[0]
  BY <1>1, <1>3, <1>4 DEF Threads
<1>7. ASSUME NEW i \in 1..(n + 1) PROVE z[i] \in G /\ g[z[i]] = z[i - 1]
  <2>1. CASE i = n + 1
    <3>1. z[i - 1] = s[n]
      BY <1>2, <2>1
    <3> QED
      BY <1>1, <1>4, <2>1, <3>1 DEF Threads
  <2>2. CASE i # n + 1
    <3>1. i \in 1..n /\ z[i] = s[i] /\ z[i - 1] = s[i - 1]
      BY <2>2
    <3> QED
      BY <1>1, <3>1 DEF Threads
  <2> QED
    BY <2>1, <2>2
<1>8. ASSUME NEW i \in 0..(n + 1), NEW j \in 0..(n + 1), z[i] = z[j] PROVE i = j
  <2>1. CASE i # n + 1 /\ j # n + 1
    BY <1>1, <1>3, <1>8, <2>1 DEF Threads
  <2>2. CASE i = n + 1 /\ j # n + 1
    BY <1>1, <1>2, <1>3, <1>4, <1>8, <2>2 DEF Threads
  <2>3. CASE i # n + 1 /\ j = n + 1
    BY <1>1, <1>2, <1>3, <1>4, <1>8, <2>3 DEF Threads
  <2> QED
    BY <2>1, <2>2, <2>3
<1>9. ASSUME NEW q \in G PROVE \E i \in 1..(n + 1) : z[i] = q
  <2>1. CASE q = p
    BY <1>2, <1>4, <2>1
  <2>2. CASE q \in F
    <3>1. PICK i \in 1..n : s[i] = q
      BY <1>1, <2>2 DEF Threads
    <3>2. i \in 1..(n + 1) /\ i # n + 1 /\ z[i] = q
      BY <3>1
    <3> QED
      BY <3>2
  <2> QED
    BY <2>1, <2>2
<1>10. Threads(z, n + 1, g, G)
  BY <1>5, <1>6, <1>7, <1>8, <1>9 DEF Threads
<1>11. G \subseteq Pages
  BY DEF Lists
<1> QED
  BY <1>2, <1>5, <1>10, <1>11 DEF Lists

\* A list through pages 2 to MaxPages has fewer than MaxPages of them.
LEMMA ListLength ==
  ASSUME NEW s, NEW n \in Nat, NEW f, NEW F, F \subseteq Pages, Threads(s, n, f, F)
  PROVE  n < MaxPages
<1> SUFFICES ASSUME n >= MaxPages PROVE FALSE
  BY PageFacts
<1> DEFINE z == [i \in 1..n |-> s[i]]
<1>1. z \in [1..n -> Pages]
  BY DEF Threads
<1>2. IsFiniteSet(1..n) /\ Cardinality(1..n) = n
  BY FS_Interval
<1>3. IsFiniteSet(Pages) /\ Cardinality(Pages) = MaxPages - 1
  BY FS_Interval, PageFacts DEF Pages
<1>4. Cardinality(Pages) < Cardinality(1..n)
  BY <1>2, <1>3, PageFacts
<1>5. PICK i, j \in 1..n : i # j /\ z[i] = z[j]
  <2> HIDE DEF z
  <2> QED
    BY <1>1, <1>2, <1>3, <1>4, FS_PigeonHole
<1>6. s[i] = s[j] /\ i \in 0..n /\ j \in 0..n
  BY <1>5
<1> QED
  BY <1>5, <1>6 DEF Threads

\* What the walk of the model meets, for a list that ends.
LEMMA WalkList ==
  ASSUME NEW F, Lists(main, F)
  PROVE  FreePages = F /\ FreeWalk[MaxPages] = 0
<1>0. PICK n \in Nat : \E s : Threads(s, n, main, F)
  BY DEF Lists
<1>1. PICK s : Threads(s, n, main, F)
  BY <1>0
<1>2. F \subseteq Pages /\ 0 \notin F
  BY PageFacts DEF Lists
<1>3. n < MaxPages
  BY <1>1, <1>2, ListLength
<1> DEFINE at(i) == IF i <= n + 1 THEN s[n + 1 - i] ELSE 0
           Step(w) == [i \in 1..MaxPages |->
                         IF i = 1 THEN main[0]
                         ELSE IF w[i - 1] \in Pages THEN main[w[i - 1]] ELSE w[i - 1]]
           g == [i \in 1..MaxPages |-> at(i)]
<1>4. ASSUME NEW i \in 1..MaxPages, i # 1
      PROVE  at(i) = IF at(i - 1) \in Pages THEN main[at(i - 1)] ELSE at(i - 1)
  <2>1. CASE i <= n + 1
    <3>1. n + 2 - i \in 1..n /\ (n + 2 - i) - 1 = n + 1 - i /\ n + 1 - (i - 1) = n + 2 - i
      BY <1>4, <2>1
    <3>2. at(i - 1) = s[n + 2 - i] /\ at(i) = s[n + 1 - i]
      BY <1>4, <2>1, <3>1
    <3> QED
      BY <1>1, <1>2, <3>1, <3>2 DEF Threads
  <2>2. CASE ~(i <= n + 1)
    <3>1. at(i) = 0 /\ at(i - 1) = 0
      BY <1>1, <1>4, <2>2 DEF Threads
    <3> QED
      BY <3>1, PageFacts
  <2> QED
    BY <2>1, <2>2
<1>5. at(1) = main[0]
  BY <1>1 DEF Threads
<1>6. g = Step(g)
  <2> SUFFICES ASSUME NEW i \in 1..MaxPages
               PROVE  at(i) = IF i = 1 THEN main[0]
                              ELSE IF g[i - 1] \in Pages THEN main[g[i - 1]] ELSE g[i - 1]
    BY Zenon
  <2>1. CASE i # 1
    <3>1. i - 1 \in 1..MaxPages
      BY <2>1, PageFacts
    <3>2. g[i - 1] = at(i - 1)
      BY <3>1, SMTT(30)
    <3> QED
      BY <1>4, <2>1, <3>2
  <2> QED
    BY <1>5, <2>1
<1>7. FreeWalk = Step(FreeWalk)
  BY <1>6 DEF FreeWalk
<1> HIDE DEF at
<1>8. Nat \subseteq {i \in Nat : i \in 1..MaxPages => FreeWalk[i] = at(i)}
  <2> DEFINE P == {i \in Nat : i \in 1..MaxPages => FreeWalk[i] = at(i)}
  <2>1. 0 \in P
    OBVIOUS
  <2>2. ASSUME NEW i \in Nat, i \in P PROVE i + 1 \in P
    <3> SUFFICES ASSUME i + 1 \in 1..MaxPages PROVE FreeWalk[i + 1] = at(i + 1)
      OBVIOUS
    <3>1. FreeWalk[i + 1] = IF i + 1 = 1 THEN main[0]
                            ELSE IF FreeWalk[(i + 1) - 1] \in Pages
                                 THEN main[FreeWalk[(i + 1) - 1]]
                                 ELSE FreeWalk[(i + 1) - 1]
      BY <1>7
    <3>2. CASE i = 0
      BY <1>5, <3>1, <3>2
    <3>3. CASE i # 0
      <4>1. i \in 1..MaxPages /\ (i + 1) - 1 = i /\ i + 1 # 1
        BY <3>3, PageFacts
      <4>2. FreeWalk[i] = at(i)
        BY <2>2, <4>1
      <4>3. FreeWalk[i + 1] = IF FreeWalk[i] \in Pages THEN main[FreeWalk[i]] ELSE FreeWalk[i]
        BY <3>1, <4>1
      <4>4. at(i + 1) = IF at(i) \in Pages THEN main[at(i)] ELSE at(i)
        BY <1>4, <4>1
      <4> QED
        BY <4>2, <4>3, <4>4
    <3> QED
      BY <3>2, <3>3
  <2> HIDE DEF P
  <2>3. Nat \subseteq P
    BY <2>1, <2>2, Induction
  <2> QED
    BY <2>3 DEF P
<1>9. ASSUME NEW i \in 1..MaxPages PROVE FreeWalk[i] = at(i)
  BY <1>8
<1>10. DOMAIN FreeWalk = 1..MaxPages
  BY <1>7
<1> USE DEF at
<1>11. FreeWalk[MaxPages] = 0
  BY <1>1, <1>3, <1>9, PageFacts DEF Threads
<1>12. ASSUME NEW p \in F PROVE p \in FreePages
  <2>1. PICK i \in 1..n : s[i] = p
    BY <1>1 DEF Threads
  <2>2. n + 1 - i \in 1..MaxPages /\ at(n + 1 - i) = s[i]
    BY <1>3, PageFacts
  <2>3. FreeWalk[n + 1 - i] = p
    BY <1>9, <2>1, <2>2
  <2> QED
    BY <1>2, <1>10, <2>2, <2>3 DEF FreePages
<1>13. ASSUME NEW p \in FreePages PROVE p \in F
  <2>1. PICK i \in 1..MaxPages : FreeWalk[i] = p
    BY <1>10 DEF FreePages
  <2>2. at(i) = p /\ p # 0
    BY <1>9, <2>1 DEF FreePages
  <2>3. i <= n + 1 /\ n + 1 - i \in 0..n
    BY <2>2
  <2> QED
    BY <1>1, <2>2, <2>3 DEF Threads
<1> QED
  BY <1>11, <1>12, <1>13
-----------------------------------------------------------------------------
(* The tables of a catalogue m, the pages U in use and the index pagers ws. *)

Span(m, t) == m.cat[t].root..m.cat[t].next

Held(m, t) == {m.data[t][i] : i \in DOMAIN m.data[t]}

\* The data pages of t lie in the range a reopen walks; that range and the
\* nodes of its index are in use, and no other index pager has any of them.
TableOK(U, m, ws, t) ==
  /\ m.ix[t] <= Len(ws)
  /\ ~Exists(m, t) => Held(m, t) = {} /\ m.nodes[t] = {} /\ m.ix[t] = NoWrapper
  /\ Exists(m, t) =>
       /\ m.cat[t].root \in Held(m, t)
       /\ m.cat[t].root <= m.cat[t].next
       /\ Held(m, t) \subseteq Span(m, t) /\ Held(m, t) \cap m.nodes[t] = {}
       /\ Span(m, t) \subseteq U /\ m.nodes[t] \subseteq U
       /\ \A i \in DOMAIN ws \ {m.ix[t]} : ws[i] \cap (Span(m, t) \cup m.nodes[t]) = {}

\* Two tables share nothing.
ApartOK(m, t, u) ==
  Exists(m, t) /\ Exists(m, u) =>
    /\ Span(m, t) \cap Span(m, u) = {}
    /\ Span(m, t) \cap m.nodes[u] = {}
    /\ m.nodes[t] \cap m.nodes[u] = {}
    /\ m.ix[t] = m.ix[u] => m.ix[t] = NoWrapper

TablesOK(U, m, ws) ==
  \A t \in Tables : TableOK(U, m, ws, t) /\ \A u \in Tables \ {t} : ApartOK(m, t, u)

WrappersOK(U, ws) ==
  /\ \A i \in DOMAIN ws : ws[i] \subseteq U
  /\ \A i, j \in DOMAIN ws : i # j => ws[i] \cap ws[j] = {}

Mems == [cat   : [Tables -> [root : Nat, next : Nat]],
         data  : [Tables -> Seq(Pages)],
         nodes : [Tables -> SUBSET Pages],
         ix    : [Tables -> Nat]]

Wrappers == Seq(SUBSET Pages)

\* Only the entries of t changed.
SameOthers(m, n, t) ==
  \A u \in Tables \ {t} : /\ n.cat[u] = m.cat[u] /\ n.data[u] = m.data[u]
                          /\ n.nodes[u] = m.nodes[u] /\ n.ix[u] = m.ix[u]

\* What the statements make of m: t is new on page p, has p as a node, has p
\* as its last data page, or is gone.
Founded(m, n, t, p) ==
  /\ SameOthers(m, n, t) /\ n.cat[t] = [root |-> p, next |-> p]
  /\ n.data[t] = <<p>> /\ n.nodes[t] = {}

Indexes(m, n, t, p) ==
  /\ SameOthers(m, n, t) /\ n.cat[t] = m.cat[t] /\ n.data[t] = m.data[t]
  /\ n.ix[t] = m.ix[t] /\ n.nodes[t] = m.nodes[t] \cup {p}

Lengthens(m, n, t, p) ==
  /\ SameOthers(m, n, t) /\ n.cat[t].root = m.cat[t].root /\ n.cat[t].next = p
  /\ n.data[t] = Append(m.data[t], p) /\ n.nodes[t] = m.nodes[t] /\ n.ix[t] = m.ix[t]

Removes(m, n, t) ==
  /\ SameOthers(m, n, t) /\ n.cat[t] = NoTable /\ n.data[t] = << >>
  /\ n.nodes[t] = {} /\ n.ix[t] = NoWrapper

\* Index pager k records page p.
Records(ws, xs, k, p) ==
  /\ Len(xs) = Len(ws) /\ DOMAIN xs = DOMAIN ws
  /\ \A i \in DOMAIN ws : xs[i] = IF i = k THEN ws[i] \cup {p} ELSE ws[i]

\* What Contiguous asks for, the free pages aside.
Passes(m, ws, t, p) ==
  /\ p > m.cat[t].next
  /\ \A i \in DOMAIN ws \ {m.ix[t]} : (m.cat[t].root..p) \cap ws[i] = {}
  /\ \A u \in Tables \ {t} : (m.cat[t].root..p) \cap (Held(m, u) \cup m.nodes[u]) = {}

\* More pages in use, and index pagers with none that were: nothing changes.
LEMMA KeepTables ==
  ASSUME NEW U, NEW V, U \subseteq V, NEW m \in Mems,
         NEW ws \in Wrappers, NEW xs \in Wrappers, Len(ws) <= Len(xs),
         \A i \in DOMAIN ws : xs[i] \cap U \subseteq ws[i],
         \A i \in DOMAIN xs \ DOMAIN ws : xs[i] \cap U = {},
         TablesOK(U, m, ws)
  PROVE  TablesOK(V, m, xs)
<1> SUFFICES ASSUME NEW t \in Tables PROVE TableOK(V, m, xs, t)
  BY DEF TablesOK
<1>1. TableOK(U, m, ws, t)
  BY DEF TablesOK
<1>2. m.ix[t] <= Len(xs)
  BY <1>1 DEF TableOK, Mems, Wrappers
<1>3. ASSUME Exists(m, t), NEW i \in DOMAIN xs \ {m.ix[t]}
      PROVE  xs[i] \cap (Span(m, t) \cup m.nodes[t]) = {}
  <2>1. Span(m, t) \cup m.nodes[t] \subseteq U
    BY <1>1, <1>3 DEF TableOK
  <2>2. CASE i \in DOMAIN ws
    <3>1. ws[i] \cap (Span(m, t) \cup m.nodes[t]) = {}
      BY <1>1, <1>3, <2>2 DEF TableOK
    <3> QED
      BY <2>1, <2>2, <3>1
  <2> QED
    BY <2>1, <2>2
<1> QED
  BY <1>1, <1>2, <1>3 DEF TableOK

\* A new table on one page, with the next index pager or with none.
LEMMA CreateTables ==
  ASSUME NEW U, NEW m \in Mems, NEW ws \in Wrappers, NEW xs \in Wrappers,
         TablesOK(U, m, ws), WrappersOK(U, ws),
         NEW t \in Tables, ~Exists(m, t), NEW p \in Pages \ U, NEW n \in Mems,
         Founded(m, n, t, p),
         Len(ws) <= Len(xs), \A i \in DOMAIN ws : xs[i] = ws[i],
         \A i \in DOMAIN xs \ DOMAIN ws : xs[i] = {},
         n.ix[t] = NoWrapper \/ (n.ix[t] = Len(ws) + 1 /\ n.ix[t] = Len(xs))
  PROVE  TablesOK(U \cup {p}, n, xs)
<1>1. p \in Nat /\ p # 0
  BY PageFacts
<1>2. /\ n.cat[t] = [root |-> p, next |-> p] /\ n.data[t] = <<p>> /\ n.nodes[t] = {}
      /\ \A u \in Tables \ {t} : /\ n.cat[u] = m.cat[u] /\ n.data[u] = m.data[u]
                                 /\ n.nodes[u] = m.nodes[u] /\ n.ix[u] = m.ix[u]
  BY DEF Founded, SameOthers
<1>3. Exists(n, t) /\ Span(n, t) = {p} /\ Held(n, t) = {p}
  <2>1. n.cat[t] # NoTable
    BY <1>1, <1>2 DEF NoTable
  <2>2. Span(n, t) = {p}
    BY <1>1, <1>2 DEF Span
  <2>3. Held(n, t) = {p}
    BY <1>2 DEF Held
  <2> QED
    BY <2>1, <2>2, <2>3 DEF Exists
<1>4. \A u \in Tables \ {t} : /\ Exists(n, u) <=> Exists(m, u)
                              /\ Span(n, u) = Span(m, u) /\ Held(n, u) = Held(m, u)
  BY <1>2 DEF Exists, Span, Held
<1>5. \A i \in DOMAIN xs : p \notin xs[i]
  BY DEF WrappersOK
<1>7. n.ix[t] <= Len(xs) /\ \A u \in Tables \ {t} : n.ix[t] = n.ix[u] => n.ix[t] = NoWrapper
  <2>1. \A u \in Tables : m.ix[u] \in Nat /\ m.ix[u] <= Len(ws)
    BY DEF TablesOK, TableOK, Mems
  <2> QED
    BY <1>2, <2>1 DEF Wrappers, NoWrapper
<1>8. TableOK(U \cup {p}, n, xs, t)
  BY <1>1, <1>2, <1>3, <1>5, <1>7 DEF TableOK
<1>9. TablesOK(U \cup {p}, m, xs)
  BY KeepTables
<1>10. ASSUME NEW u \in Tables \ {t} PROVE TableOK(U \cup {p}, n, xs, u)
  BY <1>2, <1>4, <1>9 DEF TablesOK, TableOK
<1>11. ASSUME NEW u \in Tables \ {t}, NEW v \in Tables \ {t, u} PROVE ApartOK(n, u, v)
  BY <1>2, <1>4, <1>9 DEF TablesOK, ApartOK
<1>12. ASSUME NEW u \in Tables \ {t} PROVE ApartOK(n, u, t) /\ ApartOK(n, t, u)
  <2>1. Exists(n, u) => p \notin Span(n, u) /\ p \notin n.nodes[u]
    BY <1>2, <1>4 DEF TablesOK, TableOK
  <2> QED
    BY <1>2, <1>3, <1>7, <2>1 DEF ApartOK
<1> QED
  BY <1>8, <1>10, <1>11, <1>12 DEF TablesOK

\* Index pagers change, and their number does not.
LEMMA SetWrapper ==
  ASSUME NEW ws \in Wrappers, NEW xs \in [DOMAIN ws -> SUBSET Pages]
  PROVE  xs \in Wrappers /\ Len(xs) = Len(ws) /\ DOMAIN xs = DOMAIN ws
<1>1. DOMAIN ws = 1..Len(ws) /\ Len(ws) \in Nat
  BY DEF Wrappers
<1> QED
  BY <1>1 DEF Wrappers

\* A page for the index of t, which its index pager records.
LEMMA IndexTables ==
  ASSUME NEW U, NEW m \in Mems, NEW ws \in Wrappers, NEW xs \in Wrappers,
         TablesOK(U, m, ws), WrappersOK(U, ws),
         NEW t \in Tables, Exists(m, t), NEW p \in Pages \ U, NEW n \in Mems,
         Indexes(m, n, t, p), Records(ws, xs, m.ix[t], p)
  PROVE  TablesOK(U \cup {p}, n, xs)
<1>1. /\ n.nodes[t] = m.nodes[t] \cup {p}
      /\ \A u \in Tables \ {t} : n.nodes[u] = m.nodes[u]
      /\ \A u \in Tables : /\ Exists(n, u) <=> Exists(m, u)
                           /\ Span(n, u) = Span(m, u) /\ Held(n, u) = Held(m, u)
                           /\ n.cat[u] = m.cat[u] /\ n.ix[u] = m.ix[u]
  BY DEF Indexes, SameOthers, Exists, Span, Held
<1>2. /\ DOMAIN xs = DOMAIN ws
      /\ \A i \in DOMAIN ws \ {m.ix[t]} : xs[i] = ws[i]
      /\ \A i \in DOMAIN ws : xs[i] \cap U \subseteq ws[i]
      /\ \A i \in DOMAIN ws \ {m.ix[t]} : p \notin xs[i]
  <2>1. \A i \in DOMAIN ws : p \notin ws[i]
    BY DEF WrappersOK
  <2> QED
    BY <2>1 DEF Records
<1>3. TablesOK(U \cup {p}, m, xs)
  <2>1. Len(ws) <= Len(xs)
    BY DEF Records, Wrappers
  <2> QED
    BY <1>2, <2>1, KeepTables
<1>4. ASSUME NEW u \in Tables, Exists(m, u)
      PROVE  p \notin Span(m, u) /\ p \notin m.nodes[u] /\ p \notin Held(m, u)
  BY <1>4 DEF TablesOK, TableOK
<1>5. ASSUME NEW u \in Tables PROVE TableOK(U \cup {p}, n, xs, u)
  <2>1. TableOK(U \cup {p}, m, xs, u)
    BY <1>3 DEF TablesOK
  <2>2. CASE u = t
    BY <1>1, <1>2, <1>4, <2>1, <2>2 DEF TableOK
  <2>3. CASE u # t
    BY <1>1, <2>1, <2>3 DEF TableOK
  <2> QED
    BY <2>2, <2>3
<1>6. ASSUME NEW u \in Tables, NEW v \in Tables \ {u} PROVE ApartOK(n, u, v)
  <2>1. ApartOK(m, u, v)
    BY DEF TablesOK
  <2> QED
    BY <1>1, <1>4, <2>1 DEF ApartOK
<1> QED
  BY <1>5, <1>6 DEF TablesOK

\* A data page at the end of t: what Contiguous asks for.
LEMMA ChainTables ==
  ASSUME NEW U, NEW m \in Mems, NEW ws \in Wrappers,
         TablesOK(U, m, ws), WrappersOK(U, ws),
         NEW t \in Tables, Exists(m, t), NEW p \in Pages \ U, NEW n \in Mems,
         Lengthens(m, n, t, p), Passes(m, ws, t, p), m.cat[t].root..p \subseteq U \cup {p}
  PROVE  TablesOK(U \cup {p}, n, ws)
<1>1. /\ m.cat \in [Tables -> [root : Nat, next : Nat]] /\ m.data \in [Tables -> Seq(Pages)]
      /\ p \in Nat
  BY PageFacts DEF Mems
<1>2. /\ n.cat[t].root = m.cat[t].root /\ n.cat[t].next = p
      /\ n.data[t] = Append(m.data[t], p) /\ n.nodes[t] = m.nodes[t] /\ n.ix[t] = m.ix[t]
      /\ \A u \in Tables \ {t} : /\ n.cat[u] = m.cat[u] /\ n.data[u] = m.data[u]
                                 /\ n.nodes[u] = m.nodes[u] /\ n.ix[u] = m.ix[u]
      /\ p > m.cat[t].next
      /\ \A i \in DOMAIN ws \ {m.ix[t]} : (m.cat[t].root..p) \cap ws[i] = {}
      /\ \A u \in Tables \ {t} : (m.cat[t].root..p) \cap (Held(m, u) \cup m.nodes[u]) = {}
  BY DEF Lengthens, Passes, SameOthers
<1>3. Span(n, t) = m.cat[t].root..p /\ Span(m, t) \subseteq Span(n, t)
  BY <1>1, <1>2 DEF Span
<1>4. Held(n, t) = Held(m, t) \cup {p}
  <2>1. m.data[t] \in Seq(Pages) /\ Len(m.data[t]) \in Nat
    BY <1>1
  <2>2. /\ DOMAIN n.data[t] = 1..(Len(m.data[t]) + 1) /\ DOMAIN m.data[t] = 1..Len(m.data[t])
        /\ \A i \in 1..Len(m.data[t]) : n.data[t][i] = m.data[t][i]
        /\ n.data[t][Len(m.data[t]) + 1] = p
    BY <1>2, <2>1
  <2> DEFINE k == Len(m.data[t])
  <2>3. k \in Nat /\ DOMAIN n.data[t] = DOMAIN m.data[t] \cup {k + 1}
    BY <2>1, <2>2
  <2>4. \A i \in DOMAIN m.data[t] : n.data[t][i] = m.data[t][i]
    BY <2>2
  <2>5. n.data[t][k + 1] = p
    BY <2>2
  <2> HIDE DEF k
  <2> QED
    BY <2>3, <2>4, <2>5 DEF Held
<1>5. Exists(n, t)
  <2>1. n.cat[t].next # 0
    BY <1>2, PageFacts
  <2> QED
    BY <2>1 DEF Exists, NoTable
<1>6. \A u \in Tables \ {t} : /\ Exists(n, u) <=> Exists(m, u)
                              /\ Span(n, u) = Span(m, u) /\ Held(n, u) = Held(m, u)
  BY <1>2 DEF Exists, Span, Held
<1>7. TableOK(U \cup {p}, n, ws, t)
  <2>1. TableOK(U, m, ws, t)
    BY DEF TablesOK
  <2>2. n.cat[t].root \in Held(n, t) /\ n.cat[t].root <= n.cat[t].next
    BY <1>1, <1>2, <1>4, <2>1 DEF TableOK
  <2>3. p \in Span(n, t)
    BY <1>1, <1>2, <2>2 DEF Span
  <2>4. Held(n, t) \subseteq Span(n, t) /\ Held(n, t) \cap n.nodes[t] = {}
    BY <1>2, <1>3, <1>4, <2>1, <2>3 DEF TableOK
  <2>5. Span(n, t) \subseteq U \cup {p} /\ n.nodes[t] \subseteq U \cup {p}
    BY <1>2, <1>3, <2>1 DEF TableOK
  <2>6. \A i \in DOMAIN ws \ {n.ix[t]} : ws[i] \cap (Span(n, t) \cup n.nodes[t]) = {}
    BY <1>2, <1>3, <2>1 DEF TableOK
  <2> QED
    BY <1>2, <1>5, <2>1, <2>2, <2>4, <2>5, <2>6 DEF TableOK
<1>8. ASSUME NEW u \in Tables \ {t} PROVE TableOK(U \cup {p}, n, ws, u)
  <2>1. TableOK(U, m, ws, u)
    BY DEF TablesOK
  <2> QED
    BY <1>2, <1>6, <2>1 DEF TableOK
<1>9. ASSUME NEW u \in Tables \ {t}, NEW v \in Tables \ {t, u} PROVE ApartOK(n, u, v)
  <2>1. ApartOK(m, u, v)
    BY DEF TablesOK
  <2> QED
    BY <1>2, <1>6, <2>1 DEF ApartOK
<1>10. ASSUME NEW u \in Tables \ {t} PROVE ApartOK(n, t, u) /\ ApartOK(n, u, t)
  <2> SUFFICES ASSUME Exists(m, u) PROVE ApartOK(n, t, u) /\ ApartOK(n, u, t)
    BY <1>6 DEF ApartOK
  <2>1. ApartOK(m, t, u) /\ ApartOK(m, u, t) /\ TableOK(U, m, ws, u) /\ TableOK(U, m, ws, t)
    BY DEF TablesOK
  \* The range of u is below the root of t, or its root above p.
  <2>2. Span(n, t) \cap Span(n, u) = {}
    <3>1. /\ m.cat[u].root \in Nat /\ m.cat[u].next \in Nat
          /\ m.cat[t].root \in Nat /\ m.cat[t].next \in Nat
      BY <1>1
    <3>2. m.cat[u].root <= m.cat[u].next /\ m.cat[t].root <= m.cat[t].next
      BY <2>1 DEF TableOK
    <3>3. m.cat[u].root \notin m.cat[t].root..p
      BY <1>2, <2>1 DEF TableOK
    <3>4. m.cat[t].root \notin Span(m, u)
      <4>1. m.cat[t].root \in Span(m, t)
        BY <3>1, <3>2 DEF Span
      <4> QED
        BY <2>1, <4>1 DEF ApartOK
    <3>5. m.cat[u].root > p \/ m.cat[u].next < m.cat[t].root
      BY <1>1, <3>1, <3>2, <3>3, <3>4 DEF Span
    <3>6. Span(n, u) = m.cat[u].root..m.cat[u].next
      BY <1>6 DEF Span
    <3> QED
      BY <1>1, <1>3, <3>1, <3>5, <3>6
  <2>3. Span(n, t) \cap n.nodes[u] = {}
    BY <1>2, <1>3
  <2>4. Span(n, u) \cap n.nodes[t] = {}
    BY <1>2, <1>6, <2>1 DEF ApartOK
  <2> QED
    BY <1>2, <1>6, <2>1, <2>2, <2>3, <2>4 DEF ApartOK
<1> QED
  BY <1>7, <1>8, <1>9, <1>10 DEF TablesOK

\* The index pager of t, if it has one.
Recorded(m, ws, t) == IF m.ix[t] = NoWrapper THEN {} ELSE ws[m.ix[t]]

\* What DROP TABLE frees, and what it leaves to the others.
Dropped(m, ws, t) == (Span(m, t) \ Reserved(ws)) \cup Recorded(m, ws, t)

LEMMA DropTables ==
  ASSUME NEW U, NEW m \in Mems, NEW ws \in Wrappers, NEW xs \in Wrappers,
         TablesOK(U, m, ws), WrappersOK(U, ws),
         NEW t \in Tables, Exists(m, t), NEW n \in Mems,
         Removes(m, n, t), Len(xs) = Len(ws),
         \A i \in DOMAIN ws : xs[i] = IF i = m.ix[t] THEN {} ELSE ws[i]
  PROVE  /\ TablesOK(U \ Dropped(m, ws, t), n, xs)
         /\ WrappersOK(U \ Dropped(m, ws, t), xs)
<1> DEFINE V == U \ Dropped(m, ws, t)
<1>1. /\ n.cat[t] = NoTable /\ n.data[t] = << >> /\ n.nodes[t] = {} /\ n.ix[t] = NoWrapper
      /\ \A u \in Tables \ {t} : /\ n.cat[u] = m.cat[u] /\ n.data[u] = m.data[u]
                                 /\ n.nodes[u] = m.nodes[u] /\ n.ix[u] = m.ix[u]
  BY DEF Removes, SameOthers
<1>2. ~Exists(n, t) /\ Held(n, t) = {}
  BY <1>1 DEF Exists, Held
<1>3. \A u \in Tables \ {t} : /\ Exists(n, u) <=> Exists(m, u)
                              /\ Span(n, u) = Span(m, u) /\ Held(n, u) = Held(m, u)
  BY <1>1 DEF Exists, Span, Held
<1>4. DOMAIN xs = DOMAIN ws /\ DOMAIN ws = 1..Len(ws) /\ Len(ws) \in Nat
  BY DEF Wrappers
<1>5. m.ix[t] \in Nat /\ m.ix[t] <= Len(ws) /\ (m.ix[t] # NoWrapper => m.ix[t] \in DOMAIN ws)
  BY <1>4 DEF TablesOK, TableOK, Mems, NoWrapper
<1>6. WrappersOK(V, xs)
  <2>1. ASSUME NEW i \in DOMAIN xs PROVE xs[i] \subseteq V
    <3>1. xs[i] \subseteq U /\ xs[i] \subseteq Reserved(ws)
      BY <1>4 DEF WrappersOK, Reserved
    <3>2. xs[i] \cap Recorded(m, ws, t) = {}
      BY <1>4, <1>5 DEF WrappersOK, Recorded
    <3> QED
      BY <3>1, <3>2 DEF Dropped
  <2>2. \A i, j \in DOMAIN xs : i # j => xs[i] \cap xs[j] = {}
    BY <1>4 DEF WrappersOK
  <2> QED
    BY <2>1, <2>2 DEF WrappersOK
<1>7. ASSUME NEW u \in Tables \ {t}, Exists(m, u)
      PROVE  Span(m, u) \subseteq V /\ m.nodes[u] \subseteq V
  <2>1. ApartOK(m, t, u) /\ TableOK(U, m, ws, u)
    BY DEF TablesOK
  <2>2. Recorded(m, ws, t) \cap (Span(m, u) \cup m.nodes[u]) = {}
    BY <1>5, <1>7, <2>1 DEF ApartOK, TableOK, Recorded
  <2>3. Span(m, t) \cap (Span(m, u) \cup m.nodes[u]) = {}
    BY <1>7, <2>1 DEF ApartOK
  <2> QED
    BY <1>7, <2>1, <2>2, <2>3 DEF TableOK, Dropped
<1> HIDE DEF V
<1>8. ASSUME NEW u \in Tables \ {t} PROVE TableOK(V, n, xs, u)
  <2>1. TableOK(U, m, ws, u)
    BY DEF TablesOK
  <2>2. \A i \in DOMAIN xs : xs[i] \subseteq ws[i]
    BY <1>4
  <2>3. CASE Exists(m, u)
    BY <1>1, <1>3, <1>4, <1>7, <2>1, <2>2, <2>3 DEF TableOK
  <2>4. CASE ~Exists(m, u)
    BY <1>1, <1>3, <2>1, <2>4 DEF TableOK
  <2> QED
    BY <2>3, <2>4
<1>9. TableOK(V, n, xs, t)
  BY <1>1, <1>2, <1>4 DEF TableOK, NoWrapper
<1>10. ASSUME NEW u \in Tables, NEW v \in Tables \ {u} PROVE ApartOK(n, u, v)
  <2>1. ApartOK(m, u, v)
    BY DEF TablesOK
  <2> QED
    BY <1>1, <1>2, <1>3, <2>1 DEF ApartOK
<1> QED
  BY <1>6, <1>8, <1>9, <1>10 DEF TablesOK, V
-----------------------------------------------------------------------------
(* The state st of a running statement, whose failure restores b.          *)

Contents == 0..Bytes
Images == [0..MaxPages -> Contents]
Buffers == UNION {[D -> Contents] : D \in SUBSET (0..MaxPages)}

States == [main : Images, nextId : 2..(MaxPages + 1), buf : Buffers,
           mem : Mems, wrappers : Wrappers]

\* The pages of the file behind the catalogue's.
Behind(nx) == 2..(nx - 1)

\* E is free in the main file, F in the file with the page buffer written to it.
GoodWith(st, b, E, F) ==
  /\ Lists(st.main, E) /\ Lists(Overlay(st.buf, st.main), F)
  /\ E \subseteq F /\ F \subseteq Behind(st.nextId)
  /\ DOMAIN st.buf \cap E = {}
  /\ 0 \notin DOMAIN st.buf => E = F
  /\ WrappersOK(Behind(st.nextId) \ F, st.wrappers)
  /\ TablesOK(Behind(st.nextId) \ E, b, st.wrappers)
  /\ TablesOK(Behind(st.nextId) \ F, st.mem, st.wrappers)

Good(st, b) == st \in States /\ b \in Mems /\ \E E, F : GoodWith(st, b, E, F)

LEMMA ContentFacts ==
  0 \in Contents /\ Bytes \in Contents
BY PageFacts DEF Contents

LEMMA BufferFacts ==
  ASSUME NEW bf \in Buffers
  PROVE  /\ DOMAIN bf \subseteq 0..MaxPages
         /\ \A q \in DOMAIN bf : bf[q] \in Contents
         /\ bf \in [DOMAIN bf -> Contents]
<1>1. PICK D \in SUBSET (0..MaxPages) : bf \in [D -> Contents]
  BY DEF Buffers
<1> QED
  BY <1>1

\* g is the buffer bf with c for page p.
IsPut(g, bf, p, c) ==
  /\ g \in Buffers /\ DOMAIN g = (DOMAIN bf) \cup {p}
  /\ \A q \in (DOMAIN bf) \cup {p} : g[q] = IF q = p THEN c ELSE bf[q]

LEMMA PutFacts ==
  ASSUME NEW bf, bf \in Buffers, NEW p, p \in 0..MaxPages, NEW c, c \in Contents
  PROVE  IsPut(Put(bf, p, c), bf, p, c)
<1>1. /\ DOMAIN Put(bf, p, c) = (DOMAIN bf) \cup {p}
      /\ \A q \in (DOMAIN bf) \cup {p} : Put(bf, p, c)[q] = IF q = p THEN c ELSE bf[q]
  BY DEF Put
<1>2. Put(bf, p, c) \in [(DOMAIN bf) \cup {p} -> Contents]
  BY BufferFacts DEF Put
<1>3. (DOMAIN bf) \cup {p} \in SUBSET (0..MaxPages)
  BY BufferFacts
<1> QED
  BY <1>1, <1>2, <1>3 DEF Buffers, IsPut

LEMMA OverlayFacts ==
  ASSUME NEW bf \in Buffers, NEW f \in Images
  PROVE  /\ Overlay(bf, f) \in Images
         /\ \A q \in 0..MaxPages : Overlay(bf, f)[q] = IF q \in DOMAIN bf THEN bf[q] ELSE f[q]
<1>1. \A q \in 0..MaxPages : Overlay(bf, f)[q] = IF q \in DOMAIN bf THEN bf[q] ELSE f[q]
  BY DEF Overlay, Images
<1>2. DOMAIN Overlay(bf, f) = 0..MaxPages
  BY DEF Overlay, Images
<1>3. Overlay(bf, f) = [q \in 0..MaxPages |-> IF q \in DOMAIN bf THEN bf[q] ELSE f[q]]
  BY DEF Overlay, Images
<1> QED
  BY <1>1, <1>3, BufferFacts DEF Images

LEMMA AllocFields ==
  ASSUME NEW st \in States, Allocated(st) \in Pages
  PROVE  LET p == Allocated(st)
             s == TxnWrite(AllocPage(st), p, Bytes)
         IN /\ s \in States /\ s.mem = st.mem /\ s.wrappers = st.wrappers
            /\ s.buf = Put(st.buf, p, Bytes)
            /\ st.main[0] # 0 => /\ s.nextId = st.nextId
                                 /\ s.main = [st.main EXCEPT ![0] = st.main[p], ![p] = 0]
            /\ st.main[0] = 0 => s.nextId = st.nextId + 1 /\ s.main = st.main
<1> DEFINE p == Allocated(st)
           a == AllocPage(st)
           s == TxnWrite(a, p, Bytes)
<1>1. /\ st.main \in Images /\ st.nextId \in 2..(MaxPages + 1) /\ st.buf \in Buffers
      /\ st.mem \in Mems /\ st.wrappers \in Wrappers
  BY DEF States
<1>2. p \in 0..MaxPages
  BY PageFacts
<1>3. Put(st.buf, p, Bytes) \in Buffers
  BY <1>1, <1>2, PutFacts, ContentFacts DEF IsPut
<1>4. CASE st.main[0] # 0
  <2>1. p = st.main[0]
    BY <1>4 DEF Allocated
  <2>2. a = [st EXCEPT !.main = [st.main EXCEPT ![0] = st.main[p], ![p] = 0]]
    BY <1>4, <2>1 DEF AllocPage, States
  <2>3. [st.main EXCEPT ![0] = st.main[p], ![p] = 0] \in Images
    BY <1>1, <1>2, ContentFacts, PageFacts DEF Images
  <2>4. /\ s.mem = st.mem /\ s.wrappers = st.wrappers /\ s.nextId = st.nextId
        /\ s.buf = Put(st.buf, p, Bytes)
        /\ s.main = [st.main EXCEPT ![0] = st.main[p], ![p] = 0]
    BY <2>2 DEF TxnWrite, States
  <2>5. s \in States
    BY <1>1, <1>3, <2>2, <2>3 DEF TxnWrite, States
  <2> QED
    BY <1>4, <2>4, <2>5
<1>5. CASE st.main[0] = 0
  <2>1. p = st.nextId
    BY <1>5 DEF Allocated
  <2>2. a = [st EXCEPT !.nextId = st.nextId + 1]
    BY <1>5 DEF AllocPage, States
  <2>3. st.nextId + 1 \in 2..(MaxPages + 1)
    BY <1>1, <2>1, PageFacts DEF Pages
  <2>4. /\ s.mem = st.mem /\ s.wrappers = st.wrappers /\ s.nextId = st.nextId + 1
        /\ s.buf = Put(st.buf, p, Bytes) /\ s.main = st.main
    BY <2>2 DEF TxnWrite, States
  <2>5. s \in States
    BY <1>1, <1>3, <2>2, <2>3 DEF TxnWrite, States
  <2> QED
    BY <1>5, <2>4, <2>5
<1> QED
  BY <1>4, <1>5

\* alloc_page and the first write of the page: one more page in use.
LEMMA AllocState ==
  ASSUME NEW st \in States, NEW b, NEW E, NEW F, GoodWith(st, b, E, F),
         0 \notin DOMAIN st.buf, Allocated(st) \in Pages
  PROVE  LET p == Allocated(st)
             s == TxnWrite(AllocPage(st), p, Bytes)
         IN /\ E = F /\ p \notin Behind(st.nextId) \ E
            /\ Lists(s.main, E \ {p}) /\ Lists(Overlay(s.buf, s.main), E \ {p})
            /\ DOMAIN s.buf = (DOMAIN st.buf) \cup {p}
            /\ Behind(s.nextId) \ (E \ {p}) = (Behind(st.nextId) \ E) \cup {p}
            /\ E \subseteq Behind(s.nextId)
<1> DEFINE p == Allocated(st)
           s == TxnWrite(AllocPage(st), p, Bytes)
<1>1. /\ st.main \in Images /\ st.nextId \in 2..(MaxPages + 1) /\ st.buf \in Buffers
  BY DEF States
<1>2. p \in 0..MaxPages /\ p # 0
  BY PageFacts
<1>3. /\ s \in States /\ s.buf = Put(st.buf, p, Bytes)
      /\ st.main[0] # 0 => /\ s.nextId = st.nextId
                           /\ s.main = [st.main EXCEPT ![0] = st.main[p], ![p] = 0]
      /\ st.main[0] = 0 => s.nextId = st.nextId + 1 /\ s.main = st.main
  BY AllocFields
<1> HIDE DEF s
<1>4. /\ E = F /\ Lists(st.main, E) /\ E \subseteq Behind(st.nextId)
      /\ DOMAIN st.buf \cap E = {} /\ E \subseteq Pages
  BY DEF GoodWith, Lists
<1>5. DOMAIN s.buf = (DOMAIN st.buf) \cup {p}
  <2>1. IsPut(Put(st.buf, p, Bytes), st.buf, p, Bytes)
    BY <1>1, <1>2, PutFacts, ContentFacts
  <2> QED
    BY <1>3, <2>1 DEF IsPut
<1>6. /\ Lists(s.main, E \ {p}) /\ p \notin Behind(st.nextId) \ E
      /\ Behind(s.nextId) \ (E \ {p}) = (Behind(st.nextId) \ E) \cup {p}
      /\ E \subseteq Behind(s.nextId)
  <2>1. CASE st.main[0] # 0
    <3>1. p = st.main[0] /\ p \in E
      BY <1>4, <2>1, HeadNull DEF Allocated
    <3>2. s.main[0] = st.main[p] /\ \A q \in E \ {p} : s.main[q] = st.main[q]
      BY <1>1, <1>2, <1>3, <1>4, <2>1, PageFacts DEF Images
    <3>3. Lists(s.main, E \ {p})
      BY <1>4, <2>1, <3>1, <3>2, PopList
    <3> QED
      BY <1>3, <1>4, <2>1, <3>1, <3>3
  <2>2. CASE st.main[0] = 0
    <3>1. p = st.nextId /\ E = {}
      BY <1>4, <2>2, HeadNull DEF Allocated
    <3>2. Lists(s.main, E \ {p})
      BY <1>3, <1>4, <2>2, <3>1
    <3>3. Behind(s.nextId) = Behind(st.nextId) \cup {p} /\ p \notin Behind(st.nextId)
      BY <1>1, <1>3, <2>2, <3>1, PageFacts DEF Behind
    <3> QED
      BY <3>1, <3>2, <3>3
  <2> QED
    BY <2>1, <2>2
<1>7. Lists(Overlay(s.buf, s.main), E \ {p})
  <2>1. s.buf \in Buffers /\ s.main \in Images
    BY <1>3 DEF States
  <2>2. Overlay(s.buf, s.main)[0] = s.main[0]
    BY <1>2, <1>5, <2>1, OverlayFacts, PageFacts
  <2>3. \A q \in E \ {p} : Overlay(s.buf, s.main)[q] = s.main[q]
    BY <1>4, <1>5, <2>1, OverlayFacts, PageFacts
  <2> QED
    BY <1>6, <2>2, <2>3, SameList
<1> QED
  BY <1>4, <1>5, <1>6, <1>7 DEF s

\* The page and the pages in use, as a statement gets them.
GotPage(st) == TxnWrite(AllocPage(st), Allocated(st), Bytes)
InUse(st, E) == Behind(st.nextId) \ E
SamePages(a, s) == s.main = a.main /\ s.nextId = a.nextId /\ s.buf = a.buf

\* A statement that got a page and gave it to a table.
LEMMA AllocGood ==
  ASSUME NEW st \in States, NEW b \in Mems, NEW E, NEW F, GoodWith(st, b, E, F),
         0 \notin DOMAIN st.buf, Allocated(st) \in Pages,
         NEW s \in States, SamePages(GotPage(st), s),
         TablesOK(InUse(st, E) \cup {Allocated(st)}, s.mem, s.wrappers),
         WrappersOK(InUse(st, E) \cup {Allocated(st)}, s.wrappers),
         Len(st.wrappers) <= Len(s.wrappers),
         \A i \in DOMAIN st.wrappers : s.wrappers[i] \cap InUse(st, E) \subseteq st.wrappers[i],
         \A i \in DOMAIN s.wrappers \ DOMAIN st.wrappers : s.wrappers[i] \cap InUse(st, E) = {}
  PROVE  /\ GoodWith(s, b, E \ {Allocated(st)}, E \ {Allocated(st)})
         /\ 0 \notin DOMAIN s.buf
<1> DEFINE p == Allocated(st)
           U == InUse(st, E)
<1>1. /\ E = F /\ Lists(s.main, E \ {p}) /\ Lists(Overlay(s.buf, s.main), E \ {p})
      /\ DOMAIN s.buf = (DOMAIN st.buf) \cup {p}
      /\ Behind(s.nextId) \ (E \ {p}) = U \cup {p} /\ E \subseteq Behind(s.nextId)
  <2>1. LET g == GotPage(st)
        IN /\ E = F /\ Lists(g.main, E \ {p}) /\ Lists(Overlay(g.buf, g.main), E \ {p})
           /\ DOMAIN g.buf = (DOMAIN st.buf) \cup {p}
           /\ Behind(g.nextId) \ (E \ {p}) = U \cup {p} /\ E \subseteq Behind(g.nextId)
    BY AllocState DEF GotPage, InUse
  <2> QED
    BY <2>1 DEF SamePages
<1>2. TablesOK(U, b, st.wrappers) /\ st.wrappers \in Wrappers /\ s.wrappers \in Wrappers
  BY DEF GoodWith, States, InUse
<1> HIDE DEF U
<1>3. TablesOK(U \cup {p}, b, s.wrappers)
  BY <1>2, KeepTables DEF U
<1>4. DOMAIN s.buf \cap (E \ {p}) = {} /\ 0 \notin DOMAIN s.buf
  BY <1>1, PageFacts DEF GoodWith
<1> QED
  BY <1>1, <1>3, <1>4 DEF GoodWith, U

\* What the statement starts from.
LEMMA GotFacts ==
  ASSUME NEW st \in States, NEW b \in Mems, NEW E, NEW F, GoodWith(st, b, E, F),
         0 \notin DOMAIN st.buf, Allocated(st) \in Pages
  PROVE  /\ GotPage(st) \in States
         /\ GotPage(st).mem = st.mem /\ GotPage(st).wrappers = st.wrappers
         /\ Allocated(st) \notin InUse(st, E)
         /\ Behind(GotPage(st).nextId) \ (E \ {Allocated(st)}) = InUse(st, E) \cup {Allocated(st)}
         /\ TablesOK(InUse(st, E), st.mem, st.wrappers)
         /\ WrappersOK(InUse(st, E), st.wrappers)
<1>1. /\ GotPage(st) \in States
      /\ GotPage(st).mem = st.mem /\ GotPage(st).wrappers = st.wrappers
  BY AllocFields DEF GotPage
<1>2. /\ E = F /\ Allocated(st) \notin InUse(st, E)
      /\ Behind(GotPage(st).nextId) \ (E \ {Allocated(st)}) = InUse(st, E) \cup {Allocated(st)}
  BY AllocState DEF GotPage, InUse
<1> QED
  BY <1>1, <1>2 DEF GoodWith, InUse

\* What each statement sets in the state a it got from the allocator.
Created(a, t, p) == [a EXCEPT !.mem.cat[t]  = [root |-> p, next |-> p],
                              !.mem.data[t] = <<p>>, !.mem.nodes[t] = {}]
NewPager(a, t) == [a EXCEPT !.wrappers = Append(@, {}),
                            !.mem.ix[t] = Len(a.wrappers) + 1]
Chained(a, t, p) == [a EXCEPT !.mem.data[t] = Append(@, p), !.mem.cat[t].next = p]
Noded(a, t, p, k) == [a EXCEPT !.wrappers[k] = @ \cup {p}, !.mem.nodes[t] = @ \cup {p}]
Cleared(a, t) == [a EXCEPT !.mem.cat[t] = NoTable, !.mem.data[t] = << >>,
                           !.mem.nodes[t] = {}, !.mem.ix[t] = NoWrapper]

LEMMA CreateFields ==
  ASSUME NEW a \in States, NEW t \in Tables, NEW p \in Pages
  PROVE  LET r == Created(a, t, p)
         IN /\ r \in States /\ SamePages(a, r) /\ r.wrappers = a.wrappers
            /\ Founded(a.mem, r.mem, t, p) /\ r.mem.ix[t] = a.mem.ix[t]
<1> DEFINE c == [root |-> p, next |-> p]
<1>0. PICK m \in Mems : m = a.mem
  BY DEF States
<1>1. PICK n : n = [m EXCEPT !.cat[t] = c, !.data[t] = <<p>>, !.nodes[t] = {}]
  OBVIOUS
<1>2. PICK r : r = [a EXCEPT !.mem = n]
  OBVIOUS
<1>3. Created(a, t, p) = r
  <2>1. PICK n1 : n1 = [m EXCEPT !.cat[t] = c]
    OBVIOUS
  <2>2. PICK q : q = [a EXCEPT !.mem.cat[t] = c]
    OBVIOUS
  <2>3. q = [a EXCEPT !.mem = n1]
    BY <1>0, <2>1, <2>2 DEF States
  <2>4. Created(a, t, p) = [q EXCEPT !.mem.data[t] = <<p>>, !.mem.nodes[t] = {}]
    BY <2>2 DEF Created
  <2>5. n = [n1 EXCEPT !.data[t] = <<p>>, !.nodes[t] = {}]
    BY <1>1, <2>1
  <2>6. n1 \in Mems
    <3>1. c \in [root : Nat, next : Nat]
      BY PageFacts
    <3>2. [m.cat EXCEPT ![t] = c] \in [Tables -> [root : Nat, next : Nat]]
      BY <3>1 DEF Mems
    <3> HIDE DEF c
    <3> QED
      BY <2>1, <3>2 DEF Mems
  <2> HIDE DEF c
  <2>7. q \in States /\ q.mem = n1
    BY <2>3, <2>6 DEF States
  <2>8. [q EXCEPT !.mem.data[t] = <<p>>, !.mem.nodes[t] = {}] = [q EXCEPT !.mem = n]
    BY <2>5, <2>7 DEF States
  <2>9. [q EXCEPT !.mem = n] = [a EXCEPT !.mem = n]
    BY <2>3 DEF States
  <2> QED
    BY <1>2, <2>4, <2>8, <2>9
<1>4. /\ n.cat = [m.cat EXCEPT ![t] = c] /\ n.data = [m.data EXCEPT ![t] = <<p>>]
      /\ n.nodes = [m.nodes EXCEPT ![t] = {}] /\ n.ix = m.ix
      /\ n = [cat |-> n.cat, data |-> n.data, nodes |-> n.nodes, ix |-> n.ix]
  BY <1>1 DEF Mems
<1>5. n \in Mems
  <2>1. c \in [root : Nat, next : Nat]
    BY PageFacts
  <2>2. n.cat \in [Tables -> [root : Nat, next : Nat]]
    BY <1>4, <2>1 DEF Mems
  <2>3. n.data \in [Tables -> Seq(Pages)]
    BY <1>4 DEF Mems
  <2>4. n.nodes \in [Tables -> SUBSET Pages] /\ n.ix \in [Tables -> Nat]
    BY <1>4 DEF Mems
  <2> QED
    BY <1>4, <2>2, <2>3, <2>4 DEF Mems
<1>6. /\ r \in States /\ r.main = a.main /\ r.nextId = a.nextId /\ r.buf = a.buf
      /\ r.wrappers = a.wrappers /\ r.mem = n
  BY <1>2, <1>5 DEF States
<1>7. Founded(m, n, t, p) /\ n.ix[t] = m.ix[t]
  BY <1>4 DEF Founded, SameOthers, Mems
<1> QED
  BY <1>0, <1>3, <1>6, <1>7 DEF SamePages

\* The index of t has the next index pager.
GetsPager(m, n, ws, xs, t) ==
  /\ SameOthers(m, n, t) /\ xs = Append(ws, {})
  /\ n.ix[t] = Len(ws) + 1 /\ n.cat[t] = m.cat[t]
  /\ n.data[t] = m.data[t] /\ n.nodes[t] = m.nodes[t]

LEMMA PagerFields ==
  ASSUME NEW a \in States, NEW t \in Tables
  PROVE  LET r == NewPager(a, t)
         IN /\ r \in States /\ SamePages(a, r)
            /\ GetsPager(a.mem, r.mem, a.wrappers, r.wrappers, t)
<1>0. PICK m \in Mems, ws \in Wrappers : m = a.mem /\ ws = a.wrappers
  BY DEF States
<1>1. PICK k \in Nat, xs \in Wrappers : k = Len(ws) + 1 /\ xs = Append(ws, {})
  <2>1. Len(ws) + 1 \in Nat /\ Append(ws, {}) \in Wrappers
    BY DEF Wrappers
  <2> QED
    BY <2>1
<1>2. PICK n : n = [m EXCEPT !.ix[t] = k]
  OBVIOUS
<1>3. PICK r : r = [a EXCEPT !.wrappers = xs, !.mem = n]
  OBVIOUS
<1>4. NewPager(a, t) = r
  BY <1>0, <1>1, <1>2, <1>3 DEF States, NewPager
<1>5. /\ n.cat = m.cat /\ n.data = m.data /\ n.nodes = m.nodes
      /\ n.ix = [m.ix EXCEPT ![t] = k] /\ n \in Mems
  BY <1>2 DEF Mems
<1>6. /\ r \in States /\ r.main = a.main /\ r.nextId = a.nextId /\ r.buf = a.buf
      /\ r.wrappers = xs /\ r.mem = n
  BY <1>3, <1>5 DEF States
<1>7. SameOthers(m, n, t) /\ n.ix[t] = k
  BY <1>5 DEF SameOthers, Mems
<1> QED
  BY <1>0, <1>1, <1>4, <1>5, <1>6, <1>7 DEF SamePages, GetsPager

LEMMA ChainFields ==
  ASSUME NEW a \in States, NEW t \in Tables, NEW p \in Pages
  PROVE  LET r == Chained(a, t, p)
         IN /\ r \in States /\ SamePages(a, r) /\ r.wrappers = a.wrappers
            /\ Lengthens(a.mem, r.mem, t, p)
<1>0. PICK m \in Mems : m = a.mem
  BY DEF States
<1>1. PICK n : n = [m EXCEPT !.data[t] = Append(@, p), !.cat[t].next = p]
  OBVIOUS
<1>2. PICK r : r = [a EXCEPT !.mem = n]
  OBVIOUS
<1>3. Chained(a, t, p) = r
  BY <1>0, <1>1, <1>2 DEF States, Chained
<1>4. /\ n.cat = [m.cat EXCEPT ![t].next = p]
      /\ n.data = [m.data EXCEPT ![t] = Append(@, p)]
      /\ n.nodes = m.nodes /\ n.ix = m.ix
      /\ n = [cat |-> n.cat, data |-> n.data, nodes |-> n.nodes, ix |-> n.ix]
  BY <1>1 DEF Mems
<1>5. PICK c \in [Tables -> [root : Nat, next : Nat]], x \in [root : Nat, next : Nat] :
        c = m.cat /\ x = [c[t] EXCEPT !.next = p]
  <2>1. PICK c \in [Tables -> [root : Nat, next : Nat]] : c = m.cat
    BY DEF Mems
  <2>2. [c[t] EXCEPT !.next = p] \in [root : Nat, next : Nat]
    BY PageFacts
  <2> QED
    BY <2>1, <2>2
<1>6. n.cat = [c EXCEPT ![t] = x] /\ x.root = c[t].root /\ x.next = p
  BY <1>4, <1>5
<1>7. n \in Mems
  <2>1. n.cat \in [Tables -> [root : Nat, next : Nat]]
    BY <1>5, <1>6
  <2>2. n.data \in [Tables -> Seq(Pages)]
    BY <1>4 DEF Mems
  <2> QED
    BY <1>4, <2>1, <2>2 DEF Mems
<1>8. /\ r \in States /\ r.main = a.main /\ r.nextId = a.nextId /\ r.buf = a.buf
      /\ r.wrappers = a.wrappers /\ r.mem = n
  BY <1>2, <1>7 DEF States
<1>9. /\ n.cat[t] = x /\ \A u \in Tables \ {t} : n.cat[u] = m.cat[u]
      /\ n.data[t] = Append(m.data[t], p) /\ \A u \in Tables \ {t} : n.data[u] = m.data[u]
  BY <1>4, <1>5, <1>6 DEF Mems
<1>10. Lengthens(m, n, t, p)
  BY <1>4, <1>5, <1>6, <1>9 DEF Lengthens, SameOthers
<1> QED
  BY <1>0, <1>3, <1>8, <1>10 DEF SamePages

LEMMA IndexFields ==
  ASSUME NEW a \in States, NEW t \in Tables, NEW p \in Pages, NEW k \in Nat
  PROVE  LET r == Noded(a, t, p, k)
         IN /\ r \in States /\ SamePages(a, r) /\ Indexes(a.mem, r.mem, t, p)
            /\ Records(a.wrappers, r.wrappers, k, p)
<1>0. PICK m \in Mems, ws \in Wrappers : m = a.mem /\ ws = a.wrappers
  BY DEF States
<1>1. PICK n, xs : n = [m EXCEPT !.nodes[t] = @ \cup {p}] /\ xs = [ws EXCEPT ![k] = @ \cup {p}]
  OBVIOUS
<1>2. PICK r : r = [a EXCEPT !.wrappers = xs, !.mem = n]
  OBVIOUS
<1>3. Noded(a, t, p, k) = r
  BY <1>0, <1>1, <1>2 DEF States, Noded
<1>4. /\ n.cat = m.cat /\ n.data = m.data /\ n.ix = m.ix
      /\ n.nodes = [m.nodes EXCEPT ![t] = @ \cup {p}] /\ n \in Mems
  BY <1>1 DEF Mems
<1>5. /\ xs \in [DOMAIN ws -> SUBSET Pages]
      /\ \A i \in DOMAIN ws : xs[i] = IF i = k THEN ws[i] \cup {p} ELSE ws[i]
  <2>1. \A i \in DOMAIN ws : ws[i] \in SUBSET Pages
    BY DEF Wrappers
  <2> QED
    BY <1>1, <2>1 DEF Wrappers
<1>6. xs \in Wrappers /\ Len(xs) = Len(ws) /\ DOMAIN xs = DOMAIN ws
  BY <1>5, SetWrapper
<1>7. /\ r \in States /\ r.main = a.main /\ r.nextId = a.nextId /\ r.buf = a.buf
      /\ r.wrappers = xs /\ r.mem = n
  BY <1>2, <1>4, <1>6 DEF States
<1>8. Indexes(m, n, t, p)
  BY <1>4 DEF Indexes, SameOthers, Mems
<1>9. Records(ws, xs, k, p)
  BY <1>5, <1>6 DEF Records
<1> QED
  BY <1>0, <1>3, <1>7, <1>8, <1>9 DEF SamePages

LEMMA DropFields ==
  ASSUME NEW a \in States, NEW t \in Tables
  PROVE  LET r == Cleared(a, t)
         IN /\ r \in States /\ SamePages(a, r) /\ r.wrappers = a.wrappers
            /\ Removes(a.mem, r.mem, t)
<1>0. PICK m \in Mems : m = a.mem
  BY DEF States
<1>1. PICK n : n = [m EXCEPT !.cat[t] = NoTable, !.data[t] = << >>,
                             !.nodes[t] = {}, !.ix[t] = NoWrapper]
  OBVIOUS
<1>2. PICK r : r = [a EXCEPT !.mem = n]
  OBVIOUS
<1>3. Cleared(a, t) = r
  <2>1. PICK n1 : n1 = [m EXCEPT !.cat[t] = NoTable, !.data[t] = << >>]
    OBVIOUS
  <2>2. PICK q : q = [a EXCEPT !.mem.cat[t] = NoTable, !.mem.data[t] = << >>]
    OBVIOUS
  <2>3. q = [a EXCEPT !.mem = n1]
    BY <1>0, <2>1, <2>2 DEF States
  <2>4. Cleared(a, t) = [q EXCEPT !.mem.nodes[t] = {}, !.mem.ix[t] = NoWrapper]
    BY <2>2 DEF Cleared
  <2>5. n = [n1 EXCEPT !.nodes[t] = {}, !.ix[t] = NoWrapper]
    BY <1>1, <2>1
  <2>6. n1 \in Mems
    <3>1. /\ n1.cat = [m.cat EXCEPT ![t] = NoTable] /\ n1.data = [m.data EXCEPT ![t] = << >>]
          /\ n1 = [cat |-> n1.cat, data |-> n1.data, nodes |-> m.nodes, ix |-> m.ix]
      BY <2>1 DEF Mems
    <3>2. n1.cat \in [Tables -> [root : Nat, next : Nat]]
      BY <3>1 DEF Mems, NoTable
    <3>3. n1.data \in [Tables -> Seq(Pages)]
      BY <3>1 DEF Mems
    <3>4. m.nodes \in [Tables -> SUBSET Pages] /\ m.ix \in [Tables -> Nat]
      BY DEF Mems
    <3>5. n1.nodes = m.nodes /\ n1.ix = m.ix
      BY <3>1
    <3> QED
      BY <3>1, <3>2, <3>3, <3>4, <3>5 DEF Mems
  <2>7. q \in States /\ q.mem = n1
    BY <2>3, <2>6 DEF States
  <2>8. [q EXCEPT !.mem.nodes[t] = {}, !.mem.ix[t] = NoWrapper] = [q EXCEPT !.mem = n]
    BY <2>5, <2>7 DEF States
  <2>9. [q EXCEPT !.mem = n] = [a EXCEPT !.mem = n]
    BY <2>3 DEF States
  <2> QED
    BY <1>2, <2>4, <2>8, <2>9
<1>4. /\ n.cat = [m.cat EXCEPT ![t] = NoTable] /\ n.data = [m.data EXCEPT ![t] = << >>]
      /\ n.nodes = [m.nodes EXCEPT ![t] = {}] /\ n.ix = [m.ix EXCEPT ![t] = NoWrapper]
      /\ n = [cat |-> n.cat, data |-> n.data, nodes |-> n.nodes, ix |-> n.ix]
  BY <1>1 DEF Mems
<1>5. n \in Mems
  <2>1. n.cat \in [Tables -> [root : Nat, next : Nat]]
    BY <1>4 DEF Mems, NoTable
  <2>2. n.data \in [Tables -> Seq(Pages)]
    BY <1>4 DEF Mems
  <2>3. n.nodes \in [Tables -> SUBSET Pages] /\ n.ix \in [Tables -> Nat]
    BY <1>4 DEF Mems, NoWrapper
  <2> QED
    BY <1>4, <2>1, <2>2, <2>3 DEF Mems
<1>6. /\ r \in States /\ r.main = a.main /\ r.nextId = a.nextId /\ r.buf = a.buf
      /\ r.wrappers = a.wrappers /\ r.mem = n
  BY <1>2, <1>5 DEF States
<1>7. Removes(m, n, t)
  BY <1>4 DEF Removes, SameOthers, Mems
<1> QED
  BY <1>0, <1>3, <1>6, <1>7 DEF SamePages

LEMMA CreateGood ==
  ASSUME NEW st \in States, NEW b \in Mems, NEW E, NEW F, GoodWith(st, b, E, F),
         0 \notin DOMAIN st.buf, Allocated(st) \in Pages,
         NEW t \in Tables, ~Exists(st.mem, t)
  PROVE  Good(CreateTable(st, t), b)
<1> DEFINE p == Allocated(st)
           a == GotPage(st)
           r == Created(a, t, p)
           U == InUse(st, E)
           m == st.mem
           ws == st.wrappers
           s == CreateTable(st, t)
           n == s.mem
           xs == s.wrappers
<1>1. s = IF t \in Indexed THEN NewPager(r, t) ELSE r
  BY DEF CreateTable, GotPage, Created, NewPager
<1>2. /\ a \in States /\ a.mem = m /\ a.wrappers = ws /\ p \in Pages \ U
      /\ TablesOK(U, m, ws) /\ WrappersOK(U, ws) /\ m \in Mems /\ ws \in Wrappers
  BY GotFacts DEF States
<1> HIDE DEF a, U, s, p
<1>3. /\ r \in States /\ SamePages(a, r) /\ r.wrappers = ws
      /\ Founded(m, r.mem, t, p) /\ r.mem.ix[t] = m.ix[t]
  BY <1>2, CreateFields
<1> HIDE DEF r
<1>4. m.ix[t] = NoWrapper /\ Len(ws) \in Nat /\ DOMAIN ws = 1..Len(ws)
  BY <1>2 DEF TablesOK, TableOK, Wrappers
<1>5. /\ s \in States /\ SamePages(a, s) /\ Founded(m, n, t, p)
      /\ Len(ws) <= Len(xs) /\ \A i \in DOMAIN ws : i \in DOMAIN xs /\ xs[i] = ws[i]
      /\ \A i \in DOMAIN xs \ DOMAIN ws : xs[i] = {}
      /\ n.ix[t] = NoWrapper \/ (n.ix[t] = Len(ws) + 1 /\ n.ix[t] = Len(xs))
  <2>1. CASE t \in Indexed
    <3>1. /\ s \in States /\ SamePages(r, s) /\ SameOthers(r.mem, n, t)
          /\ xs = Append(ws, {}) /\ n.ix[t] = Len(ws) + 1 /\ n.cat[t] = r.mem.cat[t]
          /\ n.data[t] = r.mem.data[t] /\ n.nodes[t] = r.mem.nodes[t]
      <4>1. s = NewPager(r, t)
        BY <1>1, <2>1
      <4>2. s \in States /\ SamePages(r, s) /\ GetsPager(r.mem, n, r.wrappers, xs, t)
        BY <1>3, <4>1, PagerFields
      <4> QED
        BY <1>3, <4>2 DEF GetsPager
    <3>2. /\ Len(xs) = Len(ws) + 1 /\ DOMAIN xs = 1..(Len(ws) + 1)
          /\ xs[Len(ws) + 1] = {} /\ \A i \in 1..Len(ws) : xs[i] = ws[i]
      BY <1>2, <3>1 DEF Wrappers
    <3>3. \A i \in DOMAIN xs : i \in DOMAIN ws \/ i = Len(ws) + 1
      BY <1>4, <3>2
    <3>4. \A i \in DOMAIN ws : i \in DOMAIN xs /\ xs[i] = ws[i]
      BY <1>4, <3>2
    <3>5. SamePages(a, s) /\ Founded(m, n, t, p)
      BY <1>3, <3>1 DEF SamePages, Founded, SameOthers
    <3> QED
      BY <1>3, <1>4, <3>1, <3>2, <3>3, <3>4, <3>5
  <2>2. CASE t \notin Indexed
    <3>1. s = r /\ n = r.mem /\ xs = ws
      BY <1>1, <1>3, <2>2
    <3>2. n.ix[t] = NoWrapper /\ Len(ws) <= Len(xs)
      BY <1>3, <1>4, <3>1
    <3>3. /\ \A i \in DOMAIN ws : i \in DOMAIN xs /\ xs[i] = ws[i]
          /\ \A i \in DOMAIN xs \ DOMAIN ws : xs[i] = {}
      BY <3>1
    <3>4. s \in States /\ SamePages(a, s) /\ Founded(m, n, t, p)
      BY <1>3, <3>1
    <3> QED
      BY <3>2, <3>3, <3>4
  <2> QED
    BY <2>1, <2>2
<1>6. n \in Mems /\ xs \in Wrappers
  BY <1>5 DEF States
<1>7. TablesOK(U \cup {p}, n, xs)
  BY <1>2, <1>5, <1>6, CreateTables
<1>8. WrappersOK(U \cup {p}, xs)
  BY <1>2, <1>5 DEF WrappersOK
<1>9. GoodWith(s, b, E \ {p}, E \ {p})
  <2>1. /\ \A i \in DOMAIN ws : xs[i] \cap U \subseteq ws[i]
        /\ \A i \in DOMAIN xs \ DOMAIN ws : xs[i] \cap U = {}
    BY <1>5
  <2> QED
    BY <1>5, <1>7, <1>8, <2>1, AllocGood DEF U, p, a
<1> QED
  BY <1>5, <1>9 DEF Good, s

LEMMA IndexGood ==
  ASSUME NEW st \in States, NEW b \in Mems, NEW E, NEW F, GoodWith(st, b, E, F),
         0 \notin DOMAIN st.buf, Allocated(st) \in Pages,
         NEW t \in Tables, Exists(st.mem, t)
  PROVE  Good(ExtendIndex(st, t), b)
<1> DEFINE p == Allocated(st)
           a == GotPage(st)
           U == InUse(st, E)
           m == st.mem
           ws == st.wrappers
           s == Noded(a, t, p, m.ix[t])
           n == s.mem
           xs == s.wrappers
<1>1. s = ExtendIndex(st, t)
  BY DEF ExtendIndex, GotPage, Noded
<1>2. /\ a \in States /\ a.mem = m /\ a.wrappers = ws /\ p \in Pages \ U
      /\ TablesOK(U, m, ws) /\ WrappersOK(U, ws) /\ m \in Mems /\ ws \in Wrappers
  BY GotFacts DEF States
<1> HIDE DEF a, U, p
<1>3. /\ s \in States /\ SamePages(a, s)
      /\ Indexes(m, n, t, p) /\ Records(ws, xs, m.ix[t], p)
  <2>1. m.ix[t] \in Nat /\ p \in Pages
    BY <1>2 DEF Mems
  <2> QED
    BY <1>2, <2>1, IndexFields
<1> HIDE DEF s
<1>4. n \in Mems /\ xs \in Wrappers /\ Len(ws) \in Nat
  BY <1>2, <1>3 DEF States, Wrappers
<1>5. TablesOK(U \cup {p}, n, xs)
  BY <1>2, <1>3, <1>4, IndexTables
<1>6. WrappersOK(U \cup {p}, xs)
  <2>1. \A i \in DOMAIN ws : ws[i] \subseteq U
    BY <1>2 DEF WrappersOK
  <2>2. \A i \in DOMAIN xs : xs[i] \subseteq U \cup {p}
    BY <1>3, <2>1 DEF Records
  <2>3. ASSUME NEW i \in DOMAIN xs, NEW j \in DOMAIN xs, i # j PROVE xs[i] \cap xs[j] = {}
    <3>1. i \in DOMAIN ws /\ j \in DOMAIN ws
      BY <1>3 DEF Records
    <3>2. ws[i] \cap ws[j] = {} /\ p \notin ws[i] /\ p \notin ws[j]
      BY <1>2, <2>1, <2>3, <3>1 DEF WrappersOK
    <3>3. /\ xs[i] = IF i = m.ix[t] THEN ws[i] \cup {p} ELSE ws[i]
          /\ xs[j] = IF j = m.ix[t] THEN ws[j] \cup {p} ELSE ws[j]
      BY <1>3, <3>1 DEF Records
    <3>4. CASE i = m.ix[t]
      <4>1. xs[j] = ws[j] /\ xs[i] = ws[i] \cup {p}
        BY <2>3, <3>3, <3>4
      <4> QED
        BY <3>2, <4>1
    <3>5. CASE i # m.ix[t]
      <4>1. xs[i] = ws[i] /\ xs[j] \subseteq ws[j] \cup {p}
        BY <3>3, <3>5
      <4> QED
        BY <3>2, <4>1
    <3> QED
      BY <3>4, <3>5
  <2> QED
    BY <2>2, <2>3 DEF WrappersOK
<1>7. GoodWith(s, b, E \ {p}, E \ {p})
  <2>1. /\ \A i \in DOMAIN ws : xs[i] \cap U \subseteq ws[i]
        /\ Len(ws) <= Len(xs) /\ DOMAIN xs = DOMAIN ws
    <3>1. p \notin U /\ DOMAIN xs = DOMAIN ws /\ Len(xs) = Len(ws)
      BY <1>2, <1>3 DEF Records
    <3>2. ASSUME NEW i \in DOMAIN ws PROVE xs[i] \cap U \subseteq ws[i]
      <4>1. xs[i] = IF i = m.ix[t] THEN ws[i] \cup {p} ELSE ws[i]
        BY <1>3 DEF Records
      <4>2. xs[i] \subseteq ws[i] \cup {p}
        BY <4>1
      <4> QED
        BY <3>1, <4>2
    <3> QED
      BY <1>4, <3>1, <3>2
  <2> QED
    BY <1>3, <1>5, <1>6, <2>1, AllocGood DEF U, p, a
<1> QED
  BY <1>1, <1>3, <1>7 DEF Good

\* Growing past nothing that others own, as Contiguous has it.
LEMMA ChainGood ==
  ASSUME NEW st \in States, NEW b \in Mems, NEW E, NEW F, GoodWith(st, b, E, F),
         0 \notin DOMAIN st.buf, Allocated(st) \in Pages,
         NEW t \in Tables, Exists(st.mem, t),
         Passes(st.mem, st.wrappers, t, Allocated(st)),
         (st.mem.cat[t].root..Allocated(st)) \cap E \subseteq {Allocated(st)}
  PROVE  LET s == ExtendChain(st, t)
         IN /\ s \in States /\ 0 \notin DOMAIN s.buf /\ Exists(s.mem, t)
            /\ GoodWith(s, b, E \ {Allocated(st)}, E \ {Allocated(st)})
<1> DEFINE p == Allocated(st)
           a == GotPage(st)
           U == InUse(st, E)
           m == st.mem
           ws == st.wrappers
           s == Chained(a, t, p)
           n == s.mem
<1>1. s = ExtendChain(st, t)
  BY DEF ExtendChain, GotPage, Chained
<1>2. /\ a \in States /\ a.mem = m /\ a.wrappers = ws /\ p \in Pages \ U
      /\ TablesOK(U, m, ws) /\ WrappersOK(U, ws) /\ m \in Mems /\ ws \in Wrappers
      /\ Behind(a.nextId) \ (E \ {p}) = U \cup {p}
  BY GotFacts DEF States
<1>3. Passes(m, ws, t, p) /\ (m.cat[t].root..p) \cap E \subseteq {p}
  OBVIOUS
<1> HIDE DEF a, p
<1>4. /\ s \in States /\ SamePages(a, s) /\ s.wrappers = ws /\ Lengthens(m, n, t, p)
  <2>1. p \in Pages
    BY <1>2
  <2> QED
    BY <1>2, <2>1, ChainFields
<1> HIDE DEF s
<1>5. n \in Mems
  BY <1>4 DEF States
<1>6. m.cat[t].root..p \subseteq U \cup {p}
  <2>1. a.nextId \in Nat
    BY <1>2, PageFacts DEF States
  <2>2. p \in Behind(a.nextId)
    BY <1>2
  <2>3. m.cat[t].root \in U /\ m.cat[t].root \in Nat
    <3>1. m.cat[t].root \in Held(m, t) /\ Held(m, t) \subseteq Span(m, t) /\ Span(m, t) \subseteq U
      BY <1>2 DEF TablesOK, TableOK
    <3> QED
      BY <1>2, <3>1 DEF Mems
  <2>4. m.cat[t].root >= 2
    BY <2>3 DEF InUse, Behind
  <2>5. m.cat[t].root..p \subseteq Behind(a.nextId)
    BY <1>2, <2>1, <2>2, <2>3, <2>4, PageFacts DEF Behind
  <2> QED
    BY <1>2, <1>3, <2>5
<1> HIDE DEF U
<1>7. TablesOK(U \cup {p}, n, ws)
  BY <1>2, <1>3, <1>4, <1>5, <1>6, ChainTables
<1>8. WrappersOK(U \cup {p}, ws) /\ Len(ws) \in Nat
  BY <1>2 DEF WrappersOK, Wrappers
<1>9. GoodWith(s, b, E \ {p}, E \ {p}) /\ 0 \notin DOMAIN s.buf
  <2>1. /\ Len(ws) <= Len(s.wrappers) /\ DOMAIN s.wrappers = DOMAIN ws
        /\ \A i \in DOMAIN ws : s.wrappers[i] \cap U \subseteq ws[i]
    BY <1>4, <1>8
  <2>2. TablesOK(U \cup {p}, n, s.wrappers) /\ WrappersOK(U \cup {p}, s.wrappers)
    BY <1>4, <1>7, <1>8
  <2> QED
    BY <1>4, <2>1, <2>2, AllocGood DEF U, p, a
<1>10. Exists(n, t)
  BY <1>2, <1>4, PageFacts DEF Lengthens, Exists, NoTable
<1> QED
  BY <1>1, <1>4, <1>9, <1>10 DEF p

-----------------------------------------------------------------------------
(* DROP TABLE. *)

KeepsRest(a, s) ==
  /\ s.main = a.main /\ s.nextId = a.nextId /\ s.mem = a.mem /\ s.wrappers = a.wrappers

\* s is a with the pages of S put in front of the free list F.
Frees(a, s, F, S) ==
  /\ s \in States /\ KeepsRest(a, s)
  /\ Lists(Overlay(s.buf, s.main), F \cup S)
  /\ DOMAIN a.buf \subseteq DOMAIN s.buf
  /\ DOMAIN s.buf \subseteq DOMAIN a.buf \cup S \cup {0}
  /\ 0 \notin DOMAIN s.buf => S = {}

LEMMA FreeFields ==
  ASSUME NEW s \in States, NEW p \in Pages
  PROVE  LET r == TxnFree(s, p)
         IN /\ r \in States /\ KeepsRest(s, r)
            /\ DOMAIN r.buf = DOMAIN s.buf \cup {p, 0}
            /\ r.buf[0] = p /\ r.buf[p] = Read(s, 0)
            /\ \A q \in DOMAIN s.buf \ {p, 0} : r.buf[q] = s.buf[q]
<1>1. s.buf \in Buffers /\ s.main \in Images /\ p \in 0..MaxPages /\ 0 \in 0..MaxPages
  BY PageFacts DEF States
<1>2. PICK h : h = Read(s, 0)
  OBVIOUS
<1>3. h \in Contents /\ p \in Contents
  BY <1>1, <1>2, BufferFacts, PageFacts DEF Read, Images, Contents, Pages, Bytes
<1>4. PICK b1 : b1 = Put(s.buf, p, h)
  OBVIOUS
<1>5. /\ b1 \in Buffers /\ DOMAIN b1 = DOMAIN s.buf \cup {p}
      /\ \A q \in DOMAIN s.buf \cup {p} : b1[q] = IF q = p THEN h ELSE s.buf[q]
  <2>1. IsPut(Put(s.buf, p, h), s.buf, p, h)
    BY <1>1, <1>3, PutFacts
  <2> QED
    BY <1>4, <2>1 DEF IsPut
<1>6. PICK b2 : b2 = Put(b1, 0, p)
  OBVIOUS
<1>7. /\ b2 \in Buffers /\ DOMAIN b2 = DOMAIN b1 \cup {0}
      /\ \A q \in DOMAIN b1 \cup {0} : b2[q] = IF q = 0 THEN p ELSE b1[q]
  <2>1. IsPut(Put(b1, 0, p), b1, 0, p)
    BY <1>1, <1>3, <1>5, PutFacts
  <2> QED
    BY <1>6, <2>1 DEF IsPut
<1>8. PICK r : r = [s EXCEPT !.buf = b2]
  OBVIOUS
<1>9. TxnFree(s, p) = r
  <2>1. PICK r1 : r1 = [s EXCEPT !.buf = b1]
    OBVIOUS
  <2>2. TxnWrite(s, p, h) = r1
    BY <1>4, <2>1 DEF TxnWrite, States
  <2>3. r1.buf = b1 /\ [r1 EXCEPT !.buf = b2] = r
    BY <1>8, <2>1 DEF States
  <2>4. TxnWrite(r1, 0, p) = r
    BY <1>6, <2>3 DEF TxnWrite
  <2> QED
    BY <1>2, <2>2, <2>4 DEF TxnFree
<1>10. /\ r \in States /\ r.buf = b2 /\ r.main = s.main /\ r.nextId = s.nextId
       /\ r.mem = s.mem /\ r.wrappers = s.wrappers
  BY <1>7, <1>8 DEF States
<1>11. /\ DOMAIN b2 = DOMAIN s.buf \cup {p, 0} /\ b2[0] = p /\ b2[p] = h
       /\ \A q \in DOMAIN s.buf \ {p, 0} : b2[q] = s.buf[q]
  BY <1>5, <1>7, PageFacts
<1> QED
  BY <1>2, <1>9, <1>10, <1>11 DEF KeepsRest

\* _txn_free_page: one page more in front of the list.
LEMMA FreeOne ==
  ASSUME NEW a \in States, NEW s, NEW F, NEW S, Frees(a, s, F, S),
         NEW p \in Pages \ (F \cup S)
  PROVE  Frees(a, TxnFree(s, p), F, S \cup {p})
<1>0. PICK r : r = TxnFree(s, p)
  OBVIOUS
<1>1. s \in States /\ p \in Pages
  BY DEF Frees
<1>2. /\ r \in States /\ KeepsRest(s, r)
      /\ DOMAIN r.buf = DOMAIN s.buf \cup {p, 0}
      /\ r.buf[0] = p /\ r.buf[p] = Read(s, 0)
      /\ \A q \in DOMAIN s.buf \ {p, 0} : r.buf[q] = s.buf[q]
  BY <1>0, <1>1, FreeFields
<1>3. PICK f, g : f = Overlay(s.buf, s.main) /\ g = Overlay(r.buf, r.main)
  OBVIOUS
<1>4. /\ \A q \in 0..MaxPages : f[q] = IF q \in DOMAIN s.buf THEN s.buf[q] ELSE s.main[q]
      /\ \A q \in 0..MaxPages : g[q] = IF q \in DOMAIN r.buf THEN r.buf[q] ELSE r.main[q]
  <2>1. s.buf \in Buffers /\ s.main \in Images /\ r.buf \in Buffers /\ r.main \in Images
    BY <1>1, <1>2 DEF States
  <2> QED
    BY <1>3, <2>1, OverlayFacts
<1>5. r.main = s.main
  BY <1>2 DEF KeepsRest
<1>6. 0 \in 0..MaxPages /\ p \in 0..MaxPages /\ p # 0
  BY <1>1, PageFacts
<1>7. g[0] = p /\ g[p] = f[0]
  BY <1>2, <1>4, <1>6 DEF Read
<1>8. Lists(f, F \cup S) /\ F \cup S \subseteq Pages
  BY <1>3 DEF Frees, Lists
<1>9. \A q \in F \cup S : g[q] = f[q]
  <2>1. ASSUME NEW q \in F \cup S PROVE g[q] = f[q]
    <3>1. q \in 0..MaxPages /\ q # 0 /\ q # p
      BY <1>8, PageFacts
    <3> QED
      BY <1>2, <1>4, <1>5, <3>1
  <2> QED
    BY <2>1
<1>10. Lists(g, (F \cup S) \cup {p})
  BY <1>7, <1>8, <1>9, PushList
<1>11. (F \cup S) \cup {p} = F \cup (S \cup {p})
  OBVIOUS
<1>12. Lists(g, F \cup (S \cup {p}))
  BY <1>10, <1>11
<1>13. KeepsRest(a, r)
  BY <1>2 DEF KeepsRest, Frees
<1>14. /\ DOMAIN a.buf \subseteq DOMAIN r.buf
       /\ DOMAIN r.buf \subseteq DOMAIN a.buf \cup (S \cup {p}) \cup {0}
       /\ 0 \in DOMAIN r.buf
  BY <1>2 DEF Frees
<1> QED
  BY <1>0, <1>2, <1>3, <1>12, <1>13, <1>14 DEF Frees

\* The first n pages of S have been freed, in the states g.
FreesUpTo(g, n, a, S) ==
  g = [i \in 0..n |-> IF i = 0 THEN a
                      ELSE IF i \in S THEN TxnFree(g[i - 1], i) ELSE g[i - 1]]

LEMMA FreesExist ==
  ASSUME NEW a, NEW S
  PROVE  \A n \in Nat : \E g : FreesUpTo(g, n, a, S)
<1> DEFINE P == {n \in Nat : \E g : FreesUpTo(g, n, a, S)}
<1>1. 0 \in P
  <2> DEFINE g == [i \in 0..0 |-> a]
  <2>1. FreesUpTo(g, 0, a, S)
    BY DEF FreesUpTo
  <2> QED
    BY <2>1
<1>2. ASSUME NEW n \in Nat, n \in P PROVE n + 1 \in P
  <2>1. PICK g : FreesUpTo(g, n, a, S)
    BY <1>2
  <2> DEFINE h == [i \in 0..(n + 1) |->
                     IF i = 0 THEN a
                     ELSE IF i \in S THEN TxnFree(g[i - 1], i) ELSE g[i - 1]]
  <2>2. ASSUME NEW i \in 0..n PROVE h[i] = g[i]
    BY <2>1 DEF FreesUpTo
  <2>3. ASSUME NEW i \in 0..(n + 1), i # 0 PROVE h[i - 1] = g[i - 1]
    <3>1. i - 1 \in 0..n
      BY <2>3
    <3> QED
      BY <2>2, <3>1
  <2> HIDE DEF h
  <2>4. h = [i \in 0..(n + 1) |->
               IF i = 0 THEN a
               ELSE IF i \in S THEN TxnFree(h[i - 1], i) ELSE h[i - 1]]
    BY <2>3 DEF h
  <2>5. FreesUpTo(h, n + 1, a, S)
    BY <2>4 DEF FreesUpTo
  <2> QED
    BY <2>5
<1> HIDE DEF P
<1>3. Nat \subseteq P
  BY <1>1, <1>2, Induction
<1> QED
  BY <1>3 DEF P

\* The whole set, in ascending order.
LEMMA FreeAll ==
  ASSUME NEW a \in States, NEW F, Lists(Overlay(a.buf, a.main), F),
         NEW S, S \subseteq Pages, S \cap F = {}
  PROVE  Frees(a, TxnFreeAll(a, S), F, S)
<1>1. PICK g : FreesUpTo(g, MaxPages, a, S)
  BY FreesExist, PageFacts
<1>2. PICK f : FreesUpTo(f, MaxPages, a, S) /\ TxnFreeAll(a, S) = f[MaxPages]
  <2> DEFINE f == CHOOSE h : h = [i \in 0..MaxPages |->
                    IF i = 0 THEN a
                    ELSE IF i \in S THEN TxnFree(h[i - 1], i) ELSE h[i - 1]]
  <2>1. FreesUpTo(f, MaxPages, a, S)
    BY <1>1 DEF FreesUpTo
  <2>2. TxnFreeAll(a, S) = f[MaxPages]
    BY DEF TxnFreeAll
  <2> QED
    BY <2>1, <2>2
<1>3. f[0] = a /\ \A i \in 1..MaxPages :
        f[i] = IF i \in S THEN TxnFree(f[i - 1], i) ELSE f[i - 1]
  <2>1. f = [i \in 0..MaxPages |-> IF i = 0 THEN a
                      ELSE IF i \in S THEN TxnFree(f[i - 1], i) ELSE f[i - 1]]
    BY <1>2 DEF FreesUpTo
  <2>2. 0 \in 0..MaxPages /\ \A i \in 1..MaxPages : i \in 0..MaxPages /\ i # 0
    BY PageFacts
  <2> QED
    BY <2>1, <2>2
<1> DEFINE T(i) == {p \in S : p <= i}
           P == {i \in Nat : i <= MaxPages => Frees(a, f[i], F, T(i))}
<1>0. \A p \in S : p \in Nat /\ p >= 2 /\ p <= MaxPages
  BY PageFacts DEF Pages
<1>4. 0 \in P
  <2>1. T(0) = {}
    BY <1>0
  <2>2. Frees(a, a, F, {})
    BY DEF Frees, KeepsRest
  <2> QED
    BY <1>3, <2>1, <2>2
<1>5. ASSUME NEW i \in Nat, i \in P PROVE i + 1 \in P
  <2> SUFFICES ASSUME i + 1 <= MaxPages PROVE Frees(a, f[i + 1], F, T(i + 1))
    OBVIOUS
  <2>1. i + 1 \in 1..MaxPages /\ (i + 1) - 1 = i /\ i <= MaxPages
    BY PageFacts
  <2>2. f[i + 1] = IF i + 1 \in S THEN TxnFree(f[i], i + 1) ELSE f[i]
    BY <1>3, <2>1
  <2>3. Frees(a, f[i], F, T(i))
    BY <1>5, <2>1
  <2>4. CASE i + 1 \in S
    <3>1. T(i + 1) = T(i) \cup {i + 1}
      BY <1>0, <2>4
    <3>2. i + 1 \in Pages \ (F \cup T(i))
      BY <2>4
    <3> HIDE DEF T
    <3>3. Frees(a, TxnFree(f[i], i + 1), F, T(i) \cup {i + 1})
      BY <2>3, <3>2, FreeOne
    <3> QED
      BY <2>2, <2>4, <3>1, <3>3
  <2>5. CASE i + 1 \notin S
    <3>1. T(i + 1) = T(i)
      BY <1>0, <2>5
    <3> HIDE DEF T
    <3> QED
      BY <2>2, <2>3, <2>5, <3>1
  <2> QED
    BY <2>4, <2>5
<1>6. T(MaxPages) = S
  BY <1>0
<1> HIDE DEF P, T
<1>7. Nat \subseteq P
  BY <1>4, <1>5, Induction
<1>8. Frees(a, f[MaxPages], F, T(MaxPages))
  <2>1. MaxPages \in P /\ MaxPages <= MaxPages
    BY <1>7, PageFacts
  <2> QED
    BY <2>1 DEF P
<1> QED
  BY <1>2, <1>6, <1>8

\* The index pager forgets the pages that were freed.
Unlisted(a, k) == [a EXCEPT !.wrappers[k] = {}]

LEMMA UnlistFields ==
  ASSUME NEW a \in States, NEW k
  PROVE  LET r == Unlisted(a, k)
         IN /\ r \in States /\ SamePages(a, r) /\ r.mem = a.mem
            /\ Len(r.wrappers) = Len(a.wrappers) /\ DOMAIN r.wrappers = DOMAIN a.wrappers
            /\ \A i \in DOMAIN a.wrappers :
                 r.wrappers[i] = IF i = k THEN {} ELSE a.wrappers[i]
<1>0. PICK ws \in Wrappers : ws = a.wrappers
  BY DEF States
<1>1. PICK xs : xs = [ws EXCEPT ![k] = {}]
  OBVIOUS
<1>2. PICK r : r = [a EXCEPT !.wrappers = xs]
  OBVIOUS
<1>3. Unlisted(a, k) = r
  BY <1>0, <1>1, <1>2 DEF States, Unlisted
<1>4. /\ xs \in [DOMAIN ws -> SUBSET Pages]
      /\ \A i \in DOMAIN ws : xs[i] = IF i = k THEN {} ELSE ws[i]
  <2>1. \A i \in DOMAIN ws : ws[i] \in SUBSET Pages
    BY DEF Wrappers
  <2> QED
    BY <1>1, <2>1 DEF Wrappers
<1>5. xs \in Wrappers /\ Len(xs) = Len(ws) /\ DOMAIN xs = DOMAIN ws
  BY <1>4, SetWrapper
<1>6. /\ r \in States /\ r.main = a.main /\ r.nextId = a.nextId /\ r.buf = a.buf
      /\ r.wrappers = xs /\ r.mem = a.mem
  BY <1>2, <1>5 DEF States
<1> QED
  BY <1>0, <1>3, <1>4, <1>5, <1>6 DEF SamePages

\* What DropTable has freed before it clears the catalogue entry.
DropFreed(st, t) ==
  LET s1 == TxnFreeAll(st, CollectTableDataPages(st, t))
  IN IF st.mem.ix[t] = NoWrapper THEN s1
     ELSE Unlisted(TxnFreeAll(s1, st.wrappers[st.mem.ix[t]]), st.mem.ix[t])

\* s is st with the pages D of table t free, and its index pager empty.
FreesTable(st, s, t, F, D) ==
  /\ s \in States /\ s.main = st.main /\ s.nextId = st.nextId /\ s.mem = st.mem
  /\ Lists(Overlay(s.buf, s.main), F \cup D)
  /\ DOMAIN st.buf \subseteq DOMAIN s.buf
  /\ DOMAIN s.buf \subseteq DOMAIN st.buf \cup D \cup {0}
  /\ 0 \notin DOMAIN s.buf => D = {}
  /\ Len(s.wrappers) = Len(st.wrappers)
  /\ DOMAIN s.wrappers = DOMAIN st.wrappers
  /\ \A i \in DOMAIN st.wrappers :
       s.wrappers[i] = IF i = st.mem.ix[t] THEN {} ELSE st.wrappers[i]

\* The pages DROP TABLE frees were in use, and it frees no page twice.
LEMMA DropFrees ==
  ASSUME NEW st \in States, NEW b \in Mems, NEW E, NEW F, GoodWith(st, b, E, F),
         NEW t \in Tables, Exists(st.mem, t)
  PROVE  /\ Dropped(st.mem, st.wrappers, t) \subseteq Behind(st.nextId) \ F
         /\ FreesTable(st, DropFreed(st, t), t, F, Dropped(st.mem, st.wrappers, t))
<1> DEFINE m == st.mem
           ws == st.wrappers
           k == m.ix[t]
           D == Dropped(m, ws, t)
           U == Behind(st.nextId) \ F
           C == CollectTableDataPages(st, t)
           s1 == TxnFreeAll(st, C)
           s2 == TxnFreeAll(s1, ws[k])
           s == DropFreed(st, t)
<1>1. /\ m \in Mems /\ ws \in Wrappers /\ TablesOK(U, m, ws) /\ WrappersOK(U, ws)
      /\ Lists(Overlay(st.buf, st.main), F)
  BY DEF States, GoodWith
<1>2. U \subseteq Pages /\ U \cap F = {}
  BY PageFacts DEF Behind, States, Pages
<1>3. /\ k \in Nat /\ (k # NoWrapper => k \in DOMAIN ws)
      /\ DOMAIN ws = 1..Len(ws) /\ Len(ws) \in Nat
  BY <1>1 DEF TablesOK, TableOK, Mems, NoWrapper, Wrappers
<1>4. C = Span(m, t) \ Reserved(ws) /\ C \subseteq U
  BY <1>1 DEF CollectTableDataPages, Span, TablesOK, TableOK
<1>5. k # NoWrapper => ws[k] \subseteq U /\ ws[k] \cap C = {}
  BY <1>1, <1>3, <1>4 DEF WrappersOK, Reserved
<1>6. D = IF k = NoWrapper THEN C ELSE C \cup ws[k]
  BY <1>4 DEF Dropped, Recorded
<1> HIDE DEF U, C, D
<1>7. Frees(st, s1, F, C)
  BY <1>1, <1>2, <1>4, FreeAll
<1>8. CASE k = NoWrapper
  <2>1. s = s1
    BY <1>8 DEF DropFreed, C
  <2>2. D = C
    BY <1>6, <1>8
  <2>3. \A i \in DOMAIN ws : i # k
    BY <1>3, <1>8 DEF NoWrapper
  <2> HIDE DEF s, s1
  <2>4. /\ s \in States /\ s.main = st.main /\ s.nextId = st.nextId /\ s.mem = m
        /\ s.wrappers = ws
        /\ Lists(Overlay(s.buf, s.main), F \cup D)
        /\ DOMAIN st.buf \subseteq DOMAIN s.buf
        /\ DOMAIN s.buf \subseteq DOMAIN st.buf \cup D \cup {0}
        /\ 0 \notin DOMAIN s.buf => D = {}
    BY <1>7, <2>1, <2>2 DEF Frees, KeepsRest
  <2>5. D \subseteq U
    BY <1>4, <2>2
  <2>6. \A i \in DOMAIN ws : s.wrappers[i] = IF i = k THEN {} ELSE ws[i]
    BY <2>3, <2>4
  <2> QED
    BY <2>4, <2>5, <2>6 DEF U, D, s, FreesTable
<1>9. CASE k # NoWrapper
  <2>1. s = Unlisted(s2, k)
    BY <1>9 DEF DropFreed, C
  <2>2. D = C \cup ws[k] /\ D \subseteq U
    BY <1>4, <1>5, <1>6, <1>9
  <2> HIDE DEF s1
  <2>3. s1 \in States /\ KeepsRest(st, s1) /\ Lists(Overlay(s1.buf, s1.main), F \cup C)
    BY <1>7 DEF Frees
  <2>4. Frees(s1, s2, F \cup C, ws[k])
    <3>1. ws[k] \subseteq Pages /\ ws[k] \cap (F \cup C) = {}
      BY <1>2, <1>5, <1>9
    <3> QED
      BY <2>3, <3>1, FreeAll
  <2> HIDE DEF s2, s
  <2>5. /\ s2 \in States /\ KeepsRest(st, s2)
        /\ Lists(Overlay(s2.buf, s2.main), (F \cup C) \cup ws[k])
        /\ DOMAIN st.buf \subseteq DOMAIN s2.buf
        /\ DOMAIN s2.buf \subseteq DOMAIN st.buf \cup (C \cup ws[k]) \cup {0}
        /\ 0 \notin DOMAIN s2.buf => C = {} /\ ws[k] = {}
    BY <1>7, <2>4 DEF Frees, KeepsRest
  <2>6. (F \cup C) \cup ws[k] = F \cup D
    BY <2>2
  <2>7. /\ s2 \in States /\ s2.main = st.main /\ s2.nextId = st.nextId /\ s2.mem = m
        /\ s2.wrappers = ws
        /\ Lists(Overlay(s2.buf, s2.main), F \cup D)
        /\ DOMAIN st.buf \subseteq DOMAIN s2.buf
        /\ DOMAIN s2.buf \subseteq DOMAIN st.buf \cup D \cup {0}
        /\ 0 \notin DOMAIN s2.buf => D = {}
    BY <2>2, <2>5, <2>6 DEF KeepsRest
  <2>8. /\ s \in States /\ SamePages(s2, s) /\ s.mem = s2.mem
        /\ Len(s.wrappers) = Len(s2.wrappers) /\ DOMAIN s.wrappers = DOMAIN s2.wrappers
        /\ \A i \in DOMAIN s2.wrappers :
             s.wrappers[i] = IF i = k THEN {} ELSE s2.wrappers[i]
    BY <2>1, <2>7, UnlistFields
  <2>9. /\ s.main = st.main /\ s.nextId = st.nextId /\ s.mem = m /\ s.buf = s2.buf
        /\ s.main = s2.main
    BY <2>7, <2>8 DEF SamePages
  <2>10. /\ Lists(Overlay(s.buf, s.main), F \cup D)
         /\ DOMAIN st.buf \subseteq DOMAIN s.buf
         /\ DOMAIN s.buf \subseteq DOMAIN st.buf \cup D \cup {0}
         /\ 0 \notin DOMAIN s.buf => D = {}
    BY <2>7, <2>9
  <2>11. /\ Len(s.wrappers) = Len(ws) /\ DOMAIN s.wrappers = DOMAIN ws
         /\ \A i \in DOMAIN ws : s.wrappers[i] = IF i = k THEN {} ELSE ws[i]
    BY <2>7, <2>8
  <2> QED
    BY <2>2, <2>8, <2>9, <2>10, <2>11 DEF U, D, s, FreesTable
<1> QED
  BY <1>8, <1>9

LEMMA DropGood ==
  ASSUME NEW st \in States, NEW b \in Mems, NEW E, NEW F, GoodWith(st, b, E, F),
         NEW t \in Tables, Exists(st.mem, t)
  PROVE  Good(DropTable(st, t), b)
<1> DEFINE m == st.mem
           ws == st.wrappers
           D == Dropped(m, ws, t)
           a == DropFreed(st, t)
           s == Cleared(a, t)
           n == s.mem
           xs == s.wrappers
           V == Behind(st.nextId)
<1>1. s = DropTable(st, t)
  BY DEF DropTable, DropFreed, Cleared, Unlisted
<1>2. /\ D \subseteq V \ F
      /\ a \in States /\ a.main = st.main /\ a.nextId = st.nextId /\ a.mem = m
      /\ Lists(Overlay(a.buf, a.main), F \cup D)
      /\ DOMAIN st.buf \subseteq DOMAIN a.buf
      /\ DOMAIN a.buf \subseteq DOMAIN st.buf \cup D \cup {0}
      /\ 0 \notin DOMAIN a.buf => D = {}
      /\ Len(a.wrappers) = Len(ws) /\ DOMAIN a.wrappers = DOMAIN ws
      /\ \A i \in DOMAIN ws : a.wrappers[i] = IF i = m.ix[t] THEN {} ELSE ws[i]
  <2>1. D \subseteq V \ F /\ FreesTable(st, a, t, F, D)
    BY DropFrees
  <2> HIDE DEF a, D, V
  <2> QED
    BY <2>1 DEF FreesTable
<1> HIDE DEF a
<1>3. s \in States /\ SamePages(a, s) /\ xs = a.wrappers /\ Removes(a.mem, n, t)
  BY <1>2, DropFields
<1> HIDE DEF s
<1>4. /\ m \in Mems /\ ws \in Wrappers /\ n \in Mems /\ xs \in Wrappers
      /\ Len(ws) \in Nat
  BY <1>3 DEF States, Wrappers
<1>5. /\ TablesOK(V \ F, m, ws) /\ WrappersOK(V \ F, ws) /\ TablesOK(V \ E, b, ws)
      /\ Lists(st.main, E) /\ E \subseteq F /\ F \subseteq V
      /\ DOMAIN st.buf \cap E = {} /\ (0 \notin DOMAIN st.buf => E = F)
      /\ 0 \notin E
  BY PageFacts DEF GoodWith, Lists
<1>6. /\ Len(xs) = Len(ws) /\ DOMAIN xs = DOMAIN ws
      /\ \A i \in DOMAIN ws : xs[i] = IF i = m.ix[t] THEN {} ELSE ws[i]
      /\ Removes(m, n, t)
  BY <1>2, <1>3
<1>7. (V \ F) \ D = V \ (F \cup D)
  OBVIOUS
<1>8. TablesOK((V \ F) \ D, n, xs) /\ WrappersOK((V \ F) \ D, xs)
  BY <1>4, <1>5, <1>6, DropTables
<1> HIDE DEF V, D
<1>9. TablesOK(V \ E, b, xs)
  <2>1. /\ \A i \in DOMAIN ws : xs[i] \cap (V \ E) \subseteq ws[i]
        /\ \A i \in DOMAIN xs \ DOMAIN ws : xs[i] \cap (V \ E) = {}
        /\ Len(ws) <= Len(xs)
    BY <1>4, <1>6
  <2> QED
    BY <1>4, <1>5, <2>1, KeepTables
<1>10. s.main = st.main /\ s.nextId = st.nextId /\ s.buf = a.buf
  BY <1>2, <1>3 DEF SamePages
<1>11. /\ Lists(Overlay(s.buf, s.main), F \cup D) /\ Lists(s.main, E)
       /\ E \subseteq F \cup D /\ F \cup D \subseteq V
       /\ DOMAIN s.buf \cap E = {} /\ (0 \notin DOMAIN s.buf => E = F \cup D)
  BY <1>2, <1>5, <1>10
<1>12. GoodWith(s, b, E, F \cup D)
  BY <1>7, <1>8, <1>9, <1>10, <1>11 DEF GoodWith, V
<1> QED
  BY <1>1, <1>3, <1>12 DEF Good

-----------------------------------------------------------------------------
(* How transactions end, and the invariant. *)

Base == IF open THEN snap ELSE mem

PageInv ==
  /\ open \in BOOLEAN
  /\ ~open => buf = << >>
  /\ Good(Begun, Base)

\* The page buffer is written to the file, or dropped with the statement's mem.
Flushed(st) == [main |-> Overlay(st.buf, st.main), nextId |-> st.nextId, buf |-> << >>,
                mem |-> st.mem, wrappers |-> st.wrappers]
Dismissed(st, b) == [main |-> st.main, nextId |-> st.nextId, buf |-> << >>,
                     mem |-> b, wrappers |-> st.wrappers]

LEMMA EmptyBuffer ==
  << >> \in Buffers /\ DOMAIN << >> = {}
<1>1. << >> \in [{} -> Contents]
  OBVIOUS
<1> QED
  BY <1>1 DEF Buffers

LEMMA EmptyOverlay ==
  ASSUME NEW f \in Images
  PROVE  Overlay(<< >>, f) = f
BY DEF Overlay, Images

LEMMA FlushedGood ==
  ASSUME NEW st, NEW b, Good(st, b)
  PROVE  Good(Flushed(st), st.mem)
<1>1. PICK E, F : GoodWith(st, b, E, F)
  BY DEF Good
<1>2. PICK s : s = Flushed(st)
  OBVIOUS
<1>3. PICK f : f = Overlay(st.buf, st.main)
  OBVIOUS
<1>4. /\ s.main = f /\ s.nextId = st.nextId /\ s.buf = << >> /\ s.mem = st.mem
      /\ s.wrappers = st.wrappers
  BY <1>2, <1>3 DEF Flushed
<1>5. st.buf \in Buffers /\ st.main \in Images /\ st.mem \in Mems
  BY DEF Good, States
<1>6. f \in Images
  BY <1>3, <1>5, OverlayFacts
<1>7. s \in States
  <2>1. s = [main |-> f, nextId |-> st.nextId, buf |-> << >>, mem |-> st.mem,
             wrappers |-> st.wrappers]
    BY <1>2, <1>3 DEF Flushed
  <2> QED
    BY <1>6, <2>1, EmptyBuffer DEF Good, States
<1>8. Overlay(s.buf, s.main) = f
  BY <1>4, <1>6, EmptyOverlay
<1>9. DOMAIN s.buf = {}
  BY <1>4, EmptyBuffer
<1>10. GoodWith(s, st.mem, F, F)
  BY <1>1, <1>3, <1>4, <1>8, <1>9 DEF GoodWith
<1> QED
  BY <1>2, <1>5, <1>7, <1>10 DEF Good

LEMMA DismissedGood ==
  ASSUME NEW st, NEW b, Good(st, b)
  PROVE  Good(Dismissed(st, b), b)
<1>1. PICK E, F : GoodWith(st, b, E, F)
  BY DEF Good
<1>2. PICK s : s = Dismissed(st, b)
  OBVIOUS
<1>3. /\ s.main = st.main /\ s.nextId = st.nextId /\ s.buf = << >> /\ s.mem = b
      /\ s.wrappers = st.wrappers
  BY <1>2 DEF Dismissed
<1>4. st.main \in Images /\ b \in Mems
  BY DEF Good, States
<1>5. s \in States
  BY <1>2, <1>4, EmptyBuffer DEF Good, States, Dismissed
<1>6. Overlay(s.buf, s.main) = s.main
  BY <1>3, <1>4, EmptyOverlay
<1>7. DOMAIN s.buf = {}
  BY <1>3, EmptyBuffer
<1>8. WrappersOK(Behind(st.nextId) \ E, st.wrappers)
  BY <1>1 DEF GoodWith, WrappersOK
<1>9. GoodWith(s, b, E, E)
  BY <1>1, <1>3, <1>6, <1>7, <1>8 DEF GoodWith
<1> QED
  BY <1>2, <1>4, <1>5, <1>9 DEF Good

LEMMA FinishGood ==
  ASSUME PageInv, NEW st, Good(st, Base), Finish(st)
  PROVE  PageInv'
<1>0. open \in BOOLEAN /\ st \in States
  BY DEF PageInv, Good
<1>1. ASSUME Succeed(st), open PROVE PageInv'
  <2>1. /\ nextId' = st.nextId /\ mem' = st.mem /\ wrappers' = st.wrappers
        /\ main' = st.main /\ buf' = st.buf /\ open' = open /\ snap' = snap
    BY <1>1 DEF Succeed
  <2>2. Begun' = st
    BY <1>0, <2>1 DEF Begun, States
  <2>3. Base' = Base
    BY <1>1, <2>1 DEF Base
  <2>4. Good(Begun', Base')
    BY <2>2, <2>3
  <2> QED
    BY <1>1, <2>1, <2>4 DEF PageInv
<1>2. ASSUME Succeed(st), ~open PROVE PageInv'
  <2>1. /\ nextId' = st.nextId /\ mem' = st.mem /\ wrappers' = st.wrappers
        /\ main' = Overlay(st.buf, st.main) /\ buf' = << >> /\ open' = open /\ snap' = snap
    BY <1>2 DEF Succeed
  <2>2. Begun' = Flushed(st)
    BY <2>1 DEF Begun, Flushed
  <2>3. Base' = st.mem
    BY <1>2, <2>1 DEF Base
  <2>4. Good(Begun', Base')
    BY <2>2, <2>3, FlushedGood
  <2> QED
    BY <1>0, <2>1, <2>4 DEF PageInv
<1>3. ASSUME Fail(st) PROVE PageInv'
  <2>1. /\ main' = st.main /\ nextId' = st.nextId /\ wrappers' = st.wrappers
        /\ buf' = << >> /\ mem' = Base /\ open' = FALSE
    BY <1>3 DEF Fail, Base
  <2>2. Begun' = Dismissed(st, Base)
    BY <2>1 DEF Begun, Dismissed
  <2>3. Base' = Base
    BY <2>1 DEF Base
  <2>4. Good(Begun', Base')
    BY <2>2, <2>3, DismissedGood
  <2> QED
    BY <2>1, <2>4 DEF PageInv
<1> QED
  BY <1>0, <1>1, <1>2, <1>3 DEF Finish
-----------------------------------------------------------------------------
(* Reopen. *)

\* Every index has a pager of its own, and every pager is new.
Renumbers(m, n, xs) ==
  /\ n.cat = m.cat
  /\ \A t \in Tables : n.data[t] = DataPagesFromChain(m.cat[t]) /\ n.nodes[t] = {}
  /\ \A i \in DOMAIN xs : xs[i] = {}
  /\ \A t \in Tables : n.ix[t] <= Len(xs) /\ (~Exists(m, t) => n.ix[t] = NoWrapper)
  /\ \A t \in Tables : \A u \in Tables \ {t} : n.ix[t] = n.ix[u] => n.ix[t] = NoWrapper

LEMMA ChainPages ==
  ASSUME NEW a \in Nat, NEW b \in Nat, a <= b, a # 0, a..b \subseteq Pages
  PROVE  LET s == DataPagesFromChain([root |-> a, next |-> b])
         IN s \in Seq(Pages) /\ {s[i] : i \in DOMAIN s} = a..b
<1> DEFINE n == b + 1 - a
           s == Ascending(a, b)
<1>1. DataPagesFromChain([root |-> a, next |-> b]) = s
  BY DEF DataPagesFromChain
<1>2. n \in Nat /\ DOMAIN s = 1..n /\ \A i \in 1..n : s[i] = a + i - 1
  BY DEF Ascending
<1>3. \A i \in 1..n : s[i] \in a..b
  BY <1>2
<1>4. s \in [1..n -> Pages]
  BY <1>3 DEF Ascending
<1>5. s \in Seq(Pages)
  BY <1>2, <1>4
<1>6. ASSUME NEW q \in a..b PROVE \E i \in DOMAIN s : s[i] = q
  <2>1. q - a + 1 \in 1..n /\ a + (q - a + 1) - 1 = q
    OBVIOUS
  <2> QED
    BY <1>2, <2>1
<1> HIDE DEF s
<1>7. {s[i] : i \in DOMAIN s} = a..b
  BY <1>2, <1>3, <1>6
<1> QED
  BY <1>1, <1>5, <1>7

\* After a reopen a table holds the range of its catalogue entry.
LEMMA ReopenHeld ==
  ASSUME NEW U, U \subseteq Pages, NEW m \in Mems, NEW ws, TablesOK(U, m, ws),
         NEW t \in Tables
  PROVE  LET s == DataPagesFromChain(m.cat[t])
         IN /\ s \in Seq(Pages)
            /\ {s[i] : i \in DOMAIN s} = IF Exists(m, t) THEN Span(m, t) ELSE {}
<1>1. PICK a \in Nat, b \in Nat : m.cat[t] = [root |-> a, next |-> b]
  BY DEF Mems
<1>2. CASE Exists(m, t)
  <2>1. a <= b /\ Span(m, t) = a..b /\ a..b \subseteq Pages
    BY <1>1, <1>2 DEF TablesOK, TableOK, Span
  <2>2. a # 0
    BY <2>1, PageFacts
  <2> QED
    BY <1>1, <1>2, <2>1, <2>2, ChainPages
<1>3. CASE ~Exists(m, t)
  <2>1. m.cat[t].root = 0
    BY <1>3 DEF Exists, NoTable
  <2>2. DataPagesFromChain(m.cat[t]) = << >>
    BY <2>1 DEF DataPagesFromChain
  <2> QED
    BY <1>3, <2>2
<1> QED
  BY <1>2, <1>3

LEMMA ReopenTables ==
  ASSUME NEW U, U \subseteq Pages, NEW m \in Mems, NEW n \in Mems, NEW ws,
         NEW xs \in Wrappers, TablesOK(U, m, ws), Renumbers(m, n, xs)
  PROVE  TablesOK(U, n, xs) /\ WrappersOK(U, xs)
<1>1. \A t \in Tables : (Exists(n, t) <=> Exists(m, t)) /\ Span(n, t) = Span(m, t)
  BY DEF Renumbers, Exists, Span
<1>2. ASSUME NEW t \in Tables PROVE Held(n, t) = IF Exists(m, t) THEN Span(m, t) ELSE {}
  <2>1. n.data[t] = DataPagesFromChain(m.cat[t])
    BY DEF Renumbers
  <2> QED
    BY <2>1, ReopenHeld DEF Held
<1>3. WrappersOK(U, xs)
  BY DEF Renumbers, WrappersOK
<1>4. ASSUME NEW t \in Tables PROVE TableOK(U, n, xs, t)
  <2>1. TableOK(U, m, ws, t)
    BY DEF TablesOK
  <2>2. /\ n.cat[t] = m.cat[t] /\ n.nodes[t] = {} /\ n.ix[t] <= Len(xs)
        /\ ~Exists(m, t) => n.ix[t] = NoWrapper
        /\ \A i \in DOMAIN xs : xs[i] = {}
    BY DEF Renumbers
  <2>3. CASE Exists(m, t)
    <3>1. m.cat[t].root \in Span(m, t) /\ Span(m, t) \subseteq U
      BY <2>1, <2>3 DEF TableOK, Span, Mems
    <3>2. Held(n, t) = Span(m, t) /\ Exists(n, t) /\ Span(n, t) = Span(m, t)
      BY <1>1, <1>2, <2>3
    <3>3. n.cat[t].root <= n.cat[t].next
      BY <2>1, <2>2, <2>3 DEF TableOK
    <3> QED
      BY <2>2, <3>1, <3>2, <3>3 DEF TableOK
  <2>4. CASE ~Exists(m, t)
    BY <1>1, <1>2, <2>2, <2>4 DEF TableOK
  <2> QED
    BY <2>3, <2>4
<1>5. ASSUME NEW t \in Tables, NEW u \in Tables \ {t} PROVE ApartOK(n, t, u)
  <2>1. ApartOK(m, t, u)
    BY DEF TablesOK
  <2>2. n.nodes[t] = {} /\ n.nodes[u] = {} /\ (n.ix[t] = n.ix[u] => n.ix[t] = NoWrapper)
    BY DEF Renumbers
  <2> QED
    BY <1>1, <2>1, <2>2 DEF ApartOK
<1> QED
  BY <1>3, <1>4, <1>5 DEF TablesOK

LEMMA ReopenGood ==
  ASSUME PageInv, Reopen
  PROVE  PageInv'
<1> DEFINE live == {t \in Indexed : Exists(mem, t)}
           k == Cardinality(live)
           number == CHOOSE f \in [live -> 1..k] : \A t, u \in live : f[t] = f[u] => t = u
<1>1. /\ ~open /\ wrappers' = [i \in 1..k |-> {}]
      /\ mem' = [cat   |-> mem.cat,
                 data  |-> [t \in Tables |-> DataPagesFromChain(mem.cat[t])],
                 nodes |-> [t \in Tables |-> {}],
                 ix    |-> [t \in Tables |-> IF t \in live THEN number[t] ELSE NoWrapper]]
      /\ main' = main /\ nextId' = nextId /\ buf' = buf /\ open' = open /\ snap' = snap
  BY DEF Reopen
<1>2. k \in Nat /\ number \in [live -> 1..k] /\ \A t, u \in live : number[t] = number[u] => t = u
  <2>1. IsFiniteSet(Tables) /\ live \in SUBSET Tables
    BY PageAllocAssumption
  <2> HIDE DEF live
  <2>2. IsFiniteSet(live)
    BY <2>1, FS_Subset
  <2>3. k \in Nat /\ ExistsBijection(1..k, live)
    BY <2>2, FS_CardinalityType
  <2> HIDE DEF k
  <2>4. ExistsBijection(live, 1..k)
    BY <2>3, Fun_ExistsBijSymmetric
  <2>5. \E f \in [live -> 1..k] : \A t, u \in live : f[t] = f[u] => t = u
    <3>1. PICK f \in Bijection(live, 1..k) : TRUE
      BY <2>4, Fun_ExistsBij
    <3>2. f \in [live -> 1..k] /\ \A t, u \in live : f[t] = f[u] => t = u
      BY <3>1, Fun_BijectionProperties
    <3> QED
      BY <3>2
  <2> QED
    BY <2>3, <2>5
<1>3. Good(Begun, mem) /\ buf = << >> /\ Begun \in States
  BY <1>1 DEF PageInv, Base, Good
<1>4. PICK E, F : GoodWith(Begun, mem, E, F)
  BY <1>3 DEF Good
<1> DEFINE U == Behind(nextId) \ F
<1>5. /\ main \in Images /\ nextId \in 2..(MaxPages + 1) /\ mem \in Mems
      /\ Begun.main = main /\ Begun.nextId = nextId /\ Begun.buf = << >>
      /\ Begun.mem = mem /\ Begun.wrappers = wrappers
  BY <1>3 DEF Begun, States
<1>6. /\ TablesOK(U, mem, wrappers) /\ E = F /\ Lists(main, E) /\ E \subseteq Behind(nextId)
  BY <1>4, <1>5, EmptyBuffer DEF GoodWith
<1>7. U \subseteq Pages
  BY <1>5, PageFacts DEF Behind, Pages
<1> HIDE DEF number, k, live, U
<1>8. wrappers' \in Wrappers /\ Len(wrappers') = k /\ DOMAIN wrappers' = 1..k
      /\ \A i \in 1..k : wrappers'[i] = {}
  BY <1>1, <1>2 DEF Wrappers
<1>9. mem' \in Mems
  <2>1. mem.cat \in [Tables -> [root : Nat, next : Nat]]
    BY <1>5 DEF Mems
  <2>2. [t \in Tables |-> DataPagesFromChain(mem.cat[t])] \in [Tables -> Seq(Pages)]
    BY <1>5, <1>6, <1>7, ReopenHeld
  <2>3. [t \in Tables |-> {}] \in [Tables -> SUBSET Pages]
    OBVIOUS
  <2>4. [t \in Tables |-> IF t \in live THEN number[t] ELSE NoWrapper] \in [Tables -> Nat]
    BY <1>2 DEF NoWrapper
  <2> QED
    BY <1>1, <2>1, <2>2, <2>3, <2>4 DEF Mems
<1>10. Renumbers(mem, mem', wrappers')
  <2>1. /\ mem'.cat = mem.cat
        /\ \A t \in Tables : mem'.data[t] = DataPagesFromChain(mem.cat[t]) /\ mem'.nodes[t] = {}
        /\ \A t \in Tables : mem'.ix[t] = IF t \in live THEN number[t] ELSE NoWrapper
    BY <1>1
  <2>2. \A t \in Tables : ~Exists(mem, t) => t \notin live
    BY DEF live
  <2>3. \A t \in live : number[t] \in 1..k
    BY <1>2
  <2>4. \A t \in Tables : mem'.ix[t] <= Len(wrappers')
    BY <1>2, <1>8, <2>1, <2>3 DEF NoWrapper
  <2>5. ASSUME NEW t \in Tables, NEW u \in Tables \ {t}, mem'.ix[t] = mem'.ix[u]
        PROVE  mem'.ix[t] = NoWrapper
    BY <1>2, <2>1, <2>3, <2>5 DEF NoWrapper
  <2> QED
    BY <1>8, <2>1, <2>2, <2>4, <2>5 DEF Renumbers
<1>11. TablesOK(U, mem', wrappers') /\ WrappersOK(U, wrappers')
  BY <1>5, <1>6, <1>7, <1>8, <1>9, <1>10, ReopenTables
<1>12. PICK s : s = Begun'
  OBVIOUS
<1>13. /\ s \in States /\ s.main = main /\ s.nextId = nextId /\ s.buf = << >>
       /\ s.mem = mem' /\ s.wrappers = wrappers'
  <2>1. s = [main |-> main, nextId |-> nextId, buf |-> << >>,
             mem |-> mem', wrappers |-> wrappers']
    BY <1>1, <1>3, <1>12 DEF Begun
  <2> QED
    BY <1>5, <1>8, <1>9, <2>1, EmptyBuffer DEF States
<1>14. GoodWith(s, mem', F, F)
  <2>1. Overlay(s.buf, s.main) = main
    BY <1>5, <1>13, EmptyOverlay
  <2> QED
    BY <1>6, <1>11, <1>13, <2>1, EmptyBuffer DEF GoodWith, U
<1>15. Good(s, mem')
  BY <1>9, <1>13, <1>14 DEF Good
<1>16. Base' = mem'
  BY <1>1 DEF Base
<1> QED
  BY <1>1, <1>3, <1>12, <1>15, <1>16 DEF PageInv
-----------------------------------------------------------------------------
(* Every step keeps the invariant. *)

LEMMA BegunFields ==
  /\ Begun.main = main /\ Begun.nextId = nextId /\ Begun.buf = buf
  /\ Begun.mem = mem /\ Begun.wrappers = wrappers
BY DEF Begun

LEMMA PageStart ==
  Init => PageInv
<1> SUFFICES ASSUME Init PROVE PageInv
  OBVIOUS
<1>1. /\ main = [p \in 0..MaxPages |-> 0] /\ nextId = 2 /\ buf = << >>
      /\ mem = NoTables /\ wrappers = << >> /\ open = FALSE
  BY DEF Init
<1>2. main \in Images
  BY <1>1, ContentFacts DEF Images
<1>3. main[0] = 0
  BY <1>1, PageFacts
<1>4. mem \in Mems
  <2>1. [t \in Tables |-> NoTable] \in [Tables -> [root : Nat, next : Nat]]
    BY DEF NoTable
  <2>2. [t \in Tables |-> << >>] \in [Tables -> Seq(Pages)]
    OBVIOUS
  <2>3. /\ [t \in Tables |-> {}] \in [Tables -> SUBSET Pages]
        /\ [t \in Tables |-> NoWrapper] \in [Tables -> Nat]
    BY DEF NoWrapper
  <2> QED
    BY <1>1, <2>1, <2>2, <2>3 DEF Mems, NoTables
<1>5. wrappers \in Wrappers /\ Len(wrappers) = 0 /\ DOMAIN wrappers = {}
  BY <1>1 DEF Wrappers
<1>6. Begun \in States
  BY <1>1, <1>2, <1>4, <1>5, EmptyBuffer, PageFacts DEF Begun, States
<1>7. /\ \A t \in Tables : /\ ~Exists(mem, t) /\ Held(mem, t) = {} /\ mem.nodes[t] = {}
                           /\ mem.ix[t] = NoWrapper
  BY <1>1 DEF NoTables, Exists, Held
<1>8. TablesOK(Behind(nextId) \ {}, mem, wrappers)
  <2>1. ASSUME NEW t \in Tables PROVE TableOK(Behind(nextId) \ {}, mem, wrappers, t)
    BY <1>5, <1>7 DEF TableOK, NoWrapper
  <2> QED
    BY <1>7, <2>1 DEF TablesOK, ApartOK
<1>9. WrappersOK(Behind(nextId) \ {}, wrappers)
  BY <1>5 DEF WrappersOK
<1>10. Overlay(buf, main) = main /\ DOMAIN buf = {}
  BY <1>1, <1>2, EmptyOverlay, EmptyBuffer
<1>11. Lists(main, {})
  BY <1>3, EmptyList
<1>12. GoodWith(Begun, mem, {}, {})
  BY <1>8, <1>9, <1>10, <1>11, BegunFields DEF GoodWith
<1>13. Base = mem
  BY <1>1 DEF Base
<1> QED
  BY <1>1, <1>4, <1>6, <1>12, <1>13 DEF PageInv, Good

LEMMA EndGood ==
  ASSUME PageInv, Commit \/ Rollback
  PROVE  PageInv'
<1>1. open /\ Good(Begun, snap)
  BY DEF PageInv, Base, Commit, Rollback
<1>2. CASE Commit
  <2>1. Begun' = Flushed(Begun) /\ Base' = Begun.mem /\ open' = FALSE /\ buf' = << >>
    BY <1>2, BegunFields DEF Commit, Begun, Flushed, Base
  <2>2. Good(Begun', Base')
    BY <1>1, <2>1, FlushedGood
  <2> QED
    BY <2>1, <2>2 DEF PageInv
<1>3. CASE Rollback
  <2>1. Begun' = Dismissed(Begun, snap) /\ Base' = snap /\ open' = FALSE /\ buf' = << >>
    BY <1>3, BegunFields DEF Rollback, Begun, Dismissed, Base
  <2>2. Good(Begun', Base')
    BY <1>1, <2>1, DismissedGood
  <2> QED
    BY <2>1, <2>2 DEF PageInv
<1> QED
  BY <1>2, <1>3

\* No statement that allocates has a free list of its own in the buffer.
LEMMA NoDropYet ==
  ASSUME ~MixedTxns, PageInv, CanAlloc(Begun)
  PROVE  0 \notin DOMAIN Begun.buf
<1>1. CASE open
  BY <1>1 DEF CanAlloc
<1>2. CASE ~open
  BY <1>2, EmptyBuffer, BegunFields DEF PageInv
<1> QED
  BY <1>1, <1>2

LEMMA ContiguousPasses ==
  ASSUME NEW E, Lists(main, E), NEW t \in Tables, NEW p, Contiguous(t, p)
  PROVE  Passes(mem, wrappers, t, p) /\ (mem.cat[t].root..p) \cap E \subseteq {p}
<1> DEFINE R == mem.cat[t].root..p
           others == {wrappers[i] : i \in DOMAIN wrappers \ {mem.ix[t]}}
                       \cup {DataPages(u) \cup mem.nodes[u] : u \in Tables \ {t}}
<1>1. p > mem.cat[t].next /\ R \cap FreePages \subseteq {p} /\ R \cap UNION others = {}
  BY DEF Contiguous
<1>2. FreePages = E
  BY WalkList
<1> HIDE DEF R
<1>3. \A i \in DOMAIN wrappers \ {mem.ix[t]} : R \cap wrappers[i] = {}
  BY <1>1
<1>4. \A u \in Tables \ {t} : R \cap (Held(mem, u) \cup mem.nodes[u]) = {}
  <2>1. ASSUME NEW u \in Tables \ {t} PROVE R \cap (Held(mem, u) \cup mem.nodes[u]) = {}
    <3>1. DataPages(u) \cup mem.nodes[u] \in others
      OBVIOUS
    <3>2. DataPages(u) = Held(mem, u)
      BY DEF DataPages, Held
    <3> QED
      BY <1>1, <3>1, <3>2
  <2> QED
    BY <2>1
<1> QED
  BY <1>1, <1>2, <1>3, <1>4 DEF Passes, R

LEMMA StatementGood ==
  ASSUME ~MixedTxns, ~Interleaved, PageInv, NEW t \in Tables,
         Create(t) \/ Drop(t) \/ InsertFits(t) \/ InsertExtends(t)
  PROVE  PageInv'
<1>1. Begun \in States /\ Base \in Mems
  BY DEF PageInv, Good
<1>2. PICK E, F : GoodWith(Begun, Base, E, F)
  BY DEF PageInv, Good
<1>3. ASSUME CanAlloc(Begun) PROVE 0 \notin DOMAIN Begun.buf /\ Allocated(Begun) \in Pages
  BY <1>3, NoDropYet DEF CanAlloc
<1>4. Begun.mem = mem /\ Begun.wrappers = wrappers /\ Begun.main = main
  BY BegunFields
<1>5. CASE Create(t)
  <2>1. CanAlloc(Begun) /\ ~Exists(Begun.mem, t) /\ Finish(CreateTable(Begun, t))
    BY <1>4, <1>5 DEF Create
  <2>2. Good(CreateTable(Begun, t), Base)
    BY <1>1, <1>2, <1>3, <2>1, CreateGood
  <2> QED
    BY <2>1, <2>2, FinishGood
<1>6. CASE Drop(t)
  <2>1. Exists(Begun.mem, t) /\ Finish(DropTable(Begun, t))
    BY <1>4, <1>6 DEF Drop
  <2>2. Good(DropTable(Begun, t), Base)
    BY <1>1, <1>2, <2>1, DropGood
  <2> QED
    BY <2>1, <2>2, FinishGood
<1>7. CASE InsertFits(t)
  <2>1. CanAlloc(Begun) /\ Exists(Begun.mem, t) /\ Finish(ExtendIndex(Begun, t))
    BY <1>4, <1>7 DEF InsertFits
  <2>2. Good(ExtendIndex(Begun, t), Base)
    BY <1>1, <1>2, <1>3, <2>1, IndexGood
  <2> QED
    BY <2>1, <2>2, FinishGood
<1>8. CASE InsertExtends(t)
  <2> DEFINE p == Allocated(Begun)
             st == ExtendChain(Begun, t)
  <2>1. /\ CanAlloc(Begun) /\ Exists(Begun.mem, t) /\ Contiguous(t, p)
        /\ Finish(st) \/ (CanAlloc(st) /\ Finish(ExtendIndex(st, t)))
    BY <1>4, <1>8 DEF InsertExtends
  <2>2. Lists(main, E)
    BY <1>2, <1>4 DEF GoodWith
  <2>3. /\ Passes(Begun.mem, Begun.wrappers, t, p)
        /\ (Begun.mem.cat[t].root..p) \cap E \subseteq {p}
    <3> HIDE DEF p
    <3> QED
      BY <1>4, <2>1, <2>2, ContiguousPasses
  <2>4. /\ st \in States /\ 0 \notin DOMAIN st.buf /\ Exists(st.mem, t)
        /\ GoodWith(st, Base, E \ {p}, E \ {p})
    BY <1>1, <1>2, <1>3, <2>1, <2>3, ChainGood
  <2> HIDE DEF st, p
  <2>5. Good(st, Base)
    BY <1>1, <2>4 DEF Good
  <2>6. CASE Finish(st)
    BY <2>5, <2>6, FinishGood
  <2>7. CASE CanAlloc(st) /\ Finish(ExtendIndex(st, t))
    <3>1. Allocated(st) \in Pages
      BY <2>7 DEF CanAlloc
    <3>2. Good(ExtendIndex(st, t), Base)
      BY <1>1, <2>4, <3>1, IndexGood
    <3> QED
      BY <2>7, <3>2, FinishGood
  <2> QED
    BY <2>1, <2>6, <2>7
<1> QED
  BY <1>5, <1>6, <1>7, <1>8

LEMMA PageStep ==
  ASSUME ~MixedTxns, ~Interleaved, PageInv, [Next]_vars
  PROVE  PageInv'
<1>1. ASSUME NEW t \in Tables, Create(t) \/ Drop(t) \/ InsertFits(t) \/ InsertExtends(t)
      PROVE  PageInv'
  BY <1>1, StatementGood
<1>2. CASE Begin
  <2>1. /\ Begun' = Begun /\ Base' = mem /\ Base = mem /\ open' = TRUE
    BY <1>2 DEF Begin, Begun, Base
  <2>2. Good(Begun', Base')
    BY <2>1 DEF PageInv
  <2> QED
    BY <2>1, <2>2 DEF PageInv
<1>3. CASE Commit \/ Rollback
  BY <1>3, EndGood
<1>4. CASE Reopen
  BY <1>4, ReopenGood
<1>5. CASE UNCHANGED vars
  <2>1. Begun' = Begun /\ Base' = Base /\ open' = open /\ buf' = buf
    BY <1>5 DEF vars, Begun, Base
  <2>2. Good(Begun', Base')
    BY <2>1 DEF PageInv
  <2> QED
    BY <2>1, <2>2 DEF PageInv
<1> QED
  BY <1>1, <1>2, <1>3, <1>4, <1>5 DEF Next
-----------------------------------------------------------------------------

(***************************************************************************)
(* The invariant behind the theorems below: the free list of the main file *)
(* and the one a COMMIT would leave end and hold only pages that nobody    *)
(* uses, whether the running transaction is committed or rolled back       *)
(* (alloc_page, _txn_free_page, commit, rollback and the reopen).          *)
(***************************************************************************)
THEOREM PageInductive ==
  ASSUME ~MixedTxns, ~Interleaved
  PROVE  Spec => []PageInv
<1>1. ASSUME PageInv, [Next]_vars PROVE PageInv'
  BY <1>1, PageStep
<1> QED
  BY <1>1, PageStart, PTL DEF Spec

(***************************************************************************)
(* OneOwner for any tables and any size of file: as long as no transaction *)
(* allocates after a DROP and no table grows past pages of another, a page *)
(* between transactions is a data page of one table, a node of one index   *)
(* or free, and the walk of alloc_page along the free list ends.           *)
(***************************************************************************)
THEOREM PageOwners ==
  ASSUME ~MixedTxns, ~Interleaved
  PROVE  Spec => []OneOwner
<1>1. ASSUME PageInv PROVE OneOwner
  <2> SUFFICES ASSUME ~open PROVE OneOwner
    BY DEF OneOwner
  <2>1. Good(Begun, mem)
    BY <1>1 DEF PageInv, Base
  <2>2. PICK E, F : GoodWith(Begun, mem, E, F)
    BY <2>1 DEF Good
  <2> DEFINE U == Behind(nextId) \ E
  <2>3. Lists(main, E) /\ TablesOK(U, mem, wrappers)
    BY <2>2, BegunFields DEF GoodWith
  <2>4. FreePages = E /\ FreeWalk[MaxPages] = 0 /\ E \subseteq Pages
    BY <2>3, WalkList DEF Lists
  <2>5. U \cap E = {}
    OBVIOUS
  <2> HIDE DEF U
  <2>6. \A t \in Tables : DataPages(t) = Held(mem, t)
    BY DEF DataPages, Held
  <2>7. ASSUME NEW t \in Tables
        PROVE  /\ Held(mem, t) \cup mem.nodes[t] \subseteq U
               /\ Held(mem, t) \cap mem.nodes[t] = {}
               /\ ~Exists(mem, t) => Held(mem, t) \cup mem.nodes[t] = {}
               /\ Exists(mem, t) => Held(mem, t) \subseteq Span(mem, t)
    BY <2>3 DEF TablesOK, TableOK
  <2>8. ASSUME NEW t \in Tables, NEW u \in Tables \ {t}
        PROVE  (Held(mem, t) \cup mem.nodes[t]) \cap (Held(mem, u) \cup mem.nodes[u]) = {}
    <3>1. ApartOK(mem, t, u) /\ ApartOK(mem, u, t)
      BY <2>3 DEF TablesOK
    <3> QED
      BY <2>7, <3>1 DEF ApartOK
  <2> QED
    BY <2>4, <2>5, <2>6, <2>7, <2>8 DEF OneOwner
<1> QED
  BY <1>1, PageInductive, PTL

(***************************************************************************)
(* ReopenFindsPages for any tables and any size of file: the range from    *)
(* the root to next_page holds every data page of the table and none of    *)
(* another, whatever was created, dropped, grown or undone since.          *)
(***************************************************************************)
THEOREM ReopenFinds ==
  ASSUME ~MixedTxns, ~Interleaved
  PROVE  Spec => []ReopenFindsPages
<1>1. ASSUME PageInv PROVE ReopenFindsPages
  <2>1. PICK E, F : GoodWith(Begun, Base, E, F)
    BY <1>1 DEF PageInv, Good
  <2>2. TablesOK(Behind(nextId) \ F, mem, wrappers)
    BY <2>1, BegunFields DEF GoodWith
  <2>3. ASSUME NEW t \in Tables
        PROVE  /\ ~Exists(mem, t) => Held(mem, t) = {}
               /\ Exists(mem, t) => Held(mem, t) \subseteq Span(mem, t)
    BY <2>2 DEF TablesOK, TableOK
  <2>4. ASSUME NEW t \in Tables, NEW u \in Tables \ {t}, Exists(mem, t)
        PROVE  Held(mem, u) \cap Span(mem, t) = {}
    <3>1. ApartOK(mem, t, u)
      BY <2>2 DEF TablesOK
    <3> QED
      BY <2>3, <2>4, <3>1 DEF ApartOK
  <2>5. \A t \in Tables : DataPages(t) = Held(mem, t)
    BY DEF DataPages, Held
  <2> QED
    BY <2>3, <2>4, <2>5 DEF ReopenFindsPages, Span
<1> QED
  BY <1>1, PageInductive, PTL

(***************************************************************************)
(* AllocDataPageEnds for any tables and any size of file: what alloc_page  *)
(* hands out next is a page no index pager has recorded, so the retry loop *)
(* of _alloc_data_page ends at its first page.                             *)
(***************************************************************************)
THEOREM AllocEnds ==
  ASSUME ~MixedTxns, ~Interleaved
  PROVE  Spec => []AllocDataPageEnds
<1>1. ASSUME PageInv PROVE AllocDataPageEnds
  <2>1. PICK E, F : GoodWith(Begun, Base, E, F)
    BY <1>1 DEF PageInv, Good
  <2>2. /\ Lists(main, E) /\ E \subseteq F /\ WrappersOK(Behind(nextId) \ F, wrappers)
    BY <2>1, BegunFields DEF GoodWith
  <2>3. nextId \in Nat
    BY <1>1, PageFacts, BegunFields DEF PageInv, Good, States
  <2>4. Reserved(wrappers) \subseteq Behind(nextId) \ F
    BY <2>2 DEF Reserved, WrappersOK
  <2>5. CASE main[0] # 0
    BY <2>2, <2>4, <2>5, HeadNull, BegunFields DEF AllocDataPageEnds, MeetsReserved, Allocated
  <2>6. CASE main[0] = 0
    <3>1. nextId \notin Behind(nextId)
      BY <2>3 DEF Behind
    <3> QED
      BY <2>4, <2>6, <3>1, BegunFields DEF AllocDataPageEnds, MeetsReserved, Allocated
  <2> QED
    BY <2>5, <2>6
<1> QED
  BY <1>1, PageInductive, PTL
=============================================================================
