-------------------------- MODULE PageChainsProofs --------------------------
(***************************************************************************)
(* PageChains, proved for any number of pages: rewriting the catalogue     *)
(* chain keeps every page in one place, whatever the catalogues and their  *)
(* sizes, and the tables' data and overflow pages stay apart from one      *)
(* another and from the free list, whatever the rows, and DROP TABLE       *)
(* returns all those of its table.                                         *)
(***************************************************************************)
EXTENDS PageChains, PageLayoutProofs, FiniteSetTheorems
-----------------------------------------------------------------------------
(* Linked pages. *)

Elems(s) == {s[i] : i \in DOMAIN s}

\* From start, the links of f lead through the pages of s and end.
Linked(start, f, s) ==
  /\ s \in Seq(PageIds)
  /\ start = IF s = << >> THEN 0 ELSE s[1]
  /\ \A i \in 1..Len(s) : f[s[i]].link = IF i = Len(s) THEN 0 ELSE s[i + 1]
  /\ \A i, j \in 1..Len(s) : s[i] = s[j] => i = j

LEMMA SeqFacts ==
  ASSUME NEW s \in Seq(PageIds)
  PROVE  /\ Len(s) \in Nat /\ DOMAIN s = 1..Len(s)
         /\ \A i \in 1..Len(s) : s[i] \in PageIds /\ s[i] \in Elems(s)
         /\ \A p \in Elems(s) : \E i \in 1..Len(s) : p = s[i]
         /\ Elems(s) \subseteq PageIds
         /\ s = << >> <=> Len(s) = 0
  BY DEF Elems

LEMMA IdsFinite ==
  /\ IsFiniteSet(PageIds)
  /\ Cardinality(PageIds) = MaxPages - 1
  /\ \A p \in PageIds : p \in 1..MaxPages /\ p \in Nat /\ p # 0 /\ p # 1
<1>1. MaxPages \in Nat \ {0}
  BY PagerPagesAssumption
<1>2. IsFiniteSet(2..MaxPages) /\
      Cardinality(2..MaxPages) = IF 2 > MaxPages THEN 0 ELSE MaxPages - 2 + 1
  BY <1>1, FS_Interval
<1> QED
  BY <1>1, <1>2 DEF PageIds

LEMMA LinkedShort ==
  ASSUME NEW start, NEW f, NEW s, Linked(start, f, s)
  PROVE  Len(s) <= MaxPages - 1
<1>1. s \in Seq(PageIds) /\ Len(s) \in Nat
  BY DEF Linked
<1>2. IsFiniteSet(1..Len(s)) /\ Cardinality(1..Len(s)) = Len(s)
  BY <1>1, FS_Interval, SMTT(30)
<1>3. s \in [1..Len(s) -> PageIds]
  BY <1>1
<1>4. ~(Cardinality(PageIds) < Cardinality(1..Len(s)))
  <2> SUFFICES ASSUME Cardinality(PageIds) < Cardinality(1..Len(s)) PROVE FALSE
    OBVIOUS
  <2>1. \E i, j \in 1..Len(s) : i # j /\ s[i] = s[j]
    BY <1>2, <1>3, IdsFinite, FS_PigeonHole
  <2> QED
    BY <2>1 DEF Linked
<1> QED
  BY <1>1, <1>2, <1>4, IdsFinite, PagerPagesAssumption

\* The walk along such links, and what it visits.
LEMMA WalkLinked ==
  ASSUME NEW f, NEW start, NEW s, Linked(start, f, s),
         NEW w, w = Walk(start, [p \in PageIds |-> f[p].link])
  PROVE  /\ w \in [1..MaxPages -> Nat]
         /\ \A i \in 1..MaxPages : w[i] = IF i <= Len(s) THEN s[i] ELSE 0
         /\ OnWalk(w) = Elems(s)
         /\ w[MaxPages] = 0
<1> DEFINE next == [p \in PageIds |-> f[p].link]
           v    == [i \in 1..MaxPages |-> IF i <= Len(s) THEN s[i] ELSE 0]
           Code(g) == g = [i \in 1..MaxPages |->
                             IF i = 1 THEN start
                             ELSE IF g[i - 1] \in PageIds THEN next[g[i - 1]] ELSE g[i - 1]]
<1>1. /\ s \in Seq(PageIds) /\ Len(s) \in Nat /\ Len(s) <= MaxPages - 1
      /\ MaxPages \in Nat \ {0} /\ 0 \notin PageIds
  <2>1. Len(s) <= MaxPages - 1
    BY LinkedShort
  <2> QED
    BY <2>1, IdsFinite, PagerPagesAssumption DEF Linked
<1>2. Code(v)
  <2>1. ASSUME NEW i \in 1..MaxPages
        PROVE  v[i] = IF i = 1 THEN start
                      ELSE IF v[i - 1] \in PageIds THEN next[v[i - 1]] ELSE v[i - 1]
    <3>1. CASE i = 1
      <4>1. 1 <= Len(s) <=> s # << >>
        BY <1>1
      <4> QED
        BY <1>1, <3>1, <4>1 DEF Linked
    <3>2. CASE i # 1 /\ i - 1 <= Len(s)
      <4>1. i - 1 \in 1..Len(s) /\ i - 1 \in 1..MaxPages /\ (i - 1) + 1 = i
        BY <1>1, <3>2
      <4>2. v[i - 1] = s[i - 1] /\ s[i - 1] \in PageIds
        BY <1>1, <4>1
      <4>3. next[s[i - 1]] = IF i - 1 = Len(s) THEN 0 ELSE s[i]
        BY <4>1, <4>2 DEF Linked
      <4>4. v[i] = IF i - 1 = Len(s) THEN 0 ELSE s[i]
        BY <1>1, <3>2
      <4> QED
        BY <3>2, <4>2, <4>3, <4>4
    <3>3. CASE i # 1 /\ ~(i - 1 <= Len(s))
      <4>1. i - 1 \in 1..MaxPages /\ ~(i <= Len(s))
        BY <1>1, <3>3
      <4> QED
        BY <1>1, <3>3, <4>1
    <3> QED
      BY <3>1, <3>2, <3>3
  <2>2. v = [i \in 1..MaxPages |-> v[i]]
    OBVIOUS
  <2> HIDE DEF v, next
  <2> QED
    BY <2>1, <2>2, Zenon
<1>3. ASSUME NEW g, Code(g) PROVE g = v
  <2> HIDE DEF next
  <2>1. DOMAIN g = 1..MaxPages /\ g = [i \in 1..MaxPages |-> g[i]]
    BY <1>3
  <2>2. \A h : Code(h) => \A i \in 1..MaxPages :
          h[i] = IF i = 1 THEN start
                 ELSE IF h[i - 1] \in PageIds THEN next[h[i - 1]] ELSE h[i - 1]
    BY Zenon
  <2> DEFINE T == {k \in Nat : k + 1 <= MaxPages => g[k + 1] = v[k + 1]}
  <2>3. 0 \in T
    <3>1. 0 \in Nat /\ 0 + 1 = 1 /\ 1 \in 1..MaxPages
      BY <1>1
    <3>2. g[1] = start /\ v[1] = start
      BY <1>2, <1>3, <2>2, <3>1
    <3> QED
      BY <3>1, <3>2
  <2>4. ASSUME NEW k \in Nat, k \in T PROVE k + 1 \in T
    <3> SUFFICES ASSUME (k + 1) + 1 <= MaxPages PROVE g[(k + 1) + 1] = v[(k + 1) + 1]
      OBVIOUS
    <3> HIDE DEF v
    <3>1. /\ (k + 1) + 1 \in 1..MaxPages /\ (k + 1) + 1 # 1
          /\ ((k + 1) + 1) - 1 = k + 1 /\ k + 1 <= MaxPages
      BY <1>1
    <3>2. g[k + 1] = v[k + 1]
      BY <2>4, <3>1
    <3> HIDE DEF Code, T
    <3>3. /\ g[(k + 1) + 1] = IF g[k + 1] \in PageIds THEN next[g[k + 1]] ELSE g[k + 1]
          /\ v[(k + 1) + 1] = IF v[k + 1] \in PageIds THEN next[v[k + 1]] ELSE v[k + 1]
      BY <1>2, <1>3, <2>2, <3>1
    <3> QED
      BY <3>2, <3>3
  <2> HIDE DEF T
  <2>5. Nat \subseteq T
    BY <2>3, <2>4, Induction
  <2>6. ASSUME NEW i \in 1..MaxPages PROVE g[i] = v[i]
    <3>1. i - 1 \in T /\ (i - 1) + 1 = i /\ i <= MaxPages
      BY <1>1, <2>5
    <3> QED
      BY <3>1 DEF T
  <2> QED
    BY <2>1, <2>6
<1>4. w = CHOOSE g : Code(g)
  BY Zenon DEF Walk
<1>5. w = v
  <2> HIDE DEF Code
  <2>1. Code(w)
    BY <1>2, <1>4, Zenon
  <2> QED
    BY <1>3, <2>1
<1>6. OnWalk(v) = Elems(s)
  <2>1. DOMAIN v = 1..MaxPages
    OBVIOUS
  <2>2. \A i \in 1..Len(s) : i \in 1..MaxPages /\ v[i] = s[i]
    BY <1>1
  <2>3. \A i \in 1..MaxPages : v[i] \in PageIds => i \in 1..Len(s) /\ v[i] = s[i]
    BY <1>1
  <2>4. \A i \in 1..Len(s) : s[i] \in PageIds
    BY <1>1
  <2> HIDE DEF v
  <2> QED
    BY <1>1, <2>1, <2>2, <2>3, <2>4 DEF OnWalk, Elems
<1>7. v \in [1..MaxPages -> Nat]
  <2>1. \A i \in 1..Len(s) : s[i] \in Nat
    BY <1>1, IdsFinite
  <2>2. \A i \in 1..MaxPages : i <= Len(s) => i \in 1..Len(s)
    BY <1>1
  <2> QED
    BY <2>1, <2>2
<1> QED
  BY <1>1, <1>5, <1>6, <1>7, SMTT(30)
-----------------------------------------------------------------------------
(* The free list. *)

Parts == Entries \cup {WithColumns(e, cs, first)[1] :
                         e \in Entries, cs \in Seq(DOMAIN ColumnLen), first \in BOOLEAN}

\* A page as the chain of the catalogue and the free list leave it.
Image == [type : {0}, link : 0..MaxPages, chain : {0}, page : {EmptyPage},
          spill : {{}}, body : Seq(Parts)]

Store == [file : [1..MaxPages -> Image], head : 0..MaxPages, nextId : 2..(MaxPages + 1)]

\* The pages in use are those of A, and the free list has all the others.
Split(st, A) ==
  /\ A \subseteq PageIds
  /\ \E s : /\ Linked(st.head, st.file, s)
            /\ Elems(s) \cap A = {}
            /\ Elems(s) \cup A = 2..(st.nextId - 1)

\* A page outside the list may change.
LEMMA LinkedElsewhere ==
  ASSUME NEW start, NEW f, NEW g, NEW s, Linked(start, f, s),
         \A p \in Elems(s) : g[p].link = f[p].link
  PROVE  Linked(start, g, s)
<1>1. s \in Seq(PageIds)
  BY DEF Linked
<1>2. \A i \in 1..Len(s) : s[i] \in Elems(s)
  BY <1>1, SeqFacts
<1> QED
  BY <1>2 DEF Linked

LEMMA FreeListOf ==
  ASSUME NEW st, NEW s, Linked(st.head, st.file, s)
  PROVE  /\ FreeWalk(st)[MaxPages] = 0
         /\ FreeList(st) = Elems(s)
<1>1. FreeWalk(st) = Walk(st.head, [p \in PageIds |-> st.file[p].link])
  BY SMTT(30) DEF FreeWalk
<1> HIDE DEF Linked
<1> QED
  BY <1>1, WalkLinked DEF FreeList

\* The first page of a list, and what is left without it.
LEMMA LinkedTail ==
  ASSUME NEW start, NEW f, NEW s, Linked(start, f, s), start # 0
  PROVE  /\ start \in Elems(s) /\ start \in PageIds
         /\ Linked(f[start].link, f, Tail(s))
         /\ Elems(Tail(s)) = Elems(s) \ {start}
<1>1. s \in Seq(PageIds) /\ s # << >> /\ start = s[1] /\ Len(s) \in Nat /\ Len(s) # 0
  BY SeqFacts DEF Linked
<1> DEFINE t == Tail(s)
<1>2. /\ t \in Seq(PageIds) /\ Len(t) = Len(s) - 1
      /\ \A i \in 1..Len(t) : t[i] = s[i + 1]
  BY <1>1
<1> HIDE DEF t
<1>3. 1 \in 1..Len(s) /\ s[1] \in Elems(s) /\ s[1] \in PageIds
  BY <1>1, SeqFacts
<1>4. f[start].link = IF t = << >> THEN 0 ELSE t[1]
  <2>1. f[s[1]].link = IF 1 = Len(s) THEN 0 ELSE s[1 + 1]
    BY <1>3 DEF Linked
  <2>2. t = << >> <=> 1 = Len(s)
    BY <1>1, <1>2, SeqFacts
  <2>3. 1 # Len(s) => 1 \in 1..Len(t)
    BY <1>1, <1>2
  <2> QED
    BY <1>1, <1>2, <2>1, <2>2, <2>3
<1>5. \A i \in 1..Len(t) : f[t[i]].link = IF i = Len(t) THEN 0 ELSE t[i + 1]
  <2> SUFFICES ASSUME NEW i \in 1..Len(t)
               PROVE  f[t[i]].link = IF i = Len(t) THEN 0 ELSE t[i + 1]
    OBVIOUS
  <2>1. i + 1 \in 1..Len(s) /\ i \in Nat
    BY <1>1, <1>2
  <2>2. f[s[i + 1]].link = IF i + 1 = Len(s) THEN 0 ELSE s[(i + 1) + 1]
    BY <2>1 DEF Linked
  <2>3. i + 1 = Len(s) <=> i = Len(t)
    BY <1>1, <1>2, <2>1
  <2>4. i # Len(t) => i + 1 \in 1..Len(t)
    BY <1>1, <1>2
  <2> QED
    BY <1>2, <2>2, <2>3, <2>4
<1>6. \A i, j \in 1..Len(t) : t[i] = t[j] => i = j
  <2>1. \A i \in 1..Len(t) : i + 1 \in 1..Len(s) /\ i \in Nat
    BY <1>1, <1>2
  <2>2. ASSUME NEW i \in 1..Len(t), NEW j \in 1..Len(t), t[i] = t[j] PROVE i = j
    <3>1. i + 1 = j + 1
      BY <1>2, <2>1, <2>2, SMTT(30) DEF Linked
    <3> QED
      BY <2>1, <3>1
  <2> QED
    BY <2>2
<1>7. Elems(t) = Elems(s) \ {start}
  <2>1. ASSUME NEW i \in 1..Len(t) PROVE t[i] \in Elems(s) /\ t[i] # s[1]
    <3>1. i + 1 \in 1..Len(s) /\ i + 1 # 1 /\ t[i] = s[i + 1]
      BY <1>1, <1>2
    <3>2. s[i + 1] # s[1]
      BY <1>3, <3>1 DEF Linked
    <3> QED
      BY <1>1, <3>1, <3>2, SeqFacts
  <2>2. ASSUME NEW i \in 1..Len(s), s[i] # s[1] PROVE s[i] \in Elems(t)
    <3>1. i - 1 \in 1..Len(t) /\ (i - 1) + 1 = i
      BY <1>1, <1>2, <2>2
    <3>2. t[i - 1] = s[i] /\ t[i - 1] \in Elems(t)
      BY <1>2, <3>1, SeqFacts
    <3> QED
      BY <3>2
  <2>3. ASSUME NEW p \in Elems(t) PROVE p \in Elems(s) \ {start}
    BY <1>1, <1>2, <2>1, SeqFacts
  <2>4. ASSUME NEW p \in Elems(s) \ {start} PROVE p \in Elems(t)
    BY <1>1, <2>2, SeqFacts
  <2> QED
    BY <2>3, <2>4
<1> QED
  BY <1>1, <1>2, <1>3, <1>4, <1>5, <1>6, <1>7 DEF Linked, t

\* A page in front of a list.
LEMMA LinkedPush ==
  ASSUME NEW start, NEW f, NEW g, NEW s, Linked(start, f, s),
         NEW p \in PageIds, p \notin Elems(s), g[p].link = start,
         \A q \in Elems(s) : g[q].link = f[q].link
  PROVE  /\ Linked(p, g, <<p>> \o s)
         /\ Elems(<<p>> \o s) = Elems(s) \cup {p}
<1> DEFINE t == <<p>> \o s
<1>1. /\ s \in Seq(PageIds) /\ Len(s) \in Nat
      /\ start = (IF s = << >> THEN 0 ELSE s[1])
      /\ (s = << >> <=> Len(s) = 0)
  BY SeqFacts DEF Linked
<1>2. /\ t \in Seq(PageIds) /\ Len(t) = Len(s) + 1
      /\ t[1] = p /\ \A i \in 1..Len(s) : t[i + 1] = s[i]
  <2>1. /\ <<p>> \in Seq(PageIds) /\ Len(<<p>>) = 1 /\ <<p>>[1] = p
    OBVIOUS
  <2>2. /\ t \in Seq(PageIds) /\ Len(t) = Len(<<p>>) + Len(s)
        /\ \A i \in 1..(Len(<<p>>) + Len(s)) :
             t[i] = IF i <= Len(<<p>>) THEN <<p>>[i] ELSE s[i - Len(<<p>>)]
    BY <1>1, <2>1, ConcatProperties
  <2> HIDE DEF t
  <2>3. \A i \in 1..(Len(s) + 1) : t[i] = IF i <= 1 THEN p ELSE s[i - 1]
    BY <1>1, <2>1, <2>2
  <2>4. ASSUME NEW i \in 1..Len(s) PROVE t[i + 1] = s[i]
    <3>1. i + 1 \in 1..(Len(s) + 1) /\ ~(i + 1 <= 1) /\ (i + 1) - 1 = i
      BY <1>1
    <3> QED
      BY <2>3, <3>1
  <2>5. 1 \in 1..(Len(s) + 1)
    BY <1>1
  <2> QED
    BY <1>1, <2>1, <2>2, <2>3, <2>4, <2>5
<1> HIDE DEF t
<1>3. \A i \in 1..Len(s) : s[i] \in Elems(s)
  BY <1>1, SeqFacts
<1>4. \A i \in 1..Len(t) : i = 1 \/ (i - 1 \in 1..Len(s) /\ t[i] = s[i - 1])
  <2> SUFFICES ASSUME NEW i \in 1..Len(t), i # 1 PROVE i - 1 \in 1..Len(s) /\ t[i] = s[i - 1]
    OBVIOUS
  <2>1. i - 1 \in 1..Len(s) /\ (i - 1) + 1 = i
    BY <1>1, <1>2
  <2> QED
    BY <1>2, <2>1
<1>5. ASSUME NEW i \in 1..Len(t)
      PROVE  g[t[i]].link = IF i = Len(t) THEN 0 ELSE t[i + 1]
  <2>1. CASE i = 1
    <3>1. CASE s = << >>
      BY <1>1, <1>2, <2>1, <3>1
    <3>2. CASE s # << >>
      <4>1. 1 \in 1..Len(s) /\ Len(t) # 1
        BY <1>1, <1>2, <3>2
      <4> QED
        BY <1>1, <1>2, <2>1, <3>2, <4>1
    <3> QED
      BY <3>1, <3>2
  <2>2. CASE i # 1
    <3>1. i - 1 \in 1..Len(s) /\ t[i] = s[i - 1]
      BY <1>4, <2>2
    <3>2. f[s[i - 1]].link = IF i - 1 = Len(s) THEN 0 ELSE s[(i - 1) + 1]
      BY <3>1 DEF Linked
    <3>3. g[s[i - 1]].link = f[s[i - 1]].link
      BY <1>3, <3>1
    <3>4. (i - 1) + 1 = i /\ (i - 1 = Len(s) <=> i = Len(t))
      BY <1>1, <1>2
    <3>5. i # Len(t) => i \in 1..Len(s)
      BY <1>1, <1>2
    <3> QED
      BY <1>2, <3>1, <3>2, <3>3, <3>4, <3>5
  <2> QED
    BY <2>1, <2>2
<1>6. ASSUME NEW i \in 1..Len(t), NEW j \in 1..Len(t), t[i] = t[j] PROVE i = j
  <2>1. CASE i = 1 \/ j = 1
    BY <1>2, <1>3, <1>4, <1>6, <2>1
  <2>2. CASE i # 1 /\ j # 1
    <3>1. /\ i - 1 \in 1..Len(s) /\ t[i] = s[i - 1]
          /\ j - 1 \in 1..Len(s) /\ t[j] = s[j - 1]
      BY <1>4, <2>2
    <3>2. i - 1 = j - 1
      BY <1>6, <3>1 DEF Linked
    <3> QED
      BY <1>1, <1>2, <3>2
  <2> QED
    BY <2>1, <2>2
<1>7. Elems(t) = Elems(s) \cup {p}
  <2>1. ASSUME NEW q \in Elems(t) PROVE q \in Elems(s) \cup {p}
    <3>1. PICK i \in 1..Len(t) : q = t[i]
      BY <1>2, SeqFacts
    <3> QED
      BY <1>2, <1>3, <1>4, <3>1
  <2>2. ASSUME NEW q \in Elems(s) PROVE q \in Elems(t)
    <3>1. PICK i \in 1..Len(s) : q = s[i]
      BY <1>1, SeqFacts
    <3>2. i + 1 \in 1..Len(t) /\ t[i + 1] = q
      BY <1>1, <1>2, <3>1
    <3> QED
      BY <1>2, <3>2, SeqFacts
  <2>3. p \in Elems(t)
    <3>1. 1 \in 1..Len(t)
      BY <1>1, <1>2
    <3> QED
      BY <1>2, <3>1, SeqFacts
  <2> QED
    BY <2>1, <2>2, <2>3
<1>8. t # << >>
  BY <1>1, <1>2, SeqFacts
<1> QED
  BY <1>2, <1>5, <1>6, <1>7, <1>8 DEF Linked, t

\* The last page of a chain that starts at page 1.
LastPage(s) == IF s = << >> THEN 1 ELSE s[Len(s)]

\* From f to g, page p was linked behind the last one.
Relinked(f, g, s, p) ==
  /\ g[LastPage(s)].link = p /\ g[p].link = 0
  /\ \A q \in (Elems(s) \cup {1}) \ {LastPage(s)} : g[q].link = f[q].link

LEMMA LinkedAppend ==
  ASSUME NEW f, NEW g, NEW s, Linked(f[1].link, f, s),
         NEW p \in PageIds, p \notin Elems(s), Relinked(f, g, s, p)
  PROVE  /\ Linked(g[1].link, g, Append(s, p))
         /\ Elems(Append(s, p)) = Elems(s) \cup {p}
<1> DEFINE t == Append(s, p)
           last == LastPage(s)
<1>1. /\ last = (IF s = << >> THEN 1 ELSE s[Len(s)])
      /\ g[p].link = 0 /\ g[last].link = p
      /\ \A q \in (Elems(s) \cup {1}) \ {last} : g[q].link = f[q].link
  BY DEF LastPage, Relinked
<1> HIDE DEF last
<1>2. /\ s \in Seq(PageIds) /\ Len(s) \in Nat
      /\ f[1].link = (IF s = << >> THEN 0 ELSE s[1])
      /\ (s = << >> <=> Len(s) = 0)
  BY SeqFacts DEF Linked
<1>3. /\ t \in Seq(PageIds) /\ Len(t) = Len(s) + 1
      /\ t[Len(s) + 1] = p /\ \A i \in 1..Len(s) : t[i] = s[i]
  BY <1>2
<1> HIDE DEF t
<1>4. \A i \in 1..Len(s) : s[i] \in Elems(s) /\ s[i] \in PageIds /\ s[i] # 1
  BY <1>2, SeqFacts, IdsFinite
<1>5. \A i \in 1..Len(t) : i = Len(s) + 1 \/ i \in 1..Len(s)
  BY <1>2, <1>3
<1>6. ASSUME NEW i \in 1..Len(t)
      PROVE  g[t[i]].link = IF i = Len(t) THEN 0 ELSE t[i + 1]
  <2>1. CASE i = Len(s) + 1
    BY <1>1, <1>3, <2>1
  <2>2. CASE i \in 1..Len(s) /\ i # Len(s)
    <3>1. i + 1 \in 1..Len(s) /\ i # Len(t) /\ Len(s) \in 1..Len(s)
      BY <1>2, <1>3, <2>2
    <3>2. s[i] # last
      BY <1>1, <1>2, <2>2, <3>1 DEF Linked
    <3>3. g[s[i]].link = f[s[i]].link
      BY <1>1, <1>4, <2>2, <3>2
    <3> QED
      BY <1>3, <2>2, <3>1, <3>3 DEF Linked
  <2>3. CASE i = Len(s) /\ i \in 1..Len(s)
    <3>1. s # << >> /\ s[i] = last /\ i # Len(t) /\ i + 1 = Len(s) + 1
      BY <1>1, <1>2, <1>3, <2>3
    <3> QED
      BY <1>1, <1>3, <2>3, <3>1
  <2> QED
    BY <1>5, <2>1, <2>2, <2>3
<1>7. ASSUME NEW i \in 1..Len(t), NEW j \in 1..Len(t), t[i] = t[j] PROVE i = j
  <2>1. CASE i \in 1..Len(s) /\ j \in 1..Len(s)
    BY <1>3, <1>7, <2>1 DEF Linked
  <2>2. CASE i = Len(s) + 1 \/ j = Len(s) + 1
    BY <1>3, <1>4, <1>5, <1>7, <2>2
  <2> QED
    BY <1>5, <2>1, <2>2
<1>8. Elems(t) = Elems(s) \cup {p}
  <2>1. ASSUME NEW q \in Elems(t) PROVE q \in Elems(s) \cup {p}
    BY <1>3, <1>4, <1>5, SeqFacts
  <2>2. ASSUME NEW q \in Elems(s) PROVE q \in Elems(t)
    <3>1. PICK i \in 1..Len(s) : q = s[i]
      BY <1>2, SeqFacts
    <3>2. i \in 1..Len(t) /\ t[i] = q
      BY <1>2, <1>3, <3>1
    <3> QED
      BY <1>3, <3>2, SeqFacts
  <2>3. p \in Elems(t)
    <3>1. Len(s) + 1 \in 1..Len(t)
      BY <1>2, <1>3
    <3> QED
      BY <1>3, <3>1, SeqFacts
  <2> QED
    BY <2>1, <2>2, <2>3
<1>9. g[1].link = IF t = << >> THEN 0 ELSE t[1]
  <2>1. t # << >>
    BY <1>2, <1>3, SeqFacts
  <2>2. CASE s = << >>
    <3>1. Len(s) + 1 = 1 /\ last = 1
      BY <1>1, <1>2, <2>2
    <3> QED
      BY <1>1, <1>3, <2>1, <3>1
  <2>3. CASE s # << >>
    <3>1. 1 \in 1..Len(s) /\ Len(s) \in 1..Len(s) /\ last = s[Len(s)]
      BY <1>1, <1>2, <2>3
    <3>2. 1 # last
      BY <1>4, <3>1
    <3> QED
      BY <1>1, <1>2, <1>3, <2>1, <2>3, <3>1, <3>2
  <2> QED
    BY <2>2, <2>3
<1> QED
  BY <1>3, <1>6, <1>7, <1>8, <1>9 DEF Linked, t

LEMMA SplitKept ==
  ASSUME NEW st, NEW A, Split(st, A), NEW after,
         after.head = st.head, after.nextId = st.nextId,
         \A p \in PageIds \ A : after.file[p].link = st.file[p].link
  PROVE  /\ Split(after, A)
         /\ \A n : RoomFor(after, n) <=> RoomFor(st, n)
<1>1. PICK s : /\ Linked(st.head, st.file, s)
               /\ Elems(s) \cap A = {}
               /\ Elems(s) \cup A = 2..(st.nextId - 1)
  BY DEF Split
<1>2. Elems(s) \subseteq PageIds
  BY <1>1, SeqFacts DEF Linked
<1>3. Linked(after.head, after.file, s)
  BY <1>1, <1>2, LinkedElsewhere
<1>4. FreeList(after) = Elems(s) /\ FreeList(st) = Elems(s)
  BY <1>1, <1>3, FreeListOf
<1> QED
  BY <1>1, <1>3, <1>4 DEF Split, RoomFor

LEMMA ZeroedImage == Zeroed \in Image
<1>1. MaxPages \in Nat \ {0}
  BY PagerPagesAssumption
<1> QED
  BY <1>1 DEF Zeroed, Image

LEMMA PageFreed ==
  ASSUME NEW st \in Store, NEW A, Split(st, A), NEW p \in A,
         NEW after, after = FreePage(st, p)
  PROVE  /\ after \in Store
         /\ Split(after, A \ {p})
         /\ after.nextId = st.nextId
         /\ \A q \in 1..MaxPages : q # p => after.file[q] = st.file[q]
<1>1. PICK s : /\ Linked(st.head, st.file, s)
               /\ Elems(s) \cap A = {}
               /\ Elems(s) \cup A = 2..(st.nextId - 1)
  BY DEF Split
<1>2. A \subseteq PageIds /\ p \in PageIds /\ p \in 1..MaxPages /\ p \in 0..MaxPages
  <2>1. A \subseteq PageIds
    BY DEF Split
  <2>2. p \in 1..MaxPages
    BY <2>1, IdsFinite
  <2> QED
    BY <2>1, <2>2, PagerPagesAssumption
<1>3. Elems(s) \subseteq PageIds
  BY <1>1, SeqFacts DEF Linked
<1> DEFINE image == [Zeroed EXCEPT !.link = st.head, !.chain = st.file[p].chain]
<1>4. image \in Image /\ image.link = st.head
  <2>1. st.head \in 0..MaxPages /\ st.file[p] \in Image
    BY <1>2 DEF Store
  <2>2. st.file[p].chain \in {0}
    BY <2>1 DEF Image
  <2> QED
    BY <2>1, <2>2, ZeroedImage DEF Image
<1> HIDE DEF image
<1>5. /\ after.file = [st.file EXCEPT ![p] = image]
      /\ after.head = p /\ after.nextId = st.nextId
      /\ after \in Store
  <2>1. after = [file |-> [st.file EXCEPT ![p] = image], head |-> p, nextId |-> st.nextId]
    BY <1>2 DEF Store, FreePage, image
  <2> QED
    BY <1>2, <1>4, <2>1 DEF Store
<1>6. \A q \in 1..MaxPages : q # p => after.file[q] = st.file[q]
  BY <1>5 DEF Store
<1>7. after.file[p].link = st.head
  BY <1>2, <1>4, <1>5 DEF Store
<1>8. p \notin Elems(s) /\ \A q \in Elems(s) : after.file[q].link = st.file[q].link
  <2>1. p \notin Elems(s)
    BY <1>1
  <2>2. \A q \in Elems(s) : q \in 1..MaxPages
    BY <1>3, IdsFinite
  <2> QED
    BY <1>6, <2>1, <2>2
<1>9. /\ Linked(p, after.file, <<p>> \o s)
      /\ Elems(<<p>> \o s) = Elems(s) \cup {p}
  <2>1. Linked(st.head, st.file, s)
    BY <1>1
  <2> QED
    BY <1>2, <1>7, <1>8, <2>1, LinkedPush
<1>10. Split(after, A \ {p})
  <2> DEFINE t == <<p>> \o s
  <2>1. /\ Linked(after.head, after.file, t)
        /\ Elems(t) = Elems(s) \cup {p}
    BY <1>5, <1>9
  <2> HIDE DEF t
  <2> QED
    BY <1>1, <1>2, <1>5, <2>1 DEF Split
<1> QED
  BY <1>5, <1>6, <1>10

\* There is a page for each that the bound leaves room for.
LEMMA PageAllocated ==
  ASSUME NEW st \in Store, NEW A, Split(st, A), NEW n \in Nat, RoomFor(st, n + 1),
         NEW p, p = Fresh(st), NEW after, after = AllocPage(st)
  PROVE  /\ p \in PageIds \ A
         /\ after \in Store
         /\ Split(after, A \cup {p})
         /\ RoomFor(after, n)
         /\ \A q \in 1..MaxPages : q # p => after.file[q] = st.file[q]
<1>1. PICK s : /\ Linked(st.head, st.file, s)
               /\ Elems(s) \cap A = {}
               /\ Elems(s) \cup A = 2..(st.nextId - 1)
  BY DEF Split
<1>2. /\ A \subseteq PageIds /\ Elems(s) \subseteq PageIds
      /\ s \in Seq(PageIds) /\ Len(s) \in Nat
      /\ st.head = (IF s = << >> THEN 0 ELSE s[1])
  BY <1>1, SeqFacts DEF Split, Linked
<1>3. /\ IsFiniteSet(Elems(s)) /\ Cardinality(Elems(s)) \in Nat
      /\ Cardinality(Elems(s)) + MaxPages + 1 - st.nextId >= n + 1
  <2>1. IsFiniteSet(Elems(s)) /\ Cardinality(Elems(s)) \in Nat
    BY <1>2, IdsFinite, FS_Subset, FS_CardinalityType
  <2>2. FreeList(st) = Elems(s)
    BY <1>1, FreeListOf
  <2> QED
    BY <2>1, <2>2 DEF RoomFor
<1>4. MaxPages \in Nat \ {0} /\ st.nextId \in 2..(MaxPages + 1)
  BY PagerPagesAssumption DEF Store
<1>5. CASE st.head # 0
  <2>1. p = st.head
    BY <1>5 DEF Fresh
  <2> DEFINE t == Tail(s)
  <2>2. /\ p \in Elems(s) /\ p \in PageIds
        /\ Linked(st.file[p].link, st.file, t)
        /\ Elems(t) = Elems(s) \ {p}
    BY <1>1, <1>5, <2>1, LinkedTail
  <2> HIDE DEF t
  <2>3. p \in 1..MaxPages
    BY <2>2, IdsFinite
  <2>4. /\ after.file = [st.file EXCEPT ![p] = Zeroed]
        /\ after.head = st.file[p].link /\ after.nextId = st.nextId
        /\ after \in Store
    <3>1. after = [file |-> [st.file EXCEPT ![p] = Zeroed],
                   head |-> st.file[p].link, nextId |-> st.nextId]
      BY <1>5, <2>1 DEF Store, AllocPage
    <3>2. st.file[p].link \in 0..MaxPages
      BY <2>3 DEF Store, Image
    <3> QED
      <4>1. [st.file EXCEPT ![p] = Zeroed] \in [1..MaxPages -> Image]
        BY ZeroedImage DEF Store
      <4> QED
        BY <3>1, <3>2, <4>1 DEF Store
  <2>5. \A q \in 1..MaxPages : q # p => after.file[q] = st.file[q]
    BY <2>4 DEF Store
  <2>6. Linked(after.head, after.file, t)
    <3>1. \A q \in Elems(t) : q \in 1..MaxPages /\ q # p
      BY <1>2, <2>2, IdsFinite
    <3>2. \A q \in Elems(t) : after.file[q].link = st.file[q].link
      BY <2>5, <3>1
    <3> QED
      BY <2>2, <2>4, <3>2, LinkedElsewhere
  <2>7. Split(after, A \cup {p})
    BY <1>1, <1>2, <2>2, <2>4, <2>6 DEF Split
  <2>8. RoomFor(after, n)
    <3>1. FreeList(after) = Elems(s) \ {p}
      BY <2>2, <2>6, FreeListOf
    <3>2. Cardinality(Elems(s) \ {p}) = Cardinality(Elems(s)) - 1
      BY <1>3, <2>2, FS_RemoveElement
    <3> QED
      BY <1>3, <1>4, <2>4, <3>1, <3>2 DEF RoomFor
  <2> QED
    BY <1>1, <2>2, <2>4, <2>5, <2>7, <2>8
<1>6. CASE st.head = 0
  <2>1. p = st.nextId
    BY <1>6 DEF Fresh
  <2>2. s = << >>
    <3>1. s # << >> => s[1] \in PageIds
      BY <1>2, SeqFacts
    <3> QED
      BY <1>2, <1>6, <3>1, IdsFinite
  <2>3. Elems(s) = {} /\ Cardinality(Elems(s)) = 0
    <3>1. Elems(s) = {}
      BY <2>2 DEF Elems
    <3> QED
      BY <3>1, FS_EmptySet
  <2>4. p \in PageIds /\ p \notin A /\ p + 1 \in 2..(MaxPages + 1)
        /\ 2..((p + 1) - 1) = (2..(p - 1)) \cup {p}
    BY <1>1, <1>3, <1>4, <2>1, <2>3 DEF PageIds
  <2>5. /\ after.file = st.file /\ after.head = st.head /\ after.nextId = p + 1
        /\ after \in Store
    <3>1. after = [file |-> st.file, head |-> st.head, nextId |-> p + 1]
      BY <1>6, <2>1 DEF Store, AllocPage
    <3> QED
      BY <2>4, <3>1 DEF Store
  <2>6. Split(after, A \cup {p})
    BY <1>1, <1>2, <2>1, <2>3, <2>4, <2>5 DEF Split
  <2>7. RoomFor(after, n)
    <3>1. FreeList(after) = Elems(s)
      BY <1>1, <2>5, FreeListOf
    <3> QED
      BY <1>3, <1>4, <2>1, <2>3, <2>5, <3>1 DEF RoomFor
  <2> QED
    BY <2>4, <2>5, <2>6, <2>7
<1> QED
  BY <1>5, <1>6
-----------------------------------------------------------------------------
(* What the folds of the model compute: one value after each element. *)

\* The steps that are folded, by name.
Apply(op, e, a, x) ==
  CASE op = "free"    -> FreePage(a, x)
    [] op = "segment" -> AddSegment(a, x)
    [] op = "column"  -> SplitColumn(a, e, x)
    [] op = "pack"    -> PackTable(a, x)
    [] op = "chunk"   -> AddChunk(a, e, x)
    [] op = "once"    -> Once(a, x)
    [] op = "visit"   -> Visit(e, a, x)
    [] op = "walk"    -> IF a \in PageIds THEN e[a] ELSE a

\* it is what MapThenFoldSet iterates over the elements 1 to n of s.
Iterates(it, n, op, e, b, s) ==
  it = [t \in SUBSET (1..n) |->
          IF t = {} THEN b ELSE Apply(op, e, it[t \ {Max(t)}], s[Max(t)])]

LEMMA IterExists ==
  ASSUME NEW n \in Nat, NEW op, NEW e, NEW b, NEW s
  PROVE  \E it : Iterates(it, n, op, e, b, s)
<1> DEFINE Code(k, f) == Iterates(f, k, op, e, b, s)
           Found(k) == \E f : Code(k, f)
           T == {k \in Nat : Found(k)}
<1>1. 0 \in T
  <2>1. SUBSET (1..0) = {{}}
    OBVIOUS
  <2> DEFINE f == [t \in SUBSET (1..0) |-> b]
  <2>2. Code(0, f)
    BY <2>1 DEF Iterates
  <2> QED
    BY <2>2
<1>2. ASSUME NEW k \in Nat, k \in T PROVE k + 1 \in T
  <2>1. PICK f : Code(k, f)
    BY <1>2
  <2> HIDE DEF Code
  <2>2. \A t \in SUBSET (1..k) :
          f[t] = IF t = {} THEN b ELSE Apply(op, e, f[t \ {Max(t)}], s[Max(t)])
    BY <2>1, Zenon DEF Code, Iterates
  <2> DEFINE h == [t \in SUBSET (1..(k + 1)) |->
                     IF k + 1 \in t THEN Apply(op, e, f[t \ {k + 1}], s[k + 1]) ELSE f[t]]
  <2>3. ASSUME NEW t \in SUBSET (1..(k + 1))
        PROVE  h[t] = IF t = {} THEN b ELSE Apply(op, e, h[t \ {Max(t)}], s[Max(t)])
    <3>1. CASE k + 1 \in t
      <4> DEFINE u == t \ {k + 1}
      <4>1. u \in SUBSET (1..k) /\ t = u \cup {k + 1} /\ t # {} /\ k + 1 \notin u
        BY <3>1
      <4> HIDE DEF u
      <4>2. Max(t) = k + 1 /\ t \ {Max(t)} = u /\ t \ {k + 1} = u
        BY <4>1, MaxFacts
      <4>3. u \in SUBSET (1..(k + 1)) /\ h[u] = f[u]
        BY <4>1
      <4>4. h[t] = Apply(op, e, f[t \ {k + 1}], s[k + 1])
        BY <3>1
      <4> HIDE DEF h
      <4> QED
        BY <4>1, <4>2, <4>3, <4>4
    <3>2. CASE k + 1 \notin t
      <4>1. t \in SUBSET (1..k) /\ h[t] = f[t]
        BY <3>2
      <4>2. t \ {Max(t)} \in SUBSET (1..(k + 1)) /\ k + 1 \notin t \ {Max(t)}
        BY <3>2
      <4>3. h[t \ {Max(t)}] = f[t \ {Max(t)}]
        BY <4>2
      <4> HIDE DEF h
      <4> QED
        BY <2>2, <4>1, <4>3
    <3> QED
      BY <3>1, <3>2
  <2>4. h = [t \in SUBSET (1..(k + 1)) |-> h[t]]
    OBVIOUS
  <2> HIDE DEF h
  <2>5. Code(k + 1, h)
    BY <2>3, <2>4, Zenon DEF Code, Iterates
  <2> QED
    BY <2>5
<1>3. Nat \subseteq T
  <2> HIDE DEF T
  <2> QED
    BY <1>1, <1>2, Induction
<1>4. Found(n)
  <2> HIDE DEF Found
  <2> QED
    BY <1>3
<1> QED
  BY <1>4

LEMMA IterSteps ==
  ASSUME NEW n \in Nat, NEW op, NEW e, NEW b, NEW s, NEW it, Iterates(it, n, op, e, b, s)
  PROVE  \E g : /\ g[0] = b
                /\ \A k \in 1..n : g[k] = Apply(op, e, g[k - 1], s[k])
                /\ it[1..n] = g[n]
<1>1. \A t \in SUBSET (1..n) :
        it[t] = IF t = {} THEN b ELSE Apply(op, e, it[t \ {Max(t)}], s[Max(t)])
  BY Zenon DEF Iterates
<1> DEFINE g == [k \in 0..n |-> it[1..k]]
<1>2. g[0] = b
  <2>1. 1..0 = {} /\ {} \in SUBSET (1..n) /\ 0 \in 0..n
    OBVIOUS
  <2>2. it[{}] = b
    BY <1>1, <2>1, Zenon
  <2> QED
    BY <2>1, <2>2
<1>3. ASSUME NEW k \in 1..n PROVE g[k] = Apply(op, e, g[k - 1], s[k])
  <2>1. /\ 1..k \in SUBSET (1..n) /\ 1..k # {}
        /\ Max(1..k) = k /\ (1..k) \ {k} = 1..(k - 1)
    BY FirstNumbers
  <2>2. it[1..k] = Apply(op, e, it[(1..k) \ {Max(1..k)}], s[Max(1..k)])
    BY <1>1, <2>1, Zenon
  <2>3. it[1..k] = Apply(op, e, it[1..(k - 1)], s[k])
    BY <2>1, <2>2, Zenon
  <2>4. k \in 0..n /\ k - 1 \in 0..n
    OBVIOUS
  <2>5. g[k] = it[1..k] /\ g[k - 1] = it[1..(k - 1)]
    BY <2>4
  <2> QED
    BY <2>3, <2>5, Zenon
<1>4. it[1..n] = g[n]
  <2>1. n \in 0..n
    OBVIOUS
  <2> QED
    BY <2>1, Zenon
<1> QED
  BY <1>2, <1>3, <1>4, Zenon

LEMMA FreeFold ==
  ASSUME NEW S, NEW s \in Seq(S), NEW b
  PROVE  \E g : /\ g[0] = b
                /\ \A k \in 1..Len(s) : g[k] = FreePage(g[k - 1], s[k])
                /\ FoldLeft(FreePage, b, s) = g[Len(s)]
<1> DEFINE n == Len(s)
           Code(f) == f = [t \in SUBSET (1..n) |->
                             IF t = {} THEN b
                             ELSE FreePage(f[t \ {Max(t)}], s[Max(t)])]
           it == CHOOSE f : Code(f)
<1>1. n \in Nat /\ DOMAIN s = 1..n
  OBVIOUS
<1>2. FoldLeft(FreePage, b, s) = it[1..n]
  BY <1>1, Zenon DEF FoldLeft, MapThenFoldSet
<1>3. \A f : Code(f) <=> Iterates(f, n, "free", 0, b, s)
  BY DEF Iterates, Apply
<1> HIDE DEF n, Code
<1>4. Iterates(it, n, "free", 0, b, s)
  <2>1. PICK f : Iterates(f, n, "free", 0, b, s)
    BY <1>1, IterExists
  <2> QED
    BY <1>3, <2>1, Zenon
<1> HIDE DEF it
<1>5. \E g : /\ g[0] = b
             /\ \A k \in 1..n : g[k] = Apply("free", 0, g[k - 1], s[k])
             /\ it[1..n] = g[n]
  BY <1>1, <1>4, IterSteps, SMTT(30)
<1>6. \A a, x : Apply("free", 0, a, x) = FreePage(a, x)
  BY DEF Apply
<1> QED
  BY <1>2, <1>5, <1>6, Zenon DEF n

LEMMA SegmentFold ==
  ASSUME NEW S, NEW s \in Seq(S), NEW b
  PROVE  \E g : /\ g[0] = b
                /\ \A k \in 1..Len(s) : g[k] = AddSegment(g[k - 1], s[k])
                /\ FoldLeft(AddSegment, b, s) = g[Len(s)]
<1> DEFINE n == Len(s)
           Code(f) == f = [t \in SUBSET (1..n) |->
                             IF t = {} THEN b
                             ELSE AddSegment(f[t \ {Max(t)}], s[Max(t)])]
           it == CHOOSE f : Code(f)
<1>1. n \in Nat /\ DOMAIN s = 1..n
  OBVIOUS
<1>2. FoldLeft(AddSegment, b, s) = it[1..n]
  BY <1>1, Zenon DEF FoldLeft, MapThenFoldSet
<1>3. \A f : Code(f) <=> Iterates(f, n, "segment", 0, b, s)
  BY DEF Iterates, Apply
<1> HIDE DEF n, Code
<1>4. Iterates(it, n, "segment", 0, b, s)
  <2>1. PICK f : Iterates(f, n, "segment", 0, b, s)
    BY <1>1, IterExists
  <2> QED
    BY <1>3, <2>1, Zenon
<1> HIDE DEF it
<1>5. \E g : /\ g[0] = b
             /\ \A k \in 1..n : g[k] = Apply("segment", 0, g[k - 1], s[k])
             /\ it[1..n] = g[n]
  BY <1>1, <1>4, IterSteps, SMTT(30)
<1>6. \A a, x : Apply("segment", 0, a, x) = AddSegment(a, x)
  BY DEF Apply
<1> QED
  BY <1>2, <1>5, <1>6, Zenon DEF n

\* What the split of a table ends with: its last columns.
LastChunk(e, acc) ==
  IF acc.chunk = << >> THEN acc.segs
  ELSE Append(acc.segs, WithColumns(e, acc.chunk, acc.segs = << >>))

LEMMA ColumnFold ==
  ASSUME NEW S, NEW e, NEW s \in Seq(S), s = e.cols, NEW b, b = [segs |-> << >>, chunk |-> << >>]
  PROVE  \E g : /\ g[0] = b
                /\ \A k \in 1..Len(s) : g[k] = SplitColumn(g[k - 1], e, s[k])
                /\ SplitSingleTable(e) = LastChunk(e, g[Len(s)])
<1> DEFINE n == Len(s)
           Code(f) == f = [t \in SUBSET (1..n) |->
                             IF t = {} THEN b
                             ELSE SplitColumn(f[t \ {Max(t)}], e, s[Max(t)])]
           it == CHOOSE f : Code(f)
<1>1. n \in Nat /\ DOMAIN s = 1..n
  OBVIOUS
<1>2. SplitSingleTable(e) = LastChunk(e, it[1..n])
  <2>1. FoldLeft(LAMBDA a, c : SplitColumn(a, e, c), b, s) = it[1..n]
    BY <1>1, Zenon DEF FoldLeft, MapThenFoldSet
  <2>2. SplitSingleTable(e) = LastChunk(e, FoldLeft(LAMBDA a, c : SplitColumn(a, e, c), b, s))
    BY DEF SplitSingleTable, LastChunk
  <2> HIDE DEF it, n
  <2> QED
    BY <2>1, <2>2
<1>3. \A f : Code(f) <=> Iterates(f, n, "column", e, b, s)
  BY DEF Iterates, Apply
<1> HIDE DEF n, Code
<1>4. Iterates(it, n, "column", e, b, s)
  <2>1. PICK f : Iterates(f, n, "column", e, b, s)
    BY <1>1, IterExists
  <2> QED
    BY <1>3, <2>1, Zenon
<1> HIDE DEF it
<1>5. \E g : /\ g[0] = b
             /\ \A k \in 1..n : g[k] = Apply("column", e, g[k - 1], s[k])
             /\ it[1..n] = g[n]
  BY <1>1, <1>4, IterSteps
<1>6. \A a, x : Apply("column", e, a, x) = SplitColumn(a, e, x)
  BY DEF Apply
<1>7. PICK g : /\ g[0] = b
               /\ \A k \in 1..n : g[k] = Apply("column", e, g[k - 1], s[k])
               /\ it[1..n] = g[n]
  BY <1>5
<1>8. \A k \in 1..n : g[k] = SplitColumn(g[k - 1], e, s[k])
  BY <1>6, <1>7, Zenon
<1>9. SplitSingleTable(e) = LastChunk(e, g[n])
  BY <1>2, <1>7
<1> QED
  BY <1>7, <1>8, <1>9, Zenon DEF n

LEMMA PackFold ==
  ASSUME NEW S, NEW s \in Seq(S), NEW b
  PROVE  \E g : /\ g[0] = b
                /\ \A k \in 1..Len(s) : g[k] = PackTable(g[k - 1], s[k])
                /\ FoldLeft(PackTable, b, s) = g[Len(s)]
<1> DEFINE n == Len(s)
           Code(f) == f = [t \in SUBSET (1..n) |->
                             IF t = {} THEN b
                             ELSE PackTable(f[t \ {Max(t)}], s[Max(t)])]
           it == CHOOSE f : Code(f)
<1>1. n \in Nat /\ DOMAIN s = 1..n
  OBVIOUS
<1>2. FoldLeft(PackTable, b, s) = it[1..n]
  BY <1>1, Zenon DEF FoldLeft, MapThenFoldSet
<1>3. \A f : Code(f) <=> Iterates(f, n, "pack", 0, b, s)
  BY DEF Iterates, Apply
<1> HIDE DEF n, Code
<1>4. Iterates(it, n, "pack", 0, b, s)
  <2>1. PICK f : Iterates(f, n, "pack", 0, b, s)
    BY <1>1, IterExists
  <2> QED
    BY <1>3, <2>1, Zenon
<1> HIDE DEF it
<1>5. \E g : /\ g[0] = b
             /\ \A k \in 1..n : g[k] = Apply("pack", 0, g[k - 1], s[k])
             /\ it[1..n] = g[n]
  BY <1>1, <1>4, IterSteps
<1>6. \A a, x : Apply("pack", 0, a, x) = PackTable(a, x)
  BY DEF Apply
<1> QED
  BY <1>2, <1>5, <1>6, Zenon DEF n
-----------------------------------------------------------------------------
(* Giving the old chain back. *)

LEMMA CatalogPagesOf ==
  ASSUME NEW f, NEW c, Linked(f[ChainHead].link, f, c)
  PROVE  CatalogPages(f) = c /\ CatalogWalk(f)[MaxPages] = 0
<1> DEFINE w == CatalogWalk(f)
<1>1. /\ w \in [1..MaxPages -> Nat]
      /\ \A i \in 1..MaxPages : w[i] = IF i <= Len(c) THEN c[i] ELSE 0
      /\ w[MaxPages] = 0
  <2> DEFINE start == f[ChainHead].link
  <2>1. w = Walk(start, [p \in PageIds |-> f[p].link])
    BY DEF CatalogWalk
  <2>2. Linked(start, f, c)
    OBVIOUS
  <2> HIDE DEF w, start
  <2> QED
    BY <2>1, <2>2, WalkLinked
<1>2. /\ c \in Seq(PageIds) /\ Len(c) \in Nat /\ Len(c) <= MaxPages - 1
      /\ MaxPages \in Nat \ {0}
  <2>1. Len(c) <= MaxPages - 1
    BY LinkedShort
  <2> QED
    BY <2>1, PagerPagesAssumption DEF Linked
<1>3. CatalogPages(f) = SubSeq(w, 1, Cardinality({i \in DOMAIN w : w[i] \in PageIds}))
  BY DEF CatalogPages
<1> HIDE DEF w
<1>4. \A i \in 1..Len(c) : i \in 1..MaxPages /\ c[i] \in PageIds /\ c[i] \in Nat /\ w[i] = c[i]
  BY <1>1, <1>2, IdsFinite
<1>5. Cardinality({i \in DOMAIN w : w[i] \in PageIds}) = Len(c)
  <2>1. ASSUME NEW i \in 1..MaxPages PROVE w[i] \in PageIds <=> i \in 1..Len(c)
    <3>1. i <= Len(c) <=> i \in 1..Len(c)
      BY <1>2
    <3> QED
      BY <1>1, <1>4, <3>1, IdsFinite
  <2>2. {i \in DOMAIN w : w[i] \in PageIds} = 1..Len(c)
    BY <1>1, <1>4, <2>1
  <2>3. Cardinality(1..Len(c)) = Len(c)
    <3>1. \A m \in Nat : Cardinality(1..m) = m
      BY FS_Interval
    <3> QED
      BY <1>2, <3>1
  <2> QED
    BY <1>2, <2>2, <2>3
<1>6. w \in Seq(Nat) /\ Len(w) = MaxPages
  BY <1>1, <1>2
<1> DEFINE v == SubSeq(w, 1, Len(c))
<1>7. v \in Seq(Nat) /\ Len(v) = Len(c) /\ \A i \in 1..Len(c) : v[i] = w[i]
  BY <1>2, <1>6
<1>8. c \in Seq(Nat)
  BY <1>2, <1>4
<1> HIDE DEF v
<1>9. v = c
  BY <1>4, <1>7, <1>8, SeqEqual
<1> QED
  BY <1>1, <1>3, <1>5, <1>9 DEF v, w

LEMMA ChainGivenBack ==
  ASSUME NEW st \in Store, NEW c, Linked(st.file[ChainHead].link, st.file, c),
         NEW A, Elems(c) \cap A = {}, Split(st, Elems(c) \cup A),
         NEW after, after = Reclaim(st)
  PROVE  /\ after \in Store
         /\ Split(after, A)
         /\ after.nextId = st.nextId
         /\ after.file[ChainHead].link = 0
<1> DEFINE n == Len(c)
           done(k) == {c[i] : i \in 1..k}
           inUse(k) == (Elems(c) \ done(k)) \cup A
<1>1. c \in Seq(PageIds) /\ n \in Nat /\ \A i \in 1..n : c[i] \in Elems(c) /\ c[i] # 1
  BY SeqFacts, IdsFinite DEF Linked
<1>2. CatalogPages(st.file) = c
  BY CatalogPagesOf
<1>3. PICK g : /\ g[0] = st
               /\ \A k \in 1..n : g[k] = FreePage(g[k - 1], c[k])
               /\ FoldLeft(FreePage, st, c) = g[n]
  BY <1>1, FreeFold
<1> DEFINE Good(k) == /\ g[k] \in Store
                      /\ Split(g[k], inUse(k))
                      /\ g[k].nextId = st.nextId
           T == {k \in Nat : k <= n => Good(k)}
<1>4. 0 \in T
  <2>1. inUse(0) = Elems(c) \cup A
    OBVIOUS
  <2> HIDE DEF inUse
  <2> QED
    BY <1>3, <2>1
<1>5. ASSUME NEW k \in Nat, k \in T PROVE k + 1 \in T
  <2> SUFFICES ASSUME k + 1 <= n PROVE Good(k + 1)
    OBVIOUS
  <2>1. k + 1 \in 1..n /\ (k + 1) - 1 = k /\ k <= n
    BY <1>1
  <2>2. Good(k) /\ g[k + 1] = FreePage(g[k], c[k + 1])
    BY <1>3, <1>5, <2>1
  <2>3. c[k + 1] \in inUse(k)
    <3>1. \A i \in 1..k : c[i] # c[k + 1]
      <4>1. \A i \in 1..k : i \in 1..n /\ i # k + 1
        BY <2>1, <1>1
      <4> QED
        BY <2>1, <4>1 DEF Linked
    <3> QED
      BY <1>1, <2>1, <3>1
  <2>4. inUse(k) \ {c[k + 1]} = inUse(k + 1)
    <3>1. 1..(k + 1) = (1..k) \cup {k + 1}
      OBVIOUS
    <3>2. done(k + 1) = done(k) \cup {c[k + 1]}
      BY <3>1
    <3>3. c[k + 1] \notin A
      BY <1>1, <2>1
    <3> HIDE DEF done
    <3> QED
      BY <3>2, <3>3
  <2> HIDE DEF inUse
  <2>5. /\ FreePage(g[k], c[k + 1]) \in Store
        /\ Split(FreePage(g[k], c[k + 1]), inUse(k) \ {c[k + 1]})
        /\ FreePage(g[k], c[k + 1]).nextId = g[k].nextId
    <3>1. g[k] \in Store /\ Split(g[k], inUse(k))
      BY <2>2
    <3> DEFINE A1 == inUse(k)
               x == g[k]
               p == c[k + 1]
               y == FreePage(x, p)
    <3>2. x \in Store /\ Split(x, A1) /\ p \in A1 /\ y = FreePage(x, p)
      BY <2>3, <3>1
    <3> HIDE DEF Good, T, A1, x, p, y
    <3>3. y \in Store /\ Split(y, A1 \ {p}) /\ y.nextId = x.nextId
      BY <3>2, PageFreed
    <3> QED
      BY <3>3 DEF A1, x, p, y
  <2> QED
    BY <2>2, <2>4, <2>5
<1>6. Good(n)
  <2> HIDE DEF Good
  <2>1. Nat \subseteq T
    <3> HIDE DEF T
    <3> QED
      BY <1>4, <1>5, Induction
  <2> QED
    BY <1>1, <2>1
<1>7. inUse(n) = A
  <2>1. done(n) = Elems(c)
    BY <1>1 DEF Elems
  <2> HIDE DEF done
  <2> QED
    BY <2>1
<1> HIDE DEF inUse
<1>8. after = [g[n] EXCEPT !.file[ChainHead].link = 0]
  BY <1>2, <1>3 DEF Reclaim
<1>9. /\ after \in Store /\ after.nextId = st.nextId
      /\ after.file[ChainHead].link = 0 /\ after.head = g[n].head
      /\ \A p \in 1..MaxPages : p # 1 => after.file[p] = g[n].file[p]
  <2> DEFINE image == [g[n].file[1] EXCEPT !.link = 0]
  <2>1. MaxPages \in Nat \ {0} /\ 1 \in 1..MaxPages /\ 0 \in 0..MaxPages
    BY PagerPagesAssumption
  <2>2. g[n].file[1] \in Image
    BY <1>6, <2>1 DEF Store
  <2>3. image \in Image /\ image.link = 0
    BY <2>1, <2>2 DEF Image
  <2>4. after = [file   |-> [g[n].file EXCEPT ![1] = image],
                 head   |-> g[n].head,
                 nextId |-> g[n].nextId]
    BY <1>6, <1>8 DEF Store, ChainHead
  <2> HIDE DEF image
  <2> QED
    BY <1>6, <2>1, <2>3, <2>4 DEF Store, ChainHead
<1>10. Split(after, A)
  <2>1. \A p \in PageIds : after.file[p].link = g[n].file[p].link
    BY <1>9, IdsFinite
  <2>2. Split(g[n], A) /\ after.nextId = g[n].nextId
    BY <1>6, <1>7, <1>9
  <2> QED
    BY <1>9, <2>1, <2>2, SplitKept
<1> QED
  BY <1>9, <1>10
-----------------------------------------------------------------------------
(* Packing. *)

Columns == DOMAIN ColumnLen

Chunks == [segs : Seq(Seq(Parts)), chunk : Seq(Columns)]

Packs == [segs : Seq(Seq(Parts)), cur : Seq(Parts)]

LEMMA SegmentAppended ==
  ASSUME NEW S, NEW s \in Seq(S), NEW x \in S
  PROVE  Append(s, x) \in Seq(S) /\ Append(s, x) # << >>
<1>1. Append(s, x) \in Seq(S) /\ Len(Append(s, x)) = Len(s) + 1 /\ Len(s) \in Nat
  BY AppendProperties
<1> QED
  BY <1>1

LEMMA PieceOf ==
  ASSUME NEW e \in Entries, NEW cs \in Seq(Columns), NEW first \in BOOLEAN
  PROVE  WithColumns(e, cs, first) \in Seq(Parts)
<1>1. WithColumns(e, cs, first)[1] \in Parts
  BY DEF Parts, Columns
<1>2. WithColumns(e, cs, first) = <<WithColumns(e, cs, first)[1]>>
  BY DEF WithColumns
<1> DEFINE x == WithColumns(e, cs, first)[1]
<1>3. <<x>> \in Seq(Parts)
  <2> HIDE DEF x
  <2> QED
    BY <1>1 DEF x
<1> QED
  BY <1>2, <1>3

LEMMA ColumnStep ==
  ASSUME NEW acc \in Chunks, NEW e \in Entries, NEW c \in Columns
  PROVE  /\ SplitColumn(acc, e, c) \in Chunks
         /\ SplitColumn(acc, e, c).chunk # << >>
<1>1. /\ acc.segs \in Seq(Seq(Parts)) /\ acc.chunk \in Seq(Columns)
      /\ acc = [segs |-> acc.segs, chunk |-> acc.chunk]
  BY DEF Chunks
<1>2. Append(acc.chunk, c) \in Seq(Columns) /\ Append(acc.chunk, c) # << >>
  BY <1>1, SegmentAppended
<1>3. <<c>> \in Seq(Columns) /\ <<c>> # << >>
  OBVIOUS
<1> DEFINE more   == Append(acc.chunk, c)
           piece  == WithColumns(e, acc.chunk, acc.segs = << >>)
           longer == Append(acc.segs, piece)
<1>4. longer \in Seq(Seq(Parts))
  <2>1. piece \in Seq(Parts)
    BY <1>1, PieceOf
  <2> HIDE DEF piece
  <2> QED
    BY <1>1, <2>1, SegmentAppended
<1>5. \/ SplitColumn(acc, e, c) = [segs |-> acc.segs, chunk |-> more]
      \/ SplitColumn(acc, e, c) = [segs |-> acc.segs, chunk |-> <<c>>]
      \/ SplitColumn(acc, e, c) = [segs |-> longer, chunk |-> <<c>>]
  BY <1>1 DEF SplitColumn
<1>6. more \in Seq(Columns) /\ more # << >>
  BY <1>2
<1> HIDE DEF more, longer
<1> DEFINE one == <<c>>
<1>7. one \in Seq(Columns) /\ one # << >>
  BY <1>3
<1>8. \/ SplitColumn(acc, e, c) = [segs |-> acc.segs, chunk |-> more]
      \/ SplitColumn(acc, e, c) = [segs |-> acc.segs, chunk |-> one]
      \/ SplitColumn(acc, e, c) = [segs |-> longer, chunk |-> one]
  BY <1>5
<1> HIDE DEF one
<1> QED
  BY <1>1, <1>4, <1>6, <1>7, <1>8 DEF Chunks

LEMMA TableSplit ==
  ASSUME NEW e \in Entries
  PROVE  /\ SplitSingleTable(e) \in Seq(Seq(Parts))
         /\ e.cols # << >> => SplitSingleTable(e) # << >>
<1> DEFINE b == [segs |-> << >>, chunk |-> << >>]
           n == Len(e.cols)
<1>1. e.cols \in Seq(Columns) /\ n \in Nat /\ \A k \in 1..n : e.cols[k] \in Columns
  BY CatalogChainAssumption DEF Columns
<1>2. b \in Chunks
  BY DEF Chunks
<1> HIDE DEF b
<1> DEFINE s == e.cols
<1> HIDE DEF s
<1>3. PICK g : /\ g[0] = b
               /\ \A k \in 1..n : g[k] = SplitColumn(g[k - 1], e, e.cols[k])
               /\ SplitSingleTable(e) = LastChunk(e, g[n])
  <2>1. s \in Seq(Columns) /\ s = e.cols /\ n = Len(s)
    BY <1>1 DEF s
  <2>2. b = [segs |-> << >>, chunk |-> << >>]
    BY DEF b
  <2> HIDE DEF n
  <2>3. \E g : /\ g[0] = b
               /\ \A k \in 1..Len(s) : g[k] = SplitColumn(g[k - 1], e, s[k])
               /\ SplitSingleTable(e) = LastChunk(e, g[Len(s)])
    BY <2>1, <2>2, ColumnFold
  <2> QED
    BY <2>1, <2>3
<1>4. \A k \in 1..n : g[k - 1] \in Chunks => g[k] \in Chunks
  BY <1>1, <1>3, ColumnStep
<1>5. \A k \in 0..n : g[k] \in Chunks
  BY <1>1, <1>2, <1>3, <1>4, AlongChain
<1> DEFINE acc   == g[n]
           piece == WithColumns(e, acc.chunk, acc.segs = << >>)
<1>6. acc \in Chunks /\ acc.segs \in Seq(Seq(Parts)) /\ acc.chunk \in Seq(Columns)
  <2>1. n \in 0..n
    BY <1>1
  <2> QED
    BY <1>5, <2>1 DEF Chunks
<1>7. SplitSingleTable(e) = IF acc.chunk = << >> THEN acc.segs ELSE Append(acc.segs, piece)
  BY <1>3 DEF LastChunk
<1>8. Append(acc.segs, piece) \in Seq(Seq(Parts)) /\ Append(acc.segs, piece) # << >>
  <2>1. piece \in Seq(Parts)
    BY <1>6, PieceOf
  <2> HIDE DEF piece, acc
  <2> QED
    BY <1>6, <2>1, SegmentAppended
<1>9. e.cols # << >> => acc.chunk # << >>
  <2> SUFFICES ASSUME e.cols # << >> PROVE acc.chunk # << >>
    OBVIOUS
  <2>1. n \in 1..n /\ n - 1 \in 0..n
    BY <1>1
  <2>2. g[n] = SplitColumn(g[n - 1], e, e.cols[n]) /\ g[n - 1] \in Chunks
    BY <1>3, <1>5, <2>1
  <2> QED
    BY <1>1, <2>1, <2>2, ColumnStep
<1> HIDE DEF acc, piece
<1> QED
  BY <1>6, <1>7, <1>8, <1>9

LEMMA Flushed ==
  ASSUME NEW acc \in Packs
  PROVE  /\ Flush(acc) \in Packs
         /\ acc.segs # << >> \/ acc.cur # << >> => Flush(acc).segs # << >>
<1>1. /\ acc.segs \in Seq(Seq(Parts)) /\ acc.cur \in Seq(Parts)
  BY DEF Packs
<1> DEFINE longer == Append(acc.segs, acc.cur)
<1>2. longer \in Seq(Seq(Parts)) /\ longer # << >>
  BY <1>1, SegmentAppended
<1>3. << >> \in Seq(Parts)
  OBVIOUS
<1>4. Flush(acc) = IF acc.cur = << >> THEN acc ELSE [segs |-> longer, cur |-> << >>]
  BY DEF Flush
<1> HIDE DEF longer
<1> QED
  BY <1>2, <1>3, <1>4 DEF Packs

LEMMA PackStep ==
  ASSUME NEW acc \in Packs, NEW e \in Entries
  PROVE  /\ PackTable(acc, e) \in Packs
         /\ e.cols # << >> \/ ~(SegmentSize(<<e>>) > BodySize) =>
              PackTable(acc, e).segs # << >> \/ PackTable(acc, e).cur # << >>
<1> DEFINE f == Flush(acc)
           split == SplitSingleTable(e)
           more == Append(acc.cur, e)
<1>1. /\ acc.segs \in Seq(Seq(Parts)) /\ acc.cur \in Seq(Parts)
      /\ acc = [segs |-> acc.segs, cur |-> acc.cur]
  BY DEF Packs
<1>2. f \in Packs /\ f.segs \in Seq(Seq(Parts)) /\ f.cur \in Seq(Parts)
      /\ f = [segs |-> f.segs, cur |-> f.cur]
  <2>1. f \in Packs
    BY Flushed
  <2> HIDE DEF f
  <2> QED
    BY <2>1 DEF Packs
<1>3. split \in Seq(Seq(Parts)) /\ (e.cols # << >> => split # << >>)
  BY TableSplit
<1>4. e \in Parts /\ more \in Seq(Parts) /\ more # << >>
  <2>1. e \in Parts
    BY DEF Parts
  <2> QED
    BY <1>1, <2>1, SegmentAppended
<1>5. <<e>> \in Seq(Parts) /\ <<e>> # << >>
  BY <1>4
<1> HIDE DEF f, split, more
<1>6. f.segs \o split \in Seq(Seq(Parts)) /\ (split # << >> => f.segs \o split # << >>)
  BY <1>2, <1>3, ConcatProperties, ConcatEqualIffEmpty
<1> DEFINE all == f.segs \o split
<1>7. PackTable(acc, e) =
        IF SegmentSize(<<e>>) > BodySize THEN [f EXCEPT !.segs = all]
        ELSE IF SegmentSize(more) <= Threshold THEN [acc EXCEPT !.cur = more]
        ELSE [f EXCEPT !.cur = <<e>>]
  BY <1>1, <1>2 DEF PackTable, f, split, more
<1> HIDE DEF all
<1>8. all \in Seq(Seq(Parts)) /\ (split # << >> => all # << >>)
  BY <1>6 DEF all
<1>9. CASE SegmentSize(<<e>>) > BodySize
  <2>1. PackTable(acc, e) = [segs |-> all, cur |-> f.cur]
    BY <1>2, <1>7, <1>9
  <2> QED
    BY <1>2, <1>3, <1>8, <1>9, <2>1 DEF Packs
<1>10. CASE ~(SegmentSize(<<e>>) > BodySize) /\ SegmentSize(more) <= Threshold
  <2>1. PackTable(acc, e) = [segs |-> acc.segs, cur |-> more]
    BY <1>1, <1>7, <1>10
  <2> QED
    BY <1>1, <1>4, <2>1 DEF Packs
<1>11. CASE ~(SegmentSize(<<e>>) > BodySize) /\ ~(SegmentSize(more) <= Threshold)
  <2>1. PackTable(acc, e) = [segs |-> f.segs, cur |-> <<e>>]
    BY <1>2, <1>7, <1>11
  <2> QED
    BY <1>2, <1>5, <2>1 DEF Packs
<1> QED
  BY <1>9, <1>10, <1>11

\* A catalogue that can be packed has at least one segment.
LEMMA SegmentsPacked ==
  ASSUME NEW c \in Catalogs, ~PackRaises(c)
  PROVE  Segments[c] \in Seq(Seq(Parts)) /\ Segments[c] # << >>
<1> DEFINE b == [segs |-> << >>, cur |-> << >>]
           n == Len(c)
<1>1. /\ c \in Seq(Entries) /\ n \in Nat /\ DOMAIN c = 1..n
      /\ \A k \in 1..n : c[k] \in Entries
  BY CatalogChainAssumption
<1>2. b \in Packs
  BY DEF Packs
<1> HIDE DEF b
<1>3. PICK g : /\ g[0] = b
               /\ \A k \in 1..n : g[k] = PackTable(g[k - 1], c[k])
               /\ FoldLeft(PackTable, b, c) = g[n]
  BY <1>1, PackFold
<1>4. \A k \in 1..n : g[k - 1] \in Packs => g[k] \in Packs
  BY <1>1, <1>3, PackStep
<1>5. \A k \in 0..n : g[k] \in Packs
  BY <1>1, <1>2, <1>3, <1>4, AlongChain
<1>6. Segments[c] = IF c = << >> \/ SegmentSize(c) <= Threshold THEN <<c>>
                    ELSE Flush(g[n]).segs
  BY <1>3 DEF Segments, SerializeSegments, b
<1>7. <<c>> \in Seq(Seq(Parts)) /\ <<c>> # << >>
  <2>1. c \in Seq(Parts)
    BY <1>1 DEF Parts
  <2> QED
    BY <2>1
<1>8. c # << >> => Flush(g[n]).segs \in Seq(Seq(Parts)) /\ Flush(g[n]).segs # << >>
  <2> SUFFICES ASSUME c # << >>
               PROVE  Flush(g[n]).segs \in Seq(Seq(Parts)) /\ Flush(g[n]).segs # << >>
    OBVIOUS
  <2>1. n \in 1..n /\ n - 1 \in 0..n /\ n \in 0..n
    BY <1>1
  <2>2. /\ g[n] = PackTable(g[n - 1], c[n])
        /\ g[n - 1] \in Packs /\ g[n] \in Packs /\ c[n] \in Entries
    BY <1>1, <1>3, <1>5, <2>1
  <2>3. c[n].cols # << >> \/ ~(SegmentSize(<<c[n]>>) > BodySize)
    BY <1>1, <2>1 DEF PackRaises
  <2>4. g[n].segs # << >> \/ g[n].cur # << >>
    BY <2>2, <2>3, PackStep
  <2> QED
    BY <2>2, <2>4, Flushed DEF Packs
<1> QED
  BY <1>6, <1>7, <1>8
-----------------------------------------------------------------------------
(* Writing the chain. *)

\* The chain from page 1 has the pages of c, others have those of A, and the
\* free list has the rest.
Chained(st, A, c) ==
  /\ st \in Store
  /\ Linked(st.file[ChainHead].link, st.file, c)
  /\ Elems(c) \cap A = {}
  /\ Split(st, Elems(c) \cup A)

\* A chain that is being written, with its last page in prev.
Growing(acc, A) ==
  \E c : Chained(acc.st, A, c) /\ acc.prev = LastPage(c)

LEMMA NothingChained ==
  ASSUME NEW st \in Store, NEW A, Split(st, A), st.file[ChainHead].link = 0
  PROVE  Chained(st, A, << >>)
<1> DEFINE none == << >>
<1>1. none \in Seq(PageIds) /\ Len(none) = 0 /\ Elems(none) = {}
  BY DEF Elems
<1>2. Linked(0, st.file, none)
  BY <1>1 DEF Linked
<1>3. Elems(none) \cup A = A
  BY <1>1
<1> QED
  BY <1>1, <1>2, <1>3 DEF Chained

LEMMA SegmentAdded ==
  ASSUME NEW acc, NEW A, Growing(acc, A), NEW n \in Nat, RoomFor(acc.st, n + 1),
         NEW seg \in Seq(Parts), NEW to, to = AddSegment(acc, seg)
  PROVE  Growing(to, A) /\ RoomFor(to.st, n)
<1> DEFINE st    == acc.st
           prev  == acc.prev
           p     == Fresh(st)
           got   == AllocPage(st)
           image == [Zeroed EXCEPT !.body = seg]
           tail  == [got.file[prev] EXCEPT !.link = p]
<1>1. PICK c : /\ st \in Store
               /\ Linked(st.file[1].link, st.file, c)
               /\ Elems(c) \cap A = {}
               /\ Split(st, Elems(c) \cup A)
               /\ prev = LastPage(c)
  BY DEF Growing, Chained, ChainHead
<1>2. to = [prev |-> p,
            st   |-> [got EXCEPT !.file[p] = image, !.file[prev].link = p]]
  BY DEF AddSegment
<1>3. image \in Image /\ image.link = 0
  BY ZeroedImage DEF Image, Zeroed
<1> HIDE DEF st, prev, p, got, image
<1>4. /\ p \in PageIds \ (Elems(c) \cup A)
      /\ got \in Store
      /\ Split(got, Elems(c) \cup A \cup {p})
      /\ RoomFor(got, n)
      /\ \A q \in 1..MaxPages : q # p => got.file[q] = st.file[q]
  <2>1. p = Fresh(st) /\ got = AllocPage(st) /\ RoomFor(st, n + 1)
    BY DEF p, got, st
  <2> DEFINE B == Elems(c) \cup A
  <2>2. st \in Store /\ Split(st, B)
    BY <1>1
  <2> HIDE DEF B
  <2>3. /\ p \in PageIds \ B
        /\ got \in Store
        /\ Split(got, B \cup {p})
        /\ RoomFor(got, n)
        /\ \A q \in 1..MaxPages : q # p => got.file[q] = st.file[q]
    <3>1. st \in Store /\ Split(st, B) /\ n \in Nat /\ RoomFor(st, n + 1)
          /\ p = Fresh(st) /\ got = AllocPage(st)
      BY <2>1, <2>2
    <3>2. p \in PageIds \ B
      BY <3>1, PageAllocated
    <3>3. got \in Store
      BY <3>1, PageAllocated
    <3>4. Split(got, B \cup {p})
      BY <3>1, PageAllocated
    <3>5. RoomFor(got, n)
      BY <3>1, PageAllocated
    <3>6. ASSUME NEW q \in 1..MaxPages, q # p PROVE got.file[q] = st.file[q]
      BY <3>1, <3>4, <3>5, <3>6, PageAllocated
    <3> QED
      BY <3>2, <3>3, <3>4, <3>5, <3>6
  <2> QED
    BY <2>3 DEF B
<1>5. /\ c \in Seq(PageIds) /\ Elems(c) \subseteq PageIds /\ 1 \notin PageIds
      /\ PageIds \subseteq 1..MaxPages /\ 1 \in 1..MaxPages
      /\ prev \in Elems(c) \cup {1} /\ prev \in 1..MaxPages /\ prev # p
      /\ p \in 1..MaxPages /\ p \in 0..MaxPages
  <2>1. c \in Seq(PageIds)
    BY <1>1 DEF Linked
  <2>2. c # << >> => Len(c) \in 1..Len(c)
    BY <2>1, SeqFacts
  <2>3. prev \in Elems(c) \cup {1}
    BY <1>1, <2>1, <2>2, SeqFacts DEF LastPage
  <2>4. MaxPages \in Nat \ {0}
    BY PagerPagesAssumption
  <2>5. 1 \in 1..MaxPages /\ PageIds \subseteq 1..MaxPages /\ 1 \notin PageIds
    BY <2>4, IdsFinite
  <2>6. Elems(c) \subseteq PageIds
    BY <2>1, SeqFacts
  <2>7. p \in 1..MaxPages /\ p \in 0..MaxPages
    BY <1>4, <2>4, <2>5
  <2> QED
    BY <1>4, <2>1, <2>3, <2>5, <2>6, <2>7
<1>6. tail \in Image /\ tail.link = p
  <2>1. got.file[prev] \in Image
    BY <1>4, <1>5 DEF Store
  <2> QED
    BY <1>5, <2>1 DEF Image
<1>7. /\ to.prev = p
      /\ to.st = [file   |-> [got.file EXCEPT ![p] = image, ![prev] = tail],
                  head   |-> got.head,
                  nextId |-> got.nextId]
  <2> DEFINE mid  == [got.file EXCEPT ![p] = image]
             file2 == [got.file EXCEPT ![p] = image, ![prev] = tail]
  <2>1. /\ got = [file |-> got.file, head |-> got.head, nextId |-> got.nextId]
        /\ got.file = [q \in 1..MaxPages |-> got.file[q]]
    BY <1>4 DEF Store
  <2>2. mid[prev] = got.file[prev] /\ mid = [q \in 1..MaxPages |-> mid[q]]
    BY <1>5, <2>1
  <2>3. [got EXCEPT !.file[p] = image] =
          [file |-> mid, head |-> got.head, nextId |-> got.nextId]
    BY <1>4 DEF Store
  <2>4. [got EXCEPT !.file[p] = image, !.file[prev].link = p] =
          [file |-> [mid EXCEPT ![prev].link = p], head |-> got.head, nextId |-> got.nextId]
    <3> DEFINE one == [got EXCEPT !.file[p] = image]
    <3>1. one \in Store /\ one.file = mid /\ one.head = got.head /\ one.nextId = got.nextId
      BY <1>3, <1>4, <1>5, <2>3 DEF Store
    <3>2. [got EXCEPT !.file[p] = image, !.file[prev].link = p] =
            [one EXCEPT !.file[prev].link = p]
      OBVIOUS
    <3> HIDE DEF one, mid
    <3> QED
      BY <3>1, <3>2, SMTT(30) DEF Store
  <2>5. [mid EXCEPT ![prev].link = p] = file2
    BY <2>2
  <2> QED
    BY <1>2, <2>4, <2>5
<1> DEFINE next == to.st
<1> HIDE DEF tail
<1>8. /\ next \in Store
      /\ next.head = got.head /\ next.nextId = got.nextId
      /\ next.file[p] = image /\ next.file[prev] = tail
      /\ \A q \in 1..MaxPages : q # p /\ q # prev => next.file[q] = st.file[q]
  <2> DEFINE files == [got.file EXCEPT ![p] = image, ![prev] = tail]
  <2>1. got.file \in [1..MaxPages -> Image] /\ got.head \in 0..MaxPages
        /\ got.nextId \in 2..(MaxPages + 1)
    BY <1>4 DEF Store
  <2>2. /\ files \in [1..MaxPages -> Image]
        /\ files[p] = image /\ files[prev] = tail
        /\ \A q \in 1..MaxPages : q # p /\ q # prev => files[q] = got.file[q]
    BY <1>3, <1>5, <1>6, <2>1
  <2> HIDE DEF files
  <2>3. next.file = files /\ next.head = got.head /\ next.nextId = got.nextId
        /\ next = [file |-> files, head |-> got.head, nextId |-> got.nextId]
    BY <1>7 DEF files
  <2> QED
    BY <1>4, <2>1, <2>2, <2>3 DEF Store
<1> HIDE DEF next
<1>9. /\ Linked(next.file[1].link, next.file, Append(c, p))
      /\ Elems(Append(c, p)) = Elems(c) \cup {p}
  <2> DEFINE f == st.file
             g == next.file
  <2>1. ASSUME NEW q \in (Elems(c) \cup {1}) \ {prev} PROVE g[q].link = f[q].link
    <3>1. q # p /\ q # prev /\ q \in 1..MaxPages
      BY <1>4, <1>5
    <3> QED
      BY <1>8, <3>1
  <2>2. g[p].link = 0 /\ g[prev].link = p
    BY <1>3, <1>6, <1>8
  <2>3. /\ Linked(f[1].link, f, c) /\ p \in PageIds /\ p \notin Elems(c)
        /\ prev = LastPage(c)
    BY <1>1, <1>4
  <2> HIDE DEF f, g
  <2>4. Relinked(f, g, c, p)
    BY <2>1, <2>2, <2>3 DEF Relinked
  <2>5. Linked(g[1].link, g, Append(c, p))
    BY <2>3, <2>4, LinkedAppend
  <2>6. Elems(Append(c, p)) = Elems(c) \cup {p}
    BY <2>3, <2>4, <2>5, LinkedAppend
  <2> QED
    BY <2>5, <2>6 DEF g
<1>10. /\ Split(next, Elems(c) \cup A \cup {p})
       /\ RoomFor(next, n)
  <2> DEFINE B == Elems(c) \cup A \cup {p}
  <2>1. \A q \in PageIds \ B : next.file[q].link = got.file[q].link
    <3>1. ASSUME NEW q \in PageIds \ B PROVE next.file[q].link = got.file[q].link
      <4>1. q # p /\ q # prev /\ q \in 1..MaxPages
        BY <1>5
      <4> QED
        BY <1>4, <1>8, <4>1
    <3> QED
      BY <3>1
  <2>2. Split(got, B)
    BY <1>4
  <2> HIDE DEF B
  <2>3. Split(next, B) /\ \A m : RoomFor(next, m) <=> RoomFor(got, m)
    BY <1>8, <2>1, <2>2, SplitKept
  <2> QED
    BY <1>4, <2>3 DEF B
<1> DEFINE d == Append(c, p)
<1>11. d # << >> /\ d[Len(d)] = p
  BY <1>4, <1>5, AppendProperties
<1>12. Chained(next, A, d)
  <2>1. Elems(d) = Elems(c) \cup {p} /\ Linked(next.file[1].link, next.file, d)
    BY <1>9
  <2>2. Elems(c) \cup A \cup {p} = Elems(d) \cup A
    BY <2>1
  <2>3. Split(next, Elems(d) \cup A)
    BY <1>10, <2>2
  <2> HIDE DEF d
  <2> QED
    BY <1>1, <1>4, <1>8, <2>1, <2>3 DEF Chained, ChainHead
<1> HIDE DEF d
<1>13. Chained(to.st, A, d) /\ to.prev = LastPage(d)
  BY <1>7, <1>11, <1>12 DEF next, LastPage
<1> QED
  BY <1>10, <1>13 DEF Growing, next

LEMMA ChainWritten ==
  ASSUME NEW st \in Store, NEW A, Split(st, A), st.file[ChainHead].link = 0,
         NEW segs \in Seq(Seq(Parts)), segs # << >>, RoomFor(st, Len(segs) - 1),
         NEW after, after = WriteSegments(st, segs)
  PROVE  \E c : Chained(after, A, c)
<1> DEFINE rest  == Tail(segs)
           n     == Len(rest)
           image == [Zeroed EXCEPT !.body = Head(segs)]
           first == [st EXCEPT !.file[ChainHead] = image]
           b     == [prev |-> ChainHead, st |-> first]
<1>1. /\ rest \in Seq(Seq(Parts)) /\ Head(segs) \in Seq(Parts)
      /\ n \in Nat /\ n = Len(segs) - 1 /\ \A k \in 1..n : rest[k] \in Seq(Parts)
  <2>1. rest \in Seq(Seq(Parts)) /\ Head(segs) \in Seq(Parts) /\ n = Len(segs) - 1
    OBVIOUS
  <2> HIDE DEF rest
  <2> QED
    BY <2>1
<1>2. after = FoldLeft(AddSegment, b, rest).st
  BY DEF WriteSegments
<1>3. MaxPages \in Nat \ {0} /\ 1 \in 1..MaxPages /\ 1 \notin PageIds
  BY PagerPagesAssumption, IdsFinite
<1>4. image \in Image /\ image.link = 0
  BY <1>1, ZeroedImage DEF Image, Zeroed
<1> HIDE DEF rest, n, image
<1>5. /\ first \in Store /\ first.head = st.head /\ first.nextId = st.nextId
      /\ first.file[1] = image
      /\ \A p \in 1..MaxPages : p # 1 => first.file[p] = st.file[p]
  BY <1>3, <1>4 DEF Store, ChainHead
<1> HIDE DEF first
<1>6. Split(first, A) /\ RoomFor(first, n)
  <2>1. \A p \in PageIds \ A : first.file[p].link = st.file[p].link
    BY <1>3, <1>5, IdsFinite
  <2>2. Split(first, A) /\ \A m : RoomFor(first, m) <=> RoomFor(st, m)
    BY <1>5, <2>1, SplitKept
  <2> QED
    BY <1>1, <2>2
<1>7. Growing(b, A)
  <2>1. first.file[ChainHead].link = 0
    BY <1>4, <1>5 DEF ChainHead
  <2>2. Chained(first, A, << >>)
    BY <1>5, <1>6, <2>1, NothingChained
  <2> QED
    BY <2>2 DEF Growing, ChainHead, LastPage
<1> HIDE DEF b
<1>8. PICK g : /\ g[0] = b
               /\ \A k \in 1..n : g[k] = AddSegment(g[k - 1], rest[k])
               /\ FoldLeft(AddSegment, b, rest) = g[n]
  BY <1>1, SegmentFold, ZenonT(60) DEF n
<1> DEFINE Good(k) == Growing(g[k], A) /\ RoomFor(g[k].st, n - k)
           T == {k \in Nat : k <= n => Good(k)}
<1>9. 0 \in T
  <2>1. b.st = first /\ n - 0 = n
    BY <1>1 DEF b
  <2> QED
    BY <1>6, <1>7, <1>8, <2>1
<1>10. ASSUME NEW k \in Nat, k \in T PROVE k + 1 \in T
  <2> SUFFICES ASSUME k + 1 <= n PROVE Good(k + 1)
    OBVIOUS
  <2> DEFINE m   == n - (k + 1)
             acc == g[k]
             to  == g[k + 1]
             seg == rest[k + 1]
  <2>1. /\ k + 1 \in 1..n /\ (k + 1) - 1 = k /\ k <= n
        /\ m \in Nat /\ n - k = m + 1
    BY <1>1
  <2>2. Growing(acc, A) /\ RoomFor(acc.st, m + 1)
    BY <1>10, <2>1
  <2>3. to = AddSegment(acc, seg) /\ seg \in Seq(Parts)
    BY <1>1, <1>8, <2>1
  <2> HIDE DEF m, acc, to, seg, Good, T
  <2>4. Growing(to, A) /\ RoomFor(to.st, m)
    BY <2>1, <2>2, <2>3, SegmentAdded
  <2> QED
    BY <2>4 DEF Good, to, m
<1>11. Good(n)
  <2> HIDE DEF Good
  <2>1. Nat \subseteq T
    <3> HIDE DEF T
    <3> QED
      BY <1>9, <1>10, Induction
  <2> QED
    BY <1>1, <2>1
<1>12. after = g[n].st
  BY <1>2, <1>8
<1> QED
  BY <1>11, <1>12 DEF Growing
-----------------------------------------------------------------------------
(* The specification. *)

CatalogInv == use = "catalogue" => \E c : Chained(Pager, taken, c)

LEMMA Became ==
  ASSUME NEW st \in Store, Become(st)
  PROVE  Pager' = st
  BY DEF Store, Become, Pager

LEMMA ChainRewritten ==
  ASSUME NEW old, Chained(Pager, taken, old), NEW c \in Catalogs, WriteCatalogChain(c)
  PROVE  \E new : Chained(Pager', taken', new)
<1> DEFINE before == Pager
           others == taken
           free   == Reclaim(before)
           segs   == Segments[c]
           after  == WriteSegments(free, segs)
<1>1. /\ before \in Store
      /\ Linked(before.file[ChainHead].link, before.file, old)
      /\ Elems(old) \cap others = {}
      /\ Split(before, Elems(old) \cup others)
  BY DEF Chained
<1>2. /\ ~PackRaises(c) /\ RoomFor(free, Len(segs) - 1)
      /\ Become(after) /\ taken' = others
  BY DEF WriteCatalogChain
<1>3. segs \in Seq(Seq(Parts)) /\ segs # << >>
  BY <1>2, SegmentsPacked
<1>4. free = Reclaim(before) /\ after = WriteSegments(free, segs)
  OBVIOUS
<1> HIDE DEF before, others, free, segs, after
<1>5. free \in Store /\ Split(free, others) /\ free.file[ChainHead].link = 0
  BY <1>1, <1>4, ChainGivenBack
<1>6. PICK new : Chained(after, others, new)
  BY <1>2, <1>3, <1>4, <1>5, ChainWritten
<1>7. Pager' = after
  <2>1. after \in Store
    BY <1>6 DEF Chained
  <2> QED
    BY <1>2, <2>1, Became
<1> QED
  BY <1>2, <1>6, <1>7

LEMMA ChainRaised ==
  ASSUME NEW old, Chained(Pager, taken, old), NEW c \in Catalogs, WriteRaises(c)
  PROVE  \E new : Chained(Pager', taken', new)
<1> DEFINE before == Pager
           others == taken
           free   == Reclaim(before)
<1>1. /\ before \in Store
      /\ Linked(before.file[ChainHead].link, before.file, old)
      /\ Elems(old) \cap others = {}
      /\ Split(before, Elems(old) \cup others)
  BY DEF Chained
<1>2. Become(free) /\ taken' = others
  BY DEF WriteRaises
<1>3. free = Reclaim(before)
  OBVIOUS
<1> HIDE DEF before, others, free
<1>4. free \in Store /\ Split(free, others) /\ free.file[ChainHead].link = 0
  BY <1>1, <1>3, ChainGivenBack
<1>5. Pager' = free
  BY <1>2, <1>4, Became
<1>6. Chained(free, others, << >>)
  BY <1>4, NothingChained
<1> QED
  BY <1>2, <1>5, <1>6

LEMMA PageTaken ==
  ASSUME NEW c, Chained(Pager, taken, c), TakePage
  PROVE  Chained(Pager', taken', c)
<1> DEFINE st     == Pager
           others == taken
           p      == Fresh(st)
           after  == AllocPage(st)
           A      == Elems(c) \cup others
<1>1. /\ st \in Store
      /\ Linked(st.file[1].link, st.file, c)
      /\ Elems(c) \cap others = {}
      /\ Split(st, A)
  BY DEF Chained, ChainHead
<1>2. /\ RoomFor(st, 0 + 1)
      /\ Become(after) /\ taken' = others \cup {p}
  BY DEF TakePage
<1>3. p = Fresh(st) /\ after = AllocPage(st) /\ 0 \in Nat
  OBVIOUS
<1>4. A = Elems(c) \cup others
  OBVIOUS
<1> HIDE DEF st, others, p, after, A
<1>5. p \in PageIds \ A /\ after \in Store
  BY <1>1, <1>2, <1>3, PageAllocated
<1>6. Split(after, A \cup {p})
  BY <1>1, <1>2, <1>3, PageAllocated
<1>7. ASSUME NEW q \in 1..MaxPages, q # p PROVE after.file[q] = st.file[q]
  BY <1>1, <1>2, <1>3, <1>6, <1>7, PageAllocated
<1>8. Linked(after.file[1].link, after.file, c)
  <2> DEFINE f == st.file
             g == after.file
             start == f[1].link
  <2>1. Elems(c) \subseteq PageIds
    BY <1>1, SeqFacts DEF Linked
  <2>2. \A q \in Elems(c) \cup {1} : q \in 1..MaxPages /\ q # p
    BY <1>4, <1>5, <2>1, IdsFinite, PagerPagesAssumption
  <2>3. \A q \in Elems(c) : g[q].link = f[q].link
    BY <1>7, <2>2
  <2>4. g[1].link = start
    BY <1>7, <2>2
  <2>5. Linked(start, f, c)
    BY <1>1
  <2> HIDE DEF f, g, start
  <2>6. Linked(start, g, c)
    BY <2>3, <2>5, LinkedElsewhere
  <2> QED
    BY <2>4, <2>6 DEF g
<1>9. /\ Elems(c) \cap (others \cup {p}) = {}
      /\ A \cup {p} = Elems(c) \cup (others \cup {p})
  BY <1>1, <1>4, <1>5
<1>10. Chained(after, others \cup {p}, c)
  BY <1>5, <1>6, <1>8, <1>9 DEF Chained, ChainHead
<1>11. Pager' = after
  BY <1>2, <1>5, Became
<1> QED
  BY <1>2, <1>10, <1>11

LEMMA PageReleased ==
  ASSUME NEW c, Chained(Pager, taken, c), NEW p \in PageIds, ReleasePage(p)
  PROVE  Chained(Pager', taken', c)
<1> DEFINE st     == Pager
           others == taken
           after  == FreePage(st, p)
           A      == Elems(c) \cup others
<1>1. /\ st \in Store
      /\ Linked(st.file[1].link, st.file, c)
      /\ Elems(c) \cap others = {}
      /\ Split(st, A)
  BY DEF Chained, ChainHead
<1>2. /\ p \in others
      /\ Become(after) /\ taken' = others \ {p}
  BY DEF ReleasePage
<1>3. after = FreePage(st, p) /\ A = Elems(c) \cup others
  OBVIOUS
<1> HIDE DEF st, others, after, A
<1>4. p \in A /\ p \notin Elems(c)
  BY <1>1, <1>2, <1>3
<1>5. after \in Store /\ Split(after, A \ {p})
  BY <1>1, <1>3, <1>4, PageFreed
<1>6. ASSUME NEW q \in 1..MaxPages, q # p PROVE after.file[q] = st.file[q]
  BY <1>1, <1>3, <1>4, <1>5, <1>6, PageFreed
<1>7. Linked(after.file[1].link, after.file, c)
  <2> DEFINE f == st.file
             g == after.file
             start == f[1].link
  <2>1. Elems(c) \subseteq PageIds
    BY <1>1, SeqFacts DEF Linked
  <2>2. \A q \in Elems(c) \cup {1} : q \in 1..MaxPages /\ q # p
    BY <1>4, <2>1, IdsFinite, PagerPagesAssumption
  <2>3. \A q \in Elems(c) : g[q].link = f[q].link
    BY <1>6, <2>2
  <2>4. g[1].link = start
    BY <1>6, <2>2
  <2>5. Linked(start, f, c)
    BY <1>1
  <2> HIDE DEF f, g, start
  <2>6. Linked(start, g, c)
    BY <2>3, <2>5, LinkedElsewhere
  <2> QED
    BY <2>4, <2>6 DEF g
<1>8. /\ Elems(c) \cap (others \ {p}) = {}
      /\ A \ {p} = Elems(c) \cup (others \ {p})
  BY <1>1, <1>3, <1>4
<1>9. Chained(after, others \ {p}, c)
  BY <1>5, <1>7, <1>8 DEF Chained, ChainHead
<1>10. Pager' = after
  BY <1>2, <1>5, Became
<1> QED
  BY <1>2, <1>9, <1>10

LEMMA CatalogStarts == Init => CatalogInv
<1> SUFFICES ASSUME Init PROVE \E c : Chained(Pager, taken, c)
  BY DEF CatalogInv
<1> DEFINE none == << >>
           st   == Pager
<1>1. MaxPages \in Nat \ {0}
  BY PagerPagesAssumption
<1>2. /\ st = [file |-> [p \in 1..MaxPages |-> Zeroed], head |-> 0, nextId |-> 2]
      /\ taken = {}
  BY DEF Init, CatalogInit, Pager
<1> HIDE DEF st
<1>3. /\ st \in Store /\ st.head = 0 /\ st.nextId = 2
      /\ st.file[ChainHead].link = 0
  BY <1>1, <1>2, ZeroedImage DEF Store, ChainHead, Zeroed
<1>4. Split(st, {})
  <2>1. none \in Seq(PageIds) /\ Len(none) = 0 /\ Elems(none) = {}
    BY DEF Elems
  <2>2. Linked(st.head, st.file, none)
    BY <1>3, <2>1 DEF Linked
  <2>3. 2..(st.nextId - 1) = {}
    BY <1>3
  <2> QED
    BY <2>1, <2>2, <2>3 DEF Split
<1> QED
  BY <1>2, <1>3, <1>4, NothingChained DEF st

LEMMA CatalogKept == CatalogInv /\ [Next]_vars => CatalogInv'
<1> SUFFICES ASSUME CatalogInv, [Next]_vars, use' = "catalogue"
             PROVE  \E c : Chained(Pager', taken', c)
  BY DEF CatalogInv
<1>1. use = "catalogue"
  BY DEF Next, vars
<1>2. PICK c : Chained(Pager, taken, c)
  BY <1>1 DEF CatalogInv
<1>3. CASE UNCHANGED vars
  <2>1. Pager' = Pager /\ taken' = taken
    BY <1>3 DEF vars, pagerVars, catalogVars, Pager
  <2> QED
    BY <1>2, <2>1
<1>4. ASSUME NEW d \in Catalogs, WriteCatalogChain(d)
      PROVE  \E new : Chained(Pager', taken', new)
  BY <1>2, <1>4, ChainRewritten
<1>5. ASSUME NEW d \in Catalogs, WriteRaises(d)
      PROVE  \E new : Chained(Pager', taken', new)
  BY <1>2, <1>5, ChainRaised
<1>6. CASE TakePage
  BY <1>2, <1>6, PageTaken
<1>7. ASSUME NEW p \in PageIds, ReleasePage(p)
      PROVE  Chained(Pager', taken', c)
  BY <1>2, <1>7, PageReleased
<1> QED
  BY <1>1, <1>3, <1>4, <1>5, <1>6, <1>7 DEF Next, CatalogNext

LEMMA ChainedAccounted ==
  ASSUME NEW c, Chained(Pager, taken, c)
  PROVE  PagesAccounted
<1> DEFINE st == Pager
<1>1. /\ st \in Store
      /\ Linked(st.file[ChainHead].link, st.file, c)
      /\ Elems(c) \cap taken = {}
      /\ Split(st, Elems(c) \cup taken)
      /\ file = st.file /\ nextId = st.nextId
  BY DEF Chained, Pager
<1>2. PICK s : /\ Linked(st.head, st.file, s)
               /\ Elems(s) \cap (Elems(c) \cup taken) = {}
               /\ Elems(s) \cup (Elems(c) \cup taken) = 2..(st.nextId - 1)
  BY <1>1 DEF Split
<1> HIDE DEF st
<1>3. CatalogPages(file) = c /\ CatalogWalk(file)[MaxPages] = 0
  BY <1>1, CatalogPagesOf
<1>4. FreeList(st) = Elems(s)
  BY <1>2, FreeListOf
<1>5. {CatalogPages(file)[i] : i \in DOMAIN CatalogPages(file)} = Elems(c)
  BY <1>3 DEF Elems
<1> QED
  BY <1>1, <1>2, <1>3, <1>4, <1>5 DEF PagesAccounted, st

(***************************************************************************)
(* Rewriting the catalogue chain neither loses a page nor uses one twice,  *)
(* whatever the catalogues, their lengths and the number of pages are, and *)
(* also when a write raises half way (write_catalog_chain).                *)
(***************************************************************************)
THEOREM CatalogPagesStay == Spec => []CatalogPagesKept
<1>1. CatalogInv => CatalogPagesKept
  BY ChainedAccounted DEF CatalogInv, CatalogPagesKept
<1> QED
  BY CatalogStarts, CatalogKept, <1>1, PTL DEF Spec
-----------------------------------------------------------------------------
(* Long rows.  The chain of a data page leads to one page at most. *)

TwoChunks == \A r \in Rows : RestChunks(r) \in {0, 1}

Bodies == {<< >>} \cup {Chunk(r, k) : r \in Rows, k \in Nat}

RowImage == [type : 0..2, link : Nat, chain : Nat, page : Page, spill : SUBSET Nat,
             body : Bodies]

RowStore == [file : [1..MaxPages -> RowImage], head : Nat, nextId : 2..(MaxPages + 1),
             cat : [Tables -> [root : Nat, next : Nat]], data : [Tables -> Seq(PageIds)]]

Held(st, t) == Elems(st.data[t])

\* The pages of a table, with those that their chains name.
Own(st, t) == Held(st, t) \cup ({st.file[p].chain : p \in Held(st, t)} \cap PageIds)

\* The free list is s, it has no page of a table, no page is of two tables,
\* and a page that names another is a data page or free.
Sorted(st, s) ==
  /\ st \in RowStore
  /\ Linked(st.head, st.file, s)
  /\ Elems(s) \subseteq 2..(st.nextId - 1)
  /\ \A t \in Tables : Own(st, t) \subseteq (2..(st.nextId - 1)) \ Elems(s)
  /\ \A t, u \in Tables : t # u => Own(st, t) \cap Own(st, u) = {}
  /\ \A p \in PageIds : st.file[p].chain \in PageIds =>
       p \in Elems(s) \/ \E t \in Tables : p \in Held(st, t)
  /\ \A p \in PageIds : p >= st.nextId => st.file[p] = Zeroed

\* The range of a table has all its data pages, and no page that is free or
\* of another table.
Ranged(st, s, t) ==
  IF st.cat[t] = NoTable THEN st.data[t] = << >>
  ELSE /\ {st.cat[t].root, st.cat[t].next} \subseteq Held(st, t)
       /\ Held(st, t) \subseteq st.cat[t].root..st.cat[t].next
       /\ (st.cat[t].root..st.cat[t].next) \cap Elems(s) = {}
       /\ \A u \in Tables \ {t} : (st.cat[t].root..st.cat[t].next) \cap Own(st, u) = {}

-----------------------------------------------------------------------------
LEMMA SeqAppended ==
  ASSUME NEW s \in Seq(PageIds), NEW p \in PageIds
  PROVE  Elems(Append(s, p)) = Elems(s) \cup {p}
<1> DEFINE t == Append(s, p)
<1>1. /\ t \in Seq(PageIds) /\ Len(t) = Len(s) + 1 /\ Len(s) \in Nat
      /\ t[Len(s) + 1] = p /\ \A i \in 1..Len(s) : t[i] = s[i]
  OBVIOUS
<1> HIDE DEF t
<1>2. DOMAIN t = 1..(Len(s) + 1) /\ DOMAIN s = 1..Len(s)
  BY <1>1
<1>3. 1..(Len(s) + 1) = (1..Len(s)) \cup {Len(s) + 1}
  BY <1>1
<1> QED
  BY <1>1, <1>2, <1>3 DEF Elems, t

LEMMA DomainSeq ==
  ASSUME NEW n \in Nat, NEW S, NEW w, DOMAIN w = 1..n, \A i \in 1..n : w[i] \in S,
         w = [i \in 1..n |-> w[i]]
  PROVE  w \in Seq(S) /\ Len(w) = n
<1>1. w \in [1..n -> S]
  OBVIOUS
<1> QED
  BY <1>1

LEMMA SeqNarrowed ==
  ASSUME NEW S, NEW U, NEW v \in Seq(S), \A i \in 1..Len(v) : v[i] \in U
  PROVE  v \in Seq(U)
<1>1. Len(v) \in Nat /\ v \in [1..Len(v) -> U]
  OBVIOUS
<1> QED
  BY <1>1

LEMMA ZeroedRow == Zeroed \in RowImage /\ Zeroed.chain = 0 /\ Zeroed.page = EmptyPage
<1>1. EmptyPage \in Page
  BY DEF EmptyPage, Page
<1>2. << >> \in Bodies
  BY DEF Bodies
<1> QED
  BY <1>1, <1>2 DEF Zeroed, RowImage

LEMMA HeldFacts ==
  ASSUME NEW st \in RowStore, NEW t \in Tables
  PROVE  /\ st.data[t] \in Seq(PageIds)
         /\ Held(st, t) \subseteq PageIds
         /\ Held(st, t) \subseteq Own(st, t)
         /\ Own(st, t) \subseteq PageIds
         /\ st.cat[t].root \in Nat /\ st.cat[t].next \in Nat
         /\ st.cat[t] = [root |-> st.cat[t].root, next |-> st.cat[t].next]
<1>1. st.data[t] \in Seq(PageIds)
  BY DEF RowStore
<1>2. Held(st, t) \subseteq PageIds
  BY <1>1, SeqFacts DEF Held
<1>3. st.cat[t] \in [root : Nat, next : Nat]
  BY DEF RowStore
<1> QED
  BY <1>1, <1>2, <1>3 DEF Own

LEMMA RowPage ==
  ASSUME NEW st \in RowStore, NEW p \in PageIds
  PROVE  /\ p \in 1..MaxPages /\ p \in Nat
         /\ st.file[p] \in RowImage
         /\ st.file[p] = [type |-> st.file[p].type, link |-> st.file[p].link,
                          chain |-> st.file[p].chain, page |-> st.file[p].page,
                          spill |-> st.file[p].spill, body |-> st.file[p].body]
<1>1. p \in 1..MaxPages /\ p \in Nat
  BY IdsFinite
<1>2. st.file[p] \in RowImage
  BY <1>1 DEF RowStore
<1> QED
  BY <1>1, <1>2 DEF RowImage

\* The fields of a page that the lists are made of.
LEMMA Rewritten ==
  ASSUME NEW st, NEW s, Sorted(st, s), NEW after \in RowStore,
         after.head = st.head, after.nextId = st.nextId, after.data = st.data,
         \A p \in PageIds : after.file[p].chain = st.file[p].chain,
         \A p \in Elems(s) : after.file[p].link = st.file[p].link,
         \A p \in PageIds : p >= st.nextId => after.file[p] = st.file[p]
  PROVE  Sorted(after, s)
<1>1. Linked(after.head, after.file, s)
  BY LinkedElsewhere DEF Sorted
<1>2. \A t \in Tables : Held(after, t) = Held(st, t)
  BY DEF Held
<1>3. \A t \in Tables : Own(after, t) = Own(st, t)
  <2> SUFFICES ASSUME NEW t \in Tables PROVE Own(after, t) = Own(st, t)
    OBVIOUS
  <2>1. Held(st, t) \subseteq PageIds
    BY HeldFacts DEF Sorted
  <2> QED
    BY <1>2, <2>1 DEF Own
<1> QED
  BY <1>1, <1>2, <1>3 DEF Sorted

\* A page is taken from the list or put at the end of the file.
LEMMA RowPageAllocated ==
  ASSUME NEW st, NEW s, Sorted(st, s), NEW n \in Nat, RoomFor(st, n + 1),
         NEW p, p = Fresh(st), NEW after, after = AllocPage(st)
  PROVE  \E rest :
           /\ Sorted(after, rest)
           /\ RoomFor(after, n)
           /\ Elems(rest) = Elems(s) \ {p}
           /\ p \in PageIds /\ p < after.nextId
           /\ p \in Elems(s) \/ p >= st.nextId
           /\ \A t \in Tables : p \notin Own(st, t) /\ Own(after, t) = Own(st, t)
           /\ after.data = st.data /\ after.cat = st.cat
           /\ st.nextId <= after.nextId
           /\ \A q \in PageIds : q # p => after.file[q] = st.file[q]
           /\ after.file[p] = Zeroed
<1>1. /\ st \in RowStore
      /\ Linked(st.head, st.file, s)
      /\ Elems(s) \subseteq 2..(st.nextId - 1)
      /\ \A t \in Tables : Own(st, t) \subseteq (2..(st.nextId - 1)) \ Elems(s)
      /\ \A q \in PageIds : q >= st.nextId => st.file[q] = Zeroed
  BY DEF Sorted
<1>2. /\ Elems(s) \subseteq PageIds
      /\ s \in Seq(PageIds) /\ Len(s) \in Nat
      /\ st.head = (IF s = << >> THEN 0 ELSE s[1])
  BY <1>1, SeqFacts DEF Linked
<1>3. /\ IsFiniteSet(Elems(s)) /\ Cardinality(Elems(s)) \in Nat
      /\ Cardinality(Elems(s)) + MaxPages + 1 - st.nextId >= n + 1
  <2>1. IsFiniteSet(Elems(s)) /\ Cardinality(Elems(s)) \in Nat
    BY <1>2, IdsFinite, FS_Subset, FS_CardinalityType
  <2>2. FreeList(st) = Elems(s)
    BY <1>1, FreeListOf
  <2> QED
    BY <2>1, <2>2 DEF RoomFor
<1>4. MaxPages \in Nat \ {0} /\ st.nextId \in 2..(MaxPages + 1)
  BY <1>1, PagerPagesAssumption DEF RowStore
<1>5. CASE st.head # 0
  <2>1. p = st.head
    BY <1>5 DEF Fresh
  <2> DEFINE t == Tail(s)
  <2>2. /\ p \in Elems(s) /\ p \in PageIds
        /\ Linked(st.file[p].link, st.file, t)
        /\ Elems(t) = Elems(s) \ {p}
    BY <1>1, <1>5, <2>1, LinkedTail
  <2> HIDE DEF t
  <2>3. p \in 1..MaxPages
    BY <2>2, IdsFinite
  <2>4. /\ after.file = [st.file EXCEPT ![p] = Zeroed]
        /\ after.head = st.file[p].link /\ after.nextId = st.nextId
        /\ after.data = st.data /\ after.cat = st.cat
        /\ after \in RowStore
    <3>1. after = [file |-> [st.file EXCEPT ![p] = Zeroed], head |-> st.file[p].link,
                   nextId |-> st.nextId, cat |-> st.cat, data |-> st.data]
      BY <1>1, <1>5, <2>1 DEF RowStore, AllocPage
    <3>2. st.file[p].link \in Nat
      <4>1. st.file[p] \in RowImage
        BY <1>1, <2>2, RowPage
      <4> QED
        BY <4>1 DEF RowImage
    <3> QED
      <4>1. [st.file EXCEPT ![p] = Zeroed] \in [1..MaxPages -> RowImage]
        BY <1>1, ZeroedRow DEF RowStore
      <4> QED
        BY <1>1, <3>1, <3>2, <4>1 DEF RowStore
  <2>5. /\ \A q \in PageIds : q # p => after.file[q] = st.file[q]
        /\ after.file[p] = Zeroed
    BY <1>1, <2>3, <2>4, IdsFinite DEF RowStore
  <2>6. Linked(after.head, after.file, t)
    <3>1. \A q \in Elems(t) : q \in PageIds /\ q # p
      BY <1>2, <2>2
    <3>2. \A q \in Elems(t) : after.file[q].link = st.file[q].link
      BY <2>5, <3>1
    <3> QED
      BY <2>2, <2>4, <3>2, LinkedElsewhere, ZenonT(60)
  <2>7. \A x \in Tables : Held(after, x) = Held(st, x)
    BY <2>4 DEF Held
  <2>8. \A x \in Tables : p \notin Own(st, x) /\ Own(after, x) = Own(st, x)
    <3> SUFFICES ASSUME NEW x \in Tables PROVE p \notin Own(st, x) /\ Own(after, x) = Own(st, x)
      OBVIOUS
    <3>1. p \notin Own(st, x)
      BY <1>1, <2>2
    <3>2. \A q \in Held(st, x) : q \in PageIds /\ q # p
      BY <1>1, <3>1, HeldFacts
    <3> QED
      BY <2>5, <2>7, <3>1, <3>2 DEF Own
  <2>9. Sorted(after, t)
    <3>1. \A q \in PageIds : after.file[q].chain \in PageIds => q # p
      BY <2>5, ZeroedRow, IdsFinite
    <3>2. \A q \in PageIds : q >= after.nextId => q # p
      <4>1. p \in 2..(st.nextId - 1)
        BY <1>1, <2>2
      <4> QED
        BY <1>4, <2>4, <4>1
    <3> QED
      BY <2>2, <2>4, <2>5, <2>6, <2>7, <2>8, <3>1, <3>2 DEF Sorted
  <2>10. RoomFor(after, n)
    <3>1. FreeList(after) = Elems(s) \ {p}
      BY <2>2, <2>6, FreeListOf
    <3>2. Cardinality(Elems(s) \ {p}) = Cardinality(Elems(s)) - 1
      BY <1>3, <2>2, FS_RemoveElement
    <3> QED
      BY <1>3, <1>4, <2>4, <3>1, <3>2 DEF RoomFor
  <2>11. p < after.nextId /\ st.nextId <= after.nextId
    <3>1. p \in 2..(st.nextId - 1)
      BY <1>1, <2>2
    <3> QED
      BY <1>4, <2>4, <3>1
  <2> QED
    BY <2>2, <2>4, <2>5, <2>8, <2>9, <2>10, <2>11
<1>6. CASE st.head = 0
  <2>1. p = st.nextId
    BY <1>6 DEF Fresh
  <2>2. s = << >>
    <3>1. s # << >> => s[1] \in PageIds
      BY <1>2, SeqFacts
    <3> QED
      BY <1>2, <1>6, <3>1, IdsFinite
  <2>3. Elems(s) = {} /\ Cardinality(Elems(s)) = 0
    <3>1. Elems(s) = {}
      BY <2>2 DEF Elems
    <3> QED
      BY <3>1, FS_EmptySet
  <2>4. p \in PageIds /\ p + 1 \in 2..(MaxPages + 1) /\ p \in Nat
    BY <1>3, <1>4, <2>1, <2>3 DEF PageIds
  <2>5. /\ after.file = st.file /\ after.head = st.head /\ after.nextId = p + 1
        /\ after.data = st.data /\ after.cat = st.cat
        /\ after \in RowStore
    <3>1. after = [file |-> st.file, head |-> st.head, nextId |-> p + 1,
                   cat |-> st.cat, data |-> st.data]
      BY <1>1, <1>6, <2>1 DEF RowStore, AllocPage
    <3> QED
      BY <1>1, <2>4, <3>1 DEF RowStore
  <2>6. \A x \in Tables : Held(after, x) = Held(st, x) /\ Own(after, x) = Own(st, x)
    BY <2>5 DEF Held, Own
  <2>7. Sorted(after, s)
    <3>1. 2..(st.nextId - 1) \subseteq 2..(after.nextId - 1)
      BY <1>4, <2>1, <2>5
    <3>2. \A q \in PageIds : q >= after.nextId => q >= st.nextId
      BY <1>4, <2>1, <2>5, IdsFinite
    <3> QED
      BY <2>5, <2>6, <3>1, <3>2 DEF Sorted
  <2>8. RoomFor(after, n)
    <3>1. FreeList(after) = Elems(s)
      BY <1>1, <2>5, FreeListOf
    <3> QED
      BY <1>3, <1>4, <2>1, <2>3, <2>5, <3>1 DEF RoomFor
  <2>9. \A x \in Tables : p \notin Own(st, x)
    <3>1. p \notin 2..(st.nextId - 1)
      BY <1>4, <2>1
    <3> QED
      BY <1>1, <3>1
  <2>10. /\ p < after.nextId /\ p >= st.nextId /\ st.nextId <= after.nextId
         /\ after.file[p] = Zeroed
    BY <1>1, <1>4, <2>1, <2>4, <2>5
  <2> QED
    BY <2>3, <2>4, <2>5, <2>6, <2>7, <2>8, <2>9, <2>10
<1> QED
  BY <1>5, <1>6
-----------------------------------------------------------------------------
\* A page is written anew.
Written(st, p, image) == [st EXCEPT !.file[p] = image]

LEMMA PagePut ==
  ASSUME NEW st \in RowStore, NEW p \in PageIds, NEW image \in RowImage,
         NEW after, after = Written(st, p, image)
  PROVE  /\ after \in RowStore
         /\ after.file[p] = image
         /\ \A q \in PageIds : q # p => after.file[q] = st.file[q]
         /\ after.head = st.head /\ after.nextId = st.nextId
         /\ after.cat = st.cat /\ after.data = st.data
<1>1. p \in 1..MaxPages /\ \A q \in PageIds : q \in 1..MaxPages
  BY IdsFinite
<1> DEFINE f == [st.file EXCEPT ![p] = image]
<1>2. /\ f \in [1..MaxPages -> RowImage] /\ f[p] = image
      /\ \A q \in PageIds : q # p => f[q] = st.file[q]
  BY <1>1 DEF RowStore
<1>3. after = [file |-> f, head |-> st.head, nextId |-> st.nextId,
               cat |-> st.cat, data |-> st.data]
  BY DEF RowStore, Written
<1>4. /\ st.head \in Nat /\ st.nextId \in 2..(MaxPages + 1)
      /\ st.cat \in [Tables -> [root : Nat, next : Nat]]
      /\ st.data \in [Tables -> Seq(PageIds)]
  BY DEF RowStore
<1> HIDE DEF f
<1>5. /\ after.file = f /\ after.head = st.head /\ after.nextId = st.nextId
      /\ after.cat = st.cat /\ after.data = st.data
  BY <1>3
<1>6. after \in RowStore
  BY <1>2, <1>3, <1>4 DEF RowStore
<1> QED
  BY <1>2, <1>5, <1>6

LEMMA RoomSame ==
  ASSUME NEW st, NEW s, Sorted(st, s), NEW after, Sorted(after, s),
         after.nextId = st.nextId
  PROVE  \A n : RoomFor(after, n) <=> RoomFor(st, n)
<1>1. FreeList(st) = Elems(s) /\ FreeList(after) = Elems(s)
  BY FreeListOf DEF Sorted
<1> QED
  BY <1>1 DEF RoomFor

\* From st to after, pages of tables were written, with the chains they had.
Touched(st, s, after) ==
  /\ Sorted(after, s)
  /\ \A q \in Elems(s) : after.file[q].link = st.file[q].link
  /\ after.nextId = st.nextId /\ after.cat = st.cat /\ after.data = st.data
  /\ \A n : RoomFor(after, n) <=> RoomFor(st, n)

LEMMA TablePageWritten ==
  ASSUME NEW st, NEW s, Sorted(st, s), NEW t \in Tables, NEW p \in Own(st, t),
         NEW image \in RowImage, image.chain = st.file[p].chain,
         NEW after, after = Written(st, p, image)
  PROVE  /\ Touched(st, s, after)
         /\ after.file[p] = image
         /\ \A q \in PageIds : q # p => after.file[q] = st.file[q]
<1>1. /\ st \in RowStore /\ p \in 2..(st.nextId - 1) /\ p \notin Elems(s)
      /\ Linked(st.head, st.file, s)
  BY DEF Sorted
<1>2. p \in PageIds /\ Elems(s) \subseteq PageIds /\ st.nextId \in Nat
  <2>1. st.nextId \in 2..(MaxPages + 1) /\ MaxPages \in Nat
    BY <1>1, PagerPagesAssumption DEF RowStore
  <2> QED
    BY <1>1, <2>1, SeqFacts DEF PageIds, Linked
<1>3. /\ after \in RowStore
      /\ after.file[p] = image
      /\ \A q \in PageIds : q # p => after.file[q] = st.file[q]
      /\ after.head = st.head /\ after.nextId = st.nextId
      /\ after.cat = st.cat /\ after.data = st.data
  BY <1>1, <1>2, PagePut
<1>4. \A q \in Elems(s) : after.file[q].link = st.file[q].link
  BY <1>1, <1>2, <1>3
<1>5. \A q \in PageIds : after.file[q].chain = st.file[q].chain
  BY <1>3
<1>6. \A q \in PageIds : q >= st.nextId => after.file[q] = st.file[q]
  <2>1. ~(p >= st.nextId)
    BY <1>1, <1>2
  <2> QED
    BY <1>3, <2>1
<1>7. Sorted(after, s)
  BY <1>3, <1>4, <1>5, <1>6, Rewritten
<1> QED
  BY <1>3, <1>4, <1>7, RoomSame DEF Touched

LEMMA TouchedTwice ==
  ASSUME NEW st, NEW s, NEW mid, NEW after, Touched(st, s, mid), Touched(mid, s, after)
  PROVE  Touched(st, s, after)
  BY DEF Touched

\* From st to after, only t has changed, and it has one more page at most,
\* its last, which was no page of a table.
Grown(st, s, after, rest, t) ==
  /\ Sorted(after, rest)
  /\ Elems(rest) \subseteq Elems(s)
  /\ \A q \in Elems(rest) : after.file[q].link = st.file[q].link
  /\ st.nextId <= after.nextId
  /\ \A u \in Tables \ {t} : after.data[u] = st.data[u] /\ after.cat[u] = st.cat[u]
  /\ \/ after.data[t] = st.data[t] /\ after.cat[t] = st.cat[t]
     \/ \E p \in PageIds : /\ p \in Elems(s) \/ p >= st.nextId
                           /\ after.data[t] = Append(st.data[t], p)
                           /\ after.cat[t] = [st.cat[t] EXCEPT !.next = p]

LEMMA GrownFurther ==
  ASSUME NEW st, NEW s, NEW t \in Tables, NEW mid, NEW some, Grown(st, s, mid, some, t),
         Sorted(st, s),
         NEW after, NEW rest, Sorted(after, rest), Elems(rest) \subseteq Elems(some),
         \A q \in Elems(rest) : after.file[q].link = mid.file[q].link,
         mid.nextId <= after.nextId, after.data = mid.data, after.cat = mid.cat
  PROVE  Grown(st, s, after, rest, t)
<1>1. st.nextId \in Nat /\ mid.nextId \in Nat /\ after.nextId \in Nat
  BY PagerPagesAssumption DEF Sorted, Grown, RowStore
<1>2. st.nextId <= after.nextId
  BY <1>1 DEF Grown
<1> QED
  BY <1>2 DEF Grown

LEMMA GrownTouched ==
  ASSUME NEW st, NEW s, Sorted(st, s), NEW t \in Tables, NEW mid, NEW some,
         Grown(st, s, mid, some, t), NEW after, Touched(mid, some, after)
  PROVE  Grown(st, s, after, some, t)
<1>1. mid.nextId \in Nat
  BY PagerPagesAssumption DEF Sorted, Grown, RowStore
<1> QED
  BY <1>1, GrownFurther DEF Touched

LEMMA NothingGrown ==
  ASSUME NEW st, NEW s, Sorted(st, s), NEW t \in Tables
  PROVE  Grown(st, s, st, s, t)
<1>1. st.nextId \in Nat
  BY PagerPagesAssumption DEF Sorted, RowStore
<1> QED
  BY <1>1 DEF Grown
-----------------------------------------------------------------------------
\* An empty page takes every row that is not longer than a page has room for.
LEMMA EmptyTakes ==
  ASSUME NEW r \in Rows
  PROVE  CanInsert(EmptyPage, r)
<1>1. RowLen[r] <= MaxInline /\ RowLen[r] \in Nat /\ MaxInline \in Int
  <2>1. RowLen[r] \in Nat /\ PageSize \in Nat /\ HeaderSize \in Nat /\ SlotSize \in Nat
    BY PageLayoutAssumption
  <2>2. MaxInline \in Int
    BY <2>1 DEF MaxInline, Marker
  <2>3. ChunkSize <= MaxInline
    BY <2>1, <2>2 DEF ChunkSize
  <2>4. FullLen[r] \in Nat
    BY SpilledRowsAssumption
  <2>5. RowLen[r] = IF Spills(r) THEN ChunkSize ELSE FullLen[r]
    BY SpilledRowsAssumption
  <2> QED
    BY <2>1, <2>2, <2>3, <2>4, <2>5 DEF Spills
<1>2. Len(EmptyPage.slots) = 0 /\ Len(EmptyPage.data) = 0
  BY DEF EmptyPage
<1>3. SlotSize \in Nat /\ PageSize \in Nat /\ HeaderSize \in Nat /\ 0 < MaxSlots
  BY PageLayoutAssumption, SpilledRowsAssumption
<1>4. FreeSpace(EmptyPage) = MaxInline
  BY <1>2, <1>3 DEF FreeSpace, DataOffset, DirectoryEnd, MaxInline, Marker
<1> QED
  BY <1>1, <1>2, <1>3, <1>4 DEF CanInsert, HasRoom

LEMMA LeastIn ==
  ASSUME NEW S \in SUBSET Nat, S # {}
  PROVE  Min(S) \in S /\ \A j \in S : Min(S) <= j
<1>1. PICK i \in S : \A j \in S : ~(<<j, i>> \in OpToRel(<, Nat))
  BY NatLessThanWellFounded, WFMin
<1>2. \A j \in S : i <= j
  <2> SUFFICES ASSUME NEW j \in S, j < i PROVE FALSE
    OBVIOUS
  <2>1. <<j, i>> \in OpToRel(<, Nat)
    BY DEF OpToRel
  <2> QED
    BY <1>1, <2>1
<1> QED
  BY <1>2 DEF Min

LEMMA PageForIn ==
  ASSUME NEW st \in RowStore, NEW t \in Tables, NEW r \in Rows, PagesFor(st, t, r) # {}
  PROVE  PageFor(st, t, r) \in Held(st, t)
<1>1. DOMAIN st.data[t] \subseteq Nat
  BY HeldFacts, SeqFacts, SMTT(30)
<1>2. Min(PagesFor(st, t, r)) \in DOMAIN st.data[t]
  <2>1. PagesFor(st, t, r) \subseteq DOMAIN st.data[t]
    BY DEF PagesFor
  <2> QED
    BY <1>1, <2>1, LeastIn
<1> QED
  BY <1>2 DEF PageFor, Held, Elems

\* From st to after, no page that a table owns was written, and the pages that
\* were, and those the tables have got, are clear.
Widened(st, after) ==
  /\ \A q \in PageIds : \/ after.file[q] = st.file[q]
                        \/ after.file[q] = Zeroed /\ \A u \in Tables : q \notin Own(st, u)
  /\ \A u \in Tables : Held(st, u) \subseteq Held(after, u)
  /\ \A u \in Tables : \A q \in Held(after, u) :
       q \in Held(st, u) \/ after.file[q] = Zeroed

\* A table has room for a row, or gets a page that has.
LEMMA RoomMade ==
  ASSUME NEW st, NEW s, Sorted(st, s), NEW t \in Tables, NEW r \in Rows,
         NEW n \in Nat, RoomFor(st, n + 1), NEW roomy, roomy = WithRoom(st, t, r)
  PROVE  \E rest : /\ Grown(st, s, roomy, rest, t)
                   /\ RoomFor(roomy, n)
                   /\ PageFor(roomy, t, r) \in Held(roomy, t)
                   /\ Widened(st, roomy)
<1>1. st \in RowStore
  BY DEF Sorted
<1>2. CASE PagesFor(st, t, r) # {}
  <2>1. roomy = st
    BY <1>2 DEF WithRoom
  <2>2. RoomFor(st, n)
    <3>1. /\ Cardinality(FreeList(st)) \in Nat /\ st.nextId \in Nat /\ MaxPages \in Nat
      <4>1. FreeList(st) \subseteq PageIds
        BY DEF FreeList, OnWalk
      <4>2. st.nextId \in Nat /\ MaxPages \in Nat
        BY <1>1, PagerPagesAssumption DEF RowStore
      <4> QED
        BY <4>1, <4>2, IdsFinite, FS_Subset, FS_CardinalityType
    <3> QED
      BY <3>1 DEF RoomFor
  <2>3. Widened(st, roomy)
    <3>1. Widened(st, st)
      BY Zenon DEF Widened
    <3> QED
      BY <2>1, <3>1
  <2> QED
    BY <1>1, <1>2, <2>1, <2>2, <2>3, NothingGrown, PageForIn
<1>3. CASE PagesFor(st, t, r) = {}
  <2> DEFINE p     == Fresh(st)
             after == AllocPage(st)
  <2>1. roomy = [after EXCEPT !.data[t] = Append(@, p), !.cat[t].next = p]
    BY <1>3 DEF WithRoom, ExtendChain
  <2>2. PICK rest :
           /\ Sorted(after, rest)
           /\ RoomFor(after, n)
           /\ Elems(rest) = Elems(s) \ {p}
           /\ p \in PageIds /\ p < after.nextId
           /\ p \in Elems(s) \/ p >= st.nextId
           /\ \A x \in Tables : p \notin Own(st, x) /\ Own(after, x) = Own(st, x)
           /\ after.data = st.data /\ after.cat = st.cat
           /\ st.nextId <= after.nextId
           /\ \A q \in PageIds : q # p => after.file[q] = st.file[q]
           /\ after.file[p] = Zeroed
    BY RowPageAllocated
  <2> HIDE DEF p, after
  <2>3. after \in RowStore
    BY <2>2 DEF Sorted
  <2>4. /\ roomy.file = after.file /\ roomy.head = after.head /\ roomy.nextId = after.nextId
        /\ roomy.data[t] = Append(st.data[t], p)
        /\ roomy.cat[t] = [st.cat[t] EXCEPT !.next = p]
        /\ \A u \in Tables \ {t} : roomy.data[u] = st.data[u] /\ roomy.cat[u] = st.cat[u]
        /\ roomy \in RowStore
    <3> DEFINE pages == [after.data EXCEPT ![t] = Append(@, p)]
               entries == [after.cat EXCEPT ![t].next = p]
    <3>1. /\ pages \in [Tables -> Seq(PageIds)] /\ pages[t] = Append(after.data[t], p)
          /\ \A u \in Tables \ {t} : pages[u] = after.data[u]
      BY <2>2, <2>3 DEF RowStore
    <3>2. /\ entries \in [Tables -> [root : Nat, next : Nat]]
          /\ entries[t] = [after.cat[t] EXCEPT !.next = p]
          /\ \A u \in Tables \ {t} : entries[u] = after.cat[u]
      BY <2>2, <2>3, IdsFinite DEF RowStore
    <3>3. roomy = [file |-> after.file, head |-> after.head, nextId |-> after.nextId,
                   cat |-> entries, data |-> pages]
      BY <2>1, <2>3 DEF RowStore
    <3> HIDE DEF pages, entries
    <3> QED
      BY <2>2, <2>3, <3>1, <3>2, <3>3 DEF RowStore
  <2>5. Held(roomy, t) = Held(st, t) \cup {p}
        /\ \A u \in Tables \ {t} : Held(roomy, u) = Held(st, u)
    <3>1. Elems(Append(st.data[t], p)) = Elems(st.data[t]) \cup {p}
      <4>1. st.data[t] \in Seq(PageIds)
        BY <1>1, HeldFacts
      <4> QED
        BY <2>2, <4>1, SeqAppended
    <3> QED
      BY <2>4, <3>1 DEF Held
  <2>6. /\ Own(roomy, t) = Own(st, t) \cup {p}
        /\ \A u \in Tables \ {t} : Own(roomy, u) = Own(st, u)
    <3>1. \A x \in Tables : Held(st, x) \subseteq PageIds /\ p \notin Held(st, x)
      BY <1>1, <2>2, HeldFacts
    <3>2. roomy.file[p].chain \notin PageIds
      BY <2>2, <2>4, ZeroedRow, IdsFinite
    <3>3. \A x \in Tables : \A q \in Held(st, x) : roomy.file[q] = st.file[q]
      BY <2>2, <2>4, <3>1
    <3> QED
      BY <2>2, <2>5, <3>2, <3>3 DEF Own
  <2>7. Sorted(roomy, rest)
    <3>1. /\ Linked(roomy.head, roomy.file, rest)
          /\ Elems(rest) \subseteq 2..(roomy.nextId - 1)
          /\ \A q \in PageIds : q >= roomy.nextId => roomy.file[q] = Zeroed
      BY <2>2, <2>4 DEF Sorted
    <3>2. \A x \in Tables : Own(st, x) \subseteq (2..(after.nextId - 1)) \ Elems(rest)
      BY <2>2 DEF Sorted
    <3>3. p \in 2..(after.nextId - 1) /\ p \notin Elems(rest)
      <4>1. after.nextId \in Nat
        BY <2>3, PagerPagesAssumption DEF RowStore
      <4> QED
        BY <2>2, <4>1, PagerPagesAssumption DEF PageIds
    <3>4. \A x \in Tables : Own(roomy, x) \subseteq (2..(roomy.nextId - 1)) \ Elems(rest)
      BY <2>4, <2>6, <3>2, <3>3
    <3>5. \A x, y \in Tables : x # y => Own(roomy, x) \cap Own(roomy, y) = {}
      <4>1. \A x, y \in Tables : x # y => Own(st, x) \cap Own(st, y) = {}
        BY DEF Sorted
      <4> QED
        BY <2>2, <2>6, <4>1
    <3>6. \A q \in PageIds : roomy.file[q].chain \in PageIds =>
            q \in Elems(rest) \/ \E x \in Tables : q \in Held(roomy, x)
      <4>1. \A x \in Tables : Held(after, x) = Held(st, x)
        BY <2>2 DEF Held
      <4>2. \A q \in PageIds : after.file[q].chain \in PageIds =>
              q \in Elems(rest) \/ \E x \in Tables : q \in Held(st, x)
        BY <2>2, <4>1 DEF Sorted
      <4> QED
        BY <2>4, <2>5, <4>2
    <3> QED
      BY <2>4, <3>1, <3>4, <3>5, <3>6 DEF Sorted
  <2>8. Grown(st, s, roomy, rest, t)
    <3>1. \A q \in Elems(rest) : roomy.file[q].link = st.file[q].link
      <4>1. Elems(rest) \subseteq PageIds
        BY <2>2, SeqFacts DEF Sorted, Linked
      <4> QED
        BY <2>2, <2>4, <4>1
    <3> QED
      BY <2>2, <2>4, <2>7, <3>1 DEF Grown
  <2>9. RoomFor(roomy, n)
    BY <2>2, <2>4, <2>7, RoomSame
  <2>10. PagesFor(roomy, t, r) # {}
    <3>1. PICK i \in DOMAIN roomy.data[t] : roomy.data[t][i] = p
      BY <2>5 DEF Held, Elems
    <3>2. roomy.file[p].page = EmptyPage
      BY <2>2, <2>4, ZeroedRow
    <3> QED
      BY <3>1, <3>2, EmptyTakes DEF PagesFor
  <2>11. Widened(st, roomy)
    <3>1. \A q \in PageIds : \/ roomy.file[q] = st.file[q]
                             \/ roomy.file[q] = Zeroed /\ \A u \in Tables : q \notin Own(st, u)
      BY <2>2, <2>4, Zenon
    <3>2. /\ \A u \in Tables : Held(st, u) \subseteq Held(roomy, u)
          /\ \A u \in Tables : \A q \in Held(roomy, u) :
               q \in Held(st, u) \/ roomy.file[q] = Zeroed
      BY <2>2, <2>4, <2>5
    <3> QED
      BY <3>1, <3>2, Zenon DEF Widened
  <2> QED
    BY <2>4, <2>8, <2>9, <2>10, <2>11, PageForIn
<1> QED
  BY <1>2, <1>3
-----------------------------------------------------------------------------
(* One row. *)

\* From st to after, page p was written, as type kind, with slots spill
\* flagged, and nothing else.
PageIs(st, after, p, kind, page, spill) ==
  /\ after.file[p].type = kind /\ after.file[p].page = page
  /\ after.file[p].spill = spill /\ after.file[p].chain = st.file[p].chain
  /\ \A q \in PageIds : q # p => after.file[q] = st.file[q]

LEMMA RowPut ==
  ASSUME NEW st, NEW s, Sorted(st, s), NEW t \in Tables, NEW p \in Held(st, t),
         NEW r \in Rows, NEW after, after = PutRow(st, p, r)
  PROVE  /\ Touched(st, s, after)
         /\ PageIs(st, after, p, 1, PageInsert(st.file[p].page, r),
                   st.file[p].spill \ {InsertSlot(st.file[p].page, r)})
<1> DEFINE x     == st.file[p]
           sid   == InsertSlot(x.page, r)
           image == [x EXCEPT !.type = 1, !.link = 0, !.body = << >>,
                              !.page = PageInsert(@, r), !.spill = @ \ {sid}]
<1>0. st \in RowStore
  BY DEF Sorted
<1>1. p \in Own(st, t) /\ p \in PageIds /\ x \in RowImage
  BY HeldFacts, RowPage DEF Sorted
<1>2. PageInsert(x.page, r) \in Page
  <2>1. x.page \in Page
    BY <1>1 DEF RowImage
  <2> QED
    BY <2>1, InsertSlotIn, AppendedPage DEF PageInsert
<1>3. /\ image \in RowImage /\ image.chain = x.chain
      /\ image.type = 1 /\ image.page = PageInsert(x.page, r)
      /\ image.spill = x.spill \ {sid}
  <2>1. << >> \in Bodies
    BY DEF Bodies
  <2> DEFINE page  == PageInsert(x.page, r)
             spill == x.spill \ {sid}
  <2>2. page \in Page /\ spill \in SUBSET Nat
    BY <1>1, <1>2 DEF RowImage
  <2> HIDE DEF x, sid
  <2>3. image = [x EXCEPT !.type = 1, !.link = 0, !.body = << >>, !.page = page,
                          !.spill = spill]
    OBVIOUS
  <2> HIDE DEF page, spill, image
  <2>4. image = [type |-> 1, link |-> 0, chain |-> x.chain, page |-> page,
                 spill |-> spill, body |-> << >>]
    BY <1>1, <2>3 DEF RowImage
  <2>5. x.chain \in Nat
    BY <1>1 DEF RowImage
  <2> QED
    BY <2>1, <2>2, <2>4, <2>5 DEF RowImage, page, spill
<1>4. after = Written(st, p, image)
  BY <1>0 DEF PutRow, Written, RowStore
<1> HIDE DEF image
<1>5. /\ Touched(st, s, after) /\ after.file[p] = image
      /\ \A q \in PageIds : q # p => after.file[q] = st.file[q]
  BY <1>1, <1>3, <1>4, TablePageWritten
<1> QED
  BY <1>3, <1>5 DEF PageIs

\* From st to after, the pages of C lost their type.
Cleared(st, after, C) ==
  \A q \in PageIds :
    /\ after.file[q].page = st.file[q].page /\ after.file[q].chain = st.file[q].chain
    /\ after.file[q].spill = st.file[q].spill
    /\ q \in C => after.file[q].type = 0
    /\ q \notin C => after.file[q] = st.file[q]

LEMMA ChainCleared ==
  ASSUME NEW st, NEW s, Sorted(st, s), NEW p \in PageIds,
         NEW after, after = FreeOverflowChain(st, p)
  PROVE  Touched(st, s, after) /\ Cleared(st, after, ChainPages(st.file, p))
<1> DEFINE C == ChainPages(st.file, p)
           f == [q \in 1..MaxPages |->
                   IF q \in C THEN [st.file[q] EXCEPT !.type = 0] ELSE st.file[q]]
<1>1. st \in RowStore
  BY DEF Sorted
<1>2. after = [file |-> f, head |-> st.head, nextId |-> st.nextId,
               cat |-> st.cat, data |-> st.data]
  <2>1. DOMAIN st.file = 1..MaxPages
    BY <1>1 DEF RowStore
  <2>2. after = [st EXCEPT !.file = f]
    BY <2>1 DEF FreeOverflowChain
  <2> HIDE DEF f
  <2> QED
    BY <1>1, <2>2 DEF RowStore
<1>3. ASSUME NEW q \in 1..MaxPages
      PROVE  /\ f[q] \in RowImage /\ f[q].link = st.file[q].link
             /\ f[q].chain = st.file[q].chain /\ f[q].page = st.file[q].page
             /\ f[q].spill = st.file[q].spill
             /\ q \in C => f[q].type = 0
             /\ q \notin C => f[q] = st.file[q]
  <2> DEFINE x == st.file[q]
             y == [x EXCEPT !.type = 0]
  <2>1. x \in RowImage
    BY <1>1 DEF RowStore
  <2> HIDE DEF C, x
  <2>2. f[q] = IF q \in C THEN y ELSE x
    BY DEF x
  <2>3. /\ y \in RowImage /\ y.link = x.link /\ y.chain = x.chain /\ y.page = x.page
        /\ y.spill = x.spill /\ y.type = 0
    BY <2>1 DEF RowImage
  <2> HIDE DEF f, y
  <2> QED
    BY <2>1, <2>2, <2>3 DEF x
<1>4. after \in RowStore /\ after.file = f
  <2>1. f \in [1..MaxPages -> RowImage]
    BY <1>3
  <2> HIDE DEF f
  <2> QED
    BY <1>1, <1>2, <2>1 DEF RowStore
<1>5. \A q \in PageIds : q >= st.nextId => f[q] = st.file[q]
  <2> SUFFICES ASSUME NEW q \in PageIds, q >= st.nextId PROVE f[q] = st.file[q]
    OBVIOUS
  <2>1. st.file[q] = Zeroed
    BY DEF Sorted
  <2>2. [Zeroed EXCEPT !.type = 0] = Zeroed
    <3> DEFINE z == Zeroed
    <3>1. z = [type |-> 0, link |-> 0, chain |-> 0, page |-> z.page, spill |-> z.spill,
               body |-> z.body]
      BY DEF Zeroed
    <3> HIDE DEF z
    <3>2. [z EXCEPT !.type = 0] = z
      BY <3>1
    <3> QED
      BY <3>2 DEF z
  <2>3. q \in 1..MaxPages
    BY IdsFinite
  <2> QED
    BY <2>1, <2>2, <2>3
<1> HIDE DEF f
<1>6. \A q \in PageIds : after.file[q].link = st.file[q].link
  BY <1>3, <1>4, IdsFinite
<1>10. Cleared(st, after, C)
  BY <1>3, <1>4, IdsFinite DEF Cleared
<1>7. Elems(s) \subseteq PageIds
  BY SeqFacts DEF Sorted, Linked
<1>8. after.head = st.head /\ after.nextId = st.nextId /\ after.data = st.data
      /\ after.cat = st.cat
  BY <1>2
<1>9. Sorted(after, s)
  BY <1>4, <1>5, <1>6, <1>7, <1>8, <1>10, Rewritten DEF Cleared
<1> QED
  BY <1>6, <1>7, <1>8, <1>9, <1>10, RoomSame DEF Touched

\* From st to after, slot sid of page p was deleted, with the chain of its row.
Emptied(st, after, p, sid) ==
  \E mid : /\ Cleared(st, mid, IF sid \in st.file[p].spill
                              THEN ChainPages(st.file, p) ELSE {})
          /\ PageIs(mid, after, p, mid.file[p].type, PageDelete(st.file[p].page, sid),
                    st.file[p].spill \ {sid})

LEMMA SlotDeleted ==
  ASSUME NEW st, NEW s, Sorted(st, s), NEW t \in Tables, NEW p \in Held(st, t),
         NEW sid \in Live(st.file[p].page), NEW after, after = DeleteSlot(st, p, sid)
  PROVE  /\ Touched(st, s, after)
         /\ Emptied(st, after, p, sid)
<1> DEFINE mid == IF sid \in st.file[p].spill THEN FreeOverflowChain(st, p) ELSE st
           x   == mid.file[p]
           image == [x EXCEPT !.page = PageDelete(@, sid), !.spill = @ \ {sid}]
<1>1. p \in PageIds
  BY HeldFacts DEF Sorted
<1> DEFINE C == IF sid \in st.file[p].spill THEN ChainPages(st.file, p) ELSE {}
<1>2. Touched(st, s, mid) /\ Cleared(st, mid, C)
  <2>1. Touched(st, s, st) /\ Cleared(st, st, {})
    BY DEF Touched, Cleared
  <2> QED
    BY <1>1, <2>1, ChainCleared
<1>0. mid \in RowStore
  BY <1>2 DEF Touched, Sorted
<1>3. after = Written(mid, p, image)
  BY <1>0 DEF DeleteSlot, Written, RowStore
<1> HIDE DEF mid, C
<1>7. x.page = st.file[p].page /\ x.spill = st.file[p].spill
  BY <1>1, <1>2 DEF Cleared
<1>4. Sorted(mid, s) /\ p \in Held(mid, t) /\ p \in Own(mid, t) /\ x \in RowImage
  <2>1. Sorted(mid, s) /\ p \in Held(mid, t)
    BY <1>2 DEF Touched, Held
  <2> QED
    BY <1>1, <2>1, HeldFacts, RowPage DEF Sorted
<1>5. /\ image \in RowImage /\ image.chain = x.chain /\ image.type = x.type
      /\ image.page = PageDelete(x.page, sid) /\ image.spill = x.spill \ {sid}
  <2>1. x.page \in Page
    BY <1>4 DEF RowImage
  <2>2. PageDelete(x.page, sid) \in Page
    BY <1>7, <2>1, DeletedPage
  <2> HIDE DEF x
  <2> QED
    BY <1>4, <2>2 DEF RowImage
<1> HIDE DEF image
<1>6. /\ Touched(mid, s, after) /\ after.file[p] = image
      /\ \A q \in PageIds : q # p => after.file[q] = mid.file[q]
  BY <1>3, <1>4, <1>5, TablePageWritten
<1>8. PageIs(mid, after, p, x.type, PageDelete(st.file[p].page, sid), st.file[p].spill \ {sid})
  BY <1>5, <1>6, <1>7 DEF PageIs
<1>9. Emptied(st, after, p, sid)
  <2> DEFINE page  == PageDelete(st.file[p].page, sid)
             spill == st.file[p].spill \ {sid}
  <2> HIDE DEF page, spill
  <2>1. \E m : Cleared(st, m, C) /\ PageIs(m, after, p, m.file[p].type, page, spill)
    BY <1>2, <1>8 DEF page, spill
  <2> QED
    BY <2>1, Zenon DEF Emptied, C, page, spill
<1> QED
  BY <1>2, <1>6, <1>9, TouchedTwice

\* The row of a slot gives way to one that is not longer.
PutInPlace(st, p, sid, r) ==
  [st EXCEPT !.file[p] = [st.file[p] EXCEPT !.page = PageUpdate(@, sid, r),
                                            !.spill = @ \ {sid}]]

LEMMA SlotRewritten ==
  ASSUME NEW st, NEW s, Sorted(st, s), NEW t \in Tables, NEW p \in Held(st, t),
         NEW sid \in Live(st.file[p].page), NEW r \in Rows, NEW after,
         after = PutInPlace(st, p, sid, r)
  PROVE  /\ Touched(st, s, after)
         /\ PageIs(st, after, p, st.file[p].type, PageUpdate(st.file[p].page, sid, r),
                   st.file[p].spill \ {sid})
<1> DEFINE x == st.file[p]
           image == [x EXCEPT !.page = PageUpdate(@, sid, r), !.spill = @ \ {sid}]
<1>0. st \in RowStore
  BY DEF Sorted
<1>1. p \in PageIds /\ p \in Own(st, t) /\ x \in RowImage
  BY HeldFacts, RowPage DEF Sorted
<1>2. PageUpdate(x.page, sid, r) \in Page
  <2>1. x.page \in Page /\ sid \in DOMAIN x.page.slots
    BY <1>1 DEF RowImage, Live
  <2>2. sid \in 1..(Len(x.page.slots) + 1)
    BY <2>1, PageType
  <2> QED
    BY <2>1, <2>2, AppendedPage DEF PageUpdate
<1>3. after = Written(st, p, image)
  BY <1>0 DEF Written, RowStore, PutInPlace
<1>4. /\ image \in RowImage /\ image.chain = x.chain /\ image.type = x.type
      /\ image.page = PageUpdate(x.page, sid, r) /\ image.spill = x.spill \ {sid}
  <2> HIDE DEF x
  <2> QED
    BY <1>1, <1>2 DEF RowImage
<1> HIDE DEF image
<1>5. /\ Touched(st, s, after) /\ after.file[p] = image
      /\ \A q \in PageIds : q # p => after.file[q] = st.file[q]
  BY <1>1, <1>3, <1>4, TablePageWritten
<1> DEFINE page  == PageUpdate(st.file[p].page, sid, r)
           spill == st.file[p].spill \ {sid}
<1>6. image.page = page /\ image.spill = spill
  BY <1>4, Zenon
<1> HIDE DEF page, spill
<1>7. PageIs(st, after, p, st.file[p].type, page, spill)
  BY <1>4, <1>5, <1>6 DEF PageIs
<1> QED
  BY <1>5, <1>7, Zenon DEF page, spill

\* From st to after, page new, which was of no table, was put behind page p.
Behind(st, after, p, new) ==
  /\ \A u \in Tables : new \notin Own(st, u)
  /\ after.file[new].type = 2 /\ after.file[new].spill = {}
  /\ after.file[p].chain = new /\ after.file[p].type = st.file[p].type
  /\ after.file[p].page = st.file[p].page /\ after.file[p].spill = st.file[p].spill
  /\ \A q \in PageIds : q # p /\ q # new => after.file[q] = st.file[q]

\* An overflow page is put behind a data page.
LEMMA ChunkAdded ==
  ASSUME NEW st, NEW s, Sorted(st, s), NEW t \in Tables, NEW p \in Held(st, t),
         NEW r \in Rows, RestChunks(r) = 1, RoomFor(st, 1),
         NEW acc, acc = [prev |-> p, st |-> st],
         NEW after, after = AddChunk(acc, r, 1).st
  PROVE  \E rest : /\ Sorted(after, rest)
                   /\ Elems(rest) \subseteq Elems(s)
                   /\ \A q \in Elems(rest) : after.file[q].link = st.file[q].link
                   /\ st.nextId <= after.nextId
                   /\ after.data = st.data /\ after.cat = st.cat
                   /\ \E new \in PageIds : Behind(st, after, p, new)
<1> DEFINE new   == Fresh(st)
           got   == AllocPage(st)
           image == [Zeroed EXCEPT !.type = 2, !.chain = NullPage, !.body = Chunk(r, 1)]
           front == [got.file[p] EXCEPT !.chain = new]
<1>1. RoomFor(st, 0 + 1)
  OBVIOUS
<1>2. PICK rest :
           /\ Sorted(got, rest)
           /\ Elems(rest) = Elems(s) \ {new}
           /\ new \in PageIds /\ new < got.nextId
           /\ new \in Elems(s) \/ new >= st.nextId
           /\ \A x \in Tables : new \notin Own(st, x) /\ Own(got, x) = Own(st, x)
           /\ got.data = st.data /\ got.cat = st.cat
           /\ st.nextId <= got.nextId
           /\ \A q \in PageIds : q # new => got.file[q] = st.file[q]
           /\ got.file[new] = Zeroed
  BY <1>1, RowPageAllocated
<1>3. after = [got EXCEPT !.file[new] = image, !.file[p].chain = new]
  BY DEF AddChunk
<1>4. image \in RowImage /\ image.chain = NullPage /\ image.type = 2 /\ image.spill = {}
  <2> DEFINE body == Chunk(r, 1)
             z == Zeroed
  <2>1. body \in Bodies
    BY DEF Bodies
  <2>2. NullPage \in Nat
    BY PagerPagesAssumption DEF NullPage
  <2>3. z \in RowImage /\ z.spill = {}
    BY ZeroedRow DEF Zeroed
  <2>4. image = [z EXCEPT !.type = 2, !.chain = NullPage, !.body = body]
    OBVIOUS
  <2> HIDE DEF body, z, image
  <2>5. image = [type |-> 2, link |-> z.link, chain |-> NullPage, page |-> z.page,
                 spill |-> z.spill, body |-> body]
    BY <2>3, <2>4 DEF RowImage
  <2> QED
    BY <2>1, <2>2, <2>3, <2>5 DEF RowImage
<1> HIDE DEF new, got, image
<1>5. /\ got \in RowStore /\ st \in RowStore /\ p \in PageIds /\ p # new
      /\ p \in Held(got, t) /\ p \in Own(got, t) /\ p \in Own(st, t)
      /\ new \in 1..MaxPages /\ p \in 1..MaxPages
  <2>1. got \in RowStore /\ st \in RowStore /\ p \in Held(got, t)
    BY <1>2 DEF Sorted, Held
  <2> QED
    BY <1>2, <2>1, HeldFacts, IdsFinite
<1>6. /\ front \in RowImage /\ front.chain = new
      /\ front.type = got.file[p].type /\ front.page = got.file[p].page
      /\ front.spill = got.file[p].spill
  <2>1. got.file[p] \in RowImage
    BY <1>5, RowPage
  <2>2. new \in Nat
    BY <1>2, IdsFinite
  <2> QED
    BY <2>1, <2>2 DEF RowImage
<1>7. after = Written(Written(got, new, image), p, front)
  <2> DEFINE one == [got EXCEPT !.file[new] = image]
  <2>1. one = Written(got, new, image)
    BY <1>5 DEF Written, RowStore
  <2>2. one \in RowStore /\ one.file[p] = got.file[p]
    BY <1>2, <1>4, <1>5, <2>1, PagePut, SMTT(30)
  <2>3. after = [one EXCEPT !.file[p].chain = new]
    BY <1>3
  <2>4. [one EXCEPT !.file[p].chain = new] = [one EXCEPT !.file[p] = front]
    <3> HIDE DEF one, front
    <3>1. front = [one.file[p] EXCEPT !.chain = new]
      BY <2>2 DEF front
    <3> QED
      BY <2>2, <3>1 DEF RowStore
  <2>5. [one EXCEPT !.file[p] = front] = Written(one, p, front)
    <3> HIDE DEF one, front
    <3> QED
      BY <2>2 DEF RowStore, Written
  <2> QED
    BY <2>1, <2>3, <2>4, <2>5
<1> HIDE DEF front
<1>8. /\ after \in RowStore
      /\ after.file[p] = front /\ after.file[new] = image
      /\ \A q \in PageIds : q # p /\ q # new => after.file[q] = got.file[q]
      /\ after.head = got.head /\ after.nextId = got.nextId
      /\ after.cat = got.cat /\ after.data = got.data
  <2> DEFINE one == Written(got, new, image)
  <2>1. /\ one \in RowStore
        /\ one.file[new] = image
        /\ \A q \in PageIds : q # new => one.file[q] = got.file[q]
        /\ one.head = got.head /\ one.nextId = got.nextId
        /\ one.cat = got.cat /\ one.data = got.data
    BY <1>2, <1>4, <1>5, PagePut
  <2>2. after = Written(one, p, front)
    BY <1>7
  <2> HIDE DEF one
  <2>3. /\ after \in RowStore
        /\ after.file[p] = front
        /\ \A q \in PageIds : q # p => after.file[q] = one.file[q]
        /\ after.head = one.head /\ after.nextId = one.nextId
        /\ after.cat = one.cat /\ after.data = one.data
    BY <1>5, <1>6, <2>1, <2>2, PagePut
  <2> QED
    BY <1>2, <1>5, <2>1, <2>3
<1>9. Elems(rest) \subseteq PageIds /\ p \notin Elems(rest) /\ new \notin Elems(rest)
      /\ p \in 2..(got.nextId - 1) /\ new \in 2..(got.nextId - 1)
      /\ got.nextId \in Nat
  <2>1. got.nextId \in Nat /\ MaxPages \in Nat
    BY <1>5, PagerPagesAssumption DEF RowStore
  <2>2. Elems(rest) \subseteq PageIds
    BY <1>2, SeqFacts DEF Sorted, Linked
  <2>3. p \in (2..(got.nextId - 1)) \ Elems(rest)
    BY <1>2, <1>5 DEF Sorted
  <2>4. new \in 2..(got.nextId - 1)
    BY <1>2, <2>1 DEF PageIds
  <2> QED
    BY <1>2, <2>1, <2>2, <2>3, <2>4
<1>10. \A x \in Tables : Held(after, x) = Held(got, x)
  BY <1>8 DEF Held
<1>11. /\ Own(after, t) \subseteq Own(got, t) \cup {new}
       /\ \A u \in Tables \ {t} : Own(after, u) = Own(got, u)
  <2>1. \A x \in Tables : /\ Held(got, x) \subseteq PageIds
                          /\ Held(got, x) \subseteq Own(got, x)
                          /\ new \notin Held(got, x)
    BY <1>2, <1>5, HeldFacts
  <2>2. \A u \in Tables \ {t} : p \notin Held(got, u)
    BY <1>2, <1>5, <2>1 DEF Sorted
  <2>3. \A u \in Tables \ {t} : Own(after, u) = Own(got, u)
    BY <1>8, <1>10, <2>1, <2>2 DEF Own
  <2>4. ASSUME NEW q \in Own(after, t) PROVE q \in Own(got, t) \cup {new}
    BY <1>6, <1>8, <1>10, <2>1, <2>4 DEF Own
  <2> QED
    BY <2>3, <2>4
<1>12. Sorted(after, rest)
  <2>1. \A q \in Elems(rest) : q \in PageIds /\ q # p /\ q # new
    BY <1>9
  <2>2. Linked(after.head, after.file, rest)
    <3>1. Linked(got.head, got.file, rest)
      BY <1>2 DEF Sorted
    <3>2. \A q \in Elems(rest) : after.file[q].link = got.file[q].link
      BY <1>8, <2>1
    <3> QED
      BY <1>8, <3>1, <3>2, LinkedElsewhere
  <2>3. Elems(rest) \subseteq 2..(after.nextId - 1)
    BY <1>2, <1>8 DEF Sorted
  <2>4. \A x \in Tables : Own(after, x) \subseteq (2..(after.nextId - 1)) \ Elems(rest)
    <3>1. \A x \in Tables : Own(got, x) \subseteq (2..(got.nextId - 1)) \ Elems(rest)
      BY <1>2 DEF Sorted
    <3> QED
      BY <1>8, <1>9, <1>11, <3>1
  <2>5. \A x, y \in Tables : x # y => Own(after, x) \cap Own(after, y) = {}
    <3>1. \A x, y \in Tables : x # y => Own(got, x) \cap Own(got, y) = {}
      BY <1>2 DEF Sorted
    <3>2. \A x \in Tables : new \notin Own(got, x)
      BY <1>2
    <3> QED
      BY <1>11, <3>1, <3>2
  <2>6. \A q \in PageIds : after.file[q].chain \in PageIds =>
          q \in Elems(rest) \/ \E x \in Tables : q \in Held(after, x)
    <3>1. NullPage \notin PageIds
      BY PagerPagesAssumption DEF NullPage, PageIds
    <3>2. \A q \in PageIds : got.file[q].chain \in PageIds =>
            q \in Elems(rest) \/ \E x \in Tables : q \in Held(got, x)
      BY <1>2 DEF Sorted
    <3> SUFFICES ASSUME NEW q \in PageIds, after.file[q].chain \in PageIds
                 PROVE  q \in Elems(rest) \/ \E x \in Tables : q \in Held(after, x)
      OBVIOUS
    <3>3. q # new
      BY <1>4, <1>8, <3>1
    <3>4. CASE q = p
      BY <1>5, <1>10, <3>4
    <3>5. CASE q # p
      BY <1>8, <1>10, <3>2, <3>3, <3>5
    <3> QED
      BY <3>4, <3>5
  <2>7. \A q \in PageIds : q >= after.nextId => after.file[q] = Zeroed
    <3>1. \A q \in PageIds : q >= got.nextId => got.file[q] = Zeroed /\ q # p /\ q # new
      BY <1>2, <1>9, IdsFinite DEF Sorted
    <3> QED
      BY <1>8, <3>1
  <2> QED
    BY <1>8, <2>2, <2>3, <2>4, <2>5, <2>6, <2>7 DEF Sorted
<1>13. \A q \in Elems(rest) : after.file[q].link = st.file[q].link
  BY <1>2, <1>8, <1>9
<1>14. Behind(st, after, p, new)
  BY <1>2, <1>4, <1>5, <1>6, <1>8, ZenonT(60) DEF Behind
<1> QED
  BY <1>2, <1>8, <1>12, <1>13, <1>14

\* What the fold over the chunks of a row starts from.
FirstChunk(st, t, r) ==
  LET roomy == WithRoom(st, t, r)
      pid   == PageFor(roomy, t, r)
      sid   == InsertSlot(roomy.file[pid].page, r)
  IN [prev |-> pid,
      st   |-> [PutRow(roomy, pid, r) EXCEPT !.file[pid].spill = @ \cup {sid}]]

\* The chunks after the first.
RestOf(r) == [k \in 1..RestChunks(r) |-> k]

\* g is what the fold computes, after each chunk.
Chunked(g, st, t, r, s) ==
  /\ g[0] = FirstChunk(st, t, r)
  /\ \A k \in 1..Len(s) : g[k] = AddChunk(g[k - 1], r, s[k])
  /\ InsertWithOverflow(st, t, r) = g[Len(s)].st

LEMMA ChunkFold ==
  ASSUME NEW st, NEW t, NEW r, NEW S, NEW s \in Seq(S), s = RestOf(r)
  PROVE  \E g : Chunked(g, st, t, r, s)
<1> DEFINE n == Len(s)
           b == FirstChunk(st, t, r)
           Code(f) == f = [x \in SUBSET (1..n) |->
                             IF x = {} THEN b
                             ELSE AddChunk(f[x \ {Max(x)}], r, s[Max(x)])]
           it == CHOOSE f : Code(f)
<1>1. n \in Nat /\ DOMAIN s = 1..n
  OBVIOUS
<1>2. InsertWithOverflow(st, t, r) = it[1..n].st
  <2>1. FoldLeft(LAMBDA acc, k : AddChunk(acc, r, k), b, s) = it[1..n]
    BY <1>1, Zenon DEF FoldLeft, MapThenFoldSet
  <2>2. InsertWithOverflow(st, t, r) = FoldLeft(LAMBDA acc, k : AddChunk(acc, r, k), b, s).st
    BY Zenon DEF InsertWithOverflow, FirstChunk, RestOf
  <2> HIDE DEF it, n, b
  <2> QED
    BY <2>1, <2>2
<1> HIDE DEF b
<1>3. \A f : Code(f) <=> Iterates(f, n, "chunk", r, b, s)
  BY DEF Iterates, Apply
<1> HIDE DEF n, Code
<1>4. Iterates(it, n, "chunk", r, b, s)
  <2>1. PICK f : Iterates(f, n, "chunk", r, b, s)
    BY <1>1, IterExists
  <2> QED
    BY <1>3, <2>1, Zenon
<1> HIDE DEF it
<1>5. \E g : /\ g[0] = b
             /\ \A k \in 1..n : g[k] = Apply("chunk", r, g[k - 1], s[k])
             /\ it[1..n] = g[n]
  BY <1>1, <1>4, IterSteps
<1>6. \A a, x : Apply("chunk", r, a, x) = AddChunk(a, r, x)
  BY DEF Apply
<1>7. PICK g : /\ g[0] = b
               /\ \A k \in 1..n : g[k] = Apply("chunk", r, g[k - 1], s[k])
               /\ it[1..n] = g[n]
  BY <1>5
<1>8. \A k \in 1..n : g[k] = AddChunk(g[k - 1], r, s[k])
  BY <1>6, <1>7, Zenon
<1>9. InsertWithOverflow(st, t, r) = g[n].st
  BY <1>2, <1>7
<1> QED
  BY <1>7, <1>8, <1>9, Zenon DEF n, b, Chunked

\* From st to after, a row has got its slot in page p, which now flags it.
Flagged(st, after, p, r, roomy) ==
  LET sid == InsertSlot(roomy.file[p].page, r)
  IN /\ Widened(st, roomy)
     /\ PageIs(roomy, after, p, 1, PageInsert(roomy.file[p].page, r),
               (roomy.file[p].spill \ {sid}) \cup {sid})

LEMMA FirstChunkPut ==
  ASSUME NEW st, NEW s, Sorted(st, s), NEW t \in Tables, NEW r \in Rows,
         NEW n \in Nat, RoomFor(st, n + 1), NEW acc, acc = FirstChunk(st, t, r)
  PROVE  \E rest : /\ Grown(st, s, acc.st, rest, t)
                   /\ RoomFor(acc.st, n)
                   /\ acc.prev \in Held(acc.st, t)
                   /\ acc = [prev |-> acc.prev, st |-> acc.st]
                   /\ \E roomy : /\ Sorted(roomy, rest)
                                 /\ roomy.data = acc.st.data
                                 /\ Flagged(st, acc.st, acc.prev, r, roomy)
<1> DEFINE roomy == WithRoom(st, t, r)
           p     == PageFor(roomy, t, r)
           sid   == InsertSlot(roomy.file[p].page, r)
           put   == PutRow(roomy, p, r)
           x     == put.file[p]
           image == [x EXCEPT !.spill = @ \cup {sid}]
           after == [put EXCEPT !.file[p].spill = @ \cup {sid}]
<1>1. PICK rest : /\ Grown(st, s, roomy, rest, t) /\ RoomFor(roomy, n)
                  /\ p \in Held(roomy, t) /\ Widened(st, roomy)
  BY RoomMade
<1>2. acc = [prev |-> p, st |-> after]
  BY DEF FirstChunk
<1> HIDE DEF roomy
<1>3. Sorted(roomy, rest) /\ roomy \in RowStore /\ p \in PageIds
  <2>1. Sorted(roomy, rest) /\ roomy \in RowStore
    BY <1>1 DEF Grown, Sorted
  <2> QED
    BY <1>1, <2>1, HeldFacts
<1> HIDE DEF p
<1>4. sid \in Nat
  <2>1. roomy.file[p].page \in Page
    BY <1>3, RowPage DEF RowImage
  <2> QED
    BY <2>1, InsertSlotIn, PageType
<1> DEFINE page == PageInsert(roomy.file[p].page, r)
<1>5. Touched(roomy, rest, put) /\ PageIs(roomy, put, p, 1, page, roomy.file[p].spill \ {sid})
  BY <1>1, <1>3, RowPut
<1> HIDE DEF sid, put, page
<1>6. /\ Sorted(put, rest) /\ put \in RowStore /\ p \in Held(put, t) /\ p \in Own(put, t)
      /\ x \in RowImage /\ p \in 1..MaxPages
  <2>1. Sorted(put, rest) /\ put \in RowStore /\ p \in Held(put, t)
    BY <1>1, <1>5 DEF Touched, Sorted, Held
  <2> QED
    BY <1>3, <2>1, HeldFacts, RowPage
<1>7. /\ image \in RowImage /\ image.chain = x.chain
      /\ image.type = x.type /\ image.page = x.page /\ image.spill = x.spill \cup {sid}
  <2> HIDE DEF x
  <2> QED
    BY <1>4, <1>6 DEF RowImage
<1>8. after = Written(put, p, image)
  BY <1>6 DEF Written, RowStore
<1> HIDE DEF image, x, after
<1>9. /\ Touched(put, rest, after)
      /\ after.file[p] = image
      /\ \A q \in PageIds : q # p => after.file[q] = put.file[q]
  BY <1>6, <1>7, <1>8, TablePageWritten DEF x
<1>13. PageIs(roomy, after, p, 1, page, (roomy.file[p].spill \ {sid}) \cup {sid})
  BY <1>5, <1>7, <1>9 DEF PageIs, x
<1>14. Sorted(roomy, rest) /\ roomy.data = after.data
       /\ Flagged(st, after, p, r, roomy)
  BY <1>1, <1>3, <1>5, <1>9, <1>13 DEF Touched, Flagged, sid, page
<1>10. Grown(st, s, put, rest, t)
  BY <1>1, <1>5, GrownTouched
<1>11. Grown(st, s, after, rest, t)
  BY <1>9, <1>10, GrownTouched
<1>12. RoomFor(after, n) /\ p \in Held(after, t)
  BY <1>1, <1>5, <1>9, <1>6 DEF Touched, Held
<1> QED
  BY <1>2, <1>11, <1>12, <1>14

-----------------------------------------------------------------------------
(* Chains of pages. *)

LEMMA WalkSteps ==
  ASSUME NEW start, NEW next, NEW w, w = Walk(start, next)
  PROVE  /\ DOMAIN w = 1..MaxPages
         /\ w = [i \in 1..MaxPages |-> w[i]]
         /\ w[1] = start
         /\ \A i \in 2..MaxPages :
              w[i] = IF w[i - 1] \in PageIds THEN next[w[i - 1]] ELSE w[i - 1]
<1> DEFINE Code(v) == v = [i \in 1..MaxPages |->
                             IF i = 1 THEN start
                             ELSE IF v[i - 1] \in PageIds THEN next[v[i - 1]] ELSE v[i - 1]]
           n == MaxPages - 1
<1>1. MaxPages \in Nat \ {0} /\ n \in Nat /\ n + 1 = MaxPages
  BY PagerPagesAssumption
<1> HIDE DEF n
<1>2. PICK it : Iterates(it, n, "walk", next, start, << >>)
  BY <1>1, IterExists
<1>3. PICK g : /\ g[0] = start
               /\ \A k \in 1..n : g[k] = Apply("walk", next, g[k - 1], << >>[k])
               /\ it[1..n] = g[n]
  BY <1>1, <1>2, IterSteps
<1>4. \A k \in 1..n : g[k] = IF g[k - 1] \in PageIds THEN next[g[k - 1]] ELSE g[k - 1]
  BY <1>3 DEF Apply
<1> DEFINE v == [i \in 1..MaxPages |-> g[i - 1]]
<1>5. Code(v)
  <2>1. ASSUME NEW i \in 1..MaxPages
        PROVE  v[i] = IF i = 1 THEN start
                      ELSE IF v[i - 1] \in PageIds THEN next[v[i - 1]] ELSE v[i - 1]
    <3>1. CASE i = 1
      <4>1. i - 1 = 0
        BY <3>1
      <4> QED
        BY <1>3, <3>1, <4>1
    <3>2. CASE i # 1
      <4>1. i - 1 \in 1..n /\ i - 1 \in 1..MaxPages
        BY <1>1, <3>2
      <4>2. v[i] = g[i - 1] /\ v[i - 1] = g[(i - 1) - 1]
        BY <4>1
      <4> QED
        BY <1>4, <3>2, <4>1, <4>2
    <3> QED
      BY <3>1, <3>2
  <2>2. v = [i \in 1..MaxPages |-> v[i]]
    OBVIOUS
  <2> HIDE DEF v
  <2> QED
    BY <2>1, <2>2, Zenon
<1>6. w = CHOOSE u : Code(u)
  BY Zenon DEF Walk
<1> HIDE DEF v
<1>7. Code(w)
  <2> HIDE DEF Code
  <2> QED
    BY <1>5, <1>6, Zenon
<1>8. \A i \in 1..MaxPages :
        w[i] = IF i = 1 THEN start
               ELSE IF w[i - 1] \in PageIds THEN next[w[i - 1]] ELSE w[i - 1]
  BY <1>7, Zenon
<1>9. DOMAIN w = 1..MaxPages /\ w = [i \in 1..MaxPages |-> w[i]]
  <2> DEFINE F(i) == IF i = 1 THEN start
                     ELSE IF w[i - 1] \in PageIds THEN next[w[i - 1]] ELSE w[i - 1]
  <2>1. w = [i \in 1..MaxPages |-> F(i)]
    BY <1>7, Zenon
  <2> HIDE DEF F
  <2> QED
    BY <2>1
<1>10. 1 \in 1..MaxPages /\ \A i \in 2..MaxPages : i \in 1..MaxPages /\ i # 1
  BY <1>1
<1> HIDE DEF Code
<1> QED
  BY <1>8, <1>9, <1>10

\* A walk does not leave a set of pages that is closed.
LEMMA WalkStays ==
  ASSUME NEW start, NEW next, NEW w, w = Walk(start, next), NEW U,
         start \in PageIds => start \in U,
         \A p \in PageIds : p \in U /\ next[p] \in PageIds => next[p] \in U
  PROVE  OnWalk(w) \subseteq U
<1> DEFINE T == {k \in Nat : k + 1 <= MaxPages => (w[k + 1] \in PageIds => w[k + 1] \in U)}
<1>1. /\ DOMAIN w = 1..MaxPages
      /\ w[1] = start
      /\ \A i \in 2..MaxPages :
           w[i] = IF w[i - 1] \in PageIds THEN next[w[i - 1]] ELSE w[i - 1]
  BY WalkSteps
<1>2. 0 \in T
  BY <1>1
<1>3. ASSUME NEW k \in Nat, k \in T PROVE k + 1 \in T
  <2> SUFFICES ASSUME (k + 1) + 1 <= MaxPages, w[(k + 1) + 1] \in PageIds
               PROVE  w[(k + 1) + 1] \in U
    OBVIOUS
  <2>1. (k + 1) + 1 \in 2..MaxPages /\ ((k + 1) + 1) - 1 = k + 1 /\ k + 1 <= MaxPages
    BY PagerPagesAssumption
  <2>2. w[(k + 1) + 1] = IF w[k + 1] \in PageIds THEN next[w[k + 1]] ELSE w[k + 1]
    BY <1>1, <2>1
  <2> QED
    BY <1>3, <2>1, <2>2
<1>4. Nat \subseteq T
  <2> HIDE DEF T
  <2> QED
    BY <1>2, <1>3, Induction
<1>5. ASSUME NEW i \in 1..MaxPages, w[i] \in PageIds PROVE w[i] \in U
  <2>1. i - 1 \in T /\ (i - 1) + 1 = i /\ i <= MaxPages
    BY <1>4, PagerPagesAssumption
  <2> QED
    BY <1>5, <2>1
<1> QED
  BY <1>1, <1>5 DEF OnWalk

\* The pages that chains lead to are the table's.
LEMMA OwnClosed ==
  ASSUME NEW st, NEW s, Sorted(st, s), NEW t \in Tables, NEW p \in Own(st, t),
         st.file[p].chain \in PageIds
  PROVE  st.file[p].chain \in Own(st, t)
<1>1. /\ Own(st, t) \subseteq PageIds
      /\ \A u \in Tables : Held(st, u) \subseteq Own(st, u)
  BY HeldFacts DEF Sorted
<1>2. p \in PageIds /\ p \notin Elems(s)
  BY <1>1 DEF Sorted
<1>3. PICK u \in Tables : p \in Held(st, u)
  BY <1>2 DEF Sorted
<1>4. u = t
  BY <1>1, <1>3 DEF Sorted
<1> QED
  BY <1>3, <1>4 DEF Own

LEMMA ChainsOwn ==
  ASSUME NEW st, NEW s, Sorted(st, s), NEW t \in Tables, NEW p \in PageIds,
         p \in Own(st, t) \/ st.file[p].chain \notin PageIds
  PROVE  ChainPages(st.file, p) \subseteq Own(st, t)
<1> DEFINE next  == [q \in PageIds |-> st.file[q].chain]
           start == st.file[p].chain
<1>1. start \in PageIds => start \in Own(st, t)
  BY OwnClosed
<1>2. \A q \in PageIds : q \in Own(st, t) /\ next[q] \in PageIds => next[q] \in Own(st, t)
  BY OwnClosed
<1>3. ChainPages(st.file, p) = OnWalk(Walk(start, next))
  BY DEF ChainPages, ChainWalk
<1> HIDE DEF next, start
<1> QED
  BY <1>1, <1>2, <1>3, WalkStays

LEMMA OwnReached ==
  ASSUME NEW st \in RowStore, NEW t \in Tables
  PROVE  Own(st, t) \subseteq Reach(st, t)
<1>1. ASSUME NEW p \in Held(st, t) PROVE p \in Reach(st, t)
  <2>1. PICK i \in DOMAIN st.data[t] : p = st.data[t][i]
    BY DEF Held, Elems
  <2> QED
    BY <2>1 DEF Reach
<1>2. ASSUME NEW p \in Held(st, t), st.file[p].chain \in PageIds
      PROVE  st.file[p].chain \in Reach(st, t)
  <2>1. PICK i \in DOMAIN st.data[t] : p = st.data[t][i]
    BY DEF Held, Elems
  <2> DEFINE w == ChainWalk(st.file, p)
  <2>2. DOMAIN w = 1..MaxPages /\ w[1] = st.file[p].chain
    <3> DEFINE next  == [q \in PageIds |-> st.file[q].chain]
               start == st.file[p].chain
    <3>1. w = Walk(start, next)
      BY DEF ChainWalk
    <3> HIDE DEF w, next, start
    <3>2. DOMAIN w = 1..MaxPages /\ w[1] = start
      BY <3>1, WalkSteps
    <3> QED
      BY <3>2 DEF start
  <2> HIDE DEF w
  <2>3. 1 \in 1..MaxPages
    BY PagerPagesAssumption
  <2>4. st.file[p].chain \in ChainPages(st.file, p)
    BY <1>2, <2>2, <2>3 DEF ChainPages, OnWalk, w
  <2> QED
    BY <2>1, <2>4 DEF Reach
<1> QED
  BY <1>1, <1>2 DEF Own
-----------------------------------------------------------------------------
(* Rows with a chain. *)

\* The first chunk of another long row does not fit.
Crowded(page) == page.slots # << >> /\ Len(page.data) >= ChunkSize

\* The row of one slot of page p goes on in the page that p names.
Chaining(st, p) ==
  /\ \E t \in Tables : p \in Held(st, t)
  /\ \E i \in Nat : st.file[p].spill = {i}
  /\ st.file[p].chain \in PageIds
  /\ st.file[st.file[p].chain].type = 2
  /\ Crowded(st.file[p].page)

\* No data page is an overflow page, and an overflow page is of one row.
Spilled(st) ==
  /\ \A p \in PageIds : st.file[p].type = 2 => \A t \in Tables : p \notin Held(st, t)
  /\ \A p \in PageIds : st.file[p].spill # {} => Chaining(st, p)
  /\ \A p, q \in PageIds : /\ st.file[p].spill # {}
                           /\ st.file[q].spill # {}
                           /\ st.file[p].chain = st.file[q].chain
                           => p = q

\* From st to after, nothing has changed outside W, nothing is left of the
\* chains in W, and no overflow page has become a data page.
Outside(st, after, W) ==
  /\ \A p \in PageIds \ W : after.file[p] = st.file[p]
  /\ \A p \in W : after.file[p].type # 2 /\ after.file[p].spill = {}
  /\ \A t \in Tables : \A p \in Held(after, t) : p \in W \/ st.file[p].type # 2
  /\ \A p \in PageIds \ W : st.file[p].spill # {} =>
       /\ st.file[p].chain \notin W
       /\ \E t \in Tables : p \in Held(after, t)

LEMMA SpillSame ==
  ASSUME NEW st, Spilled(st), NEW after, NEW W, Outside(st, after, W)
  PROVE  Spilled(after)
<1>0. /\ \A p \in PageIds \ W : after.file[p] = st.file[p]
      /\ \A p \in W : after.file[p].type # 2 /\ after.file[p].spill = {}
      /\ \A t \in Tables : \A p \in Held(after, t) : p \in W \/ st.file[p].type # 2
      /\ \A p \in PageIds \ W : st.file[p].spill # {} =>
           /\ st.file[p].chain \notin W
           /\ \E t \in Tables : p \in Held(after, t)
  BY DEF Outside
<1>1. ASSUME NEW p \in PageIds, after.file[p].type = 2, NEW t \in Tables
      PROVE  p \notin Held(after, t)
  BY <1>0, <1>1
<1>2. ASSUME NEW p \in PageIds, after.file[p].spill # {} PROVE Chaining(after, p)
  <2>1. p \notin W /\ after.file[p] = st.file[p]
    BY <1>0, <1>2
  <2>2. Chaining(st, p)
    BY <1>2, <2>1 DEF Spilled
  <2>3. \E t \in Tables : p \in Held(after, t)
    BY <1>0, <1>2, <2>1
  <2>4. st.file[p].chain \in PageIds \ W
    BY <1>0, <1>2, <2>1, <2>2 DEF Chaining
  <2>5. after.file[st.file[p].chain] = st.file[st.file[p].chain]
    BY <1>0, <2>4
  <2> QED
    BY <2>1, <2>2, <2>3, <2>5 DEF Chaining
<1>3. ASSUME NEW p \in PageIds, NEW q \in PageIds,
             after.file[p].spill # {}, after.file[q].spill # {},
             after.file[p].chain = after.file[q].chain
      PROVE  p = q
  <2>1. after.file[p] = st.file[p] /\ after.file[q] = st.file[q]
    BY <1>0, <1>3
  <2> QED
    BY <1>3, <2>1 DEF Spilled
<1> QED
  BY <1>1, <1>2, <1>3 DEF Spilled

LEMMA ChainOwned ==
  ASSUME NEW st, Spilled(st), NEW p \in PageIds, st.file[p].spill # {}
  PROVE  \E t \in Tables : p \in Held(st, t) /\ st.file[p].chain \in Own(st, t)
<1>1. Chaining(st, p)
  BY DEF Spilled
<1> QED
  BY <1>1 DEF Chaining, Own

LEMMA WidenedSpills ==
  ASSUME NEW st, NEW s, Sorted(st, s), Spilled(st),
         NEW after \in RowStore, Widened(st, after)
  PROVE  Spilled(after)
<1> DEFINE W == {q \in PageIds : after.file[q] # st.file[q]}
<1>1. \A q \in W : after.file[q] = Zeroed /\ \A u \in Tables : q \notin Own(st, u)
  BY DEF Widened
<1>2. Zeroed.type # 2 /\ Zeroed.spill = {}
  BY DEF Zeroed
<1>3. \A t \in Tables : /\ Held(st, t) \subseteq PageIds /\ Held(after, t) \subseteq PageIds
  BY HeldFacts DEF Sorted
<1>4. ASSUME NEW t \in Tables, NEW p \in Held(after, t) PROVE p \in W \/ st.file[p].type # 2
  <2>1. CASE p \in Held(st, t)
    BY <1>3, <2>1 DEF Spilled
  <2>2. CASE after.file[p] = Zeroed
    BY <1>2, <1>3, <2>2
  <2> QED
    BY <2>1, <2>2 DEF Widened
<1>5. ASSUME NEW p \in PageIds \ W, st.file[p].spill # {}
      PROVE  st.file[p].chain \notin W /\ \E t \in Tables : p \in Held(after, t)
  <2>1. Chaining(st, p)
    BY <1>5 DEF Spilled
  <2>2. PICK t \in Tables : p \in Held(st, t)
    BY <2>1 DEF Chaining
  <2>3. st.file[p].chain \in Own(st, t)
    BY <2>1, <2>2 DEF Chaining, Own
  <2> QED
    BY <1>1, <2>2, <2>3 DEF Widened
<1>6. \A p \in PageIds \ W : after.file[p] = st.file[p]
  OBVIOUS
<1>7. \A p \in W : after.file[p].type # 2 /\ after.file[p].spill = {}
  BY <1>1, <1>2
<1> HIDE DEF W
<1>8. Outside(st, after, W)
  BY <1>4, <1>5, <1>6, <1>7 DEF Outside
<1> QED
  BY <1>8, SpillSame

\* A data page is written, and its slots do not begin to spill.
LEMMA SpillWritten ==
  ASSUME NEW st \in RowStore, Spilled(st), NEW t \in Tables, NEW p \in Held(st, t),
         NEW after, after.data = st.data,
         NEW kind, kind # 2, NEW page, NEW spill \in SUBSET st.file[p].spill,
         PageIs(st, after, p, kind, page, spill),
         Crowded(st.file[p].page) => Crowded(page)
  PROVE  Spilled(after)
<1>1. p \in PageIds /\ \A u \in Tables : Held(after, u) = Held(st, u)
  BY HeldFacts DEF Held
<1>2. /\ after.file[p].type = kind /\ after.file[p].page = page
      /\ after.file[p].spill = spill /\ after.file[p].chain = st.file[p].chain
      /\ \A q \in PageIds : q # p => after.file[q] = st.file[q]
  BY DEF PageIs
<1>3. ASSUME NEW q \in PageIds, after.file[q].type = 2, NEW u \in Tables
      PROVE  q \notin Held(after, u)
  <2>1. q # p
    BY <1>2, <1>3
  <2> QED
    BY <1>1, <1>2, <1>3, <2>1 DEF Spilled
<1>4. \A q \in PageIds : /\ after.file[q].spill # {} => st.file[q].spill # {}
                         /\ after.file[q].chain = st.file[q].chain
  BY <1>2
<1>5. ASSUME NEW q \in PageIds, after.file[q].spill # {} PROVE Chaining(after, q)
  <2>1. Chaining(st, q)
    BY <1>4, <1>5 DEF Spilled
  <2>2. st.file[p].type # 2
    BY <1>1 DEF Spilled
  <2>3. /\ st.file[q].chain # p /\ st.file[q].chain \in PageIds
        /\ st.file[st.file[q].chain].type = 2
    BY <2>1, <2>2 DEF Chaining
  <2>4. after.file[after.file[q].chain].type = 2 /\ after.file[q].chain \in PageIds
    BY <1>2, <1>4, <2>3
  <2>5. \E i \in Nat : after.file[q].spill = {i}
    <3>1. PICK i \in Nat : st.file[q].spill = {i}
      BY <2>1 DEF Chaining
    <3>2. after.file[q].spill \subseteq {i}
      BY <1>2, <3>1
    <3> QED
      BY <1>5, <3>2
  <2>6. Crowded(after.file[q].page)
    BY <1>2, <2>1 DEF Chaining
  <2> QED
    BY <1>1, <2>1, <2>4, <2>5, <2>6 DEF Chaining
<1>6. ASSUME NEW q \in PageIds, NEW r \in PageIds,
             after.file[q].spill # {}, after.file[r].spill # {},
             after.file[q].chain = after.file[r].chain
      PROVE  q = r
  BY <1>4, <1>6 DEF Spilled
<1> QED
  BY <1>3, <1>5, <1>6 DEF Spilled

\* The first chunk of a row goes to a page and the second behind it.
LEMMA SpillPut ==
  ASSUME NEW st, NEW s, Sorted(st, s), Spilled(st),
         NEW t \in Tables, NEW p \in Held(st, t),
         NEW mid, mid.data = st.data, NEW page, NEW i \in Nat,
         PageIs(st, mid, p, 1, page, {i}), Crowded(page),
         NEW after, after.data = st.data, NEW new \in PageIds, Behind(mid, after, p, new)
  PROVE  Spilled(after)
<1>1. /\ p \in PageIds
      /\ \A u \in Tables : /\ Held(after, u) = Held(st, u) /\ Held(mid, u) = Held(st, u)
                           /\ Held(st, u) \subseteq PageIds
  BY HeldFacts DEF Sorted, Held
<1>2. \A u \in Tables : Own(mid, u) = Own(st, u)
  <2>1. \A q \in PageIds : mid.file[q].chain = st.file[q].chain
    BY DEF PageIs
  <2> QED
    BY <1>1, <2>1 DEF Own
<1>3. /\ \A u \in Tables : new \notin Own(st, u) /\ new \notin Held(st, u)
      /\ new # p
  BY <1>1, <1>2 DEF Behind, Own
<1>4. /\ after.file[new].type = 2 /\ after.file[new].spill = {}
      /\ after.file[p].type = 1 /\ after.file[p].page = page /\ after.file[p].spill = {i}
      /\ after.file[p].chain = new
      /\ \A q \in PageIds : q # p /\ q # new => after.file[q] = st.file[q]
  BY DEF Behind, PageIs
<1>5. ASSUME NEW q \in PageIds, after.file[q].type = 2, NEW u \in Tables
      PROVE  q \notin Held(after, u)
  BY <1>1, <1>3, <1>4, <1>5 DEF Spilled
<1>6. ASSUME NEW q \in PageIds, q # p, after.file[q].spill # {}
      PROVE  /\ q # new /\ st.file[q].spill # {} /\ after.file[q] = st.file[q]
             /\ st.file[q].chain # new /\ Chaining(after, q)
  <2>1. q # new /\ after.file[q] = st.file[q]
    BY <1>4, <1>6
  <2>2. st.file[q].spill # {} /\ Chaining(st, q)
    BY <1>6, <2>1 DEF Spilled
  <2>3. PICK u \in Tables : q \in Held(st, u)
    BY <2>2 DEF Chaining
  <2>4. st.file[q].chain \in Own(st, u)
    BY <2>2, <2>3 DEF Chaining, Own
  <2>5. st.file[q].chain # new
    BY <1>3, <2>4
  <2>6. st.file[p].type # 2
    BY <1>1 DEF Spilled
  <2>7. st.file[q].chain # p
    BY <2>2, <2>6 DEF Chaining
  <2>8. after.file[st.file[q].chain] = st.file[st.file[q].chain]
    BY <1>4, <2>2, <2>5, <2>7 DEF Chaining
  <2> QED
    BY <1>1, <2>1, <2>2, <2>5, <2>8 DEF Chaining
<1>7. Chaining(after, p)
  BY <1>1, <1>4 DEF Chaining
<1>8. ASSUME NEW q \in PageIds, NEW r \in PageIds,
             after.file[q].spill # {}, after.file[r].spill # {},
             after.file[q].chain = after.file[r].chain
      PROVE  q = r
  <2>1. CASE q # p /\ r # p
    <3>1. /\ st.file[q].spill # {} /\ st.file[r].spill # {}
          /\ st.file[q].chain = st.file[r].chain
      BY <1>6, <1>8, <2>1
    <3> QED
      BY <3>1 DEF Spilled
  <2>2. CASE q = p /\ r # p
    BY <1>4, <1>6, <1>8, <2>2
  <2>3. CASE q # p /\ r = p
    BY <1>4, <1>6, <1>8, <2>3
  <2> QED
    BY <2>1, <2>2, <2>3
<1> QED
  BY <1>5, <1>6, <1>7, <1>8 DEF Spilled

LEMMA SpillsOver ==
  ASSUME NEW r \in Rows, Spills(r), RestChunks(r) \in {0, 1}
  PROVE  RestChunks(r) = 1 /\ RowLen[r] = ChunkSize
<1>1. FullLen[r] \in Nat \ {0} /\ ChunkSize \in Nat \ {0} /\ RowLen[r] = ChunkSize
  BY SpilledRowsAssumption
<1>2. FullLen[r] > MaxInline /\ ChunkSize <= MaxInline /\ MaxInline \in Int
  <2>1. PageSize \in Nat /\ HeaderSize \in Nat /\ SlotSize \in Nat
    BY PageLayoutAssumption
  <2> QED
    BY <2>1 DEF Spills, MaxInline, Marker, ChunkSize
<1> DEFINE n == FullLen[r] - 1
           c == ChunkSize
<1>3. n \in Nat /\ c \in Nat \ {0} /\ n >= c
  BY <1>1, <1>2
<1>4. RestChunks(r) = n \div c
  BY DEF RestChunks
<1> HIDE DEF n, c
<1>5. n \div c # 0
  BY <1>3
<1> QED
  BY <1>1, <1>4, <1>5

LEMMA SlotsIn ==
  ASSUME NEW q \in Page
  PROVE  q.slots # << >> <=> Len(q.slots) >= 1
<1> DEFINE z == q.slots
<1>1. z \in Seq(Slot)
  BY PageType
<1> HIDE DEF z
<1>2. z # << >> <=> Len(z) >= 1
  BY <1>1
<1> QED
  BY <1>2 DEF z

LEMMA CrowdedDeleted ==
  ASSUME NEW page \in Page, NEW i \in Live(page), Crowded(page)
  PROVE  Crowded(PageDelete(page, i))
<1> DEFINE del == PageDelete(page, i)
<1>1. del \in Page /\ Len(del.slots) = Len(page.slots) /\ del.data = page.data
  BY DeletedPage
<1> HIDE DEF del
<1>2. Crowded(del)
  BY <1>1, SlotsIn DEF Crowded
<1> QED
  BY <1>2 DEF del

\* How full a page is.
LEMMA Crowding ==
  ASSUME NEW page \in Page, NEW r \in Rows
  PROVE  /\ Crowded(page) => Crowded(PageInsert(page, r))
         /\ RowLen[r] = ChunkSize => Crowded(PageInsert(page, r))
         /\ RowLen[r] = ChunkSize /\ Crowded(page) => ~Fits(PageInsert(page, r))
         /\ \A i \in Live(page) : Crowded(page) => Crowded(PageUpdate(page, i, r))
<1>1. /\ page.slots \in Seq(Slot) /\ Len(page.slots) \in Nat /\ Len(page.data) \in Nat
      /\ DOMAIN page.slots = 1..Len(page.slots)
      /\ RowLen[r] \in Nat \ {0} /\ ChunkSize \in Nat \ {0}
  BY PageType, RowBytesType, SpilledRowsAssumption
<1>2. \A q \in Page : q.slots # << >> <=> Len(q.slots) >= 1
  BY SlotsIn
<1> DEFINE put == PageInsert(page, r)
<1>3. /\ put \in Page /\ Len(put.data) = Len(page.data) + RowLen[r]
      /\ Len(put.slots) >= Len(page.slots) /\ Len(put.slots) >= 1
      /\ Len(put.slots) \in Nat
  <2> DEFINE i == InsertSlot(page, r)
  <2>1. i \in 1..(Len(page.slots) + 1) /\ put = AppendIntoData(page, i, r)
    BY InsertSlotIn DEF PageInsert
  <2> HIDE DEF i, put
  <2>2. /\ put \in Page /\ Len(put.data) = Len(page.data) + RowLen[r]
        /\ Len(put.slots) = IF i \in DOMAIN page.slots THEN Len(page.slots)
                            ELSE Len(page.slots) + 1
    BY <2>1, AppendedPage
  <2> QED
    BY <1>1, <2>2
<1> HIDE DEF put
<1>4. /\ Crowded(page) => Crowded(put)
      /\ RowLen[r] = ChunkSize => Crowded(put)
  BY <1>1, <1>2, <1>3 DEF Crowded
<1>5. ASSUME RowLen[r] = ChunkSize, Crowded(page) PROVE ~Fits(put)
  <2>1. PageSize \in Nat /\ HeaderSize \in Nat /\ SlotSize \in Nat
    BY PageLayoutAssumption
  <2> DEFINE n == Len(put.slots)
             d == Len(put.data)
             c == ChunkSize
  <2>2. d >= c + c /\ n >= 1 /\ d \in Nat /\ n \in Nat
    BY <1>1, <1>3, <1>5 DEF Crowded
  <2>3. c = PageSize - HeaderSize - 2 - SlotSize /\ c \in Nat \ {0}
    BY <1>1 DEF ChunkSize, MaxInline, Marker
  <2>4. FreeSpace(put) = PageSize - 2 - d - (HeaderSize + n * SlotSize)
    BY DEF FreeSpace, DataOffset, DirectoryEnd, Marker
  <2> HIDE DEF n, d, c
  <2>5. n * SlotSize >= SlotSize
    BY <2>1, <2>2
  <2>6. n * SlotSize \in Nat
    BY <2>1, <2>2
  <2> DEFINE m == n * SlotSize
  <2> HIDE DEF m
  <2>7. PageSize - 2 - d - (HeaderSize + m) < 0
    BY <2>1, <2>2, <2>3, <2>5, <2>6 DEF m
  <2> QED
    BY <2>4, <2>7, <2>1, <2>2, <2>6 DEF Fits, m
<1>6. ASSUME NEW i \in Live(page), Crowded(page) PROVE Crowded(PageUpdate(page, i, r))
  <2>1. i \in 1..(Len(page.slots) + 1)
    BY <1>1 DEF Live
  <2> DEFINE upd == AppendIntoData(page, i, r)
  <2>2. /\ upd \in Page /\ Len(upd.data) = Len(page.data) + RowLen[r]
        /\ Len(upd.slots) = IF i \in DOMAIN page.slots THEN Len(page.slots)
                            ELSE Len(page.slots) + 1
    BY <2>1, AppendedPage
  <2> HIDE DEF upd
  <2>3. Len(upd.slots) >= Len(page.slots) /\ Len(upd.slots) \in Nat /\ Len(upd.data) \in Nat
    BY <1>1, <2>2, PageType
  <2>4. Crowded(upd)
    BY <1>1, <1>2, <1>6, <2>2, <2>3 DEF Crowded
  <2> QED
    BY <2>4 DEF upd, PageUpdate
<1> QED
  BY <1>4, <1>5, <1>6 DEF put

\* A chain has one page.
LEMMA OneInChain ==
  ASSUME NEW st, NEW s, Sorted(st, s), Spilled(st), NEW p \in PageIds, st.file[p].spill # {}
  PROVE  ChainPages(st.file, p) = {st.file[p].chain}
<1> DEFINE next  == [q \in PageIds |-> st.file[q].chain]
           start == st.file[p].chain
           w     == Walk(start, next)
<1>1. Chaining(st, p)
  BY DEF Spilled
<1>2. start \in PageIds /\ st.file[start].type = 2
  BY <1>1 DEF Chaining
<1>3. PICK t \in Tables : p \in Held(st, t)
  BY <1>1 DEF Chaining
<1>4. start \in Own(st, t) /\ start \notin Elems(s)
  BY <1>2, <1>3 DEF Own, Sorted
<1>5. st.file[start].chain \notin PageIds
  BY <1>2, <1>4 DEF Sorted, Spilled
<1>6. ChainPages(st.file, p) = OnWalk(w)
  BY DEF ChainPages, ChainWalk
<1>7. OnWalk(w) \subseteq {start}
  <2>1. \A q \in PageIds : q \in {start} /\ next[q] \in PageIds => next[q] \in {start}
    BY <1>5
  <2> HIDE DEF start, next
  <2> QED
    BY <2>1, WalkStays
<1>8. start \in OnWalk(w)
  <2> HIDE DEF start, next, w
  <2>1. w = Walk(start, next)
    BY DEF w
  <2>2. DOMAIN w = 1..MaxPages /\ w[1] = start
    BY <2>1, WalkSteps
  <2>3. 1 \in DOMAIN w
    BY <2>2, PagerPagesAssumption
  <2> QED
    BY <1>2, <2>2, <2>3 DEF OnWalk
<1> QED
  BY <1>6, <1>7, <1>8

LEMMA SpillEmptied ==
  ASSUME NEW st, NEW s, Sorted(st, s), Spilled(st),
         NEW t \in Tables, NEW p \in Held(st, t), NEW sid \in Live(st.file[p].page),
         NEW after, after.data = st.data, Emptied(st, after, p, sid)
  PROVE  Spilled(after)
<1> DEFINE C == IF sid \in st.file[p].spill THEN ChainPages(st.file, p) ELSE {}
<1>1. PICK mid : /\ Cleared(st, mid, C)
                 /\ PageIs(mid, after, p, mid.file[p].type, PageDelete(st.file[p].page, sid),
                           st.file[p].spill \ {sid})
  BY DEF Emptied
<1>2. /\ st \in RowStore /\ p \in PageIds
      /\ \A u \in Tables : Held(after, u) = Held(st, u) /\ Held(st, u) \subseteq PageIds
  BY HeldFacts DEF Sorted, Held
<1>3. st.file[p].type # 2
  BY <1>2 DEF Spilled
<1>4. CASE sid \notin st.file[p].spill
  <2>1. \A q \in PageIds : mid.file[q] = st.file[q]
    BY <1>1, <1>4 DEF Cleared
  <2> DEFINE page  == PageDelete(st.file[p].page, sid)
             spill == st.file[p].spill \ {sid}
             kind  == st.file[p].type
  <2>2. spill \in SUBSET st.file[p].spill /\ kind # 2
    BY <1>3
  <2>3. Crowded(st.file[p].page) => Crowded(page)
    <3>1. st.file[p].page \in Page
      BY <1>2, RowPage DEF RowImage
    <3> QED
      BY <3>1, CrowdedDeleted
  <2>4. PageIs(mid, after, p, mid.file[p].type, page, spill)
    BY <1>1
  <2> HIDE DEF page, spill, kind
  <2>5. PageIs(st, after, p, kind, page, spill)
    BY <1>2, <2>1, <2>4 DEF PageIs, kind
  <2> QED
    BY <1>2, <2>2, <2>3, <2>5, SpillWritten
<1>5. CASE sid \in st.file[p].spill
  <2> DEFINE W == {p} \cup C
  <2>1. C = {st.file[p].chain} /\ Chaining(st, p)
    BY <1>2, <1>5, OneInChain DEF Spilled
  <2>2. /\ st.file[p].chain \in PageIds /\ st.file[st.file[p].chain].type = 2
        /\ st.file[p].spill = {sid}
    BY <1>5, <2>1 DEF Chaining
  <2>3. st.file[st.file[p].chain].spill = {} /\ st.file[p].chain # p
    BY <1>3, <2>2 DEF Spilled, Chaining
  <2> HIDE DEF C
  <2>4. \A q \in PageIds \ W : after.file[q] = st.file[q]
    BY <1>1 DEF PageIs, Cleared
  <2>5. \A q \in W : after.file[q].type # 2 /\ after.file[q].spill = {}
    <3>1. after.file[p].type = mid.file[p].type /\ after.file[p].spill = {}
      BY <1>1, <2>2 DEF PageIs
    <3>2. mid.file[p] = st.file[p]
      BY <1>1, <1>2, <2>1, <2>3 DEF Cleared
    <3>3. /\ after.file[st.file[p].chain] = mid.file[st.file[p].chain]
          /\ mid.file[st.file[p].chain].type = 0
          /\ mid.file[st.file[p].chain].spill = {}
      BY <1>1, <2>1, <2>2, <2>3 DEF PageIs, Cleared
    <3> QED
      BY <1>3, <2>1, <3>1, <3>2, <3>3
  <2>6. \A u \in Tables : \A q \in Held(after, u) : q \in W \/ st.file[q].type # 2
    BY <1>2 DEF Spilled
  <2>7. ASSUME NEW q \in PageIds \ W, st.file[q].spill # {}
        PROVE  st.file[q].chain \notin W /\ \E u \in Tables : q \in Held(after, u)
    <3>1. Chaining(st, q) /\ q # p
      BY <2>7 DEF Spilled
    <3>2. st.file[q].chain # p
      BY <1>3, <3>1 DEF Chaining
    <3>3. st.file[q].chain # st.file[p].chain
      BY <1>2, <1>5, <2>7, <3>1 DEF Spilled
    <3> QED
      BY <1>2, <2>1, <3>1, <3>2, <3>3 DEF Chaining
  <2> HIDE DEF W
  <2>8. Outside(st, after, W)
    BY <2>4, <2>5, <2>6, <2>7 DEF Outside
  <2> QED
    BY <2>8, SpillSame
<1> QED
  BY <1>4, <1>5

\* A statement that left pages and ranges in order.
Foreseen(st) == (\A p \in PageIds : Fits(st.file[p].page)) /\ RangesApart(st)

LEMMA NoStray ==
  ASSUME NEW st, Strays(st) \subseteq {"reopened"}
  PROVE  Foreseen(st)
  BY DEF Strays, Foreseen

\* A row is put into a table, with a second chunk or without.
LEMMA RowInserted ==
  ASSUME TwoChunks, NEW st, NEW s, Sorted(st, s), NEW t \in Tables, NEW r \in Rows,
         RoomFor(st, 1 + RestChunks(r)), NEW after, after = InsertRowIntoChain(st, t, r)
  PROVE  /\ \E rest : Grown(st, s, after, rest, t)
         /\ Spilled(st) /\ Foreseen(after) => Spilled(after)
<1>1. RestChunks(r) \in {0, 1} /\ RestChunks(r) \in Nat
  BY DEF TwoChunks
<1>2. RoomFor(st, RestChunks(r) + 1)
  BY <1>1 DEF RoomFor
<1>3. CASE ~Spills(r)
  <2> DEFINE roomy == WithRoom(st, t, r)
             p     == PageFor(roomy, t, r)
  <2>1. after = PutRow(roomy, p, r)
    BY <1>3 DEF InsertRowIntoChain, InsertInlineOnly
  <2>2. PICK rest : /\ Grown(st, s, roomy, rest, t) /\ p \in Held(roomy, t)
                    /\ Widened(st, roomy)
    BY <1>1, <1>2, RoomMade
  <2> HIDE DEF roomy, p
  <2>3. Sorted(roomy, rest) /\ roomy \in RowStore
    BY <2>2 DEF Grown, Sorted
  <2>4. /\ Touched(roomy, rest, after)
        /\ PageIs(roomy, after, p, 1, PageInsert(roomy.file[p].page, r),
                  roomy.file[p].spill \ {InsertSlot(roomy.file[p].page, r)})
    BY <2>1, <2>2, <2>3, RowPut
  <2>5. ASSUME Spilled(st) PROVE Spilled(after)
    <3> DEFINE page  == PageInsert(roomy.file[p].page, r)
               spill == roomy.file[p].spill \ {InsertSlot(roomy.file[p].page, r)}
    <3>1. Spilled(roomy)
      BY <2>2, <2>3, <2>5, WidenedSpills
    <3>2. Crowded(roomy.file[p].page) => Crowded(page)
      <4>1. roomy.file[p].page \in Page
        BY <2>2, <2>3, HeldFacts, RowPage DEF RowImage
      <4> QED
        BY <4>1, Crowding
    <3>3. spill \in SUBSET roomy.file[p].spill /\ after.data = roomy.data
      BY <2>4 DEF Touched
    <3>4. PageIs(roomy, after, p, 1, page, spill)
      BY <2>4
    <3> HIDE DEF page, spill
    <3> QED
      BY <2>2, <2>3, <3>1, <3>2, <3>3, <3>4, SpillWritten
  <2> QED
    BY <2>2, <2>4, <2>5, GrownTouched
<1>4. CASE Spills(r)
  <2> DEFINE ks  == RestOf(r)
             acc == FirstChunk(st, t, r)
  <2>1. ks \in Seq(Nat) /\ Len(ks) = RestChunks(r) /\ \A k \in 1..RestChunks(r) : ks[k] = k
    BY <1>1 DEF RestOf
  <2>2. PICK g : /\ g[0] = acc
                 /\ \A k \in 1..Len(ks) : g[k] = AddChunk(g[k - 1], r, ks[k])
                 /\ InsertWithOverflow(st, t, r) = g[Len(ks)].st
    <3>1. ks = RestOf(r) /\ acc = FirstChunk(st, t, r) /\ ks \in Seq(Nat)
      BY <2>1
    <3> HIDE DEF ks, acc
    <3>2. \E g : Chunked(g, st, t, r, ks)
      BY <3>1, ChunkFold
    <3> QED
      BY <3>1, <3>2 DEF Chunked
  <2>3. after = g[RestChunks(r)].st
    BY <1>4, <2>1, <2>2 DEF InsertRowIntoChain
  <2>4. PICK rest : /\ Grown(st, s, acc.st, rest, t)
                    /\ RoomFor(acc.st, RestChunks(r))
                    /\ acc.prev \in Held(acc.st, t)
                    /\ acc = [prev |-> acc.prev, st |-> acc.st]
                    /\ \E roomy : /\ Sorted(roomy, rest)
                                  /\ roomy.data = acc.st.data
                                  /\ Flagged(st, acc.st, acc.prev, r, roomy)
    BY <1>1, <1>2, FirstChunkPut
  <2> HIDE DEF acc, ks
  <2>5. RestChunks(r) = 1 /\ RowLen[r] = ChunkSize
    BY <1>1, <1>4, SpillsOver
  <2>6. after = AddChunk(acc, r, 1).st
    <3>1. 1 \in 1..Len(ks) /\ ks[1] = 1 /\ 1 - 1 = 0
      BY <2>1, <2>5
    <3>2. g[1] = AddChunk(g[0], r, 1)
      BY <2>2, <3>1
    <3> QED
      BY <2>2, <2>3, <2>5, <3>2
  <2> DEFINE mid == acc.st
             p   == acc.prev
  <2>7. /\ Sorted(mid, rest) /\ p \in Held(mid, t) /\ RoomFor(mid, 1)
        /\ acc = [prev |-> p, st |-> mid] /\ Grown(st, s, mid, rest, t)
        /\ \E roomy : /\ Sorted(roomy, rest) /\ roomy.data = mid.data
                      /\ Flagged(st, mid, p, r, roomy)
    BY <2>4, <2>5 DEF Grown
  <2> HIDE DEF mid, p
  <2>8. PICK left :
          /\ Sorted(after, left)
          /\ Elems(left) \subseteq Elems(rest)
          /\ \A q \in Elems(left) : after.file[q].link = mid.file[q].link
          /\ mid.nextId <= after.nextId
          /\ after.data = mid.data /\ after.cat = mid.cat
          /\ \E new \in PageIds : Behind(mid, after, p, new)
    BY <2>5, <2>6, <2>7, ChunkAdded
  <2>9. ASSUME Spilled(st), Foreseen(after) PROVE Spilled(after)
    <3>1. PICK roomy : /\ Sorted(roomy, rest) /\ roomy.data = mid.data
                       /\ Flagged(st, mid, p, r, roomy)
      BY <2>7
    <3>2. PICK new \in PageIds : Behind(mid, after, p, new)
      BY <2>8
    <3> DEFINE sid  == InsertSlot(roomy.file[p].page, r)
               page == PageInsert(roomy.file[p].page, r)
    <3>3. /\ roomy \in RowStore /\ p \in Held(roomy, t) /\ p \in PageIds
          /\ roomy.file[p].page \in Page
      <4>1. roomy \in RowStore /\ p \in Held(roomy, t)
        BY <2>7, <3>1 DEF Sorted, Held
      <4>2. p \in PageIds
        BY <4>1, HeldFacts
      <4> QED
        BY <4>1, <4>2, RowPage DEF RowImage
    <3>4. /\ Widened(st, roomy)
          /\ PageIs(roomy, mid, p, 1, page, (roomy.file[p].spill \ {sid}) \cup {sid})
      BY <3>1 DEF Flagged
    <3>5. sid \in Nat
      BY <3>3, InsertSlotIn, PageType
    <3>6. Spilled(roomy)
      BY <2>9, <3>3, <3>4, WidenedSpills
    <3>7. /\ Crowded(page)
          /\ Crowded(roomy.file[p].page) => ~Fits(page)
      BY <2>5, <3>3, Crowding
    <3> HIDE DEF sid, page
    <3>8. after.file[p].page = page
      BY <3>2, <3>4 DEF Behind, PageIs
    <3>9. Fits(page)
      BY <2>9, <3>3, <3>8 DEF Foreseen
    <3>10. roomy.file[p].spill = {}
      BY <3>3, <3>6, <3>7, <3>9 DEF Spilled, Chaining
    <3>11. PageIs(roomy, mid, p, 1, page, {sid})
      <4>1. (roomy.file[p].spill \ {sid}) \cup {sid} = {sid}
        BY <3>10
      <4> QED
        BY <3>4, <4>1
    <3> QED
      BY <2>8, <3>1, <3>2, <3>3, <3>5, <3>6, <3>7, <3>11, SpillPut
  <2> QED
    BY <2>7, <2>8, <2>9, GrownFurther
<1> QED
  BY <1>3, <1>4

\* A row of a slot is replaced.
LEMMA RowUpdated ==
  ASSUME TwoChunks, NEW st, NEW s, Sorted(st, s), NEW t \in Tables, NEW p \in Held(st, t),
         NEW sid \in Live(st.file[p].page), NEW r \in Rows,
         RoomFor(st, 1 + RestChunks(r)), NEW after, after = UpdateSlot(st, t, p, sid, r)
  PROVE  /\ \E rest : Grown(st, s, after, rest, t)
         /\ Spilled(st) /\ Foreseen(after) => Spilled(after)
<1> DEFINE gone == DeleteSlot(st, p, sid)
           put  == PutInPlace(st, p, sid, r)
<1>1. \/ after = put
      \/ after = PutRow(gone, p, r)
      \/ after = InsertRowIntoChain(gone, t, r)
  BY DEF UpdateSlot, PutInPlace
<1>0. st \in RowStore /\ st.file[p].page \in Page /\ p \in PageIds
  <2>1. st \in RowStore
    BY DEF Sorted
  <2>2. p \in PageIds
    BY <2>1, HeldFacts
  <2> QED
    BY <2>1, <2>2, RowPage DEF RowImage
<1>2. CASE after = put
  <2> DEFINE kind  == st.file[p].type
             page  == PageUpdate(st.file[p].page, sid, r)
             spill == st.file[p].spill \ {sid}
  <2>1. Touched(st, s, after) /\ PageIs(st, after, p, kind, page, spill)
    BY <1>2, SlotRewritten
  <2>2. spill \in SUBSET st.file[p].spill /\ (Crowded(st.file[p].page) => Crowded(page))
    BY <1>0, Crowding
  <2>3. Spilled(st) => kind # 2
    BY <1>0 DEF Spilled
  <2> HIDE DEF kind, page, spill
  <2>4. Spilled(st) => Spilled(after)
    BY <1>0, <2>1, <2>2, <2>3, SpillWritten DEF Touched
  <2> QED
    BY <2>1, <2>4, NothingGrown, GrownTouched
<1>3. Touched(st, s, gone) /\ Emptied(st, gone, p, sid)
  BY SlotDeleted
<1> HIDE DEF gone, put
<1>4. Sorted(gone, s) /\ p \in Held(gone, t) /\ RoomFor(gone, 1 + RestChunks(r))
  BY <1>3 DEF Touched, Held
<1>7. Spilled(st) => Spilled(gone)
  BY <1>3, SpillEmptied DEF Touched
<1>5. CASE after = PutRow(gone, p, r)
  <2> DEFINE page  == PageInsert(gone.file[p].page, r)
             spill == gone.file[p].spill \ {InsertSlot(gone.file[p].page, r)}
  <2>1. Touched(gone, s, after) /\ PageIs(gone, after, p, 1, page, spill)
    BY <1>4, <1>5, RowPut
  <2>2. Touched(st, s, after)
    BY <1>3, <2>1, TouchedTwice
  <2>3. gone \in RowStore /\ gone.file[p].page \in Page
    <3>1. gone \in RowStore
      BY <1>4 DEF Sorted
    <3> QED
      BY <1>0, <3>1, RowPage DEF RowImage
  <2>4. spill \in SUBSET gone.file[p].spill /\ (Crowded(gone.file[p].page) => Crowded(page))
    BY <2>3, Crowding
  <2> HIDE DEF page, spill
  <2>5. Spilled(gone) => Spilled(after)
    BY <1>4, <2>1, <2>3, <2>4, SpillWritten DEF Touched
  <2> QED
    BY <1>7, <2>2, <2>5, NothingGrown, GrownTouched
<1>6. CASE after = InsertRowIntoChain(gone, t, r)
  <2>1. PICK rest : Grown(gone, s, after, rest, t)
    BY <1>4, <1>6, RowInserted
  <2>2. Spilled(gone) /\ Foreseen(after) => Spilled(after)
    BY <1>4, <1>6, RowInserted
  <2>3. Grown(st, s, after, rest, t)
    BY <1>3, <2>1 DEF Grown, Touched
  <2> QED
    BY <1>7, <2>2, <2>3
<1> QED
  BY <1>1, <1>2, <1>5, <1>6
-----------------------------------------------------------------------------
(* The ranges. *)

\* The tables of a file: where the pages are, and in what ranges.
Tidy(st, s) == Sorted(st, s) /\ \A t \in Tables : Ranged(st, s, t)

LEMMA RangeFacts ==
  ASSUME NEW st, NEW s, Tidy(st, s), NEW t \in Tables, st.cat[t] # NoTable
  PROVE  /\ st.cat[t].root \in Held(st, t) /\ st.cat[t].next \in Held(st, t)
         /\ st.cat[t].root \in 2..(st.nextId - 1) /\ st.cat[t].next \in 2..(st.nextId - 1)
         /\ st.cat[t].root <= st.cat[t].next
         /\ st.nextId \in 2..(MaxPages + 1) /\ MaxPages \in Nat
         /\ Held(st, t) \subseteq st.cat[t].root..st.cat[t].next
<1>1. /\ st.cat[t].root \in Held(st, t) /\ st.cat[t].next \in Held(st, t)
      /\ Held(st, t) \subseteq st.cat[t].root..st.cat[t].next
  BY DEF Tidy, Ranged
<1>2. Held(st, t) \subseteq Own(st, t) /\ Own(st, t) \subseteq 2..(st.nextId - 1)
  BY HeldFacts DEF Tidy, Sorted
<1>3. st.nextId \in 2..(MaxPages + 1) /\ MaxPages \in Nat
  BY PagerPagesAssumption DEF Tidy, Sorted, RowStore
<1>4. st.cat[t].root <= st.cat[t].next
  <2>1. st.cat[t].root \in st.cat[t].root..st.cat[t].next
    BY <1>1
  <2>2. st.cat[t].root \in Int /\ st.cat[t].next \in Int
    BY <1>1, <1>2, <1>3
  <2> QED
    BY <2>1, <2>2
<1> QED
  BY <1>1, <1>2, <1>3, <1>4

\* The range of a table that exists, after such a statement.
LEMMA RangeApart ==
  ASSUME NEW st, NEW s, Sorted(st, s), Foreseen(st),
         NEW t \in Tables, st.cat[t] # NoTable
  PROVE  /\ st.cat[t].root <= st.cat[t].next
         /\ (st.cat[t].root..st.cat[t].next) \cap Elems(s) = {}
         /\ \A u \in Tables \ {t} : (st.cat[t].root..st.cat[t].next) \cap Own(st, u) = {}
<1>1. PageRange(st, t) = st.cat[t].root..st.cat[t].next
  BY DEF PageRange
<1>2. FreeList(st) = Elems(s)
  BY FreeListOf DEF Sorted
<1>3. \A u \in Tables : Own(st, u) \subseteq Reach(st, u)
  BY OwnReached DEF Sorted
<1> QED
  BY <1>1, <1>2, <1>3 DEF Foreseen, RangesApart

\* A table that a statement left alone.
LEMMA RangeStays ==
  ASSUME NEW st, NEW s, Tidy(st, s), NEW after, NEW rest,
         Sorted(after, rest), Foreseen(after),
         NEW u \in Tables, after.data[u] = st.data[u], after.cat[u] = st.cat[u]
  PROVE  Ranged(after, rest, u)
<1>1. Held(after, u) = Held(st, u)
  BY DEF Held
<1>2. CASE st.cat[u] = NoTable
  BY <1>2 DEF Tidy, Ranged
<1>3. CASE st.cat[u] # NoTable
  <2>1. /\ (after.cat[u].root..after.cat[u].next) \cap Elems(rest) = {}
        /\ \A v \in Tables \ {u} : (after.cat[u].root..after.cat[u].next) \cap Own(after, v) = {}
    BY <1>3, RangeApart
  <2>2. /\ {st.cat[u].root, st.cat[u].next} \subseteq Held(st, u)
        /\ Held(st, u) \subseteq st.cat[u].root..st.cat[u].next
    BY <1>3 DEF Tidy, Ranged
  <2>3. /\ {after.cat[u].root, after.cat[u].next} \subseteq Held(after, u)
        /\ Held(after, u) \subseteq after.cat[u].root..after.cat[u].next
        /\ after.cat[u] # NoTable
    BY <1>1, <1>3, <2>2
  <2> QED
    BY <2>1, <2>3 DEF Ranged
<1> QED
  BY <1>2, <1>3

LEMMA RangesKept ==
  ASSUME NEW st, NEW s, Tidy(st, s), NEW t \in Tables, st.cat[t] # NoTable,
         NEW after, NEW rest, Grown(st, s, after, rest, t), Foreseen(after)
  PROVE  Tidy(after, rest)
<1>1. Sorted(after, rest)
  BY DEF Grown
<1>2. ASSUME NEW u \in Tables, after.data[u] = st.data[u], after.cat[u] = st.cat[u]
      PROVE  Ranged(after, rest, u)
  BY <1>1, <1>2, RangeStays
<1>3. ASSUME NEW p \in PageIds, p \in Elems(s) \/ p >= st.nextId,
             after.data[t] = Append(st.data[t], p),
             after.cat[t] = [st.cat[t] EXCEPT !.next = p]
      PROVE  Ranged(after, rest, t)
  <2> DEFINE a == st.cat[t].root
             b == st.cat[t].next
  <2>1. /\ a \in Held(st, t) /\ b \in Held(st, t)
        /\ a \in 2..(st.nextId - 1) /\ b \in 2..(st.nextId - 1) /\ a <= b
        /\ st.nextId \in 2..(MaxPages + 1) /\ MaxPages \in Nat
        /\ Held(st, t) \subseteq a..b
    BY RangeFacts
  <2>2. st.cat[t] = [root |-> a, next |-> b]
    BY HeldFacts DEF Tidy, Sorted
  <2> HIDE DEF a, b
  <2>3. after.cat[t].root = a /\ after.cat[t].next = p /\ after.cat[t] # NoTable
    <3>1. after.cat[t] = [root |-> a, next |-> p]
      BY <1>3, <2>2
    <3>2. p # 0
      BY IdsFinite
    <3> QED
      BY <3>1, <3>2 DEF NoTable
  <2>4. /\ a <= p
        /\ (a..p) \cap Elems(rest) = {}
        /\ \A u \in Tables \ {t} : (a..p) \cap Own(after, u) = {}
    BY <1>1, <2>3, RangeApart
  <2>5. p \notin a..b
    <3>1. CASE p \in Elems(s)
      <4>1. Ranged(st, s, t)
        BY DEF Tidy
      <4>2. (st.cat[t].root..st.cat[t].next) \cap Elems(s) = {}
        BY <4>1 DEF Ranged
      <4> QED
        BY <3>1, <4>2 DEF a, b
    <3>2. CASE p >= st.nextId
      BY <2>1, <3>2, IdsFinite
    <3> QED
      BY <1>3, <3>1, <3>2
  <2>6. b <= p /\ p \in Nat
    BY <2>1, <2>4, <2>5, IdsFinite
  <2>7. Held(after, t) = Held(st, t) \cup {p}
    <3>1. st.data[t] \in Seq(PageIds)
      BY HeldFacts DEF Tidy, Sorted
    <3> QED
      BY <1>3, <3>1, SeqAppended DEF Held
  <2>8. Held(after, t) \subseteq a..p
    <3>1. a..b \subseteq a..p /\ p \in a..p
      BY <2>1, <2>4, <2>6
    <3> QED
      BY <2>1, <2>7, <3>1
  <2> QED
    BY <2>1, <2>3, <2>4, <2>7, <2>8 DEF Ranged
<1>4. \A u \in Tables \ {t} : Ranged(after, rest, u)
  BY <1>2 DEF Grown
<1>5. Ranged(after, rest, t)
  BY <1>2, <1>3 DEF Grown
<1> QED
  BY <1>1, <1>4, <1>5 DEF Tidy

\* A statement that raised: the pages it popped are cleared and in no list.
LEMMA RangesLeft ==
  ASSUME NEW st, NEW s, Tidy(st, s), NEW t \in Tables,
         NEW tried, NEW rest, Grown(st, s, tried, rest, t),
         NEW after, after.head = tried.head, after.nextId = tried.nextId,
         after.cat = st.cat, after.data = st.data,
         after = [file |-> after.file, head |-> after.head, nextId |-> after.nextId,
                  cat |-> after.cat, data |-> after.data],
         after.file = [p \in DOMAIN st.file |->
                         IF p \in FreeList(st) \ FreeList(tried) THEN Zeroed ELSE st.file[p]]
  PROVE  /\ Tidy(after, rest)
         /\ Spilled(st) => Spilled(after)
<1>1. /\ st \in RowStore /\ tried \in RowStore
      /\ FreeList(st) = Elems(s) /\ FreeList(tried) = Elems(rest)
      /\ Elems(rest) \subseteq Elems(s) /\ Elems(s) \subseteq PageIds
      /\ st.nextId <= tried.nextId
      /\ tried.nextId \in Nat /\ st.nextId \in Nat
  <2>1. Sorted(st, s) /\ Sorted(tried, rest)
    BY DEF Tidy, Grown
  <2>2. Elems(s) \subseteq PageIds
    BY <2>1, SeqFacts DEF Sorted, Linked
  <2>3. st \in RowStore /\ tried \in RowStore
    BY <2>1 DEF Sorted
  <2>4. tried.nextId \in Nat /\ st.nextId \in Nat
    BY <2>3, PagerPagesAssumption DEF RowStore
  <2> QED
    BY <2>1, <2>2, <2>3, <2>4, FreeListOf DEF Sorted, Grown
<1>2. /\ after \in RowStore
      /\ \A p \in PageIds : after.file[p] =
                             IF p \in Elems(s) \ Elems(rest) THEN Zeroed ELSE st.file[p]
  <2> DEFINE F(p) == IF p \in Elems(s) \ Elems(rest) THEN Zeroed ELSE st.file[p]
  <2>1. after.file = [p \in 1..MaxPages |-> F(p)]
    BY <1>1 DEF RowStore
  <2>2. \A p \in 1..MaxPages : F(p) \in RowImage
    BY <1>1, ZeroedRow DEF RowStore
  <2>3. \A p \in PageIds : p \in 1..MaxPages
    BY IdsFinite
  <2> HIDE DEF F
  <2>4. after.file \in [1..MaxPages -> RowImage] /\ \A p \in PageIds : after.file[p] = F(p)
    BY <2>1, <2>2, <2>3
  <2>5. /\ after.head \in Nat /\ after.nextId \in 2..(MaxPages + 1)
        /\ after.cat \in [Tables -> [root : Nat, next : Nat]]
        /\ after.data \in [Tables -> Seq(PageIds)]
    BY <1>1 DEF RowStore
  <2>6. after \in RowStore
    BY <2>4, <2>5 DEF RowStore
  <2> QED
    BY <2>4, <2>6 DEF F
<1>3. \A t1 \in Tables : Held(after, t1) = Held(st, t1)
  BY DEF Held
<1>4. \A t1 \in Tables : Own(after, t1) = Own(st, t1) /\ Own(st, t1) \cap Elems(s) = {}
  <2> SUFFICES ASSUME NEW u \in Tables
               PROVE  Own(after, u) = Own(st, u) /\ Own(st, u) \cap Elems(s) = {}
    OBVIOUS
  <2>1. Held(st, u) \subseteq PageIds /\ Held(st, u) \subseteq Own(st, u)
    BY <1>1, HeldFacts
  <2>2. Own(st, u) \cap Elems(s) = {}
    BY DEF Tidy, Sorted
  <2>3. \A p \in Held(st, u) : after.file[p] = st.file[p]
    BY <1>2, <2>1, <2>2
  <2> QED
    BY <1>3, <2>2, <2>3 DEF Own
<1>5. Sorted(after, rest)
  <2>1. Linked(after.head, after.file, rest)
    <3>1. Linked(tried.head, tried.file, rest)
      BY DEF Grown, Sorted
    <3>2. \A p \in Elems(rest) : after.file[p].link = tried.file[p].link
      BY <1>1, <1>2 DEF Grown
    <3> QED
      BY <3>1, <3>2, LinkedElsewhere
  <2>2. Elems(rest) \subseteq 2..(after.nextId - 1)
    BY DEF Grown, Sorted
  <2>3. \A u \in Tables : Own(after, u) \subseteq (2..(after.nextId - 1)) \ Elems(rest)
    <3>1. 2..(st.nextId - 1) \subseteq 2..(after.nextId - 1)
      BY <1>1
    <3>2. \A u \in Tables : Own(st, u) \subseteq 2..(st.nextId - 1)
      BY DEF Tidy, Sorted
    <3> QED
      BY <1>1, <1>4, <3>1, <3>2
  <2>4. \A u, v \in Tables : u # v => Own(after, u) \cap Own(after, v) = {}
    BY <1>4 DEF Tidy, Sorted
  <2>5. \A p \in PageIds : after.file[p].chain \in PageIds =>
          p \in Elems(rest) \/ \E u \in Tables : p \in Held(after, u)
    <3> SUFFICES ASSUME NEW p \in PageIds, after.file[p].chain \in PageIds
                 PROVE  p \in Elems(rest) \/ \E u \in Tables : p \in Held(after, u)
      OBVIOUS
    <3>1. p \notin Elems(s) \ Elems(rest)
      BY <1>2, ZeroedRow, IdsFinite
    <3>2. st.file[p].chain \in PageIds
      BY <1>2, <3>1
    <3>3. p \in Elems(s) \/ \E u \in Tables : p \in Held(st, u)
      BY <3>2 DEF Tidy, Sorted
    <3> QED
      BY <1>3, <3>1, <3>3
  <2>6. \A p \in PageIds : p >= after.nextId => after.file[p] = Zeroed
    <3>1. \A p \in PageIds : p >= after.nextId => p >= st.nextId
      BY <1>1, IdsFinite
    <3>2. \A p \in PageIds : p >= st.nextId => st.file[p] = Zeroed
      BY DEF Tidy, Sorted
    <3> QED
      BY <1>2, <3>1, <3>2
  <2> QED
    BY <1>2, <2>1, <2>2, <2>3, <2>4, <2>5, <2>6 DEF Sorted
<1>6. ASSUME NEW u \in Tables PROVE Ranged(after, rest, u)
  <2>1. Ranged(st, s, u)
    BY DEF Tidy
  <2> QED
    BY <1>1, <1>3, <1>4, <2>1 DEF Ranged
<1>7. ASSUME Spilled(st) PROVE Spilled(after)
  <2> DEFINE W == Elems(s) \ Elems(rest)
  <2>1. \A u \in Tables : Held(st, u) \subseteq PageIds /\ Held(st, u) \subseteq Own(st, u)
    BY <1>1, HeldFacts
  <2>2. \A q \in PageIds \ W : after.file[q] = st.file[q]
    BY <1>2
  <2>3. \A q \in W : after.file[q].type # 2 /\ after.file[q].spill = {}
    <3>1. Zeroed.type # 2 /\ Zeroed.spill = {}
      BY DEF Zeroed
    <3> QED
      BY <1>1, <1>2, <3>1
  <2>4. \A u \in Tables : \A q \in Held(after, u) : q \in W \/ st.file[q].type # 2
    BY <1>3, <1>7, <2>1 DEF Spilled
  <2>5. ASSUME NEW q \in PageIds \ W, st.file[q].spill # {}
        PROVE  st.file[q].chain \notin W /\ \E u \in Tables : q \in Held(after, u)
    <3>1. PICK u \in Tables : q \in Held(st, u) /\ st.file[q].chain \in Own(st, u)
      BY <1>7, <2>5, ChainOwned
    <3> QED
      BY <1>3, <1>4, <3>1
  <2> HIDE DEF W
  <2>6. Outside(st, after, W)
    BY <2>2, <2>3, <2>4, <2>5 DEF Outside
  <2> QED
    BY <1>7, <2>6, SpillSame
<1>8. Tidy(after, rest)
  BY <1>5, <1>6 DEF Tidy
<1> QED
  BY <1>7, <1>8

\* The root page of a new table.
Rooted(st, t) ==
  LET root == Fresh(st)
  IN [AllocPage(st) EXCEPT
        !.file[root] = [Zeroed EXCEPT !.type = 1, !.chain = NullPage],
        !.cat[t] = [root |-> root, next |-> root],
        !.data[t] = <<root>>]

LEMMA TableCreated ==
  ASSUME NEW st, NEW s, Tidy(st, s), NEW t \in Tables, st.cat[t] = NoTable,
         RoomFor(st, 1), NEW after, after = Rooted(st, t), Foreseen(after)
  PROVE  /\ \E rest : Tidy(after, rest)
         /\ Spilled(st) => Spilled(after)
<1> DEFINE root  == Fresh(st)
           got   == AllocPage(st)
           image == [Zeroed EXCEPT !.type = 1, !.chain = NullPage]
           entry == [root |-> root, next |-> root]
<1>1. RoomFor(st, 0 + 1) /\ Sorted(st, s)
  BY DEF Tidy
<1>2. PICK rest :
           /\ Sorted(got, rest)
           /\ Elems(rest) = Elems(s) \ {root}
           /\ root \in PageIds /\ root < got.nextId
           /\ root \in Elems(s) \/ root >= st.nextId
           /\ \A x \in Tables : root \notin Own(st, x) /\ Own(got, x) = Own(st, x)
           /\ got.data = st.data /\ got.cat = st.cat
           /\ st.nextId <= got.nextId
           /\ \A q \in PageIds : q # root => got.file[q] = st.file[q]
           /\ got.file[root] = Zeroed
  BY <1>1, RowPageAllocated
<1>3. after = [got EXCEPT !.file[root] = image, !.cat[t] = entry, !.data[t] = <<root>>]
  BY DEF Rooted
<1>4. /\ image \in RowImage /\ image.chain = NullPage
      /\ image.type = 1 /\ image.spill = {}
  <2> DEFINE z == Zeroed
  <2>1. NullPage \in Nat
    BY PagerPagesAssumption DEF NullPage
  <2>2. z \in RowImage /\ z.spill = {}
    BY ZeroedRow DEF Zeroed
  <2>3. image = [z EXCEPT !.type = 1, !.chain = NullPage]
    OBVIOUS
  <2> HIDE DEF z, image
  <2>4. image = [type |-> 1, link |-> z.link, chain |-> NullPage, page |-> z.page,
                 spill |-> z.spill, body |-> z.body]
    BY <2>2, <2>3 DEF RowImage
  <2> QED
    BY <2>1, <2>2, <2>4 DEF RowImage
<1> HIDE DEF root, got, image
<1>5. /\ got \in RowStore /\ got.nextId \in Nat /\ root \in 1..MaxPages
      /\ Elems(rest) \subseteq PageIds /\ root \in 2..(got.nextId - 1)
      /\ NullPage \notin PageIds /\ root \in Nat
  <2>1. got \in RowStore
    BY <1>2 DEF Sorted
  <2>2. got.nextId \in Nat /\ MaxPages \in Nat
    BY <2>1, PagerPagesAssumption DEF RowStore
  <2>3. Elems(rest) \subseteq PageIds
    BY <1>2, SeqFacts DEF Sorted, Linked
  <2>4. root \in 2..(got.nextId - 1) /\ root \in 1..MaxPages /\ root \in Nat
    BY <1>2, <2>2, IdsFinite DEF PageIds
  <2> QED
    BY <2>1, <2>2, <2>3, <2>4 DEF NullPage, PageIds
<1>6. /\ after \in RowStore
      /\ after.file[root] = image
      /\ \A q \in PageIds : q # root => after.file[q] = got.file[q]
      /\ after.head = got.head /\ after.nextId = got.nextId
      /\ after.cat[t] = entry /\ after.data[t] = <<root>>
      /\ \A u \in Tables \ {t} : after.cat[u] = st.cat[u] /\ after.data[u] = st.data[u]
  <2> DEFINE f == [got.file EXCEPT ![root] = image]
             c == [got.cat EXCEPT ![t] = entry]
             d == [got.data EXCEPT ![t] = <<root>>]
  <2>1. after = [file |-> f, head |-> got.head, nextId |-> got.nextId, cat |-> c, data |-> d]
    BY <1>3, <1>5 DEF RowStore
  <2>2. /\ f \in [1..MaxPages -> RowImage] /\ f[root] = image
        /\ \A q \in PageIds : q # root => f[q] = got.file[q]
    BY <1>4, <1>5, IdsFinite DEF RowStore
  <2>3. /\ c \in [Tables -> [root : Nat, next : Nat]] /\ c[t] = entry
        /\ \A u \in Tables \ {t} : c[u] = got.cat[u]
    BY <1>5 DEF RowStore
  <2>4. /\ d \in [Tables -> Seq(PageIds)] /\ d[t] = <<root>>
        /\ \A u \in Tables \ {t} : d[u] = got.data[u]
    BY <1>2, <1>5 DEF RowStore
  <2>5. got.head \in Nat /\ got.nextId \in 2..(MaxPages + 1)
    BY <1>5 DEF RowStore
  <2> HIDE DEF f, c, d, entry
  <2>6. after \in RowStore
    BY <2>1, <2>2, <2>3, <2>4, <2>5 DEF RowStore
  <2> QED
    BY <1>2, <2>1, <2>2, <2>3, <2>4, <2>6
<1>7. /\ Held(after, t) = {root} /\ Held(st, t) = {}
      /\ \A u \in Tables \ {t} : Held(after, u) = Held(st, u)
  <2>1. st.data[t] = << >>
    BY DEF Tidy, Ranged
  <2>2. Elems(<< >>) = {} /\ Elems(<<root>>) = {root}
    BY DEF Elems
  <2> QED
    BY <1>6, <2>1, <2>2 DEF Held
<1>8. /\ Own(after, t) = {root}
      /\ \A u \in Tables \ {t} : Own(after, u) = Own(st, u)
  <2>1. \A u \in Tables : Held(st, u) \subseteq PageIds /\ root \notin Held(st, u)
    BY <1>1, <1>2, HeldFacts DEF Sorted
  <2>2. \A u \in Tables : \A q \in Held(st, u) : after.file[q] = st.file[q]
    BY <1>2, <1>6, <2>1
  <2> QED
    BY <1>4, <1>5, <1>6, <1>7, <2>2 DEF Own
<1>9. Sorted(after, rest)
  <2>1. Linked(after.head, after.file, rest)
    <3>1. Linked(got.head, got.file, rest)
      BY <1>2 DEF Sorted
    <3>2. \A q \in Elems(rest) : after.file[q].link = got.file[q].link
      BY <1>2, <1>5, <1>6
    <3> QED
      BY <1>6, <3>1, <3>2, LinkedElsewhere
  <2>2. Elems(rest) \subseteq 2..(after.nextId - 1)
    BY <1>2, <1>6 DEF Sorted
  <2>3. \A x \in Tables : Own(after, x) \subseteq (2..(after.nextId - 1)) \ Elems(rest)
    <3>1. \A x \in Tables : Own(got, x) \subseteq (2..(got.nextId - 1)) \ Elems(rest)
      BY <1>2 DEF Sorted
    <3> QED
      BY <1>2, <1>5, <1>6, <1>8, <3>1
  <2>4. \A x, y \in Tables : x # y => Own(after, x) \cap Own(after, y) = {}
    <3>1. \A x, y \in Tables : x # y => Own(st, x) \cap Own(st, y) = {}
      BY <1>1 DEF Sorted
    <3> QED
      BY <1>2, <1>8, <3>1
  <2>5. \A q \in PageIds : after.file[q].chain \in PageIds =>
          q \in Elems(rest) \/ \E x \in Tables : q \in Held(after, x)
    <3>1. \A q \in PageIds : got.file[q].chain \in PageIds =>
            q \in Elems(rest) \/ \E x \in Tables : q \in Held(got, x)
      BY <1>2 DEF Sorted
    <3>2. \A x \in Tables : Held(got, x) = Held(st, x)
      BY <1>2 DEF Held
    <3> SUFFICES ASSUME NEW q \in PageIds, after.file[q].chain \in PageIds
                 PROVE  q \in Elems(rest) \/ \E x \in Tables : q \in Held(after, x)
      OBVIOUS
    <3>3. q # root
      BY <1>4, <1>5, <1>6
    <3>4. q \in Elems(rest) \/ \E x \in Tables : q \in Held(st, x)
      BY <1>6, <3>1, <3>2, <3>3
    <3> QED
      BY <1>7, <3>4
  <2>6. \A q \in PageIds : q >= after.nextId => after.file[q] = Zeroed
    <3>1. \A q \in PageIds : q >= got.nextId => got.file[q] = Zeroed /\ q # root
      BY <1>2, <1>5 DEF Sorted
    <3> QED
      BY <1>6, <3>1
  <2> QED
    BY <1>6, <2>1, <2>2, <2>3, <2>4, <2>5, <2>6 DEF Sorted
<1>10. Ranged(after, rest, t)
  <2>1. after.cat[t].root = root /\ after.cat[t].next = root /\ after.cat[t] # NoTable
    <3>1. root # 0
      BY <1>2, IdsFinite
    <3> QED
      BY <1>6, <3>1 DEF NoTable
  <2>2. root..root = {root}
    BY <1>5
  <2>3. root \notin Elems(rest) /\ \A u \in Tables \ {t} : root \notin Own(after, u)
    BY <1>2, <1>8
  <2> QED
    BY <1>7, <2>1, <2>2, <2>3 DEF Ranged
<1>11. \A u \in Tables \ {t} : Ranged(after, rest, u)
  BY <1>6, <1>9, RangeStays
<1>12. ASSUME Spilled(st) PROVE Spilled(after)
  <2> DEFINE W == {root}
  <2>1. \A q \in PageIds \ W : after.file[q] = st.file[q]
    BY <1>2, <1>6
  <2>2. \A q \in W : after.file[q].type # 2 /\ after.file[q].spill = {}
    BY <1>4, <1>6
  <2>3. ASSUME NEW u \in Tables, NEW q \in Held(after, u)
        PROVE  q \in W \/ st.file[q].type # 2
    <3>1. CASE u = t
      BY <1>7, <2>3, <3>1
    <3>2. CASE u # t
      <4>1. q \in Held(st, u) /\ q \in PageIds
        BY <1>1, <1>7, <2>3, <3>2, HeldFacts DEF Sorted
      <4> QED
        BY <1>12, <4>1 DEF Spilled
    <3> QED
      BY <3>1, <3>2
  <2>4. ASSUME NEW q \in PageIds \ W, st.file[q].spill # {}
        PROVE  st.file[q].chain \notin W /\ \E u \in Tables : q \in Held(after, u)
    <3>1. PICK u \in Tables : q \in Held(st, u) /\ st.file[q].chain \in Own(st, u)
      BY <1>12, <2>4, ChainOwned
    <3> QED
      BY <1>2, <1>7, <3>1
  <2> HIDE DEF W
  <2>5. Outside(st, after, W)
    BY <2>1, <2>2, <2>3, <2>4 DEF Outside
  <2> QED
    BY <1>12, <2>5, SpillSame
<1> QED
  BY <1>9, <1>10, <1>11, <1>12 DEF Tidy

\* The pages of a range, in order.
RangePages(st, t) ==
  [i \in 1..Cardinality(PageRange(st, t)) |-> st.cat[t].root + i - 1]

LEMMA RangeListed ==
  ASSUME NEW st, NEW s, Tidy(st, s), NEW t \in Tables
  PROVE  /\ PageRange(st, t) \subseteq PageIds
         /\ RangePages(st, t) \in Seq(PageIds)
         /\ Elems(RangePages(st, t)) = PageRange(st, t)
         /\ st.cat[t] = NoTable => RangePages(st, t) = << >>
<1> DEFINE v == RangePages(st, t)
<1>1. CASE st.cat[t] = NoTable
  <2>1. PageRange(st, t) = {} /\ Cardinality(PageRange(st, t)) = 0
    BY <1>1, FS_EmptySet DEF PageRange
  <2>2. v = << >>
    BY <2>1 DEF RangePages
  <2> QED
    BY <2>1, <2>2 DEF Elems
<1>2. CASE st.cat[t] # NoTable
  <2> DEFINE a == st.cat[t].root
             b == st.cat[t].next
  <2>1. /\ a \in 2..(st.nextId - 1) /\ b \in 2..(st.nextId - 1) /\ a <= b
        /\ st.nextId \in 2..(MaxPages + 1) /\ MaxPages \in Nat
    BY <1>2, RangeFacts
  <2>2. PageRange(st, t) = a..b
    BY <1>2 DEF PageRange
  <2> DEFINE n == b - a + 1
  <2>3. v = [i \in 1..Cardinality(PageRange(st, t)) |-> a + i - 1]
    BY DEF RangePages
  <2> HIDE DEF a, b
  <2>4. n \in Nat /\ Cardinality(PageRange(st, t)) = n
    <3>1. Cardinality(a..b) = n
      BY <2>1, FS_Interval
    <3> QED
      BY <2>1, <2>2, <3>1
  <2> HIDE DEF v
  <2>5. v = [i \in 1..n |-> a + i - 1]
    BY <2>3, <2>4
  <2>6. \A i \in 1..n : a + i - 1 \in a..b
    BY <2>1
  <2>7. a..b \subseteq PageIds
    BY <2>1 DEF PageIds
  <2>8. v \in Seq(PageIds) /\ Len(v) = n
    BY <2>4, <2>5, <2>6, <2>7
  <2>9. Elems(v) = a..b
    <3>1. ASSUME NEW p \in a..b PROVE p \in Elems(v)
      <4>1. p - a + 1 \in 1..n /\ a + (p - a + 1) - 1 = p
        BY <2>1
      <4>2. v[p - a + 1] = p
        BY <2>5, <4>1
      <4> QED
        BY <2>5, <4>1, <4>2 DEF Elems
    <3>2. ASSUME NEW p \in Elems(v) PROVE p \in a..b
      BY <2>5, <2>6 DEF Elems
    <3> QED
      BY <3>1, <3>2
  <2> QED
    BY <1>2, <2>2, <2>7, <2>8, <2>9 DEF v
<1> QED
  BY <1>1, <1>2

\* Of the pages in the range of a table, only its own lead anywhere.
LEMMA RangeChains ==
  ASSUME NEW st, NEW s, Tidy(st, s), NEW t \in Tables, NEW p \in PageRange(st, t),
         st.file[p].chain \in PageIds
  PROVE  p \in Held(st, t)
<1>1. st.cat[t] # NoTable /\ PageRange(st, t) = st.cat[t].root..st.cat[t].next
  BY DEF PageRange
<1>2. p \in PageIds
  BY RangeListed
<1>3. Ranged(st, s, t)
  BY DEF Tidy
<1>4. p \notin Elems(s) /\ \A u \in Tables \ {t} : p \notin Own(st, u)
  BY <1>1, <1>3 DEF Ranged
<1>5. \A u \in Tables : Held(st, u) \subseteq Own(st, u)
  BY HeldFacts DEF Tidy, Sorted
<1>6. \E u \in Tables : p \in Held(st, u)
  BY <1>2, <1>4 DEF Tidy, Sorted
<1> QED
  BY <1>4, <1>5, <1>6

\* Every page of the range is taken for a data page.
LEMMA RangesReopened ==
  ASSUME NEW st, NEW s, Tidy(st, s), NEW after \in RowStore,
         after.file = st.file, after.head = st.head, after.nextId = st.nextId,
         after.cat = st.cat, after.data = [t \in Tables |-> RangePages(st, t)]
  PROVE  /\ Tidy(after, s)
         /\ \/ \E t \in Tables : \E p \in PageRange(st, t) : st.file[p].type = 2
            \/ Spilled(st) => Spilled(after)
<1>1. \A t \in Tables : Held(after, t) = PageRange(st, t)
  BY RangeListed DEF Held
<1>2. \A t \in Tables : Held(st, t) \subseteq PageRange(st, t)
  <2> SUFFICES ASSUME NEW t \in Tables PROVE Held(st, t) \subseteq PageRange(st, t)
    OBVIOUS
  <2>1. CASE st.cat[t] = NoTable
    <3>1. st.data[t] = << >>
      BY <2>1 DEF Tidy, Ranged
    <3> QED
      BY <3>1 DEF Held, Elems
  <2>2. CASE st.cat[t] # NoTable
    BY <2>2, RangeFacts DEF PageRange
  <2> QED
    BY <2>1, <2>2
<1>3. \A t \in Tables : Own(after, t) = PageRange(st, t) \cup Own(st, t)
  <2> SUFFICES ASSUME NEW t \in Tables PROVE Own(after, t) = PageRange(st, t) \cup Own(st, t)
    OBVIOUS
  <2>1. ASSUME NEW p \in PageRange(st, t), st.file[p].chain \in PageIds
        PROVE  st.file[p].chain \in Own(st, t)
    BY <2>1, RangeChains DEF Own
  <2>2. Held(after, t) = PageRange(st, t) /\ Held(st, t) \subseteq PageRange(st, t)
    BY <1>1, <1>2
  <2> QED
    BY <2>1, <2>2 DEF Own
<1>4. ASSUME NEW t \in Tables, NEW u \in Tables, t # u
      PROVE  /\ PageRange(st, t) \cap Own(st, u) = {}
             /\ PageRange(st, t) \cap PageRange(st, u) = {}
  <2>1. CASE st.cat[t] = NoTable \/ st.cat[u] = NoTable
    <3>1. ASSUME st.cat[t] # NoTable PROVE PageRange(st, t) \cap Own(st, u) = {}
      <4>1. Ranged(st, s, t)
        BY DEF Tidy
      <4> QED
        BY <1>4, <3>1, <4>1 DEF Ranged, PageRange
    <3> QED
      BY <2>1, <3>1 DEF PageRange
  <2>2. CASE st.cat[t] # NoTable /\ st.cat[u] # NoTable
    <3> DEFINE a == st.cat[t].root
               b == st.cat[t].next
               c == st.cat[u].root
               d == st.cat[u].next
    <3>1. Ranged(st, s, t) /\ Ranged(st, s, u)
      BY DEF Tidy
    <3>2. (a..b) \cap Own(st, u) = {} /\ (c..d) \cap Own(st, t) = {}
      BY <1>4, <2>2, <3>1 DEF Ranged
    <3>3. a \in Own(st, t) /\ b \in Own(st, t) /\ c \in Own(st, u) /\ d \in Own(st, u)
      <4>1. \A x \in Tables : Held(st, x) \subseteq Own(st, x)
        BY HeldFacts DEF Tidy, Sorted
      <4>2. a \in Held(st, t) /\ b \in Held(st, t) /\ c \in Held(st, u) /\ d \in Held(st, u)
        BY <2>2, RangeFacts
      <4> HIDE DEF a, b, c, d
      <4> QED
        BY <4>1, <4>2
    <3>4. /\ a \in Int /\ b \in Int /\ c \in Int /\ d \in Int /\ a <= b /\ c <= d
      <4>1. /\ a \in 2..(st.nextId - 1) /\ b \in 2..(st.nextId - 1) /\ a <= b
            /\ c \in 2..(st.nextId - 1) /\ d \in 2..(st.nextId - 1) /\ c <= d
        BY <2>2, RangeFacts
      <4> HIDE DEF a, b, c, d
      <4> QED
        BY <4>1
    <3>5. PageRange(st, t) = a..b /\ PageRange(st, u) = c..d
      BY <2>2 DEF PageRange
    <3> HIDE DEF a, b, c, d
    <3>6. (a..b) \cap (c..d) = {}
      <4>1. c \notin a..b /\ a \notin c..d
        BY <3>2, <3>3
      <4> QED
        BY <3>4, <4>1
    <3> QED
      BY <3>2, <3>5, <3>6
  <2> QED
    BY <2>1, <2>2
<1>5. \A t \in Tables : /\ PageRange(st, t) \cap Elems(s) = {}
                        /\ PageRange(st, t) \subseteq 2..(st.nextId - 1)
  <2> SUFFICES ASSUME NEW t \in Tables, st.cat[t] # NoTable
               PROVE  /\ PageRange(st, t) \cap Elems(s) = {}
                      /\ PageRange(st, t) \subseteq 2..(st.nextId - 1)
    BY DEF PageRange
  <2> DEFINE a == st.cat[t].root
             b == st.cat[t].next
  <2>1. PageRange(st, t) = a..b
    BY DEF PageRange
  <2>2. (a..b) \cap Elems(s) = {}
    BY DEF Tidy, Ranged
  <2>3. /\ a \in 2..(st.nextId - 1) /\ b \in 2..(st.nextId - 1)
        /\ st.nextId \in 2..(MaxPages + 1) /\ MaxPages \in Nat
    BY RangeFacts
  <2> HIDE DEF a, b
  <2>4. a..b \subseteq 2..(st.nextId - 1)
    BY <2>3
  <2> QED
    BY <2>1, <2>2, <2>4
<1>6. Sorted(after, s)
  <2>1. \A t \in Tables : Own(after, t) \subseteq (2..(st.nextId - 1)) \ Elems(s)
    <3>1. \A t \in Tables : Own(st, t) \subseteq (2..(st.nextId - 1)) \ Elems(s)
      BY DEF Tidy, Sorted
    <3> QED
      BY <1>3, <1>5, <3>1
  <2>2. \A t, u \in Tables : t # u => Own(after, t) \cap Own(after, u) = {}
    <3>1. \A t, u \in Tables : t # u => Own(st, t) \cap Own(st, u) = {}
      BY DEF Tidy, Sorted
    <3> QED
      BY <1>3, <1>4, <3>1
  <2>3. \A p \in PageIds : after.file[p].chain \in PageIds =>
          p \in Elems(s) \/ \E t \in Tables : p \in Held(after, t)
    <3>1. \A p \in PageIds : st.file[p].chain \in PageIds =>
            p \in Elems(s) \/ \E t \in Tables : p \in Held(st, t)
      BY DEF Tidy, Sorted
    <3> QED
      BY <1>1, <1>2, <3>1
  <2>4. /\ Linked(st.head, st.file, s)
        /\ Elems(s) \subseteq 2..(st.nextId - 1)
        /\ \A p \in PageIds : p >= st.nextId => st.file[p] = Zeroed
    BY DEF Tidy, Sorted
  <2> QED
    BY <2>1, <2>2, <2>3, <2>4 DEF Sorted
<1>7. ASSUME NEW t \in Tables PROVE Ranged(after, s, t)
  <2>1. CASE st.cat[t] = NoTable
    BY <2>1, RangeListed DEF Ranged
  <2>2. CASE st.cat[t] # NoTable
    <3>1. /\ PageRange(st, t) = st.cat[t].root..st.cat[t].next
          /\ {st.cat[t].root, st.cat[t].next} \subseteq PageRange(st, t)
      BY <1>2, <2>2, RangeFacts DEF PageRange
    <3>2. \A u \in Tables \ {t} : PageRange(st, t) \cap Own(after, u) = {}
      BY <1>3, <1>4
    <3> QED
      BY <1>1, <1>5, <2>2, <3>1, <3>2 DEF Ranged
  <2> QED
    BY <2>1, <2>2
<1>8. ASSUME \A t \in Tables : \A p \in PageRange(st, t) : st.file[p].type # 2, Spilled(st)
      PROVE  Spilled(after)
  <2>1. ASSUME NEW q \in PageIds, st.file[q].spill # {}
        PROVE  \E t \in Tables : q \in Held(after, t)
    BY <1>1, <1>2, <1>8, <2>1, ChainOwned
  <2>2. \A t \in Tables : \A q \in Held(after, t) : st.file[q].type # 2
    BY <1>1, <1>8
  <2>3. Outside(st, after, {})
    BY <2>1, <2>2 DEF Outside
  <2> QED
    BY <1>8, <2>3, SpillSame
<1>9. Tidy(after, s)
  BY <1>6, <1>7 DEF Tidy
<1> QED
  BY <1>8, <1>9
-----------------------------------------------------------------------------
(* DROP TABLE. *)

\* No element twice.
Distinct(s) == \A i, j \in DOMAIN s : s[i] = s[j] => i = j

LEMMA OnceAdded ==
  ASSUME NEW s \in Seq(PageIds), Distinct(s), NEW p \in PageIds, NEW to, to = Once(s, p)
  PROVE  /\ to \in Seq(PageIds) /\ Distinct(to)
         /\ Elems(to) = Elems(s) \cup {p}
<1>1. ToSet(s) = Elems(s)
  BY DEF ToSet, Elems
<1>2. CASE p \in Elems(s)
  BY <1>1, <1>2 DEF Once
<1>3. CASE p \notin Elems(s)
  <2>1. to = Append(s, p)
    BY <1>1, <1>3 DEF Once
  <2>2. /\ to \in Seq(PageIds) /\ Len(to) = Len(s) + 1 /\ Len(s) \in Nat
        /\ to[Len(s) + 1] = p /\ \A i \in 1..Len(s) : to[i] = s[i]
        /\ DOMAIN to = 1..(Len(s) + 1) /\ DOMAIN s = 1..Len(s)
    BY <2>1
  <2>3. \A i \in 1..Len(s) : s[i] # p
    BY <1>3, <2>2 DEF Elems
  <2>4. Distinct(to)
    <3> SUFFICES ASSUME NEW i \in 1..(Len(s) + 1), NEW j \in 1..(Len(s) + 1), to[i] = to[j]
                 PROVE  i = j
      BY <2>2 DEF Distinct
    <3>1. i \in 1..Len(s) \/ i = Len(s) + 1
      BY <2>2
    <3>2. j \in 1..Len(s) \/ j = Len(s) + 1
      BY <2>2
    <3> QED
      BY <2>2, <2>3, <3>1, <3>2 DEF Distinct
  <2> QED
    BY <2>1, <2>2, <2>4, SeqAppended
<1> QED
  BY <1>2, <1>3

LEMMA OnceFold ==
  ASSUME NEW S, NEW s \in Seq(S), NEW b
  PROVE  \E g : /\ g[0] = b
                /\ \A k \in 1..Len(s) : g[k] = Once(g[k - 1], s[k])
                /\ FoldLeft(Once, b, s) = g[Len(s)]
<1> DEFINE n == Len(s)
           Code(f) == f = [t \in SUBSET (1..n) |->
                             IF t = {} THEN b
                             ELSE Once(f[t \ {Max(t)}], s[Max(t)])]
           it == CHOOSE f : Code(f)
<1>1. n \in Nat /\ DOMAIN s = 1..n
  OBVIOUS
<1>2. FoldLeft(Once, b, s) = it[1..n]
  BY <1>1, Zenon DEF FoldLeft, MapThenFoldSet
<1>3. \A f : Code(f) <=> Iterates(f, n, "once", 0, b, s)
  BY DEF Iterates, Apply
<1> HIDE DEF n, Code
<1>4. Iterates(it, n, "once", 0, b, s)
  <2>1. PICK f : Iterates(f, n, "once", 0, b, s)
    BY <1>1, IterExists
  <2> QED
    BY <1>3, <2>1, Zenon
<1> HIDE DEF it
<1>5. \E g : /\ g[0] = b
             /\ \A k \in 1..n : g[k] = Apply("once", 0, g[k - 1], s[k])
             /\ it[1..n] = g[n]
  BY <1>1, <1>4, IterSteps, SMTT(30)
<1>6. \A a, x : Apply("once", 0, a, x) = Once(a, x)
  BY DEF Apply
<1> QED
  BY <1>2, <1>5, <1>6, Zenon DEF n

\* The pages of a chain are added to those collected.
LEMMA AllAdded ==
  ASSUME NEW s \in Seq(PageIds), Distinct(s), NEW more \in Seq(PageIds),
         NEW to, to = FoldLeft(Once, s, more)
  PROVE  /\ to \in Seq(PageIds) /\ Distinct(to)
         /\ Elems(to) = Elems(s) \cup Elems(more)
<1>0. PICK g : /\ g[0] = s
               /\ \A k \in 1..Len(more) : g[k] = Once(g[k - 1], more[k])
               /\ FoldLeft(Once, s, more) = g[Len(more)]
  <2>1. more \in Seq(PageIds)
    OBVIOUS
  <2> QED
    BY ONLY <2>1, OnceFold, Zenon
<1> DEFINE n == Len(more)
           part(k) == {more[i] : i \in 1..k}
<1>1. n \in Nat /\ DOMAIN more = 1..n /\ \A i \in 1..n : more[i] \in PageIds
  OBVIOUS
<1>2. /\ g[0] = s
      /\ \A k \in 1..n : g[k] = Once(g[k - 1], more[k])
      /\ to = g[n]
  BY <1>0
<1> DEFINE Good(k) == /\ g[k] \in Seq(PageIds) /\ Distinct(g[k])
                      /\ Elems(g[k]) = Elems(s) \cup part(k)
           T == {k \in Nat : k <= n => Good(k)}
<1>3. 0 \in T
  <2>1. part(0) = {}
    OBVIOUS
  <2> HIDE DEF part
  <2> QED
    BY <1>2, <2>1
<1>4. ASSUME NEW k \in Nat, k \in T PROVE k + 1 \in T
  <2> SUFFICES ASSUME k + 1 <= n PROVE Good(k + 1)
    OBVIOUS
  <2>1. k + 1 \in 1..n /\ (k + 1) - 1 = k /\ k <= n
    BY <1>1
  <2>2. Good(k) /\ g[k + 1] = Once(g[k], more[k + 1])
    BY <1>2, <1>4, <2>1
  <2>3. part(k + 1) = part(k) \cup {more[k + 1]}
    <3>1. 1..(k + 1) = (1..k) \cup {k + 1}
      OBVIOUS
    <3> QED
      BY <3>1
  <2> HIDE DEF part
  <2> DEFINE x == g[k]
             y == g[k + 1]
             p == more[k + 1]
  <2>4. x \in Seq(PageIds) /\ Distinct(x) /\ y = Once(x, p) /\ p \in PageIds
    BY <1>1, <2>1, <2>2
  <2> HIDE DEF Good, T, x, y, p
  <2>5. y \in Seq(PageIds) /\ Distinct(y) /\ Elems(y) = Elems(x) \cup {p}
    BY <2>4, OnceAdded
  <2> QED
    BY <2>2, <2>3, <2>5 DEF Good, x, y, p
<1>5. Good(n)
  <2> HIDE DEF Good
  <2>1. Nat \subseteq T
    <3> HIDE DEF T
    <3> QED
      BY <1>3, <1>4, Induction
  <2> QED
    BY <1>1, <2>1
<1>6. part(n) = Elems(more)
  BY <1>1 DEF Elems
<1> QED
  BY <1>2, <1>5, <1>6

\* The part of a chain that is collected.
LEMMA OverflowsOf ==
  ASSUME NEW st \in RowStore, NEW p \in PageIds
  PROVE  /\ Overflows(st, p) \in Seq(PageIds)
         /\ Elems(Overflows(st, p)) \subseteq ChainPages(st.file, p)
         /\ \A q \in Elems(Overflows(st, p)) : st.file[q].type = 2
         /\ st.file[p].chain \in PageIds /\ st.file[st.file[p].chain].type = 2 =>
              st.file[p].chain \in Elems(Overflows(st, p))
<1> DEFINE w     == ChainWalk(st.file, p)
           ends  == {i \in DOMAIN w : w[i] \notin PageIds \/ st.file[w[i]].type # 2}
           m     == IF ends = {} THEN MaxPages ELSE Min(ends) - 1
           next  == [q \in PageIds |-> st.file[q].chain]
           start == st.file[p].chain
           v     == SubSeq(w, 1, m)
<1>1. w = Walk(start, next) /\ Overflows(st, p) = v
  BY DEF ChainWalk, Overflows
<1>2. start \in Nat /\ \A q \in PageIds : next[q] \in Nat
  BY RowPage DEF RowImage
<1>3. MaxPages \in Nat \ {0}
  BY PagerPagesAssumption
<1> HIDE DEF w, next, start
<1>12. w = [i \in 1..MaxPages |-> w[i]]
  BY <1>1, WalkSteps
<1>4. /\ DOMAIN w = 1..MaxPages
      /\ w[1] = start
      /\ \A i \in 2..MaxPages :
           w[i] = IF w[i - 1] \in PageIds THEN next[w[i - 1]] ELSE w[i - 1]
  BY <1>1, WalkSteps
<1>5. \A i \in 1..MaxPages : w[i] \in Nat
  <2> DEFINE T == {k \in Nat : k + 1 <= MaxPages => w[k + 1] \in Nat}
  <2>1. 0 \in T
    BY <1>2, <1>4
  <2>2. ASSUME NEW k \in Nat, k \in T PROVE k + 1 \in T
    <3> SUFFICES ASSUME (k + 1) + 1 <= MaxPages PROVE w[(k + 1) + 1] \in Nat
      OBVIOUS
    <3>1. (k + 1) + 1 \in 2..MaxPages /\ ((k + 1) + 1) - 1 = k + 1 /\ k + 1 <= MaxPages
      BY <1>3
    <3>2. w[(k + 1) + 1] = IF w[k + 1] \in PageIds THEN next[w[k + 1]] ELSE w[k + 1]
      BY <1>4, <3>1
    <3> QED
      BY <1>2, <2>2, <3>1, <3>2
  <2>3. Nat \subseteq T
    <3> HIDE DEF T
    <3> QED
      BY <2>1, <2>2, Induction
  <2> SUFFICES ASSUME NEW i \in 1..MaxPages PROVE w[i] \in Nat
    OBVIOUS
  <2>4. i - 1 \in T /\ (i - 1) + 1 = i /\ i <= MaxPages
    BY <1>3, <2>3
  <2> QED
    BY <2>4
<1>13. /\ ends \subseteq 1..MaxPages /\ ends \subseteq Nat
       /\ \A i \in 1..MaxPages : i \notin ends => w[i] \in PageIds /\ st.file[w[i]].type = 2
       /\ start \in PageIds /\ st.file[start].type = 2 => 1 \notin ends
  BY <1>3, <1>4
<1> HIDE DEF ends
<1>6. /\ m \in 0..MaxPages
      /\ \A i \in 1..m : w[i] \in PageIds /\ i \in 1..MaxPages /\ st.file[w[i]].type = 2
      /\ 1 \notin ends => 1 \in 1..m
  <2>1. CASE ends = {}
    <3>1. m = MaxPages
      BY <2>1
    <3> HIDE DEF m
    <3> QED
      BY <1>3, <1>13, <2>1, <3>1
  <2>2. CASE ends # {}
    <3> DEFINE least == Min(ends)
    <3>2. least \in 1..MaxPages /\ \A i \in ends : least <= i
      BY <1>13, <2>2, LeastIn
    <3>3. m = least - 1
      BY <2>2
    <3> HIDE DEF least, m
    <3>4. m \in 0..MaxPages
      BY <1>3, <3>2, <3>3
    <3>5. ASSUME NEW i \in 1..m
          PROVE  w[i] \in PageIds /\ i \in 1..MaxPages /\ st.file[w[i]].type = 2
      <4>1. i \in 1..MaxPages /\ ~(least <= i)
        BY <1>3, <3>2, <3>3, <3>4
      <4>2. i \notin ends
        BY <3>2, <4>1
      <4> QED
        BY <1>13, <4>1, <4>2
    <3>6. 1 \notin ends => 1 \in 1..m
      <4>1. least # 1 => 1 \in 1..m
        BY <1>3, <3>2, <3>3
      <4>2. least \in ends
        BY <1>13, <2>2, LeastIn DEF least
      <4> QED
        BY <4>1, <4>2
    <3> QED
      BY <3>4, <3>5, <3>6
  <2> QED
    BY <2>1, <2>2
<1> HIDE DEF m
<1>7. w \in Seq(Nat) /\ Len(w) = MaxPages
  BY <1>3, <1>4, <1>5, <1>12, DomainSeq
<1>8. /\ v \in Seq(Nat) /\ Len(v) = m /\ m \in Nat
      /\ \A i \in 1..m : v[i] = w[i]
  BY <1>3, <1>6, <1>7
<1> HIDE DEF v
<1>9. v \in Seq(PageIds)
  BY <1>6, <1>8, SeqNarrowed
<1>10. \A i \in 1..m : w[i] \in ChainPages(st.file, p)
  BY <1>4, <1>6 DEF ChainPages, OnWalk, w
<1>11. Elems(v) \subseteq ChainPages(st.file, p)
  BY <1>8, <1>10 DEF Elems
<1>14. \A q \in Elems(v) : st.file[q].type = 2
  BY <1>6, <1>8 DEF Elems
<1>15. ASSUME start \in PageIds, st.file[start].type = 2 PROVE start \in Elems(v)
  <2>1. 1 \in 1..m
    BY <1>6, <1>13, <1>15
  <2>2. v[1] = start /\ 1 \in DOMAIN v
    BY <1>4, <1>8, <2>1
  <2> QED
    BY <2>2 DEF Elems
<1> QED
  BY <1>1, <1>9, <1>11, <1>14, <1>15 DEF start

\* A page goes to the front of the free list.
LEMMA PageReturned ==
  ASSUME NEW st \in RowStore, NEW s, Linked(st.head, st.file, s),
         NEW p \in PageIds, p \notin Elems(s), NEW after, after = FreePage(st, p)
  PROVE  /\ after \in RowStore
         /\ Linked(after.head, after.file, <<p>> \o s)
         /\ Elems(<<p>> \o s) = Elems(s) \cup {p}
         /\ after.nextId = st.nextId /\ after.cat = st.cat /\ after.data = st.data
         /\ \A q \in PageIds : after.file[q].chain = st.file[q].chain
         /\ \A q \in PageIds : q # p => after.file[q] = st.file[q]
         /\ after.file[p].type # 2 /\ after.file[p].spill = {}
<1> DEFINE z     == Zeroed
           image == [z EXCEPT !.link = st.head, !.chain = st.file[p].chain]
           f     == [st.file EXCEPT ![p] = image]
<1>1. after = [file |-> f, head |-> p, nextId |-> st.nextId, cat |-> st.cat, data |-> st.data]
  BY DEF RowStore, FreePage
<1>2. /\ image = [z EXCEPT !.link = st.head, !.chain = st.file[p].chain]
      /\ z \in RowImage /\ z.type # 2 /\ z.spill = {}
  BY ZeroedRow DEF Zeroed
<1> HIDE DEF z, image
<1>3. image = [type |-> z.type, link |-> st.head, chain |-> st.file[p].chain,
               page |-> z.page, spill |-> z.spill, body |-> z.body]
  BY <1>2 DEF RowImage
<1>4. image \in RowImage /\ image.link = st.head /\ image.chain = st.file[p].chain
  <2>1. st.head \in Nat /\ st.file[p].chain \in Nat
    <3>1. st.file[p] \in RowImage
      BY RowPage
    <3> QED
      BY <3>1 DEF RowStore, RowImage
  <2> QED
    BY <1>2, <1>3, <2>1 DEF RowImage
<1>5. p \in 1..MaxPages /\ p \in Nat /\ \A q \in PageIds : q \in 1..MaxPages
  BY IdsFinite
<1>6. /\ f \in [1..MaxPages -> RowImage] /\ f[p] = image
      /\ \A q \in PageIds : q # p => f[q] = st.file[q]
  BY <1>4, <1>5 DEF RowStore
<1>7. /\ st.nextId \in 2..(MaxPages + 1)
      /\ st.cat \in [Tables -> [root : Nat, next : Nat]]
      /\ st.data \in [Tables -> Seq(PageIds)]
  BY DEF RowStore
<1> HIDE DEF f
<1>8. /\ after.file = f /\ after.head = p /\ after.nextId = st.nextId
      /\ after.cat = st.cat /\ after.data = st.data
  BY <1>1
<1>9. after \in RowStore
  BY <1>1, <1>5, <1>6, <1>7 DEF RowStore
<1>10. Elems(s) \subseteq PageIds
  BY SeqFacts DEF Linked
<1>11. \A q \in Elems(s) : f[q].link = st.file[q].link
  BY <1>6, <1>10
<1>12. Linked(p, f, <<p>> \o s) /\ Elems(<<p>> \o s) = Elems(s) \cup {p}
  <2>1. f[p].link = st.head
    BY <1>4, <1>6
  <2> QED
    BY <1>11, <2>1, LinkedPush
<1>13. /\ \A q \in PageIds : f[q].chain = st.file[q].chain
       /\ f[p].type # 2 /\ f[p].spill = {}
  BY <1>2, <1>3, <1>4, <1>6
<1> QED
  BY <1>6, <1>8, <1>9, <1>12, <1>13

\* From st to after, the pages of a set went to the free list.
Returned(st, s, pages, after, rest) ==
  /\ after \in RowStore
  /\ Linked(after.head, after.file, rest)
  /\ Elems(rest) = Elems(s) \cup pages
  /\ after.nextId = st.nextId /\ after.cat = st.cat /\ after.data = st.data
  /\ \A q \in PageIds : after.file[q].chain = st.file[q].chain
  /\ \A q \in PageIds \ pages : after.file[q] = st.file[q]
  /\ \A q \in pages : after.file[q].type # 2 /\ after.file[q].spill = {}

GivenBack(st, s, pages, after) == \E rest : Returned(st, s, pages, after, rest)

LEMMA PagesReturned ==
  ASSUME NEW st \in RowStore, NEW s, Linked(st.head, st.file, s),
         NEW c \in Seq(PageIds), Distinct(c), Elems(c) \cap Elems(s) = {},
         NEW after, after = FoldLeft(FreePage, st, c)
  PROVE  GivenBack(st, s, Elems(c), after)
<1>0. PICK g : /\ g[0] = st
               /\ \A k \in 1..Len(c) : g[k] = FreePage(g[k - 1], c[k])
               /\ FoldLeft(FreePage, st, c) = g[Len(c)]
  <2>1. c \in Seq(PageIds)
    OBVIOUS
  <2> QED
    BY ONLY <2>1, FreeFold, Zenon
<1> DEFINE n == Len(c)
           done(k) == {c[i] : i \in 1..k}
<1>1. n \in Nat /\ DOMAIN c = 1..n /\ \A i \in 1..n : c[i] \in PageIds /\ c[i] \in Elems(c)
  BY SeqFacts
<1>2. /\ g[0] = st
      /\ \A k \in 1..n : g[k] = FreePage(g[k - 1], c[k])
      /\ after = g[n]
  BY <1>0
<1> DEFINE Good(k) == GivenBack(st, s, done(k), g[k])
           T == {k \in Nat : k <= n => Good(k)}
<1>3. 0 \in T
  <2>1. done(0) = {}
    OBVIOUS
  <2> HIDE DEF done
  <2>2. Returned(st, s, {}, st, s)
    BY DEF Returned
  <2> QED
    BY <1>2, <2>1, <2>2 DEF GivenBack
<1>4. ASSUME NEW k \in Nat, k \in T PROVE k + 1 \in T
  <2> SUFFICES ASSUME k + 1 <= n PROVE Good(k + 1)
    OBVIOUS
  <2>1. k + 1 \in 1..n /\ (k + 1) - 1 = k /\ k <= n
    BY <1>1
  <2>2. g[k + 1] = FreePage(g[k], c[k + 1])
    BY <1>2, <2>1
  <2>3. PICK rest : Returned(st, s, done(k), g[k], rest)
    BY <1>4, <2>1 DEF GivenBack
  <2>4. done(k + 1) = done(k) \cup {c[k + 1]}
    <3>1. 1..(k + 1) = (1..k) \cup {k + 1}
      OBVIOUS
    <3> QED
      BY <3>1
  <2>5. c[k + 1] \in PageIds /\ c[k + 1] \notin done(k) /\ c[k + 1] \notin Elems(s)
    <3>1. \A i \in 1..k : i \in 1..n /\ i # k + 1
      BY <1>1, <2>1
    <3>2. \A i \in 1..k : c[i] # c[k + 1]
      BY <1>1, <2>1, <3>1 DEF Distinct
    <3> QED
      BY <1>1, <2>1, <3>2
  <2> DEFINE x == g[k]
             y == g[k + 1]
             p == c[k + 1]
             d == done(k)
  <2>6. /\ Returned(st, s, d, x, rest) /\ y = FreePage(x, p)
        /\ p \in PageIds /\ p \notin d /\ p \notin Elems(s)
        /\ done(k + 1) = d \cup {p} /\ d \subseteq PageIds
    <3>1. \A i \in 1..k : i \in 1..n
      BY <1>1, <2>1
    <3> QED
      BY <1>1, <2>2, <2>3, <2>4, <2>5, <3>1
  <2> HIDE DEF done, Good, T, x, y, p, d
  <2>7. /\ x \in RowStore /\ Linked(x.head, x.file, rest) /\ p \notin Elems(rest)
    BY <2>6 DEF Returned
  <2>8. /\ y \in RowStore
        /\ Linked(y.head, y.file, <<p>> \o rest)
        /\ Elems(<<p>> \o rest) = Elems(rest) \cup {p}
        /\ y.nextId = x.nextId /\ y.cat = x.cat /\ y.data = x.data
        /\ \A q \in PageIds : y.file[q].chain = x.file[q].chain
        /\ \A q \in PageIds : q # p => y.file[q] = x.file[q]
        /\ y.file[p].type # 2 /\ y.file[p].spill = {}
    BY <2>6, <2>7, PageReturned
  <2>9. \A q \in d \cup {p} : y.file[q].type # 2 /\ y.file[q].spill = {}
    <3>1. \A q \in d : /\ q \in PageIds /\ q # p
                      /\ x.file[q].type # 2 /\ x.file[q].spill = {}
      BY <2>6 DEF Returned
    <3> QED
      BY <2>8, <3>1
  <2>10. Returned(st, s, d \cup {p}, y, <<p>> \o rest)
    BY <2>6, <2>8, <2>9 DEF Returned
  <2> QED
    BY <2>6, <2>10 DEF Good, y, GivenBack
<1>5. Good(n)
  <2> HIDE DEF Good
  <2>1. Nat \subseteq T
    <3> HIDE DEF T
    <3> QED
      BY <1>3, <1>4, Induction
  <2> QED
    BY <1>1, <2>1
<1>6. done(n) = Elems(c)
  BY <1>1 DEF Elems
<1> HIDE DEF done
<1> QED
  BY <1>2, <1>5, <1>6

\* The pages of a range, as DROP TABLE goes through them.
RangeSeq(st, t) ==
  [i \in 1..(st.cat[t].next + 1 - st.cat[t].root) |-> st.cat[t].root + i - 1]

LEMMA RangeSeqFacts ==
  ASSUME NEW st, NEW s, Tidy(st, s), NEW t \in Tables, st.cat[t] # NoTable
  PROVE  /\ RangeSeq(st, t) \in Seq(PageIds)
         /\ Elems(RangeSeq(st, t)) = PageRange(st, t)
<1> DEFINE a == st.cat[t].root
           b == st.cat[t].next
           n == b - a + 1
<1>1. /\ a \in 2..(st.nextId - 1) /\ b \in 2..(st.nextId - 1) /\ a <= b
      /\ st.nextId \in 2..(MaxPages + 1) /\ MaxPages \in Nat
  BY RangeFacts
<1>2. PageRange(st, t) = a..b
  BY DEF PageRange
<1>3. RangeSeq(st, t) = RangePages(st, t)
  <2>1. Cardinality(a..b) = n /\ b + 1 - a = n
    <3> HIDE DEF a, b
    <3> QED
      BY <1>1, FS_Interval
  <2>2. RangeSeq(st, t) = [i \in 1..(b + 1 - a) |-> a + i - 1]
    BY DEF RangeSeq
  <2>3. RangePages(st, t) = [i \in 1..Cardinality(a..b) |-> a + i - 1]
    BY <1>2 DEF RangePages
  <2> HIDE DEF a, b, n
  <2> QED
    BY <2>1, <2>2, <2>3
<1> QED
  BY <1>3, RangeListed

\* g has the pages collected after each page of the range.
Collecting(g, st, t, s) ==
  /\ \A k \in 1..Len(s) : g[k] = Visit(st, g[k - 1], s[k])
  /\ CollectTableDataPages(st, t) = g[Len(s)]

LEMMA VisitFold ==
  ASSUME NEW S, NEW st, NEW t, NEW s \in Seq(S), s = RangeSeq(st, t), NEW b, b = << >>
  PROVE  \E g : g[0] = b /\ Collecting(g, st, t, s)
<1> DEFINE n == Len(s)
           Code(f) == f = [x \in SUBSET (1..n) |->
                             IF x = {} THEN b
                             ELSE Visit(st, f[x \ {Max(x)}], s[Max(x)])]
           it == CHOOSE f : Code(f)
<1>1. n \in Nat /\ DOMAIN s = 1..n
  OBVIOUS
<1>2. CollectTableDataPages(st, t) = it[1..n]
  <2>1. FoldLeft(LAMBDA a, p : Visit(st, a, p), b, s) = it[1..n]
    BY <1>1, Zenon DEF FoldLeft, MapThenFoldSet
  <2>2. CollectTableDataPages(st, t) = FoldLeft(LAMBDA a, p : Visit(st, a, p), b, s)
    BY DEF CollectTableDataPages, RangeSeq
  <2> HIDE DEF it, n
  <2> QED
    BY <2>1, <2>2
<1>3. \A f : Code(f) <=> Iterates(f, n, "visit", st, b, s)
  BY DEF Iterates, Apply
<1> HIDE DEF n, Code
<1>4. Iterates(it, n, "visit", st, b, s)
  <2>1. PICK f : Iterates(f, n, "visit", st, b, s)
    BY <1>1, IterExists
  <2> QED
    BY <1>3, <2>1, Zenon
<1> HIDE DEF it
<1>5. \E g : /\ g[0] = b
             /\ \A k \in 1..n : g[k] = Apply("visit", st, g[k - 1], s[k])
             /\ it[1..n] = g[n]
  BY <1>1, <1>4, IterSteps
<1>6. \A a, x : Apply("visit", st, a, x) = Visit(st, a, x)
  BY DEF Apply
<1>7. PICK g : /\ g[0] = b
               /\ \A k \in 1..n : g[k] = Apply("visit", st, g[k - 1], s[k])
               /\ it[1..n] = g[n]
  BY <1>5
<1>8. \A k \in 1..n : g[k] = Visit(st, g[k - 1], s[k])
  BY <1>6, <1>7, Zenon
<1>9. CollectTableDataPages(st, t) = g[n]
  BY <1>2, <1>7
<1>10. Collecting(g, st, t, s)
  BY <1>8, <1>9, Zenon DEF Collecting, n
<1> QED
  BY <1>7, <1>10

LEMMA Visited ==
  ASSUME NEW st \in RowStore, NEW seen \in Seq(PageIds), Distinct(seen),
         NEW p \in PageIds, NEW to, to = Visit(st, seen, p)
  PROVE  /\ to \in Seq(PageIds) /\ Distinct(to)
         /\ p \in Elems(seen) => Elems(to) = Elems(seen)
         /\ p \notin Elems(seen) =>
              Elems(to) = Elems(seen) \cup {p} \cup Elems(Overflows(st, p))
<1>1. ToSet(seen) = Elems(seen)
  BY DEF ToSet, Elems
<1>2. CASE p \in Elems(seen)
  BY <1>1, <1>2 DEF Visit
<1>3. CASE p \notin Elems(seen)
  <2> DEFINE mid  == Append(seen, p)
             more == Overflows(st, p)
  <2>1. to = FoldLeft(Once, mid, more)
    BY <1>1, <1>3 DEF Visit
  <2>2. mid = Once(seen, p)
    BY <1>1, <1>3 DEF Once
  <2> HIDE DEF mid, more
  <2>3. mid \in Seq(PageIds) /\ Distinct(mid) /\ Elems(mid) = Elems(seen) \cup {p}
    BY <2>2, OnceAdded
  <2>4. more \in Seq(PageIds)
    BY OverflowsOf DEF more
  <2>5. /\ to \in Seq(PageIds) /\ Distinct(to)
        /\ Elems(to) = Elems(mid) \cup Elems(more)
    BY <2>1, <2>3, <2>4, AllAdded
  <2> QED
    BY <1>3, <2>3, <2>5 DEF more
<1> QED
  BY <1>2, <1>3

\* c has the pages of part, and of the chains of t no page twice.
Gathered(st, t, part, c) ==
  /\ c \in Seq(PageIds) /\ Distinct(c)
  /\ part \subseteq Elems(c)
  /\ Elems(c) \subseteq part \cup Own(st, t)
  /\ \A p \in Elems(c) \ part : \E q \in part : p \in Elems(Overflows(st, q))
  /\ \A p \in part : \/ Elems(Overflows(st, p)) \subseteq Elems(c)
                     \/ \E q \in part : p \in Elems(Overflows(st, q))

LEMMA GatheredMore ==
  ASSUME NEW st \in RowStore, NEW t \in Tables, NEW part, NEW c, Gathered(st, t, part, c),
         NEW p \in PageIds, Elems(Overflows(st, p)) \subseteq Own(st, t),
         NEW to, to = Visit(st, c, p)
  PROVE  Gathered(st, t, part \cup {p}, to)
<1>1. c \in Seq(PageIds) /\ Distinct(c)
  BY DEF Gathered
<1>2. /\ to \in Seq(PageIds) /\ Distinct(to)
      /\ p \in Elems(c) => Elems(to) = Elems(c)
      /\ p \notin Elems(c) =>
           Elems(to) = Elems(c) \cup {p} \cup Elems(Overflows(st, p))
  BY <1>1, Visited
<1> DEFINE more(q) == Elems(Overflows(st, q))
<1>3. /\ part \subseteq Elems(c)
      /\ Elems(c) \subseteq part \cup Own(st, t)
      /\ \A x \in Elems(c) \ part : \E q \in part : x \in more(q)
      /\ \A x \in part : \/ more(x) \subseteq Elems(c)
                         \/ \E q \in part : x \in more(q)
  BY DEF Gathered
<1>4. more(p) \subseteq Own(st, t)
  OBVIOUS
<1> HIDE DEF more
<1>5. /\ p \in Elems(c) => Elems(to) = Elems(c)
      /\ p \notin Elems(c) => Elems(to) = Elems(c) \cup {p} \cup more(p)
  BY <1>2 DEF more
<1>6. /\ part \cup {p} \subseteq Elems(to)
      /\ Elems(to) \subseteq (part \cup {p}) \cup Own(st, t)
      /\ \A x \in Elems(to) \ (part \cup {p}) : \E q \in part \cup {p} : x \in more(q)
  BY <1>3, <1>4, <1>5
<1>7. ASSUME NEW x \in part \cup {p}
      PROVE  more(x) \subseteq Elems(to) \/ \E q \in part \cup {p} : x \in more(q)
  <2>1. CASE x \in part
    BY <1>3, <1>5, <2>1
  <2>2. CASE x \notin part
    BY <1>3, <1>5, <1>7, <2>2
  <2> QED
    BY <2>1, <2>2
<1> QED
  BY <1>2, <1>6, <1>7 DEF Gathered, more

\* What DROP TABLE collects: the range, and the chains that start in it.
LEMMA Collected ==
  ASSUME NEW st, NEW s, Tidy(st, s), NEW t \in Tables, st.cat[t] # NoTable,
         NEW c, c = CollectTableDataPages(st, t)
  PROVE  Gathered(st, t, PageRange(st, t), c)
<1> DEFINE v == RangeSeq(st, t)
           n == Len(v)
           part(k) == {v[i] : i \in 1..k}
           none == << >>
<1>1. st \in RowStore /\ Sorted(st, s)
  BY DEF Tidy, Sorted
<1>2. v \in Seq(PageIds) /\ Elems(v) = PageRange(st, t)
  BY RangeSeqFacts
<1>3. n \in Nat /\ DOMAIN v = 1..n /\ \A i \in 1..n : v[i] \in PageIds /\ v[i] \in PageRange(st, t)
  BY <1>2, SeqFacts
<1>4. PICK g : g[0] = none /\ Collecting(g, st, t, v)
  BY <1>2, VisitFold
<1> HIDE DEF v
<1>5. \A i \in 1..n : Elems(Overflows(st, v[i])) \subseteq Own(st, t)
  <2> SUFFICES ASSUME NEW p \in PageIds, p \in PageRange(st, t)
               PROVE  Elems(Overflows(st, p)) \subseteq Own(st, t)
    BY <1>3
  <2>1. p \in Own(st, t) \/ st.file[p].chain \notin PageIds
    <3>1. Held(st, t) \subseteq Own(st, t)
      BY <1>1, HeldFacts
    <3> QED
      BY <3>1, RangeChains
  <2>2. ChainPages(st.file, p) \subseteq Own(st, t)
    BY <1>1, <2>1, ChainsOwn
  <2> QED
    BY <1>1, <2>2, OverflowsOf
<1> DEFINE Good(k) == Gathered(st, t, part(k), g[k])
           T == {k \in Nat : k <= n => Good(k)}
<1>6. 0 \in T
  <2>1. part(0) = {} /\ none \in Seq(PageIds) /\ Elems(none) = {} /\ Distinct(none)
    BY DEF Elems, Distinct
  <2> HIDE DEF part, none
  <2>2. Gathered(st, t, {}, none)
    BY <2>1 DEF Gathered
  <2> QED
    BY <1>4, <2>1, <2>2
<1>7. ASSUME NEW k \in Nat, k \in T PROVE k + 1 \in T
  <2> SUFFICES ASSUME k + 1 <= n PROVE Good(k + 1)
    OBVIOUS
  <2>1. k + 1 \in 1..n /\ (k + 1) - 1 = k /\ k <= n
    BY <1>3
  <2>2. g[k + 1] = Visit(st, g[k], v[k + 1])
    <3>1. \A j \in 1..Len(v) : g[j] = Visit(st, g[j - 1], v[j])
      BY <1>4 DEF Collecting
    <3> QED
      BY <2>1, <3>1
  <2>3. Good(k)
    BY <1>7, <2>1
  <2>4. part(k + 1) = part(k) \cup {v[k + 1]}
    <3>1. 1..(k + 1) = (1..k) \cup {k + 1}
      OBVIOUS
    <3> QED
      BY <3>1
  <2>5. v[k + 1] \in PageIds /\ Elems(Overflows(st, v[k + 1])) \subseteq Own(st, t)
    BY <1>3, <1>5, <2>1
  <2> DEFINE x == g[k]
             y == g[k + 1]
             p == v[k + 1]
             d == part(k)
  <2>6. /\ Gathered(st, t, d, x) /\ y = Visit(st, x, p)
        /\ p \in PageIds /\ Elems(Overflows(st, p)) \subseteq Own(st, t)
        /\ part(k + 1) = d \cup {p}
    BY <2>2, <2>3, <2>4, <2>5
  <2> HIDE DEF part, Good, T, x, y, p, d
  <2>7. Gathered(st, t, d \cup {p}, y)
    BY <1>1, <2>6, GatheredMore
  <2> QED
    BY <2>6, <2>7 DEF Good, y
<1>8. Good(n)
  <2> HIDE DEF Good
  <2>1. Nat \subseteq T
    <3> HIDE DEF T
    <3> QED
      BY <1>6, <1>7, Induction
  <2> QED
    BY <1>3, <2>1
<1>9. part(n) = PageRange(st, t)
  <2>1. part(n) = Elems(v)
    BY <1>3 DEF Elems
  <2> QED
    BY <1>2, <2>1 DEF v
<1>10. c = g[n]
  BY <1>4 DEF Collecting
<1> HIDE DEF part
<1> QED
  BY <1>8, <1>9, <1>10

Dropped(st, t) ==
  LET freed == FoldLeft(FreePage, st, CollectTableDataPages(st, t))
  IN [freed EXCEPT !.cat[t] = NoTable, !.data[t] = << >>]

LEMMA TableDropped ==
  ASSUME NEW st, NEW s, Tidy(st, s), NEW t \in Tables, st.cat[t] # NoTable,
         NEW after, after = Dropped(st, t), Foreseen(after)
  PROVE  /\ \E rest : /\ Tidy(after, rest)
                      /\ Elems(rest) = Elems(s) \cup Elems(CollectTableDataPages(st, t))
         /\ Spilled(st) => Spilled(after)
         /\ \A u \in Tables \ {t} : after.cat[u] = st.cat[u]
<1> DEFINE c     == CollectTableDataPages(st, t)
           freed == FoldLeft(FreePage, st, c)
           pages == Elems(c)
<1>1. st \in RowStore /\ Sorted(st, s) /\ Linked(st.head, st.file, s)
  BY DEF Tidy, Sorted
<1>2. Gathered(st, t, PageRange(st, t), c)
  BY Collected
<1>3. /\ after = [freed EXCEPT !.cat[t] = NoTable, !.data[t] = << >>]
      /\ freed = FoldLeft(FreePage, st, c)
  BY DEF Dropped
<1> HIDE DEF c, freed, pages
<1>4. c \in Seq(PageIds) /\ Distinct(c) /\ pages \subseteq PageRange(st, t) \cup Own(st, t)
  BY <1>2 DEF Gathered, pages
<1>5. /\ PageRange(st, t) = st.cat[t].root..st.cat[t].next
      /\ Held(st, t) \subseteq PageRange(st, t)
      /\ PageRange(st, t) \cap Elems(s) = {}
      /\ \A u \in Tables \ {t} : PageRange(st, t) \cap Own(st, u) = {}
  <2>1. Ranged(st, s, t)
    BY DEF Tidy
  <2> QED
    BY <2>1 DEF Ranged, PageRange
<1>6. /\ pages \cap Elems(s) = {}
      /\ pages \subseteq 2..(st.nextId - 1)
      /\ Held(st, t) \subseteq pages
      /\ \A u \in Tables \ {t} : pages \cap Own(st, u) = {}
  <2>1. Own(st, t) \cap Elems(s) = {} /\ Own(st, t) \subseteq 2..(st.nextId - 1)
    BY <1>1 DEF Sorted
  <2>2. PageRange(st, t) \subseteq 2..(st.nextId - 1)
    <3> DEFINE a == st.cat[t].root
               b == st.cat[t].next
    <3>1. /\ a \in 2..(st.nextId - 1) /\ b \in 2..(st.nextId - 1)
          /\ st.nextId \in 2..(MaxPages + 1) /\ MaxPages \in Nat
      BY RangeFacts
    <3>2. PageRange(st, t) = a..b
      BY <1>5
    <3> HIDE DEF a, b
    <3>3. a..b \subseteq 2..(st.nextId - 1)
      BY <3>1
    <3> QED
      BY <3>2, <3>3
  <2>3. \A u \in Tables \ {t} : Own(st, t) \cap Own(st, u) = {}
    BY <1>1 DEF Sorted
  <2>4. PageRange(st, t) \subseteq pages
    BY <1>2 DEF Gathered, pages
  <2> QED
    BY <1>4, <1>5, <2>1, <2>2, <2>3, <2>4
<1>7. PICK rest : Returned(st, s, pages, freed, rest)
  <2>1. GivenBack(st, s, pages, freed)
    <3>1. Elems(c) \cap Elems(s) = {}
      BY <1>6 DEF pages
    <3> QED
      BY <1>1, <1>3, <1>4, <3>1, PagesReturned DEF pages
  <2> QED
    BY <2>1 DEF GivenBack
<1>8. /\ freed \in RowStore
      /\ Linked(freed.head, freed.file, rest)
      /\ Elems(rest) = Elems(s) \cup pages
      /\ freed.nextId = st.nextId /\ freed.cat = st.cat /\ freed.data = st.data
      /\ \A q \in PageIds : freed.file[q].chain = st.file[q].chain
      /\ \A q \in PageIds \ pages : freed.file[q] = st.file[q]
      /\ \A q \in pages : freed.file[q].type # 2 /\ freed.file[q].spill = {}
  BY <1>7 DEF Returned
<1>9. /\ after \in RowStore
      /\ after.file = freed.file /\ after.head = freed.head /\ after.nextId = st.nextId
      /\ after.cat[t] = NoTable /\ after.data[t] = << >>
      /\ \A u \in Tables \ {t} : after.cat[u] = st.cat[u] /\ after.data[u] = st.data[u]
  <2> DEFINE d == [freed.cat EXCEPT ![t] = NoTable]
             e == [freed.data EXCEPT ![t] = << >>]
  <2>1. after = [file |-> freed.file, head |-> freed.head, nextId |-> freed.nextId,
                 cat |-> d, data |-> e]
    BY <1>3, <1>8 DEF RowStore
  <2>2. /\ d \in [Tables -> [root : Nat, next : Nat]] /\ d[t] = NoTable
        /\ \A u \in Tables \ {t} : d[u] = st.cat[u]
    BY <1>8 DEF RowStore, NoTable
  <2>3. /\ e \in [Tables -> Seq(PageIds)] /\ e[t] = << >>
        /\ \A u \in Tables \ {t} : e[u] = st.data[u]
    BY <1>8 DEF RowStore
  <2>4. /\ freed.head \in Nat /\ freed.nextId \in 2..(MaxPages + 1)
        /\ freed.file \in [1..MaxPages -> RowImage]
    BY <1>8 DEF RowStore
  <2> HIDE DEF d, e
  <2>5. after \in RowStore
    BY <2>1, <2>2, <2>3, <2>4 DEF RowStore
  <2> QED
    BY <1>8, <2>1, <2>2, <2>3, <2>5
<1>10. /\ Held(after, t) = {} /\ Own(after, t) = {}
       /\ \A u \in Tables \ {t} : Held(after, u) = Held(st, u) /\ Own(after, u) = Own(st, u)
  <2>1. Held(after, t) = {}
    BY <1>9 DEF Held, Elems
  <2>2. \A u \in Tables \ {t} : Held(after, u) = Held(st, u)
    BY <1>9 DEF Held
  <2>3. \A u \in Tables : Held(st, u) \subseteq PageIds
    BY <1>1, HeldFacts
  <2> QED
    BY <1>8, <1>9, <2>1, <2>2, <2>3 DEF Own
<1>11. Sorted(after, rest)
  <2>1. Elems(rest) \subseteq 2..(after.nextId - 1)
    BY <1>1, <1>6, <1>8, <1>9 DEF Sorted
  <2>2. \A u \in Tables : Own(after, u) \subseteq (2..(after.nextId - 1)) \ Elems(rest)
    <3>1. \A u \in Tables : Own(st, u) \subseteq (2..(st.nextId - 1)) \ Elems(s)
      BY <1>1 DEF Sorted
    <3> QED
      BY <1>6, <1>8, <1>9, <1>10, <3>1
  <2>3. \A u, v \in Tables : u # v => Own(after, u) \cap Own(after, v) = {}
    <3>1. \A u, v \in Tables : u # v => Own(st, u) \cap Own(st, v) = {}
      BY <1>1 DEF Sorted
    <3> QED
      BY <1>10, <3>1
  <2>4. \A q \in PageIds : after.file[q].chain \in PageIds =>
          q \in Elems(rest) \/ \E u \in Tables : q \in Held(after, u)
    <3> SUFFICES ASSUME NEW q \in PageIds, after.file[q].chain \in PageIds
                 PROVE  q \in Elems(rest) \/ \E u \in Tables : q \in Held(after, u)
      OBVIOUS
    <3>1. q \in Elems(s) \/ \E u \in Tables : q \in Held(st, u)
      BY <1>1, <1>8, <1>9 DEF Sorted
    <3> QED
      BY <1>6, <1>8, <1>10, <3>1
  <2>5. \A q \in PageIds : q >= after.nextId => after.file[q] = Zeroed
    <3> SUFFICES ASSUME NEW q \in PageIds, q >= st.nextId PROVE after.file[q] = Zeroed
      BY <1>9
    <3>1. q \notin pages
      <4>1. st.nextId \in Nat /\ q \in Nat
        BY <1>1, PagerPagesAssumption, IdsFinite DEF RowStore
      <4> QED
        BY <1>6, <4>1
    <3> QED
      BY <1>1, <1>8, <1>9, <3>1 DEF Sorted
  <2> QED
    BY <1>8, <1>9, <2>1, <2>2, <2>3, <2>4, <2>5 DEF Sorted
<1>12. Ranged(after, rest, t)
  BY <1>9 DEF Ranged
<1>13. \A u \in Tables \ {t} : Ranged(after, rest, u)
  BY <1>9, <1>11, RangeStays
<1>14. ASSUME Spilled(st) PROVE Spilled(after)
  <2>1. \A u \in Tables : \A p \in Held(after, u) : st.file[p].type # 2
    <3> SUFFICES ASSUME NEW u \in Tables \ {t}, NEW p \in Held(st, u)
                 PROVE  st.file[p].type # 2
      BY <1>10
    <3>1. p \in PageIds
      BY <1>1, HeldFacts
    <3> QED
      BY <1>14, <3>1 DEF Spilled
  <2>2. ASSUME NEW p \in PageIds \ pages, st.file[p].spill # {}
        PROVE  /\ st.file[p].chain \notin pages
               /\ \E u \in Tables : p \in Held(after, u)
    <3>1. PICK u \in Tables : p \in Held(st, u) /\ st.file[p].chain \in Own(st, u)
      BY <1>14, <2>2, ChainOwned
    <3>2. u # t
      BY <1>6, <2>2, <3>1
    <3> QED
      BY <1>6, <1>10, <3>1, <3>2
  <2>3. Outside(st, after, pages)
    <3>1. /\ \A p \in PageIds \ pages : after.file[p] = st.file[p]
          /\ \A p \in pages : after.file[p].type # 2 /\ after.file[p].spill = {}
      BY <1>8, <1>9
    <3> QED
      BY <2>1, <2>2, <3>1 DEF Outside
  <2> QED
    BY <1>14, <2>3, SpillSame
<1> QED
  BY <1>8, <1>9, <1>11, <1>12, <1>13, <1>14 DEF Tidy, pages, c

\* DROP TABLE collects every page that the table needs.
LEMMA AllCollected ==
  ASSUME NEW st, NEW s, Tidy(st, s), Spilled(st), NEW t \in Tables, st.cat[t] # NoTable,
         NEW pages, pages = Elems(CollectTableDataPages(st, t))
  PROVE  /\ Held(st, t) \subseteq pages
         /\ \A p \in Held(st, t) : st.file[p].spill # {} =>
              ChainPages(st.file, p) \subseteq pages
<1> DEFINE c == CollectTableDataPages(st, t)
<1>1. Sorted(st, s) /\ st \in RowStore /\ Held(st, t) \subseteq PageIds
  BY HeldFacts DEF Tidy, Sorted
<1>2. Gathered(st, t, PageRange(st, t), c) /\ pages = Elems(c)
  BY Collected
<1> HIDE DEF c
<1>3. Held(st, t) \subseteq PageRange(st, t)
  BY RangeFacts DEF PageRange
<1>4. /\ PageRange(st, t) \subseteq pages /\ PageRange(st, t) \subseteq PageIds
      /\ \A p \in PageRange(st, t) :
           \/ Elems(Overflows(st, p)) \subseteq pages
           \/ \E q \in PageRange(st, t) : p \in Elems(Overflows(st, q))
  BY <1>2, RangeListed DEF Gathered
<1>5. ASSUME NEW p \in Held(st, t), st.file[p].spill # {}
      PROVE  ChainPages(st.file, p) \subseteq pages
  <2>1. p \in PageIds /\ p \in PageRange(st, t)
    BY <1>1, <1>3
  <2>2. Chaining(st, p) /\ st.file[p].type # 2
    BY <1>5, <2>1 DEF Spilled
  <2>3. st.file[p].chain \in Elems(Overflows(st, p))
    BY <1>1, <2>1, <2>2, OverflowsOf DEF Chaining
  <2>4. ChainPages(st.file, p) = {st.file[p].chain}
    BY <1>1, <1>5, <2>1, OneInChain
  <2>5. \A q \in PageRange(st, t) : p \notin Elems(Overflows(st, q))
    BY <1>1, <1>4, <2>2, OverflowsOf
  <2> QED
    BY <1>4, <2>1, <2>3, <2>4, <2>5
<1> QED
  BY <1>3, <1>4, <1>5
-----------------------------------------------------------------------------
(* The statements. *)

LEMMA Committed ==
  ASSUME NEW st \in RowStore, Commit(st)
  PROVE  Begun' = st
<1>1. st = [file |-> st.file, head |-> st.head, nextId |-> st.nextId,
            cat |-> st.cat, data |-> st.data]
  BY DEF RowStore
<1> QED
  BY <1>1 DEF Commit, Begun

LEMMA CommitForeseen ==
  ASSUME Orderly', NEW st, Commit(st)
  PROVE  Foreseen(st)
<1>1. Strays(st) \subseteq {"reopened"}
  BY DEF Commit, Orderly
<1> QED
  BY <1>1, NoStray

LEMMA BegunFields ==
  /\ Begun.file = file /\ Begun.head = head /\ Begun.nextId = nextId
  /\ Begun.cat = cat /\ Begun.data = data
  /\ Begun'.file = file' /\ Begun'.head = head' /\ Begun'.nextId = nextId'
  /\ Begun'.cat = cat' /\ Begun'.data = data'
  BY DEF Begun

\* A row is in a slot of a data page of a table that exists.
LEMMA SlotFound ==
  ASSUME NEW s, Tidy(Begun, s), NEW t \in Tables, NEW ref \in Slots(t)
  PROVE  /\ ref[1] \in Held(Begun, t)
         /\ ref[2] \in Live(Begun.file[ref[1]].page)
         /\ Begun.cat[t] # NoTable
<1>1. PICK i \in DOMAIN data[t] : ref \in {data[t][i]} \X Live(file[data[t][i]].page)
  BY DEF Slots
<1>2. ref[1] = data[t][i] /\ ref[2] \in Live(file[ref[1]].page)
  BY <1>1
<1>3. ref[1] \in Elems(data[t])
  BY <1>2 DEF Elems
<1>4. Begun.cat[t] # NoTable
  <2> SUFFICES ASSUME Begun.cat[t] = NoTable PROVE FALSE
    OBVIOUS
  <2>1. Begun.data[t] = << >>
    BY DEF Tidy, Ranged
  <2> QED
    BY <1>3, <2>1, BegunFields DEF Elems
<1> QED
  BY <1>2, <1>3, <1>4, BegunFields DEF Held

LEMMA CreateKeeps ==
  ASSUME Orderly', NEW s, Tidy(Begun, s), NEW t \in Tables, Create(t)
  PROVE  /\ \E rest : Tidy(Begun', rest)
         /\ Spilled(Begun) => Spilled(Begun')
         /\ \A u \in Tables : Begun.cat[u] # NoTable => Begun'.cat[u] # NoTable
<1> DEFINE st == Rooted(Begun, t)
<1>1. Begun.cat[t] = NoTable /\ RoomFor(Begun, 1) /\ Commit(st)
  BY BegunFields DEF Create, Exists, Rooted
<1> HIDE DEF st
<1>2. Foreseen(st)
  BY <1>1, CommitForeseen
<1>3. PICK rest : Tidy(st, rest)
  BY <1>1, <1>2, TableCreated DEF st
<1>4. Spilled(Begun) => Spilled(st)
  BY <1>1, <1>2, TableCreated DEF st
<1>5. Begun' = st
  BY <1>1, <1>3, Committed DEF Tidy, Sorted
<1>6. \A u \in Tables \ {t} : Begun'.cat[u] = Begun.cat[u]
  <2>1. cat' = st.cat
    BY <1>1 DEF Commit
  <2>2. st.cat = [AllocPage(Begun).cat EXCEPT ![t] = st.cat[t]]
    BY ZenonT(60) DEF st, Rooted, AllocPage, Begun
  <2>3. AllocPage(Begun).cat = Begun.cat
    BY DEF AllocPage, Begun
  <2>4. DOMAIN Begun.cat = Tables
    BY DEF Tidy, Sorted, RowStore
  <2> QED
    BY <2>1, <2>2, <2>3, <2>4, BegunFields
<1> QED
  BY <1>1, <1>3, <1>4, <1>5, <1>6

\* A statement that changes one table is made or raises.
LEMMA GrownKeeps ==
  ASSUME Orderly', NEW s, Tidy(Begun, s), NEW t \in Tables, Begun.cat[t] # NoTable,
         NEW st, NEW rest, Grown(Begun, s, st, rest, t), Commit(st) \/ Fail(st),
         Spilled(Begun) /\ Foreseen(st) => Spilled(st)
  PROVE  /\ Tidy(Begun', rest)
         /\ Spilled(Begun) => Spilled(Begun')
         /\ \A u \in Tables : Begun.cat[u] # NoTable => Begun'.cat[u] # NoTable
<1>1. CASE Commit(st)
  <2>1. Foreseen(st)
    BY <1>1, CommitForeseen
  <2>2. Tidy(st, rest)
    BY <2>1, RangesKept
  <2>3. Begun' = st
    BY <1>1, <2>2, Committed DEF Tidy, Sorted
  <2>4. \A u \in Tables \ {t} : st.cat[u] = Begun.cat[u]
    BY DEF Grown
  <2>5. st.cat[t] # NoTable
    <3>1. st.cat[t].root \in Nat
      BY <2>2, HeldFacts DEF Tidy, Sorted
    <3>2. CASE st.cat[t] = Begun.cat[t]
      BY <3>2
    <3>3. ASSUME NEW p \in PageIds, st.cat[t] = [Begun.cat[t] EXCEPT !.next = p]
          PROVE  st.cat[t] # NoTable
      <4>1. Begun.cat[t] = [root |-> Begun.cat[t].root, next |-> Begun.cat[t].next]
        BY HeldFacts DEF Tidy, Sorted
      <4>2. st.cat[t].next = p
        BY <3>3, <4>1
      <4> QED
        BY <4>2, IdsFinite DEF NoTable
    <3> QED
      BY <3>2, <3>3 DEF Grown
  <2> QED
    BY <2>1, <2>2, <2>3, <2>4, <2>5
<1>2. CASE Fail(st)
  <2> DEFINE after == Begun'
  <2>1. /\ after.head = st.head /\ after.nextId = st.nextId
        /\ after.cat = Begun.cat /\ after.data = Begun.data
        /\ after.file = [p \in DOMAIN Begun.file |->
                           IF p \in FreeList(Begun) \ FreeList(st)
                           THEN Zeroed ELSE Begun.file[p]]
    BY <1>2, BegunFields DEF Fail, rowVars
  <2>2. after = [file |-> after.file, head |-> after.head, nextId |-> after.nextId,
                 cat |-> after.cat, data |-> after.data]
    BY DEF Begun
  <2> HIDE DEF after
  <2>3. Tidy(after, rest) /\ (Spilled(Begun) => Spilled(after))
    BY <2>1, <2>2, RangesLeft
  <2> QED
    BY <2>1, <2>3 DEF after
<1> QED
  BY <1>1, <1>2

LEMMA InsertKeeps ==
  ASSUME TwoChunks, Orderly', NEW s, Tidy(Begun, s),
         NEW t \in Tables, NEW r \in Rows, Insert(t, r)
  PROVE  /\ \E rest : Tidy(Begun', rest)
         /\ Spilled(Begun) => Spilled(Begun')
         /\ \A u \in Tables : Begun.cat[u] # NoTable => Begun'.cat[u] # NoTable
<1> DEFINE st == InsertRowIntoChain(Begun, t, r)
<1>1. /\ Begun.cat[t] # NoTable /\ RoomFor(Begun, 1 + RestChunks(r))
      /\ Commit(st) \/ Fail(st)
  BY BegunFields DEF Insert, Exists
<1>2. /\ \E rest : Grown(Begun, s, st, rest, t)
      /\ Spilled(Begun) /\ Foreseen(st) => Spilled(st)
  BY <1>1, RowInserted DEF Tidy
<1> HIDE DEF st
<1>3. PICK rest : Grown(Begun, s, st, rest, t)
  BY <1>2
<1> QED
  BY <1>1, <1>2, <1>3, GrownKeeps

LEMMA UpdateKeeps ==
  ASSUME TwoChunks, Orderly', NEW s, Tidy(Begun, s),
         NEW t \in Tables, NEW ref \in Slots(t), NEW r \in Rows, Update(t, ref, r)
  PROVE  /\ \E rest : Tidy(Begun', rest)
         /\ Spilled(Begun) => Spilled(Begun')
         /\ \A u \in Tables : Begun.cat[u] # NoTable => Begun'.cat[u] # NoTable
<1> DEFINE st == UpdateSlot(Begun, t, ref[1], ref[2], r)
<1>1. RoomFor(Begun, 1 + RestChunks(r)) /\ (Commit(st) \/ Fail(st))
  BY DEF Update
<1>2. /\ ref[1] \in Held(Begun, t) /\ ref[2] \in Live(Begun.file[ref[1]].page)
      /\ Begun.cat[t] # NoTable
  BY SlotFound
<1>3. /\ \E rest : Grown(Begun, s, st, rest, t)
      /\ Spilled(Begun) /\ Foreseen(st) => Spilled(st)
  BY <1>1, <1>2, RowUpdated DEF Tidy
<1> HIDE DEF st
<1>4. PICK rest : Grown(Begun, s, st, rest, t)
  BY <1>3
<1> QED
  BY <1>1, <1>2, <1>3, <1>4, GrownKeeps

LEMMA DeleteKeeps ==
  ASSUME Orderly', NEW s, Tidy(Begun, s),
         NEW t \in Tables, NEW ref \in Slots(t), Delete(t, ref)
  PROVE  /\ \E rest : Tidy(Begun', rest)
         /\ Spilled(Begun) => Spilled(Begun')
         /\ \A u \in Tables : Begun.cat[u] # NoTable => Begun'.cat[u] # NoTable
<1> DEFINE st == DeleteSlot(Begun, ref[1], ref[2])
<1>1. Commit(st)
  BY DEF Delete
<1>2. /\ ref[1] \in Held(Begun, t) /\ ref[2] \in Live(Begun.file[ref[1]].page)
      /\ Begun.cat[t] # NoTable
  BY SlotFound
<1>3. Sorted(Begun, s)
  BY DEF Tidy
<1>4. Touched(Begun, s, st) /\ Emptied(Begun, st, ref[1], ref[2])
  BY <1>2, <1>3, SlotDeleted
<1> HIDE DEF st
<1>5. Grown(Begun, s, st, s, t)
  BY <1>3, <1>4, NothingGrown, GrownTouched
<1>6. Spilled(Begun) => Spilled(st)
  BY <1>2, <1>3, <1>4, SpillEmptied DEF Touched
<1> QED
  BY <1>1, <1>2, <1>5, <1>6, GrownKeeps

LEMMA DropKeeps ==
  ASSUME Orderly', NEW s, Tidy(Begun, s), NEW t \in Tables, Drop(t)
  PROVE  /\ \E rest : /\ Tidy(Begun', rest)
                      /\ Elems(rest) = Elems(s) \cup Elems(CollectTableDataPages(Begun, t))
         /\ Spilled(Begun) => Spilled(Begun')
         /\ Begun.cat[t] # NoTable
         /\ \A u \in Tables \ {t} : Begun'.cat[u] = Begun.cat[u]
<1> DEFINE st == Dropped(Begun, t)
<1>1. Begun.cat[t] # NoTable /\ Commit(st)
  BY BegunFields DEF Drop, Exists, Dropped
<1> HIDE DEF st
<1>2. Foreseen(st)
  BY <1>1, CommitForeseen
<1>3. PICK rest : /\ Tidy(st, rest)
                  /\ Elems(rest) = Elems(s) \cup Elems(CollectTableDataPages(Begun, t))
  BY <1>1, <1>2, TableDropped DEF st
<1>4. Spilled(Begun) => Spilled(st)
  BY <1>1, <1>2, TableDropped DEF st
<1>5. Begun' = st
  BY <1>1, <1>3, Committed DEF Tidy, Sorted
<1>6. \A u \in Tables \ {t} : st.cat[u] = Begun.cat[u]
  BY <1>1, <1>2, TableDropped DEF st
<1> QED
  BY <1>1, <1>3, <1>4, <1>5, <1>6

LEMMA ReopenKeeps ==
  ASSUME NEW s, Tidy(Begun, s), Reopen
  PROVE  /\ Tidy(Begun', s)
         /\ strays' = {} => (Spilled(Begun) => Spilled(Begun'))
         /\ Begun'.cat = Begun.cat
<1> DEFINE after == Begun'
<1>1. /\ after.file = Begun.file /\ after.head = Begun.head /\ after.nextId = Begun.nextId
      /\ after.cat = Begun.cat
  BY BegunFields DEF Reopen
<1>2. after.data = [t \in Tables |-> RangePages(Begun, t)]
  BY BegunFields DEF Reopen, RangePages
<1>3. after = [file |-> after.file, head |-> after.head, nextId |-> after.nextId,
               cat |-> after.cat, data |-> after.data]
  BY DEF Begun
<1> HIDE DEF after
<1>4. \A t \in Tables : RangePages(Begun, t) \in Seq(PageIds)
  BY RangeListed
<1>5. after \in RowStore
  <2>1. Begun \in RowStore
    BY DEF Tidy, Sorted
  <2>2. after.data \in [Tables -> Seq(PageIds)]
    BY <1>2, <1>4
  <2>3. /\ Begun.file \in [1..MaxPages -> RowImage] /\ Begun.head \in Nat
        /\ Begun.nextId \in 2..(MaxPages + 1)
        /\ Begun.cat \in [Tables -> [root : Nat, next : Nat]]
    BY <2>1 DEF RowStore
  <2> QED
    BY <1>1, <1>3, <2>2, <2>3 DEF RowStore
<1>6. /\ Tidy(after, s)
      /\ \/ \E t \in Tables : \E p \in PageRange(Begun, t) : Begun.file[p].type = 2
         \/ Spilled(Begun) => Spilled(after)
  BY <1>1, <1>2, <1>5, RangesReopened
<1>7. ASSUME strays' = {}, Spilled(Begun) PROVE Spilled(after)
  <2>1. \A t \in Tables, p \in PageIds : p \in PageRange(Begun, t) => Begun.file[p].type # 2
    BY <1>7, BegunFields DEF Reopen
  <2>2. \A t \in Tables : PageRange(Begun, t) \subseteq PageIds
    BY RangeListed
  <2> QED
    BY <1>6, <1>7, <2>1, <2>2
<1> QED
  BY <1>1, <1>6, <1>7 DEF after

\* What every statement keeps.
Kept ==
  /\ \E rest : Tidy(Begun', rest)
  /\ strays' = {} => (Spilled(Begun) => Spilled(Begun'))
  /\ \A t \in Tables : \/ Begun.cat[t] = NoTable
                      \/ Begun'.cat[t] # NoTable
                      \/ Drop(t)

\* What went astray stays so.
LEMMA StraysStay ==
  ASSUME RowsNext
  PROVE  Orderly /\ strays \subseteq strays'
<1>1. Orderly
  BY DEF RowsNext
<1>2. \A st : Commit(st) => strays \subseteq strays'
  BY DEF Commit
<1>3. \A st : Fail(st) => strays' = strays
  BY DEF Fail, rowVars
<1>4. CASE Reopen
  <2>1. \E S : strays' = strays \cup S
    BY <1>4, Zenon DEF Reopen
  <2> QED
    BY <1>1, <2>1
<1>5. CASE \E t \in Tables : \/ Create(t) \/ Drop(t)
                             \/ \E r \in Rows : Insert(t, r)
                             \/ \E ref \in Slots(t) : Delete(t, ref)
                             \/ \E ref \in Slots(t), r \in Rows : Update(t, ref, r)
  <2>1. \E st : Commit(st) \/ Fail(st)
    BY <1>5, ZenonT(60) DEF Create, Drop, Insert, Delete, Update
  <2>2. strays \subseteq strays'
    BY <1>2, <1>3, <2>1, Zenon
  <2> QED
    BY <1>1, <2>2
<1> QED
  BY <1>1, <1>4, <1>5, Zenon DEF RowsNext

LEMMA StatementsKeep ==
  ASSUME TwoChunks, Orderly', NEW s, Tidy(Begun, s), RowsNext
  PROVE  Kept
<1>1. ASSUME NEW t \in Tables, Create(t) PROVE Kept
  BY <1>1, CreateKeeps DEF Kept
<1>2. ASSUME NEW t \in Tables, Drop(t) PROVE Kept
  BY <1>2, DropKeeps DEF Kept
<1>3. ASSUME NEW t \in Tables, NEW r \in Rows, Insert(t, r) PROVE Kept
  BY <1>3, InsertKeeps DEF Kept
<1>4. ASSUME NEW t \in Tables, NEW ref \in Slots(t), Delete(t, ref) PROVE Kept
  BY <1>4, DeleteKeeps DEF Kept
<1>5. ASSUME NEW t \in Tables, NEW ref \in Slots(t), NEW r \in Rows, Update(t, ref, r)
      PROVE  Kept
  BY <1>5, UpdateKeeps DEF Kept
<1>6. CASE Reopen
  BY <1>6, ReopenKeeps DEF Kept
<1> QED
  BY <1>1, <1>2, <1>3, <1>4, <1>5, <1>6 DEF RowsNext

FilesInv ==
  /\ CatalogInv
  /\ use \in {"tables", "catalogue"}
  /\ use = "tables" /\ Orderly => \E s : Tidy(Begun, s)
  /\ use = "catalogue" => data = [t \in Tables |-> << >>]

LEMMA FilesStart == Init => FilesInv
<1> SUFFICES ASSUME Init PROVE FilesInv
  OBVIOUS
<1> DEFINE none == << >>
           st   == Begun
<1>1. CatalogInv
  BY CatalogStarts
<1>2. data = [t \in Tables |-> none]
  BY DEF Init, RowsInit
<1>3. st = [file |-> [p \in 1..MaxPages |-> Zeroed], head |-> 0, nextId |-> 2,
            cat |-> [t \in Tables |-> NoTable], data |-> [t \in Tables |-> none]]
  BY DEF Init, RowsInit, Begun
<1> HIDE DEF st
<1>4. none \in Seq(PageIds) /\ Len(none) = 0 /\ Elems(none) = {}
  BY DEF Elems
<1>5. st \in RowStore
  <2>1. 2 \in 2..(MaxPages + 1)
    BY PagerPagesAssumption
  <2>2. NoTable \in [root : Nat, next : Nat]
    BY DEF NoTable
  <2>3. Zeroed \in RowImage
    BY ZeroedRow
  <2> HIDE DEF none
  <2> QED
    BY <1>3, <1>4, <2>1, <2>2, <2>3 DEF RowStore
<1>6. \A t \in Tables : Held(st, t) = {} /\ Own(st, t) = {}
  <2>1. \A t \in Tables : st.data[t] = none
    BY <1>3
  <2> HIDE DEF none
  <2> QED
    BY <1>4, <2>1 DEF Held, Own
<1>7. \A p \in PageIds : st.file[p] = Zeroed /\ st.file[p].chain \notin PageIds
  BY <1>3, IdsFinite, ZeroedRow
<1>8. Linked(st.head, st.file, none)
  BY <1>3, <1>4 DEF Linked
<1>9. Sorted(st, none)
  BY <1>4, <1>5, <1>6, <1>7, <1>8 DEF Sorted
<1>10. \A t \in Tables : Ranged(st, none, t)
  BY <1>3 DEF Ranged
<1>11. Tidy(st, none)
  BY <1>9, <1>10 DEF Tidy
<1> QED
  BY <1>1, <1>2, <1>11 DEF FilesInv, st, Init

LEMMA FilesKept ==
  ASSUME TwoChunks
  PROVE  FilesInv /\ [Next]_vars => FilesInv'
<1> SUFFICES ASSUME FilesInv, [Next]_vars PROVE FilesInv'
  OBVIOUS
<1>1. CatalogInv'
  BY CatalogKept DEF FilesInv
<1>2. use' = use
  BY DEF Next, vars
<1>3. ASSUME use = "tables", Orderly' PROVE \E s : Tidy(Begun', s)
  <2> Orderly
    <3>1. CASE RowsNext
      BY <3>1, StraysStay
    <3>2. CASE UNCHANGED vars
      BY <1>3, <3>2 DEF vars, rowVars, Orderly
    <3> QED
      BY <1>3, <3>1, <3>2 DEF Next
  <2>1. PICK s : Tidy(Begun, s)
    BY <1>3 DEF FilesInv
  <2>2. CASE RowsNext
    BY <1>3, <2>1, <2>2, StatementsKeep DEF Kept
  <2>3. CASE UNCHANGED vars
    <3>1. Begun' = Begun
      BY <2>3 DEF vars, pagerVars, rowVars, Begun
    <3> QED
      BY <2>1, <3>1
  <2> QED
    BY <1>3, <2>2, <2>3 DEF Next
<1>4. ASSUME use = "catalogue" PROVE data' = [t \in Tables |-> << >>]
  <2>1. data' = data
    BY <1>4 DEF Next, vars, rowVars
  <2> QED
    BY <1>4, <2>1 DEF FilesInv
<1> QED
  BY <1>1, <1>2, <1>3, <1>4 DEF FilesInv

\* The pages a table needs are those of its data pages and their chains.
LEMMA NeededOwn ==
  ASSUME NEW s, Tidy(Begun, s), NEW t \in Tables
  PROVE  Needed(t) \subseteq Own(Begun, t)
<1>1. Sorted(Begun, s) /\ Begun \in RowStore
  BY DEF Tidy, Sorted
<1>2. Held(Begun, t) \subseteq Own(Begun, t) /\ Held(Begun, t) \subseteq PageIds
  BY <1>1, HeldFacts
<1>3. {data[t][i] : i \in DOMAIN data[t]} = Held(Begun, t)
  BY BegunFields DEF Held, Elems
<1>4. ASSUME NEW ref \in Slots(t) PROVE ChainPages(file, ref[1]) \subseteq Own(Begun, t)
  <2>1. ref[1] \in Held(Begun, t)
    BY SlotFound
  <2>2. ChainPages(Begun.file, ref[1]) \subseteq Own(Begun, t)
    BY <1>1, <1>2, <2>1, ChainsOwn
  <2> QED
    BY <2>2, BegunFields
<1> QED
  BY <1>2, <1>3, <1>4 DEF Needed

LEMMA FilesApart == FilesInv => ChainsApart
<1> SUFFICES ASSUME FilesInv PROVE ChainsApart
  OBVIOUS
<1>1. ASSUME NEW s, Tidy(Begun, s) PROVE ChainsApart
  <2>1. /\ Sorted(Begun, s)
        /\ FreeWalk(Begun)[MaxPages] = 0 /\ FreeList(Begun) = Elems(s)
    BY <1>1, FreeListOf DEF Tidy, Sorted
  <2>2. \A t \in Tables : Needed(t) \subseteq Own(Begun, t)
    BY <1>1, NeededOwn
  <2>3. /\ \A t \in Tables : Own(Begun, t) \cap Elems(s) = {}
        /\ \A t, u \in Tables : t # u => Own(Begun, t) \cap Own(Begun, u) = {}
    BY <2>1 DEF Sorted
  <2> QED
    BY <2>1, <2>2, <2>3 DEF ChainsApart
<1>2. ASSUME NEW c, Chained(Pager, taken, c), data = [t \in Tables |-> << >>]
      PROVE  ChainsApart
  <2>1. PICK s : Linked(Pager.head, Pager.file, s)
    BY <1>2 DEF Chained, Split
  <2>2. Linked(Begun.head, Begun.file, s)
    BY <2>1 DEF Pager, Begun
  <2>3. FreeWalk(Begun)[MaxPages] = 0
    BY <2>2, FreeListOf
  <2>4. \A t \in Tables : Needed(t) = {}
    <3> SUFFICES ASSUME NEW t \in Tables PROVE Needed(t) = {}
      OBVIOUS
    <3>1. data[t] = << >> /\ DOMAIN data[t] = {}
      BY <1>2
    <3>2. Slots(t) = {}
      BY <3>1 DEF Slots
    <3> QED
      BY <3>1, <3>2 DEF Needed
  <2> QED
    BY <2>3, <2>4 DEF ChainsApart
<1>3. ~Orderly => ChainsApart
  BY DEF ChainsApart
<1> QED
  BY <1>1, <1>2, <1>3 DEF FilesInv, CatalogInv

(***************************************************************************)
(* A page is needed by one table at most, and none that is needed is on    *)
(* the free list, whatever the rows and the number of pages are: for rows  *)
(* that take a data page and one overflow page, as long as the statements  *)
(* keep pages and ranges in order (alloc_page, _insert_with_overflow).     *)
(***************************************************************************)
THEOREM ChainsStayApart ==
  ASSUME TwoChunks
  PROVE  Spec => []ChainsApart
<1>1. FilesInv /\ [Next]_vars => FilesInv'
  BY FilesKept
<1>2. FilesInv => ChainsApart
  BY FilesApart
<1> QED
  BY FilesStart, <1>1, <1>2, PTL DEF Spec
-----------------------------------------------------------------------------
(* DROP TABLE, and all the pages of its table. *)

DropsInv == FilesInv /\ (use = "tables" /\ strays = {} => Spilled(Begun))

LEMMA DropsStart == Init => DropsInv
<1> SUFFICES ASSUME Init PROVE Spilled(Begun)
  BY FilesStart DEF DropsInv
<1>1. \A p \in PageIds : Begun.file[p] = Zeroed
  BY IdsFinite, BegunFields DEF Init
<1>2. \A p \in PageIds : Begun.file[p].type # 2 /\ Begun.file[p].spill = {}
  BY <1>1 DEF Zeroed
<1> QED
  BY <1>2 DEF Spilled

LEMMA DropsKept ==
  ASSUME TwoChunks
  PROVE  DropsInv /\ [Next]_vars => DropsInv'
<1> SUFFICES ASSUME DropsInv, [Next]_vars, use = "tables", strays' = {} PROVE Spilled(Begun')
  <2>1. DropsInv /\ [Next]_vars => use' = use /\ FilesInv'
    BY FilesKept DEF DropsInv, Next, vars
  <2> QED
    BY <2>1 DEF DropsInv
<1> strays = {} /\ Orderly /\ Orderly'
  <2>1. CASE RowsNext
    BY <2>1, StraysStay DEF Orderly
  <2>2. CASE UNCHANGED vars
    BY <2>2 DEF vars, rowVars, Orderly
  <2> QED
    BY <2>1, <2>2 DEF Next
<1>1. PICK s : Tidy(Begun, s)
  BY DEF DropsInv, FilesInv
<1>2. CASE RowsNext
  BY <1>1, <1>2, StatementsKeep DEF Kept, DropsInv
<1>3. CASE UNCHANGED vars
  <2>1. Begun' = Begun
    BY <1>3 DEF vars, pagerVars, rowVars, Begun
  <2> QED
    BY <2>1 DEF DropsInv
<1> QED
  BY <1>2, <1>3 DEF Next

\* The pages a table needs are among those that DROP TABLE collects.
LEMMA NeededCollected ==
  ASSUME NEW s, Tidy(Begun, s), Spilled(Begun), NEW t \in Tables, Begun.cat[t] # NoTable
  PROVE  Needed(t) \subseteq Elems(CollectTableDataPages(Begun, t))
<1> DEFINE pages == Elems(CollectTableDataPages(Begun, t))
<1>1. /\ Held(Begun, t) \subseteq pages
      /\ \A p \in Held(Begun, t) : Begun.file[p].spill # {} =>
           ChainPages(Begun.file, p) \subseteq pages
  BY AllCollected
<1> HIDE DEF pages
<1>2. {data[t][i] : i \in DOMAIN data[t]} = Held(Begun, t)
  BY BegunFields DEF Held, Elems
<1>3. ASSUME NEW ref \in Slots(t), ref[2] \in file[ref[1]].spill
      PROVE  ChainPages(file, ref[1]) \subseteq pages
  <2>1. ref[1] \in Held(Begun, t)
    BY SlotFound
  <2>2. Begun.file[ref[1]].spill # {}
    BY <1>3, BegunFields
  <2> QED
    BY <1>1, <2>1, <2>2, BegunFields
<1> QED
  BY <1>1, <1>2, <1>3 DEF Needed, pages

\* What DropReturnsPages says of a step.
Returns ==
  \A t \in Tables :
    strays' = {} /\ Exists(t) /\ ~Exists(t)' => Needed(t) \subseteq FreeList(Begun)'

LEMMA DropReturnsAll ==
  ASSUME TwoChunks, DropsInv, [Next]_vars
  PROVE  Returns
<1> SUFFICES ASSUME NEW t \in Tables, strays' = {}, Exists(t), ~Exists(t)'
             PROVE  Needed(t) \subseteq FreeList(Begun)'
  BY DEF Returns
<1>1. Begun.cat[t] # NoTable /\ Begun'.cat[t] = NoTable
  BY BegunFields DEF Exists, NoTable
<1>2. cat' # cat
  BY <1>1, BegunFields
<1>3. RowsNext /\ use = "tables"
  BY <1>2 DEF Next, vars, rowVars
<1> strays = {} /\ Orderly /\ Orderly'
  BY <1>3, StraysStay DEF Orderly
<1>4. PICK s : Tidy(Begun, s)
  BY <1>3 DEF DropsInv, FilesInv
<1>5. Drop(t)
  BY <1>1, <1>3, <1>4, StatementsKeep DEF Kept
<1>6. PICK rest : /\ Tidy(Begun', rest)
                  /\ Elems(rest) = Elems(s) \cup Elems(CollectTableDataPages(Begun, t))
  BY <1>4, <1>5, DropKeeps
<1>7. FreeList(Begun') = Elems(rest)
  BY <1>6, FreeListOf DEF Tidy, Sorted
<1>8. FreeList(Begun)' = FreeList(Begun')
  BY DEF FreeList, FreeWalk
<1>9. Needed(t) \subseteq Elems(CollectTableDataPages(Begun, t))
  BY <1>1, <1>3, <1>4, NeededCollected DEF DropsInv
<1> QED
  BY <1>6, <1>7, <1>8, <1>9

(***************************************************************************)
(* DROP TABLE returns every page the table needed to the free list, the    *)
(* overflow pages included, whatever the rows and the number of pages are: *)
(* as ChainsStayApart, and as long as no reopen has found an overflow page *)
(* in the range of a table (collect_table_data_pages).                     *)
(***************************************************************************)
THEOREM DropReturns ==
  ASSUME TwoChunks
  PROVE  Spec => DropReturnsPages
<1>1. DropsInv /\ [Next]_vars => DropsInv'
  BY DropsKept
<1>2. DropsInv /\ [Next]_vars => [Returns]_<<pagerVars, rowVars>>
  BY DropReturnsAll
<1>3. Spec => [][Returns]_<<pagerVars, rowVars>>
  BY DropsStart, <1>1, <1>2, PTL DEF Spec
<1>4. DropReturnsPages <=> [][Returns]_<<pagerVars, rowVars>>
  BY DEF DropReturnsPages, Returns
<1> QED
  BY <1>3, <1>4
=============================================================================
