----------------------------- MODULE BTreeProofs ----------------------------
(***************************************************************************)
(* The B+tree of btree.py is the map its statements built, for any keys of *)
(* any length, any page size and any sequence of statements: search and    *)
(* range answer from it, and the separators are what a descent needs.  All *)
(* of it holds until a statement ends with an internal node that is longer *)
(* than its page (overran), which InternalNode.serialize lets happen.      *)
(*                                                                         *)
(* The invariant IInv gives every node a span S[p], a convex set of keys,  *)
(* and a level L[p].  The spans of a level are disjoint, those of the      *)
(* children of a node are the parts its separators cut out of its own, the *)
(* root has all keys, and the chain visits the leaves in the order of      *)
(* their spans.  None of this is in the code: a page holds keys and page   *)
(* numbers, and it is the span that says which keys may still be put below *)
(* it.  Between two calls of _insert_into_parent the two halves of a split *)
(* node have a parent for the left one only: Seen is how the nodes above   *)
(* still see them, as one node.                                            *)
(***************************************************************************)
EXTENDS BTree, SequenceTheorems, WellFoundedInduction, TLAPS
-----------------------------------------------------------------------------
(* The invariant. *)

LeafNodes ==
  [kind : {"leaf"}, keys : Seq(Keys), refs : Seq(Refs), tombs : Seq(BOOLEAN),
   next : Nat]

InternalNodes == [kind : {"internal"}, keys : Seq(Keys), children : Seq(Nat)]

Sorted(ks) == \A i, j \in 1..Len(ks) : i < j => ks[i] < ks[j]

\* The keys that separators ks send to child i.
Between(ks, i) ==
  {k \in Keys : (i > 1 => ks[i - 1] <= k) /\ (i <= Len(ks) => k < ks[i])}

Convex(s) == \A i, j \in s : \A k \in Keys : i < k /\ k < j => k \in s

Above(s) == {k \in Keys : \A j \in s : j < k}

IsLeaf(n) == n.kind = "leaf"

\* A leaf whose keys lie in the span s.
LeafOK(n, s) ==
  /\ n \in LeafNodes
  /\ Len(n.refs) = Len(n.keys) /\ Len(n.tombs) = Len(n.keys)
  /\ Sorted(n.keys)
  /\ \A i \in 1..Len(n.keys) : n.keys[i] \in s

\* An internal node of span s and level l, over nodes of spans W and levels L.
InternalOK(n, s, l, W, L) ==
  /\ n \in InternalNodes
  /\ Len(n.children) = Len(n.keys) + 1
  /\ Sorted(n.keys)
  /\ \A i \in 1..Len(n.keys) : n.keys[i] \in s /\ \E k \in s : k < n.keys[i]
  /\ \A i \in 1..Len(n.children) :
       LET c == n.children[i]
       IN c \in DOMAIN W /\ L[c] + 1 = l /\ W[c] = s \cap Between(n.keys, i)

\* The spans as the nodes above see them.
Seen(S, pr) ==
  IF pr = NoCall THEN S
  ELSE [p \in DOMAIN S \ {pr[3]} |->
          IF p = pr[1] THEN S[p] \cup S[pr[3]] ELSE S[p]]

Stored(ns, k) ==
  \E p \in DOMAIN ns : IsLeaf(ns[p]) /\ (\E i \in 1..Len(ns[p].keys) : ns[p].keys[i] = k)

Spans(ns, r, pr, S, L) ==
  /\ S \in [DOMAIN ns -> SUBSET Keys]
  /\ L \in [DOMAIN ns -> Nat]
  /\ r \in DOMAIN Seen(S, pr) /\ Seen(S, pr)[r] = Keys
  /\ \A p \in DOMAIN ns : S[p] # {} /\ Convex(S[p]) /\ L[p] <= L[r]
  /\ \A p, q \in DOMAIN ns : p # q /\ L[p] = L[q] => S[p] \cap S[q] = {}

NodesOK(ns, pr, S, L) ==
  \A p \in DOMAIN ns :
    \/ IsLeaf(ns[p]) /\ LeafOK(ns[p], S[p]) /\ L[p] = 0
    \/ ~IsLeaf(ns[p]) /\ InternalOK(ns[p], S[p], L[p], Seen(S, pr), L)

SeparatorsStored(ns) ==
  \A p \in DOMAIN ns : ~IsLeaf(ns[p]) =>
    \A i \in 1..Len(ns[p].keys) : Stored(ns, ns[p].keys[i])

ChainOK(ns, S) ==
  \A p \in DOMAIN ns : IsLeaf(ns[p]) =>
    LET q == ns[p].next
    IN IF q = 0 THEN Above(S[p]) = {}
       ELSE /\ q \in DOMAIN ns /\ IsLeaf(ns[q])
            /\ Above(S[p]) = S[q] \cup Above(S[q])

CallOK(ns, pr, S, L) ==
  pr # NoCall =>
    /\ pr \in Nat \X Keys \X Nat \X Keys \X Refs
    /\ pr[1] \in DOMAIN ns /\ pr[3] \in DOMAIN ns /\ pr[1] # pr[3]
    /\ L[pr[1]] = L[pr[3]]
    /\ \A k \in S[pr[1]] : k < pr[2]
    /\ \A k \in S[pr[3]] : pr[2] <= k
    /\ pr[2] \in S[pr[3]]
    /\ Stored(ns, pr[2])

Tree(ns, r, pr, S, L) ==
  /\ Spans(ns, r, pr, S, L)
  /\ NodesOK(ns, pr, S, L)
  /\ SeparatorsStored(ns)
  /\ ChainOK(ns, S)
  /\ CallOK(ns, pr, S, L)

Answers(n, k, x) ==
  \/ \E i \in 1..Len(n.keys) : n.keys[i] = k /\ ~n.tombs[i] /\ x = n.refs[i]
  \/ x = Absent /\ (\A i \in 1..Len(n.keys) : n.keys[i] = k => n.tombs[i])

Holds(ns, S, ct) ==
  \A p \in DOMAIN ns : IsLeaf(ns[p]) => \A k \in S[p] : Answers(ns[p], k, ct[k])

Maps(ns, r, pr, ct) ==
  IF r = 0 THEN ns = <<>> /\ pr = NoCall /\ ct = [k \in Keys |-> Absent]
  ELSE \E S, L : Tree(ns, r, pr, S, L) /\ Holds(ns, S, ct)

Pending(pr, ct) == IF pr = NoCall THEN ct ELSE [ct EXCEPT ![pr[4]] = pr[5]]

IInv ==
  /\ stable = [nodes |-> stable.nodes, root |-> stable.root]
  /\ nextPage \in Nat \ {0}
  /\ content \in [Keys -> Refs \cup {Absent}]
  /\ DOMAIN nodes \subseteq 1..(nextPage - 1)
  /\ DOMAIN stable.nodes \subseteq 1..(nextPage - 1)
  /\ Maps(nodes, root, promote, Pending(promote, content))
  /\ Maps(stable.nodes, stable.root, NoCall, content)
  /\ promote = NoCall => stable = [nodes |-> nodes, root |-> root]
-----------------------------------------------------------------------------
(* Numbers. *)

LEMMA LeastElement ==
  ASSUME NEW T, T \subseteq Nat, T # {}
  PROVE  \E x \in T : \A y \in T : x <= y
<1>1. PICK x \in T : \A y \in T : ~(<<y, x>> \in OpToRel(<, Nat))
  BY NatLessThanWellFounded, WFMin
<1>2. ASSUME NEW y \in T PROVE x <= y
  <2>1. x \in Nat /\ y \in Nat /\ <<y, x>> \in Nat \X Nat
    OBVIOUS
  <2>2. y < x => <<y, x>> \in OpToRel(<, Nat)
    BY <2>1 DEF OpToRel
  <2>3. ~(y < x)
    BY <1>1, <2>2, Zenon
  <2> QED
    BY <2>1, <2>3
<1> QED
  BY <1>2

\* Induction, for a property given as the set of numbers that have it.
LEMMA Induction ==
  ASSUME NEW P, 0 \in P, \A n \in Nat : n \in P => n + 1 \in P
  PROVE  Nat \subseteq P
<1> SUFFICES ASSUME Nat \ P # {} PROVE FALSE
  OBVIOUS
<1>1. PICK x \in Nat \ P : \A y \in Nat \ P : x <= y
  BY LeastElement
<1>2. x # 0 /\ x - 1 \in Nat /\ (x - 1) + 1 = x
  BY <1>1
<1>3. x - 1 \in P
  BY <1>1, <1>2
<1> QED
  BY <1>1, <1>2, <1>3
-----------------------------------------------------------------------------
(* Parts of sequences. *)

LEMMA SubSeqFacts ==
  ASSUME NEW T, NEW s \in Seq(T), NEW m \in 1..(Len(s) + 1), NEW n \in 0..Len(s), m <= n + 1
  PROVE  /\ SubSeq(s, m, n) \in Seq(T)
         /\ Len(SubSeq(s, m, n)) = n + 1 - m
         /\ \A i \in 1..(n + 1 - m) : SubSeq(s, m, n)[i] = s[m + i - 1]
<1>1. CASE m <= n
  BY <1>1, SubSeqProperties
<1>2. CASE m = n + 1
  BY <1>2
<1> QED
  BY <1>1, <1>2

\* u is the part of s from m to n.
IsCut(u, s, m, n) ==
  /\ Len(u) = n + 1 - m
  /\ \A i \in 1..(n + 1 - m) : u[i] = s[m + i - 1]

LEMMA CutOf ==
  ASSUME NEW T, NEW s \in Seq(T), NEW m \in 1..(Len(s) + 1), NEW n \in 0..Len(s), m <= n + 1
  PROVE  SubSeq(s, m, n) \in Seq(T) /\ IsCut(SubSeq(s, m, n), s, m, n)
BY SubSeqFacts DEF IsCut

IsInserted(m, s, i, e) ==
  /\ Len(m) = Len(s) + 1
  /\ \A j \in 1..(Len(s) + 1) : j < i => m[j] = s[j]
  /\ m[i] = e
  /\ \A j \in 1..(Len(s) + 1) : j > i => m[j] = s[j - 1]
  /\ \A j \in 1..Len(s) : j >= i => m[j + 1] = s[j]

LEMMA InsertAtFacts ==
  ASSUME NEW T, NEW s \in Seq(T), NEW e \in T, NEW i \in 1..(Len(s) + 1)
  PROVE  InsertAt(s, i, e) \in Seq(T) /\ IsInserted(InsertAt(s, i, e), s, i, e)
<1> DEFINE a == SubSeq(s, 1, i - 1)
           b == SubSeq(s, i, Len(s))
           ae == a \o <<e>>
<1>1. Len(s) \in Nat /\ i - 1 \in 0..Len(s) /\ i \in Nat
  OBVIOUS
<1>2. /\ a \in Seq(T) /\ Len(a) = i - 1
      /\ \A j \in 1..(i - 1) : a[j] = s[j]
  BY <1>1, SubSeqFacts
<1>3. /\ b \in Seq(T) /\ Len(b) = Len(s) + 1 - i
      /\ \A j \in 1..(Len(s) + 1 - i) : b[j] = s[i + j - 1]
  BY <1>1, SubSeqFacts
<1>4. <<e>> \in Seq(T) /\ Len(<<e>>) = 1 /\ <<e>>[1] = e
  OBVIOUS
<1> HIDE DEF a, b
<1>5. /\ ae \in Seq(T) /\ Len(ae) = i
      /\ \A j \in 1..i : ae[j] = IF j < i THEN a[j] ELSE e
  BY <1>1, <1>2, <1>4, ConcatProperties
<1> HIDE DEF ae
<1>6. /\ ae \o b \in Seq(T) /\ Len(ae \o b) = Len(s) + 1
      /\ \A j \in 1..(Len(s) + 1) : (ae \o b)[j] = IF j <= i THEN ae[j] ELSE b[j - i]
  BY <1>1, <1>3, <1>5, ConcatProperties
<1>7. ASSUME NEW j \in 1..(Len(s) + 1)
      PROVE  /\ j < i => (ae \o b)[j] = s[j]
             /\ j = i => (ae \o b)[j] = e
             /\ j > i => (ae \o b)[j] = s[j - 1]
  <2>1. CASE j <= i
    BY <2>1, <1>1, <1>2, <1>5, <1>6
  <2>2. CASE j > i
    <3>1. j - i \in 1..(Len(s) + 1 - i) /\ i + (j - i) - 1 = j - 1
      BY <2>2, <1>1
    <3> QED
      BY <2>2, <3>1, <1>1, <1>3, <1>6
  <2>3. j <= i \/ j > i
    BY <1>1
  <2> QED
    BY <2>1, <2>2, <2>3
<1>8. InsertAt(s, i, e) = ae \o b
  BY DEF InsertAt, ae, a, b
<1>9. ASSUME NEW j \in 1..Len(s), j >= i PROVE (ae \o b)[j + 1] = s[j]
  <2>1. j + 1 \in 1..(Len(s) + 1) /\ j + 1 > i /\ (j + 1) - 1 = j
    BY <1>1, <1>9
  <2> QED
    BY <2>1, <1>7
<1> QED
  BY <1>6, <1>7, <1>8, <1>9 DEF IsInserted

IsReplaced(m, s, i, e) ==
  /\ Len(m) = Len(s)
  /\ m[i] = e
  /\ \A j \in 1..Len(s) : j # i => m[j] = s[j]

LEMMA ReplaceFacts ==
  ASSUME NEW T, NEW s \in Seq(T), NEW i \in 1..Len(s), NEW e \in T
  PROVE  [s EXCEPT ![i] = e] \in Seq(T) /\ IsReplaced([s EXCEPT ![i] = e], s, i, e)
BY ExceptSeq DEF IsReplaced
-----------------------------------------------------------------------------
(* The bisections. *)

LEMMA FirstNot ==
  ASSUME NEW N \in Nat, NEW G,
         \A i, j \in 1..N : i < j /\ j \in G => i \in G
  PROVE  \E c \in 0..N : \A i \in 1..N : i \in G <=> i <= c
<1> DEFINE T == {i \in 1..N : i \notin G} \cup {N + 1}
<1>1. PICK m \in T : \A i \in T : m <= i
  <2>1. T \subseteq Nat /\ T # {}
    OBVIOUS
  <2> QED
    BY <2>1, LeastElement
<1>2. m - 1 \in 0..N
  BY <1>1
<1>3. ASSUME NEW i \in 1..N PROVE i \in G <=> i <= m - 1
  <2>1. i \in Nat /\ m \in Nat
    BY <1>1
  <2>2. ASSUME i \notin G PROVE m <= i
    BY <2>2, <1>1
  <2>3. ASSUME i \in G, m <= i PROVE FALSE
    <3>1. m \in 1..N /\ m \notin G
      BY <1>1, <2>1, <2>3
    <3> QED
      BY <3>1, <2>1, <2>3
  <2> QED
    BY <2>1, <2>2, <2>3
<1> QED
  BY <1>2, <1>3

Mid(w) == (w[1] + w[2]) \div 2

Halving(D, G, b) ==
  [w \in D \X D |->
     IF w[1] >= w[2] THEN w[1]
     ELSE IF Mid(w) + 1 \in G THEN b[<<Mid(w) + 1, w[2]>>] ELSE b[<<w[1], Mid(w)>>]]

\* A bisection for the end c of the part G of 1..N.
Finds(N, D, G, c) ==
  /\ \E b : b = Halving(D, G, b)
  /\ \A b : b = Halving(D, G, b) => b[<<0, N>>] = c

LEMMA BisectFinds ==
  ASSUME NEW N \in Nat, NEW G, NEW c \in 0..N, \A i \in 1..N : i \in G <=> i <= c,
         NEW D, D = 0..N
  PROVE  Finds(N, D, G, c)
<1> DEFINE At(w) == IF w[1] >= w[2] THEN w[1]
                    ELSE IF c <= w[1] THEN w[1] ELSE IF c >= w[2] THEN w[2] ELSE c
           Rt(w) == <<Mid(w) + 1, w[2]>>
           Lt(w) == <<w[1], Mid(w)>>
           f == [w \in D \X D |-> At(w)]
<1>1. ASSUME NEW w \in D \X D, ~(w[1] >= w[2])
      PROVE  /\ Mid(w) \in w[1]..(w[2] - 1) /\ Mid(w) + 1 \in 1..N
             /\ Rt(w) \in D \X D /\ Lt(w) \in D \X D
  BY <1>1 DEF Mid
<1>2. ASSUME NEW w \in D \X D
      PROVE  At(w) = IF w[1] >= w[2] THEN w[1]
                     ELSE IF Mid(w) + 1 \in G THEN At(Rt(w)) ELSE At(Lt(w))
  <2>1. CASE w[1] >= w[2]
    BY <2>1
  <2>2. CASE ~(w[1] >= w[2])
    <3>1. Mid(w) \in w[1]..(w[2] - 1) /\ (Mid(w) + 1 \in G <=> Mid(w) + 1 <= c)
      BY <1>1, <2>2
    <3>2. /\ w[1] \in Nat /\ w[2] \in Nat /\ Mid(w) \in Nat /\ c \in Nat
          /\ w[1] <= Mid(w) /\ Mid(w) < w[2]
      BY <3>1
    <3>3. CASE Mid(w) + 1 <= c
      BY <2>2, <3>1, <3>2, <3>3
    <3>4. CASE ~(Mid(w) + 1 <= c)
      BY <2>2, <3>1, <3>2, <3>4
    <3> QED
      BY <3>3, <3>4
  <2> QED
    BY <2>1, <2>2
<1>3. f = Halving(D, G, f)
  <2>1. ASSUME NEW w \in D \X D
        PROVE  At(w) = IF w[1] >= w[2] THEN w[1]
                       ELSE IF Mid(w) + 1 \in G THEN f[Rt(w)] ELSE f[Lt(w)]
    <3>1. ASSUME NEW x \in D \X D PROVE f[x] = At(x)
      OBVIOUS
    <3> HIDE DEF At, f, Rt, Lt
    <3> QED
      BY <1>1, <1>2, <3>1
  <2>2. f = [w \in D \X D |-> IF w[1] >= w[2] THEN w[1]
                            ELSE IF Mid(w) + 1 \in G THEN f[Rt(w)] ELSE f[Lt(w)]]
    <3> HIDE DEF At, Rt, Lt
    <3> QED
      BY <2>1
  <2> HIDE DEF f
  <2> QED
    BY <2>2 DEF Halving
<1>4. ASSUME NEW b, b = Halving(D, G, b)
      PROVE  b[<<0, N>>] = c
  <2> DEFINE P == {n \in Nat : \A w \in D \X D : w[2] - w[1] <= n => b[w] = At(w)}
  <2>1. ASSUME NEW w \in D \X D
        PROVE  b[w] = IF w[1] >= w[2] THEN w[1]
                      ELSE IF Mid(w) + 1 \in G THEN b[Rt(w)] ELSE b[Lt(w)]
    <3>1. b = [v \in D \X D |-> IF v[1] >= v[2] THEN v[1]
                            ELSE IF Mid(v) + 1 \in G THEN b[Rt(v)] ELSE b[Lt(v)]]
      BY <1>4 DEF Halving
    <3> HIDE DEF Rt, Lt
    <3> QED
      BY <3>1
  <2>2. 0 \in P
    <3> SUFFICES ASSUME NEW w \in D \X D, w[2] - w[1] <= 0
                 PROVE  b[w] = At(w)
      OBVIOUS
    <3>1. w[1] >= w[2]
      OBVIOUS
    <3> QED
      BY <3>1, <2>1
  <2>3. ASSUME NEW n \in Nat, n \in P PROVE n + 1 \in P
    <3> SUFFICES ASSUME NEW w \in D \X D, w[2] - w[1] <= n + 1
                 PROVE  b[w] = At(w)
      OBVIOUS
    <3>1. CASE w[1] >= w[2]
      BY <3>1, <2>1
    <3>2. CASE ~(w[1] >= w[2])
      <4>1. /\ Rt(w) \in D \X D /\ Lt(w) \in D \X D
            /\ Rt(w)[2] - Rt(w)[1] <= n /\ Lt(w)[2] - Lt(w)[1] <= n
        BY <1>1, <3>2
      <4>2. b[Rt(w)] = At(Rt(w)) /\ b[Lt(w)] = At(Lt(w))
        BY <4>1, <2>3
      <4> HIDE DEF At, Rt, Lt
      <4> QED
        BY <4>2, <2>1, <1>2
    <3> QED
      BY <3>1, <3>2
  <2>4. N \in P
    <3> HIDE DEF P
    <3> QED
      BY <2>2, <2>3, Induction
  <2>5. b[<<0, N>>] = At(<<0, N>>)
    BY <2>4
  <2> QED
    BY <2>5
<1> HIDE DEF f
<1> QED
  BY <1>3, <1>4 DEF Finds

LEMMA BisectLeftFacts ==
  ASSUME NEW ks \in Seq(Nat), Sorted(ks), NEW key \in Nat
  PROVE  /\ BisectLeft(ks, key) \in 0..Len(ks)
         /\ \A i \in 1..Len(ks) : ks[i] < key <=> i <= BisectLeft(ks, key)
<1> DEFINE N == Len(ks)
           D == 0..N
           G == {i \in 1..N : ks[i] < key}
           Code(b) == [w \in D \X D |->
                         IF w[1] >= w[2] THEN w[1]
                         ELSE IF ks[(w[1] + w[2]) \div 2 + 1] < key
                              THEN b[<<(w[1] + w[2]) \div 2 + 1, w[2]>>]
                              ELSE b[<<w[1], (w[1] + w[2]) \div 2>>]]
<1>1. N \in Nat /\ \A i \in 1..N : ks[i] \in Nat
  OBVIOUS
<1>2. PICK c \in 0..N : \A i \in 1..N : i \in G <=> i <= c
  <2>1. \A i, j \in 1..N : i < j /\ j \in G => i \in G
    BY <1>1 DEF Sorted
  <2> HIDE DEF N, G
  <2> QED
    BY <1>1, <2>1, FirstNot
<1>3. ASSUME NEW b PROVE Code(b) = Halving(D, G, b)
  <2>1. ASSUME NEW w \in D \X D, ~(w[1] >= w[2])
        PROVE  ks[Mid(w) + 1] < key <=> Mid(w) + 1 \in G
    <3>1. Mid(w) + 1 \in 1..N
      BY <2>1, <1>1 DEF Mid
    <3> QED
      BY <3>1
  <2>2. Code(b) = [w \in D \X D |->
                         IF w[1] >= w[2] THEN w[1]
                         ELSE IF ks[Mid(w) + 1] < key
                              THEN b[<<Mid(w) + 1, w[2]>>]
                              ELSE b[<<w[1], Mid(w)>>]]
    BY DEF Mid
  <2> HIDE DEF D, G, Code
  <2> QED
    BY <2>1, <2>2 DEF Halving
<1>4. /\ \E b : b = Halving(D, G, b)
      /\ \A b : b = Halving(D, G, b) => b[<<0, N>>] = c
  <2>1. D = 0..N
    OBVIOUS
  <2> HIDE DEF N, G, D
  <2> QED
    <3>1. Finds(N, D, G, c)
      BY <1>1, <1>2, <2>1, BisectFinds
    <3> QED
      BY <3>1 DEF Finds
<1>5. BisectLeft(ks, key) = (CHOOSE b : b = Code(b))[<<0, N>>]
  BY DEF BisectLeft, Bisect
<1> HIDE DEF Code, D
<1>6. BisectLeft(ks, key) = c
  BY <1>3, <1>4, <1>5
<1> QED
  BY <1>1, <1>2, <1>6

LEMMA BisectRightFacts ==
  ASSUME NEW ks \in Seq(Nat), Sorted(ks), NEW key \in Nat
  PROVE  /\ BisectRight(ks, key) \in 0..Len(ks)
         /\ \A i \in 1..Len(ks) : ks[i] <= key <=> i <= BisectRight(ks, key)
<1> DEFINE N == Len(ks)
           D == 0..N
           G == {i \in 1..N : ks[i] <= key}
           Code(b) == [w \in D \X D |->
                         IF w[1] >= w[2] THEN w[1]
                         ELSE IF ks[(w[1] + w[2]) \div 2 + 1] <= key
                              THEN b[<<(w[1] + w[2]) \div 2 + 1, w[2]>>]
                              ELSE b[<<w[1], (w[1] + w[2]) \div 2>>]]
<1>1. N \in Nat /\ \A i \in 1..N : ks[i] \in Nat
  OBVIOUS
<1>2. PICK c \in 0..N : \A i \in 1..N : i \in G <=> i <= c
  <2>1. \A i, j \in 1..N : i < j /\ j \in G => i \in G
    BY <1>1 DEF Sorted
  <2> HIDE DEF N, G
  <2> QED
    BY <1>1, <2>1, FirstNot
<1>3. ASSUME NEW b PROVE Code(b) = Halving(D, G, b)
  <2>1. ASSUME NEW w \in D \X D, ~(w[1] >= w[2])
        PROVE  ks[Mid(w) + 1] <= key <=> Mid(w) + 1 \in G
    <3>1. Mid(w) + 1 \in 1..N
      BY <2>1, <1>1 DEF Mid
    <3> QED
      BY <3>1
  <2>2. Code(b) = [w \in D \X D |->
                         IF w[1] >= w[2] THEN w[1]
                         ELSE IF ks[Mid(w) + 1] <= key
                              THEN b[<<Mid(w) + 1, w[2]>>]
                              ELSE b[<<w[1], Mid(w)>>]]
    BY DEF Mid
  <2> HIDE DEF D, G, Code
  <2> QED
    BY <2>1, <2>2 DEF Halving
<1>4. /\ \E b : b = Halving(D, G, b)
      /\ \A b : b = Halving(D, G, b) => b[<<0, N>>] = c
  <2>1. D = 0..N
    OBVIOUS
  <2> HIDE DEF N, G, D
  <2> QED
    <3>1. Finds(N, D, G, c)
      BY <1>1, <1>2, <2>1, BisectFinds
    <3> QED
      BY <3>1 DEF Finds
<1>5. BisectRight(ks, key) = (CHOOSE b : b = Code(b))[<<0, N>>]
  BY DEF BisectRight, Bisect
<1> HIDE DEF Code, D
<1>6. BisectRight(ks, key) = c
  BY <1>3, <1>4, <1>5
<1> QED
  BY <1>1, <1>2, <1>6
-----------------------------------------------------------------------------
(* Descents. *)

LEMMA KeysNat ==
  /\ Keys \subseteq Nat
  /\ \A ks \in Seq(Keys) :
       ks \in Seq(Nat) /\ Len(ks) \in Nat /\ \A i \in 1..Len(ks) : ks[i] \in Keys
<1>1. Keys \subseteq Nat
  BY BTreeAssumption
<1>2. Seq(Keys) \subseteq Seq(Nat)
  BY <1>1, SeqMonotonic
<1> QED
  BY <1>1, <1>2

LEMMA BetweenApart ==
  ASSUME NEW ks \in Seq(Keys), Sorted(ks), NEW i \in 1..(Len(ks) + 1),
         NEW j \in 1..(Len(ks) + 1), NEW k, k \in Between(ks, i), k \in Between(ks, j)
  PROVE  i = j
<1>1. /\ Len(ks) \in Nat /\ k \in Nat /\ i \in Nat /\ j \in Nat
      /\ \A a \in 1..Len(ks) : ks[a] \in Nat
  <2>1. k \in Keys
    BY DEF Between
  <2>2. ks \in Seq(Nat)
    BY KeysNat
  <2> QED
    BY <2>1, <2>2, KeysNat
<1>2. ASSUME NEW a \in 1..(Len(ks) + 1), NEW b \in 1..(Len(ks) + 1), a < b,
             k \in Between(ks, a), k \in Between(ks, b)
      PROVE  FALSE
  <2>1. a \in 1..Len(ks) /\ b - 1 \in 1..Len(ks) /\ k < ks[a] /\ ks[b - 1] <= k
    BY <1>1, <1>2 DEF Between
  <2>2. a = b - 1 \/ ks[a] < ks[b - 1]
    BY <2>1, <1>2 DEF Sorted
  <2> QED
    BY <2>1, <2>2, <1>1
<1> QED
  BY <1>1, <1>2

LEMMA ChildBetween ==
  ASSUME NEW n, n \in InternalNodes, Len(n.children) = Len(n.keys) + 1,
         Sorted(n.keys), NEW key \in Keys
  PROVE  \E i \in 1..Len(n.children) :
           /\ i = BisectRight(n.keys, key) + 1
           /\ Child(n, key) = n.children[i] /\ key \in Between(n.keys, i)
<1> DEFINE ks == n.keys
           b == BisectRight(ks, key)
<1>1. ks \in Seq(Keys) /\ ks \in Seq(Nat) /\ key \in Nat /\ Len(ks) \in Nat
      /\ \A i \in 1..Len(ks) : ks[i] \in Nat
  BY KeysNat DEF InternalNodes
<1>2. b \in 0..Len(ks) /\ \A i \in 1..Len(ks) : ks[i] <= key <=> i <= b
  BY <1>1, BisectRightFacts
<1>3. b + 1 \in 1..Len(n.children)
  BY <1>1, <1>2
<1>4. Child(n, key) = n.children[b + 1]
  BY DEF Child
<1> HIDE DEF b
<1>5. key \in Between(ks, b + 1)
  BY <1>1, <1>2 DEF Between
<1> QED
  BY <1>3, <1>4, <1>5 DEF b

Descent(D, B, v, nx, g) == [p \in D |-> IF p \in B THEN v[p] ELSE g[nx[p]]]

\* A recursion that goes down a level at every call has a solution.
LEMMA DescentExists ==
  ASSUME NEW D, NEW L \in [D -> Nat], NEW N \in Nat, \A p \in D : L[p] <= N,
         NEW B, NEW v, NEW nx, \A p \in D \ B : nx[p] \in D /\ L[nx[p]] < L[p]
  PROVE  \E g : g = Descent(D, B, v, nx, g)
<1> DEFINE Up(n) == {p \in D : L[p] <= n}
           P == {n \in Nat : \E g : g = Descent(Up(n), B, v, nx, g)}
<1>1. 0 \in P
  <2> DEFINE g == [p \in Up(0) |-> v[p]]
  <2>1. \A p \in Up(0) : p \in B
    OBVIOUS
  <2>2. g = Descent(Up(0), B, v, nx, g)
    BY <2>1 DEF Descent
  <2> QED
    BY <2>2
<1>2. ASSUME NEW n \in Nat, n \in P PROVE n + 1 \in P
  <2>1. PICK g : g = Descent(Up(n), B, v, nx, g)
    BY <1>2
  <2> DEFINE h == [p \in Up(n + 1) |-> IF p \in B THEN v[p] ELSE g[nx[p]]]
  <2>2. ASSUME NEW p \in Up(n) PROVE p \in Up(n + 1) /\ h[p] = g[p]
    <3>1. p \in Up(n + 1)
      OBVIOUS
    <3> HIDE DEF Up
    <3>2. g[p] = IF p \in B THEN v[p] ELSE g[nx[p]]
      BY <2>1 DEF Descent
    <3> QED
      BY <3>1, <3>2
  <2>3. ASSUME NEW p \in Up(n + 1), p \notin B PROVE h[nx[p]] = g[nx[p]]
    <3>1. nx[p] \in Up(n)
      BY <2>3
    <3> QED
      BY <2>2, <3>1
  <2>4. h = Descent(Up(n + 1), B, v, nx, h)
    <3> HIDE DEF Up
    <3>1. \A p \in Up(n + 1) : h[p] = IF p \in B THEN v[p] ELSE h[nx[p]]
      BY <2>3
    <3>2. h = [p \in Up(n + 1) |-> h[p]]
      OBVIOUS
    <3> HIDE DEF h
    <3> QED
      BY <3>1, <3>2 DEF Descent
  <2> QED
    BY <2>4
<1>3. N \in P
  <2> HIDE DEF P
  <2> QED
    BY <1>1, <1>2, Induction
<1>4. Up(N) = D
  OBVIOUS
<1> QED
  BY <1>3, <1>4

\* The node below p on the way to key.
LEMMA ChildFacts ==
  ASSUME NEW ns, NEW r, NEW pr, NEW S, NEW L, Tree(ns, r, pr, S, L),
         NEW p \in DOMAIN ns, ~IsLeaf(ns[p]), NEW key \in Keys
  PROVE  LET c == Child(ns[p], key)
         IN /\ c \in DOMAIN ns /\ L[c] + 1 = L[p]
            /\ c \in DOMAIN Seen(S, pr)
            /\ key \in S[p] => key \in Seen(S, pr)[c]
<1>1. InternalOK(ns[p], S[p], L[p], Seen(S, pr), L)
  BY DEF Tree, NodesOK
<1>2. PICK i \in 1..Len(ns[p].children) :
        Child(ns[p], key) = ns[p].children[i] /\ key \in Between(ns[p].keys, i)
  BY <1>1, ChildBetween DEF InternalOK
<1>3. DOMAIN Seen(S, pr) \subseteq DOMAIN ns
  BY DEF Tree, Spans, Seen
<1> QED
  BY <1>1, <1>2, <1>3 DEF InternalOK

LEMMA LeafForFacts ==
  ASSUME NEW S, NEW L, Tree(nodes, root, NoCall, S, L), NEW key \in Keys
  PROVE  /\ LeafFor(key) \in DOMAIN nodes /\ IsLeaf(nodes[LeafFor(key)])
         /\ key \in S[LeafFor(key)]
<1> DEFINE D == DOMAIN nodes
           B == {p \in D : IsLeaf(nodes[p])}
           v == [p \in D |-> p]
           nx == [p \in D |-> Child(nodes[p], key)]
           Code(g) == [p \in D |-> IF nodes[p].kind = "leaf" THEN p
                                   ELSE g[Child(nodes[p], key)]]
<1>1. /\ L \in [D -> Nat] /\ root \in D /\ L[root] \in Nat /\ \A p \in D : L[p] <= L[root]
      /\ S[root] = Keys
  BY DEF Tree, Spans, Seen
<1>2. \A p \in D \ B : /\ nx[p] \in D /\ L[nx[p]] + 1 = L[p]
                       /\ key \in S[p] => key \in S[nx[p]]
  <2>1. Seen(S, NoCall) = S
    BY DEF Seen
  <2>2. ASSUME NEW p \in DOMAIN nodes, ~IsLeaf(nodes[p])
        PROVE  LET c == Child(nodes[p], key)
               IN c \in DOMAIN nodes /\ L[c] + 1 = L[p] /\ (key \in S[p] => key \in S[c])
    BY <2>1, <2>2, ChildFacts
  <2> QED
    BY <2>2
<1>3. \A p \in D \ B : nx[p] \in D /\ L[nx[p]] < L[p]
  BY <1>1, <1>2
<1>4. \A g : Code(g) = Descent(D, B, v, nx, g)
  BY DEF Descent, IsLeaf
<1>5. \E g : g = Code(g)
  <2> HIDE DEF D, B, v, nx, Code
  <2> QED
    BY <1>1, <1>3, <1>4, DescentExists
<1>6. PICK g : g = Code(g) /\ LeafFor(key) = g[root]
  <2>1. LeafFor(key) = (CHOOSE g : g = Code(g))[root]
    BY DEF LeafFor
  <2> HIDE DEF Code
  <2> QED
    BY <1>5, <2>1
<1>7. \A p \in D : g[p] = IF p \in B THEN p ELSE g[nx[p]]
  BY <1>6 DEF IsLeaf
<1> DEFINE Good(p) == g[p] \in B /\ key \in S[g[p]]
           P == {n \in Nat : \A p \in D : L[p] <= n /\ key \in S[p] => Good(p)}
<1> HIDE DEF D, B, nx, Code, v
<1>8. ASSUME NEW p \in D, p \in B, key \in S[p] PROVE Good(p)
  BY <1>7, <1>8
<1>9. 0 \in P
  <2>1. ASSUME NEW p \in D, L[p] <= 0, key \in S[p] PROVE Good(p)
    <3>1. p \in B
      BY <1>1, <1>2, <2>1
    <3> QED
      BY <3>1, <2>1, <1>8
  <2> QED
    BY <2>1
<1>10. ASSUME NEW n \in Nat, n \in P PROVE n + 1 \in P
  <2>1. ASSUME NEW p \in D, L[p] <= n + 1, key \in S[p] PROVE Good(p)
    <3>1. CASE p \in B
      BY <3>1, <2>1, <1>8
    <3>2. CASE p \notin B
      <4>1. nx[p] \in D /\ L[nx[p]] <= n /\ key \in S[nx[p]]
        BY <3>2, <2>1, <1>1, <1>2
      <4>2. Good(nx[p]) /\ g[p] = g[nx[p]]
        BY <4>1, <1>10, <1>7, <3>2
      <4> QED
        BY <4>2
    <3> QED
      BY <3>1, <3>2
  <2> QED
    BY <2>1
<1>11. L[root] \in P
  <2> HIDE DEF P
  <2> QED
    BY <1>1, <1>9, <1>10, Induction
<1>12. Good(root)
  BY <1>1, <1>11
<1> QED
  BY <1>6, <1>12 DEF B, D

\* _find_parent_pid finds the node above the one that was split.
LEMMA ParentOfFacts ==
  ASSUME NEW S, NEW L, Tree(nodes, root, promote, S, L), promote # NoCall,
         root # promote[1]
  PROVE  LET q == ParentOf(promote[1], promote[2])
         IN /\ q \in DOMAIN nodes /\ ~IsLeaf(nodes[q])
            /\ promote[2] \in S[q] /\ Child(nodes[q], promote[2]) = promote[1]
<1> DEFINE D == DOMAIN nodes
           left == promote[1]
           key == promote[2]
           right == promote[3]
           B == {p \in D : IsLeaf(nodes[p]) \/ Child(nodes[p], key) = left}
           v == [p \in D |-> IF IsLeaf(nodes[p]) THEN 0 ELSE p]
           nx == [p \in D |-> Child(nodes[p], key)]
           Code(g) == [p \in D |-> IF nodes[p].kind = "leaf" THEN 0
                                   ELSE IF Child(nodes[p], key) = left THEN p
                                   ELSE g[Child(nodes[p], key)]]
           W == Seen(S, promote)
<1>1. /\ L \in [D -> Nat] /\ root \in D /\ L[root] \in Nat /\ \A p \in D : L[p] <= L[root]
      /\ root \in DOMAIN W /\ W[root] = Keys
      /\ \A p \in D : S[p] # {} /\ S[p] \subseteq Keys
      /\ \A p, q \in D : p # q /\ L[p] = L[q] => S[p] \cap S[q] = {}
      /\ DOMAIN S = D
  BY DEF Tree, Spans, Seen
<1>2. /\ left \in D /\ right \in D /\ left # right /\ L[left] = L[right]
      /\ key \in S[right] /\ key \in Keys
  <2>1. key \in Keys
    BY DEF Tree, CallOK
  <2> QED
    BY <2>1 DEF Tree, CallOK
<1>3. \A p \in DOMAIN W : /\ p \in D /\ p # right
                          /\ p # left => W[p] = S[p]
  BY <1>1 DEF Seen
<1>4. \A p \in D : ~IsLeaf(nodes[p]) =>
        /\ nx[p] \in D /\ L[nx[p]] + 1 = L[p]
        /\ nx[p] \in DOMAIN W /\ (key \in S[p] => key \in W[nx[p]])
  <2>1. ASSUME NEW p \in DOMAIN nodes, ~IsLeaf(nodes[p])
        PROVE  LET c == Child(nodes[p], key)
               IN /\ c \in DOMAIN nodes /\ L[c] + 1 = L[p]
                  /\ c \in DOMAIN Seen(S, promote)
                  /\ key \in S[p] => key \in Seen(S, promote)[c]
    BY <2>1, <1>2, ChildFacts
  <2> QED
    BY <2>1
<1>5. \A p \in D \ B : nx[p] \in D /\ L[nx[p]] < L[p]
  BY <1>1, <1>4
<1>6. \A g : Code(g) = Descent(D, B, v, nx, g)
  BY DEF Descent, IsLeaf
<1>7. \E g : g = Code(g)
  <2> HIDE DEF D, B, v, nx, Code
  <2> QED
    BY <1>1, <1>5, <1>6, DescentExists
<1>8. PICK g : g = Code(g) /\ ParentOf(left, key) = g[root]
  <2>1. ParentOf(left, key) = (CHOOSE g : g = Code(g))[root]
    BY DEF ParentOf
  <2> HIDE DEF Code
  <2> QED
    BY <1>7, <2>1
<1>9. \A p \in D : ~IsLeaf(nodes[p]) => g[p] = IF nx[p] = left THEN p ELSE g[nx[p]]
  BY <1>8 DEF IsLeaf
<1>10. \A p \in D : IsLeaf(nodes[p]) => L[p] = 0
  BY DEF Tree, NodesOK
<1> DEFINE Good(p) == /\ g[p] \in D /\ ~IsLeaf(nodes[g[p]])
                      /\ key \in S[g[p]] /\ nx[g[p]] = left
           P == {n \in Nat : \A p \in D : L[p] <= n /\ L[p] > L[left] /\ key \in S[p] => Good(p)}
<1>11. L[left] \in Nat
  BY <1>1, <1>2
<1> HIDE DEF D, B, nx, Code, v, left, right, key, W
<1>12. ASSUME NEW p \in D, L[p] > L[left], key \in S[p]
       PROVE  /\ ~IsLeaf(nodes[p])
              /\ \/ Good(p)
                 \/ /\ L[nx[p]] < L[p] /\ L[nx[p]] > L[left] /\ key \in S[nx[p]]
                    /\ nx[p] \in D /\ g[p] = g[nx[p]]
  <2>1. ~IsLeaf(nodes[p])
    BY <1>1, <1>10, <1>11, <1>12
  <2>2. CASE nx[p] = left
    BY <2>1, <2>2, <1>9, <1>12
  <2>3. CASE nx[p] # left
    <3>1. /\ nx[p] \in D /\ L[nx[p]] + 1 = L[p] /\ key \in S[nx[p]] /\ nx[p] # right
      BY <2>1, <2>3, <1>3, <1>4, <1>12
    <3>2. L[nx[p]] # L[left]
      BY <3>1, <2>3, <1>1, <1>2
    <3>3. L[nx[p]] \in Nat /\ L[p] \in Nat
      BY <3>1, <1>1
    <3> QED
      BY <2>1, <2>3, <3>1, <3>2, <3>3, <1>9, <1>11, <1>12
  <2> QED
    BY <2>1, <2>2, <2>3
<1>13. 0 \in P
  BY <1>1, <1>11
<1>14. ASSUME NEW n \in Nat, n \in P PROVE n + 1 \in P
  <2>1. ASSUME NEW p \in D, L[p] <= n + 1, L[p] > L[left], key \in S[p] PROVE Good(p)
    <3>1. CASE Good(p)
      BY <3>1
    <3>2. CASE ~Good(p)
      <4>1. /\ L[nx[p]] < L[p] /\ L[nx[p]] > L[left] /\ key \in S[nx[p]]
            /\ nx[p] \in D /\ g[p] = g[nx[p]]
        BY <3>2, <2>1, <1>12
      <4>2. L[nx[p]] <= n
        BY <4>1, <2>1, <1>1
      <4>3. Good(nx[p])
        BY <4>1, <4>2, <1>14
      <4> QED
        BY <4>1, <4>3
    <3> QED
      BY <3>1, <3>2
  <2> QED
    BY <2>1
<1>15. L[root] \in P
  <2> HIDE DEF P
  <2> QED
    BY <1>1, <1>13, <1>14, Induction
<1>16. L[root] > L[left] /\ key \in S[root]
  <2>1. root # left /\ root # right /\ S[root] = Keys
    BY <1>1, <1>3 DEF left
  <2>2. L[root] # L[left]
    <3>1. S[left] \cap S[root] # {}
      BY <2>1, <1>1, <1>2
    <3> QED
      BY <3>1, <2>1, <1>1, <1>2
  <2> QED
    BY <2>1, <2>2, <1>1, <1>2, <1>11
<1>17. Good(root)
  BY <1>1, <1>15, <1>16
<1> QED
  BY <1>8, <1>17 DEF D, left, key, nx
-----------------------------------------------------------------------------
(* Leaves. *)

LEMMA SlotInFacts ==
  ASSUME NEW n \in LeafNodes, Sorted(n.keys), NEW key \in Keys
  PROVE  /\ SlotIn(n, key) \in 0..Len(n.keys)
         /\ SlotIn(n, key) # 0 => n.keys[SlotIn(n, key)] = key
         /\ SlotIn(n, key) = 0 => \A i \in 1..Len(n.keys) : n.keys[i] # key
         /\ BisectLeft(n.keys, key) \in 0..Len(n.keys)
         /\ \A i \in 1..Len(n.keys) : n.keys[i] < key <=> i <= BisectLeft(n.keys, key)
<1> DEFINE ks == n.keys
           b == BisectLeft(ks, key)
<1>1. ks \in Seq(Keys) /\ ks \in Seq(Nat) /\ key \in Nat /\ Len(ks) \in Nat
      /\ \A i \in 1..Len(ks) : ks[i] \in Nat
  BY KeysNat DEF LeafNodes
<1>2. b \in 0..Len(ks) /\ \A i \in 1..Len(ks) : ks[i] < key <=> i <= b
  BY <1>1, BisectLeftFacts
<1>3. SlotIn(n, key) = IF b + 1 <= Len(ks) /\ ks[b + 1] = key THEN b + 1 ELSE 0
  BY DEF SlotIn
<1> HIDE DEF b
<1>4. SlotIn(n, key) \in 0..Len(ks) /\ (SlotIn(n, key) # 0 => ks[SlotIn(n, key)] = key)
  BY <1>1, <1>2, <1>3
<1>5. ASSUME SlotIn(n, key) = 0, NEW i \in 1..Len(ks), ks[i] = key PROVE FALSE
  <2>1. i > b /\ b + 1 \in 1..Len(ks) /\ i \in Nat
    BY <1>1, <1>2, <1>5
  <2>2. ~(ks[b + 1] < key)
    BY <1>2, <2>1
  <2>3. i # b + 1
    BY <1>2, <1>3, <1>5, <2>1
  <2>4. ks[b + 1] < ks[i]
    BY <1>2, <2>1, <2>3 DEF Sorted
  <2> QED
    BY <1>1, <1>5, <2>1, <2>2, <2>4
<1> QED
  BY <1>2, <1>4, <1>5 DEF b

\* An entry put into a leaf.
LEMMA PutFacts ==
  ASSUME NEW n, NEW s, s \subseteq Keys, LeafOK(n, s), NEW key \in s, NEW ref \in Refs,
         NEW m, m = Put(n, key, ref)
  PROVE  /\ LeafOK(m, s) /\ IsLeaf(m) /\ m.next = n.next /\ Len(m.keys) >= 1
         /\ \A i \in 1..Len(n.keys) : \E j \in 1..Len(m.keys) : m.keys[j] = n.keys[i]
         /\ Answers(m, key, ref)
         /\ \A k \in s : \A x : k # key /\ Answers(n, k, x) => Answers(m, k, x)
<1> DEFINE ks == n.keys
           i == SlotIn(n, key)
           at == BisectLeft(ks, key) + 1
<1>1. /\ n \in LeafNodes /\ Sorted(ks) /\ key \in Keys /\ key \in Nat
      /\ Len(n.refs) = Len(ks) /\ Len(n.tombs) = Len(ks) /\ Len(ks) \in Nat
      /\ \A a \in 1..Len(ks) : ks[a] \in s /\ ks[a] \in Nat
  BY KeysNat DEF LeafOK, LeafNodes
<1>2. /\ ks \in Seq(Keys) /\ n.refs \in Seq(Refs) /\ n.tombs \in Seq(BOOLEAN)
      /\ n.next \in Nat /\ n.kind = "leaf"
  BY <1>1 DEF LeafNodes
<1>3. /\ i \in 0..Len(ks) /\ (i # 0 => ks[i] = key)
      /\ i = 0 => \A a \in 1..Len(ks) : ks[a] # key
      /\ at \in 1..(Len(ks) + 1)
      /\ \A a \in 1..Len(ks) : ks[a] < key <=> a < at
  <2>1. \A a \in 1..Len(ks) : a \in Nat
    OBVIOUS
  <2> QED
    BY <1>1, <2>1, SlotInFacts
<1>4. CASE i # 0
  <2>1. m = [n EXCEPT !.refs[i] = ref, !.tombs[i] = FALSE]
    BY <1>4 DEF Put
  <2> HIDE DEF i
  <2>2. /\ m.keys = ks /\ m.next = n.next /\ m.kind = "leaf"
        /\ m.refs = [n.refs EXCEPT ![i] = ref] /\ m.tombs = [n.tombs EXCEPT ![i] = FALSE]
        /\ m = [kind |-> "leaf", keys |-> m.keys, refs |-> m.refs, tombs |-> m.tombs,
                next |-> m.next]
    BY <2>1, <1>1, <1>2 DEF LeafNodes
  <2>3. i \in 1..Len(ks)
    BY <1>3, <1>4
  <2>4. m.refs \in Seq(Refs) /\ IsReplaced(m.refs, n.refs, i, ref)
    BY <1>1, <1>2, <2>2, <2>3, ReplaceFacts
  <2>5. m.tombs \in Seq(BOOLEAN) /\ IsReplaced(m.tombs, n.tombs, i, FALSE)
    <3>1. FALSE \in BOOLEAN /\ i \in 1..Len(n.tombs)
      BY <1>1, <2>3
    <3> DEFINE t == [n.tombs EXCEPT ![i] = FALSE]
    <3>2. t \in Seq(BOOLEAN) /\ IsReplaced(t, n.tombs, i, FALSE)
      BY <1>2, <3>1, ReplaceFacts
    <3>3. m.tombs = t
      BY <2>2
    <3> HIDE DEF t
    <3> QED
      BY <3>2, <3>3
  <2> USE DEF IsReplaced
  <2>6. LeafOK(m, s)
    <3>1. m \in LeafNodes
      BY <1>2, <2>2, <2>4, <2>5 DEF LeafNodes
    <3> QED
      BY <1>1, <2>2, <2>4, <2>5, <3>1 DEF LeafOK
  <2>7. Answers(m, key, ref)
    BY <1>3, <2>2, <2>3, <2>4, <2>5 DEF Answers
  <2>8. ASSUME NEW k \in s, NEW x, k # key, Answers(n, k, x) PROVE Answers(m, k, x)
    <3>1. \A a \in 1..Len(ks) : ks[a] = k => a # i
      BY <1>3, <2>3, <2>8
    <3>2. \A a \in 1..Len(ks) : ks[a] = k => m.refs[a] = n.refs[a] /\ m.tombs[a] = n.tombs[a]
      <4>1. \A a \in 1..Len(ks) : ks[a] = k => m.refs[a] = n.refs[a]
        BY <1>1, <3>1, <2>4
      <4>2. \A a \in 1..Len(ks) : a # i => m.tombs[a] = n.tombs[a]
        BY <1>1, <2>5
      <4> QED
        BY <3>1, <4>1, <4>2
    <3> QED
      BY <2>2, <2>8, <3>2 DEF Answers
  <2> QED
    BY <1>1, <2>2, <2>3, <2>6, <2>7, <2>8 DEF IsLeaf
<1>5. CASE i = 0
  <2>1. m = Leaf(InsertAt(ks, at, key), InsertAt(n.refs, at, ref),
                 InsertAt(n.tombs, at, FALSE), n.next)
    BY <1>5 DEF Put
  <2> HIDE DEF i, at
  <2>2. /\ m.keys = InsertAt(ks, at, key) /\ m.refs = InsertAt(n.refs, at, ref)
        /\ m.tombs = InsertAt(n.tombs, at, FALSE) /\ m.next = n.next /\ m.kind = "leaf"
        /\ m = [kind |-> "leaf", keys |-> m.keys, refs |-> m.refs, tombs |-> m.tombs,
                next |-> m.next]
    BY <2>1 DEF Leaf
  <2>3. m.keys \in Seq(Keys) /\ IsInserted(m.keys, ks, at, key)
    BY <1>1, <1>2, <1>3, <2>2, InsertAtFacts
  <2>4. m.refs \in Seq(Refs) /\ IsInserted(m.refs, n.refs, at, ref)
    BY <1>1, <1>2, <1>3, <2>2, InsertAtFacts
  <2>5. m.tombs \in Seq(BOOLEAN) /\ IsInserted(m.tombs, n.tombs, at, FALSE)
    <3>1. FALSE \in BOOLEAN /\ at \in 1..(Len(n.tombs) + 1)
      BY <1>1, <1>3
    <3> QED
      BY <1>2, <2>2, <3>1, InsertAtFacts, Zenon
  <2> USE DEF IsInserted
  <2>6. at \in Nat /\ at \in 1..Len(m.keys)
    BY <1>1, <1>3, <2>3
  <2>7. ASSUME NEW a \in 1..Len(ks)
        PROVE  \E j \in 1..Len(m.keys) : /\ m.keys[j] = ks[a] /\ m.refs[j] = n.refs[a]
                                         /\ m.tombs[j] = n.tombs[a]
    <3>1. CASE a < at
      <4>1. a \in 1..Len(m.keys)
        BY <1>1, <2>3
      <4>2. m.keys[a] = ks[a] /\ m.refs[a] = n.refs[a]
        BY <1>1, <3>1, <4>1, <2>3, <2>4
      <4>3. m.tombs[a] = n.tombs[a]
        BY <1>1, <3>1, <4>1, <2>5
      <4> QED
        BY <4>1, <4>2, <4>3, Zenon
    <3>2. CASE ~(a < at)
      <4>1. a + 1 \in 1..Len(m.keys) /\ a + 1 > at /\ (a + 1) - 1 = a /\ a >= at
        BY <1>1, <2>3, <2>6, <3>2
      <4>2. m.keys[a + 1] = ks[a]
        BY <4>1, <2>3
      <4>3. m.refs[a + 1] = n.refs[a]
        BY <1>1, <4>1, <2>4
      <4>4. m.keys[a + 1] = ks[a] /\ m.refs[a + 1] = n.refs[a]
        BY <4>2, <4>3
      <4>5. m.tombs[a + 1] = n.tombs[a]
        <5>1. a >= at
          BY <2>6, <3>2
        <5> QED
          BY <1>1, <5>1, <2>5
      <4> QED
        BY <4>1, <4>4, <4>5, Zenon
    <3> QED
      BY <3>1, <3>2
  <2>8. ASSUME NEW j \in 1..Len(m.keys), j # at
        PROVE  \E a \in 1..Len(ks) : /\ m.keys[j] = ks[a] /\ m.tombs[j] = n.tombs[a]
                                     /\ a = IF j < at THEN j ELSE j - 1
    <3>1. CASE j < at
      <4>1. j \in 1..Len(ks)
        BY <1>1, <1>3, <2>3, <3>1
      <4>2. m.keys[j] = ks[j]
        BY <1>1, <3>1, <4>1, <2>3
      <4>3. m.tombs[j] = n.tombs[j]
        BY <1>1, <3>1, <4>1, <2>5
      <4> QED
        BY <3>1, <4>1, <4>2, <4>3, Zenon
    <3>2. CASE ~(j < at)
      <4>1. j - 1 \in 1..Len(ks) /\ j > at
        BY <1>1, <2>3, <2>6, <2>8, <3>2
      <4>2. m.keys[j] = ks[j - 1]
        BY <1>1, <3>2, <4>1, <2>3
      <4>3. m.tombs[j] = n.tombs[j - 1]
        BY <1>1, <3>2, <4>1, <2>3, <2>5
      <4> QED
        BY <3>2, <4>1, <4>2, <4>3, Zenon
    <3> QED
      BY <3>1, <3>2
  <2>9. m.keys[at] = key /\ m.refs[at] = ref /\ m.tombs[at] = FALSE
    <3>1. at \in 1..(Len(ks) + 1) /\ ~(at < at)
      BY <1>3, <2>6
    <3>2. m.keys[at] = key /\ m.refs[at] = ref
      BY <3>1, <2>3, <2>4
    <3>3. m.tombs[at] = FALSE
      BY <3>1, <2>5, Zenon
    <3> QED
      BY <3>2, <3>3
  <2>10. ASSUME NEW a \in 1..Len(m.keys), NEW b \in 1..Len(m.keys), a < b
         PROVE  m.keys[a] < m.keys[b]
    <3>1. a \in Nat /\ b \in Nat
      OBVIOUS
    <3>2. CASE a = at
      <4>1. b - 1 \in 1..Len(ks) /\ m.keys[b] = ks[b - 1] /\ ~(b - 1 < at)
        BY <1>1, <2>3, <2>6, <2>10, <3>1, <3>2
      <4>2. ~(ks[b - 1] < key) /\ ks[b - 1] # key /\ ks[b - 1] \in Nat
        BY <4>1, <1>1, <1>3, <1>5
      <4> QED
        BY <4>1, <4>2, <2>9, <3>2, <1>1
    <3>3. CASE b = at
      <4>1. a \in 1..Len(ks) /\ m.keys[a] = ks[a] /\ a < at
        BY <1>1, <1>3, <2>3, <2>6, <2>10, <3>1, <3>3
      <4> QED
        BY <4>1, <1>3, <2>9, <3>3
    <3>4. CASE a # at /\ b # at
      <4>1. PICK c \in 1..Len(ks) : m.keys[a] = ks[c] /\ c = IF a < at THEN a ELSE a - 1
        BY <3>4, <2>8
      <4>2. PICK d \in 1..Len(ks) : m.keys[b] = ks[d] /\ d = IF b < at THEN b ELSE b - 1
        BY <3>4, <2>8
      <4>3. c < d
        BY <4>1, <4>2, <3>1, <3>4, <2>6, <2>10
      <4> QED
        BY <4>1, <4>2, <4>3, <1>1 DEF Sorted
    <3> QED
      BY <3>2, <3>3, <3>4
  <2>11. LeafOK(m, s)
    <3>1. m \in LeafNodes
      BY <1>2, <2>2, <2>3, <2>4, <2>5 DEF LeafNodes
    <3>2. \A a \in 1..Len(m.keys) : m.keys[a] \in s
      BY <1>1, <2>8, <2>9
    <3> QED
      BY <2>3, <2>4, <2>5, <2>10, <3>1, <3>2 DEF LeafOK, Sorted
  <2>12. Answers(m, key, ref)
    BY <2>6, <2>9 DEF Answers
  <2>13. ASSUME NEW k \in s, NEW x, k # key, Answers(n, k, x) PROVE Answers(m, k, x)
    <3>1. CASE \E a \in 1..Len(ks) : ks[a] = k /\ ~n.tombs[a] /\ x = n.refs[a]
      BY <3>1, <2>7 DEF Answers
    <3>2. CASE x = Absent /\ (\A a \in 1..Len(ks) : ks[a] = k => n.tombs[a])
      <4>1. ASSUME NEW j \in 1..Len(m.keys), m.keys[j] = k PROVE m.tombs[j]
        <5>1. j # at
          BY <4>1, <2>9, <2>13
        <5> QED
          BY <5>1, <4>1, <3>2, <2>8
      <4> QED
        BY <3>2, <4>1 DEF Answers
    <3> QED
      BY <2>13, <3>1, <3>2 DEF Answers
  <2> QED
    <3>1. Len(m.keys) >= 1 /\ m.next = n.next /\ IsLeaf(m)
      BY <1>1, <2>2, <2>3 DEF IsLeaf
    <3> QED
      BY <2>7, <2>11, <2>12, <2>13, <3>1
<1> QED
  BY <1>4, <1>5
-----------------------------------------------------------------------------
(* Split leaves. *)

Part(n, a, b, next) ==
  Leaf(SubSeq(n.keys, a, b), SubSeq(n.refs, a, b), SubSeq(n.tombs, a, b), next)

\* The keys of t in the leaf are its keys a to b.
Spanned(n, t, a, b) ==
  \A i \in 1..Len(n.keys) : n.keys[i] \in t <=> (a <= i /\ i <= b)

\* Every key of n that is in t is a key of m.
Keeps(m, n, t) ==
  \A i \in 1..Len(n.keys) : n.keys[i] \in t =>
    \E j \in 1..Len(m.keys) : m.keys[j] = n.keys[i]

\* The entries a to b of a leaf are a leaf of the keys they hold.
LEMMA PartFacts ==
  ASSUME NEW n, NEW s, s \subseteq Keys, LeafOK(n, s),
         NEW a \in 1..(Len(n.keys) + 1), NEW b \in 0..Len(n.keys), a <= b + 1,
         NEW next \in Nat, NEW t, t \subseteq s,
         Spanned(n, t, a, b),
         NEW m, m = Part(n, a, b, next)
  PROVE  /\ LeafOK(m, t) /\ IsLeaf(m) /\ m.next = next
         /\ Keeps(m, n, t)
         /\ \A k \in t : \A x : Answers(n, k, x) => Answers(m, k, x)
<1> DEFINE ks == n.keys
           N == b + 1 - a
<1>1. /\ n \in LeafNodes /\ Sorted(ks) /\ Len(n.refs) = Len(ks) /\ Len(n.tombs) = Len(ks)
      /\ ks \in Seq(Keys) /\ n.refs \in Seq(Refs) /\ n.tombs \in Seq(BOOLEAN)
      /\ Len(ks) \in Nat /\ a \in Nat /\ b \in Nat
      /\ \A i \in 1..Len(ks) : ks[i] \in Nat
      /\ \A i \in 1..Len(ks) : ks[i] \in t <=> (a <= i /\ i <= b)
  BY KeysNat DEF LeafOK, LeafNodes, Spanned
<1>2. /\ m.keys = SubSeq(ks, a, b) /\ m.refs = SubSeq(n.refs, a, b)
      /\ m.tombs = SubSeq(n.tombs, a, b) /\ m.next = next /\ m.kind = "leaf"
      /\ m = [kind |-> "leaf", keys |-> m.keys, refs |-> m.refs, tombs |-> m.tombs,
              next |-> m.next]
  BY DEF Leaf, Part
<1>3. /\ m.keys \in Seq(Keys) /\ Len(m.keys) = N
      /\ \A j \in 1..N : m.keys[j] = ks[a + j - 1]
  <2> DEFINE u == SubSeq(ks, a, b)
  <2>1. u \in Seq(Keys) /\ Len(u) = N /\ \A j \in 1..N : u[j] = ks[a + j - 1]
    <3>1. u \in Seq(Keys) /\ IsCut(u, ks, a, b)
      BY <1>1, CutOf
    <3> HIDE DEF u
    <3> QED
      BY <3>1 DEF IsCut
  <2>2. m.keys = u
    BY <1>2
  <2> HIDE DEF u
  <2> QED
    BY <2>1, <2>2
<1>4. /\ m.refs \in Seq(Refs) /\ Len(m.refs) = N
      /\ \A j \in 1..N : m.refs[j] = n.refs[a + j - 1]
  <2> DEFINE u == SubSeq(n.refs, a, b)
  <2>1. u \in Seq(Refs) /\ Len(u) = N /\ \A j \in 1..N : u[j] = n.refs[a + j - 1]
    <3>1. u \in Seq(Refs) /\ IsCut(u, n.refs, a, b)
      BY <1>1, CutOf
    <3> HIDE DEF u
    <3> QED
      BY <3>1 DEF IsCut
  <2>2. m.refs = u
    BY <1>2
  <2> HIDE DEF u
  <2> QED
    BY <2>1, <2>2
<1>5. /\ m.tombs \in Seq(BOOLEAN) /\ Len(m.tombs) = N
      /\ \A j \in 1..N : m.tombs[j] = n.tombs[a + j - 1]
  <2> DEFINE u == SubSeq(n.tombs, a, b)
  <2>1. u \in Seq(BOOLEAN) /\ Len(u) = N /\ \A j \in 1..N : u[j] = n.tombs[a + j - 1]
    <3>1. u \in Seq(BOOLEAN) /\ IsCut(u, n.tombs, a, b)
      BY <1>1, CutOf
    <3> HIDE DEF u
    <3> QED
      BY <3>1 DEF IsCut
  <2>2. m.tombs = u
    BY <1>2
  <2> HIDE DEF u
  <2> QED
    BY <2>1, <2>2
<1>6. N \in Nat /\ \A j \in 1..N : /\ a + j - 1 \in 1..Len(ks)
                                   /\ a <= a + j - 1 /\ a + j - 1 <= b
  BY <1>1
<1>7. ASSUME NEW i \in 1..Len(ks), ks[i] \in t
      PROVE  \E j \in 1..N : /\ i = a + j - 1 /\ m.keys[j] = ks[i]
                             /\ m.refs[j] = n.refs[i] /\ m.tombs[j] = n.tombs[i]
  <2>1. i - a + 1 \in 1..N /\ a + (i - a + 1) - 1 = i
    <3>1. a <= i /\ i <= b /\ a \in Nat /\ b \in Nat /\ i \in Nat
      BY <1>1, <1>7
    <3> QED
      BY <3>1
  <2> DEFINE j == i - a + 1
  <2> HIDE DEF j
  <2>2. j \in 1..N /\ a + j - 1 = i
    BY <2>1 DEF j
  <2>3. m.keys[j] = ks[i] /\ m.refs[j] = n.refs[i]
    BY <2>2, <1>3, <1>4
  <2>4. m.tombs[j] = n.tombs[i]
    BY <2>2, <1>5, Zenon
  <2> QED
    BY <2>2, <2>3, <2>4
<1> HIDE DEF N
<1>8. LeafOK(m, t)
  <2>1. m \in LeafNodes
    BY <1>2, <1>3, <1>4, <1>5 DEF LeafNodes
  <2>2. Sorted(m.keys)
    <3>1. ASSUME NEW i \in 1..N, NEW j \in 1..N, i < j PROVE m.keys[i] < m.keys[j]
      <4>1. a + i - 1 \in 1..Len(ks) /\ a + j - 1 \in 1..Len(ks)
        BY <1>6
      <4>2. a + i - 1 < a + j - 1
        BY <3>1, <1>1
      <4> QED
        BY <4>1, <4>2, <1>1, <1>3 DEF Sorted
    <3> QED
      BY <3>1, <1>3 DEF Sorted
  <2>3. \A j \in 1..N : m.keys[j] \in t
    BY <1>1, <1>3, <1>6
  <2> QED
    BY <2>1, <2>2, <2>3, <1>3, <1>4, <1>5 DEF LeafOK
<1>9. ASSUME NEW k \in t, NEW x, Answers(n, k, x) PROVE Answers(m, k, x)
  <2>1. CASE \E i \in 1..Len(ks) : ks[i] = k /\ ~n.tombs[i] /\ x = n.refs[i]
    <3>1. PICK i \in 1..Len(ks) : ks[i] = k /\ ~n.tombs[i] /\ x = n.refs[i]
      BY <2>1
    <3>2. PICK j \in 1..N : /\ m.keys[j] = ks[i] /\ m.refs[j] = n.refs[i]
                            /\ m.tombs[j] = n.tombs[i]
      BY <1>7, <3>1
    <3>3. j \in 1..Len(m.keys) /\ m.keys[j] = k /\ ~m.tombs[j] /\ x = m.refs[j]
      BY <1>3, <3>1, <3>2
    <3> QED
      BY <3>3 DEF Answers
  <2>2. CASE x = Absent /\ (\A i \in 1..Len(ks) : ks[i] = k => n.tombs[i])
    <3>1. ASSUME NEW j \in 1..N, m.keys[j] = k PROVE m.tombs[j]
      <4>1. a + j - 1 \in 1..Len(ks) /\ ks[a + j - 1] = k
        BY <3>1, <1>3, <1>6
      <4> QED
        BY <4>1, <2>2, <1>5
    <3> QED
      BY <2>2, <3>1, <1>3 DEF Answers
  <2> QED
    BY <1>9, <2>1, <2>2 DEF Answers
<1> QED
  BY <1>2, <1>3, <1>7, <1>8, <1>9 DEF IsLeaf, N, Keeps

Lower(s, key) == {k \in s : k < key}
Upper(s, key) == {k \in s : key <= k}

\* A leaf that no longer fits, split into two that do.
\* Every key of n is a key of a or of b.
Shares(n, a, b) ==
  \A i \in 1..Len(n.keys) :
    \/ \E j \in 1..Len(a.keys) : a.keys[j] = n.keys[i]
    \/ \E j \in 1..Len(b.keys) : b.keys[j] = n.keys[i]

\* The halves of a leaf n of span s, split at sep.
Halved(n, s, sep, page, left, right) ==
  /\ sep \in s /\ Lower(s, sep) # {} /\ Len(right.keys) >= 1
  /\ LeafOK(left, Lower(s, sep)) /\ LeafOK(right, Upper(s, sep))
  /\ IsLeaf(left) /\ IsLeaf(right)
  /\ left.next = page /\ right.next = n.next
  /\ Shares(n, left, right)
  /\ \A k \in Lower(s, sep) : \A x : Answers(n, k, x) => Answers(left, k, x)
  /\ \A k \in Upper(s, sep) : \A x : Answers(n, k, x) => Answers(right, k, x)

LEMMA SplitLeafFacts ==
  ASSUME NEW n, NEW s, s \subseteq Keys, LeafOK(n, s), Len(n.keys) >= 1, ~LeafFits(n.keys),
         NEW page \in Nat, NEW left, left = SplitLeaf(n, page)[1],
         NEW right, right = SplitLeaf(n, page)[2], LeafFits(right.keys), NEW sep, sep = right.keys[1]
  PROVE  Halved(n, s, sep, page, left, right)
<1> SUFFICES
         /\ sep \in s /\ Lower(s, sep) # {} /\ Len(right.keys) >= 1
         /\ LeafOK(left, Lower(s, sep)) /\ LeafOK(right, Upper(s, sep))
         /\ IsLeaf(left) /\ IsLeaf(right)
         /\ left.next = page /\ right.next = n.next
         /\ \A i \in 1..Len(n.keys) :
              \/ \E j \in 1..Len(left.keys) : left.keys[j] = n.keys[i]
              \/ \E j \in 1..Len(right.keys) : right.keys[j] = n.keys[i]
         /\ \A k \in Lower(s, sep) : \A x : Answers(n, k, x) => Answers(left, k, x)
         /\ \A k \in Upper(s, sep) : \A x : Answers(n, k, x) => Answers(right, k, x)
  BY DEF Halved, Shares
<1> DEFINE ks == n.keys
           N == Len(ks)
           mid == N \div 2
           lo == Lower(s, sep)
           hi == Upper(s, sep)
<1>1. /\ n \in LeafNodes /\ Sorted(ks) /\ Len(n.refs) = N /\ Len(n.tombs) = N
      /\ ks \in Seq(Keys) /\ N \in Nat /\ n.next \in Nat
      /\ \A i \in 1..N : ks[i] \in s /\ ks[i] \in Nat
  BY KeysNat DEF LeafOK, LeafNodes
<1>2. left = Part(n, 1, mid, page) /\ right = Part(n, mid + 1, N, n.next)
  BY <1>1 DEF SplitLeaf, Part
<1>3. right.keys = SubSeq(ks, mid + 1, N)
  <2> DEFINE u == SubSeq(ks, mid + 1, N)
  <2>1. right = Leaf(u, SubSeq(n.refs, mid + 1, N), SubSeq(n.tombs, mid + 1, N), n.next)
    BY <1>2 DEF Part
  <2> HIDE DEF u
  <2>2. right.keys = u
    BY <2>1 DEF Leaf
  <2> QED
    BY <2>2 DEF u
<1>4. mid \in 1..(N - 1)
  <2>1. N \in Nat /\ N >= 1
    BY <1>1
  <2>2. CASE N = 1
    <3>1. mid + 1 = 1
      BY <2>2
    <3>2. SubSeq(ks, 1, N) = ks
      BY <1>1, SubSeqFull
    <3>3. right.keys = ks
      <4> HIDE DEF mid, N
      <4> QED
        BY <1>3, <3>1, <3>2
    <3> QED
      BY <3>3
  <2> HIDE DEF N
  <2>3. CASE N >= 2
    BY <2>1, <2>3
  <2> QED
    BY <2>1, <2>2, <2>3
<1> HIDE DEF mid
<1>5. N - mid \in Nat /\ N - mid >= 1 /\ mid \in Nat
  BY <1>1, <1>4
<1>6. sep = ks[mid + 1] /\ mid + 1 \in 1..N
  <2>1. mid + 1 \in 1..N /\ N \in 0..N /\ mid + 1 <= N + 1 /\ (mid + 1) + 1 - 1 = mid + 1
        /\ 1 \in 1..(N + 1 - (mid + 1))
    <3> HIDE DEF N
    <3> QED
      BY <1>1, <1>4, <1>5
  <2> DEFINE u == SubSeq(ks, mid + 1, N)
  <2>2. \A j \in 1..(N + 1 - (mid + 1)) : u[j] = ks[(mid + 1) + j - 1]
    BY <1>1, <2>1, SubSeqFacts
  <2> HIDE DEF N, ks
  <2> QED
    BY <1>3, <2>1, <2>2
<1>7. sep \in s /\ sep \in Nat
  BY <1>1, <1>6
<1>8. ASSUME NEW i \in 1..N PROVE ks[i] < sep <=> i <= mid
  <2>1. i \in Nat
    OBVIOUS
  <2>2. CASE i <= mid
    BY <2>1, <2>2, <1>1, <1>5, <1>6 DEF Sorted
  <2>3. CASE i = mid + 1
    BY <2>1, <2>3, <1>1, <1>5, <1>6
  <2>4. CASE i > mid + 1
    <3>1. sep < ks[i]
      BY <2>4, <1>1, <1>6 DEF Sorted
    <3> QED
      BY <2>1, <2>4, <3>1, <1>1, <1>5, <1>7
  <2> QED
    BY <2>1, <2>2, <2>3, <2>4, <1>5
<1>9. lo \subseteq s /\ hi \subseteq s
  BY DEF Lower, Upper
<1>10. /\ \A i \in 1..N : ks[i] \in lo <=> (1 <= i /\ i <= mid)
       /\ \A i \in 1..N : ks[i] \in hi <=> (mid + 1 <= i /\ i <= N)
  <2>1. ASSUME NEW i \in 1..N
        PROVE  /\ 1 <= i /\ i <= N /\ (mid + 1 <= i <=> ~(i <= mid))
               /\ ks[i] \in s /\ (sep <= ks[i] <=> ~(ks[i] < sep))
    <3> HIDE DEF N, ks
    <3> QED
      BY <1>1, <1>5, <1>7
  <2> HIDE DEF N, ks
  <2> QED
    BY <2>1, <1>8 DEF Lower, Upper
<1>11. Spanned(n, lo, 1, mid) /\ Spanned(n, hi, mid + 1, N)
  BY <1>10 DEF Spanned
<1>12. ks[1] \in lo
  BY <1>1, <1>4, <1>10
<1> HIDE DEF lo, hi
<1>13. /\ LeafOK(left, lo) /\ IsLeaf(left) /\ left.next = page
       /\ Keeps(left, n, lo)
       /\ \A k \in lo : \A x : Answers(n, k, x) => Answers(left, k, x)
  <2>1. 1 \in 1..(N + 1) /\ mid \in 0..N /\ 1 <= mid + 1
    BY <1>1, <1>4
  <2>2. LeafOK(left, lo) /\ IsLeaf(left) /\ left.next = page
    BY <1>2, <1>9, <1>11, <2>1, PartFacts
  <2>3. Keeps(left, n, lo)
    BY <1>2, <1>9, <1>11, <2>1, PartFacts
  <2>4. \A k \in lo : \A x : Answers(n, k, x) => Answers(left, k, x)
    BY <1>2, <1>9, <1>11, <2>1, PartFacts
  <2> QED
    BY <2>2, <2>3, <2>4
<1>14. /\ LeafOK(right, hi) /\ IsLeaf(right) /\ right.next = n.next
       /\ Len(right.keys) = N + 1 - (mid + 1)
       /\ Keeps(right, n, hi)
       /\ \A k \in hi : \A x : Answers(n, k, x) => Answers(right, k, x)
  <2>1. mid + 1 \in 1..(N + 1) /\ N \in 0..N /\ mid + 1 <= N + 1 /\ n.next \in Nat
    BY <1>1, <1>4
  <2>2. LeafOK(right, hi) /\ IsLeaf(right) /\ right.next = n.next
    BY <1>2, <1>9, <1>11, <2>1, PartFacts
  <2>3. Len(right.keys) = N + 1 - (mid + 1)
    <3> DEFINE u == SubSeq(ks, mid + 1, N)
    <3>1. Len(u) = N + 1 - (mid + 1)
      BY <1>1, <2>1, SubSeqFacts
    <3>2. right.keys = u
      BY <1>3
    <3> HIDE DEF u, N
    <3> QED
      BY <3>1, <3>2
  <2>4. Keeps(right, n, hi)
    BY <1>2, <1>9, <1>11, <2>1, PartFacts
  <2>5. \A k \in hi : \A x : Answers(n, k, x) => Answers(right, k, x)
    BY <1>2, <1>9, <1>11, <2>1, PartFacts
  <2> QED
    BY <2>2, <2>4, <2>5, <2>3
<1>15. \A i \in 1..N : ks[i] \in lo \/ ks[i] \in hi
  BY <1>1, <1>5, <1>10
<1>16. Len(right.keys) >= 1
  <2> HIDE DEF N
  <2> QED
    BY <1>1, <1>5, <1>14
<1> QED
  BY <1>7, <1>12, <1>13, <1>14, <1>15, <1>16 DEF lo, hi, Keeps
-----------------------------------------------------------------------------
(* Internal nodes. *)

\* key is not in ks, and belongs at place a.
Place(ks, key, a) ==
  \A i \in 1..Len(ks) : ks[i] # key /\ (ks[i] < key <=> i < a)

LEMMA InsertedSpans ==
  ASSUME NEW ks \in Seq(Keys), Sorted(ks), NEW key \in Keys,
         NEW a \in 1..(Len(ks) + 1), Place(ks, key, a),
         NEW m \in Seq(Keys), IsInserted(m, ks, a, key)
  PROVE  /\ Sorted(m)
         /\ \A i \in 1..(Len(ks) + 1) : i < a => Between(m, i) = Between(ks, i)
         /\ Between(m, a) = Lower(Between(ks, a), key)
         /\ Between(m, a + 1) = Upper(Between(ks, a), key)
         /\ \A i \in 1..(Len(ks) + 1) : i > a => Between(m, i + 1) = Between(ks, i)
<1> DEFINE N == Len(ks)
<1>1. /\ N \in Nat /\ a \in Nat /\ key \in Nat /\ Len(m) = N + 1
      /\ \A i \in 1..N : ks[i] \in Nat /\ ks[i] # key /\ (ks[i] < key <=> i < a)
      /\ Keys \subseteq Nat
  BY KeysNat DEF IsInserted, Place
<1>2. \A i \in 1..N : i < a => m[i] = ks[i] /\ ks[i] < key
  BY <1>1 DEF IsInserted
<1>3. \A i \in 1..N : i >= a => m[i + 1] = ks[i] /\ key < ks[i]
  <2>1. ASSUME NEW i \in 1..N, i >= a PROVE m[i + 1] = ks[i] /\ key < ks[i]
    <3>1. m[i + 1] = ks[i]
      BY <2>1 DEF IsInserted
    <3>2. ~(ks[i] < key) /\ ks[i] # key /\ ks[i] \in Nat
      BY <2>1, <1>1
    <3> QED
      BY <1>1, <3>1, <3>2
  <2> QED
    BY <2>1
<1>4. m[a] = key /\ a \in 1..(N + 1)
  BY DEF IsInserted
<1> HIDE DEF N
<1>5. Sorted(m)
  <2> SUFFICES ASSUME NEW i \in 1..(N + 1), NEW j \in 1..(N + 1), i < j PROVE m[i] < m[j]
    BY <1>1 DEF Sorted
  <2>1. CASE j < a
    <3>1. i \in 1..N /\ j \in 1..N /\ i < a
      BY <2>1, <1>1, <1>4
    <3> QED
      BY <2>1, <3>1, <1>2 DEF Sorted, N
  <2>2. CASE j = a
    <3>1. i \in 1..N /\ i < a
      BY <2>2, <1>1, <1>4
    <3> QED
      BY <2>2, <3>1, <1>2, <1>4
  <2>3. CASE j > a
    <3>1. j - 1 \in 1..N /\ j - 1 >= a /\ (j - 1) + 1 = j
      BY <2>3, <1>1
    <3>2. m[j] = ks[j - 1] /\ key < ks[j - 1] /\ ks[j - 1] \in Nat
      <4> DEFINE c == j - 1
      <4>1. c \in 1..N /\ c >= a /\ c + 1 = j
        BY <3>1
      <4> HIDE DEF c
      <4>2. m[c + 1] = ks[c] /\ key < ks[c] /\ ks[c] \in Nat
        BY <4>1, <1>1, <1>3
      <4>3. m[j] = ks[c]
        BY <4>1, <4>2
      <4> QED
        BY <4>2, <4>3 DEF c
    <3>3. CASE i < a
      <4>1. i \in 1..N
        BY <3>3, <1>1, <1>4
      <4>2. m[i] < key /\ m[i] \in Nat
        BY <4>1, <3>3, <1>1, <1>2
      <4> QED
        BY <4>2, <3>2, <1>1
    <3>4. CASE i = a
      BY <3>2, <3>4, <1>4
    <3>5. CASE i > a
      <4> DEFINE d == i - 1
                 c == j - 1
      <4>1. d \in 1..N /\ d >= a /\ d + 1 = i /\ c \in 1..N /\ d < c
        BY <3>1, <3>5, <1>1
      <4> HIDE DEF d
      <4>2. m[d + 1] = ks[d]
        BY <4>1, <1>3
      <4>3. ks[d] < ks[c]
        <5> HIDE DEF c
        <5> QED
          BY <4>1 DEF Sorted, N
      <4> QED
        BY <3>2, <4>1, <4>2, <4>3
    <3> QED
      BY <3>3, <3>4, <3>5, <1>1
  <2> QED
    BY <2>1, <2>2, <2>3, <1>1
<1>6. ASSUME NEW i \in 1..(N + 1), i < a PROVE Between(m, i) = Between(ks, i)
  <2>1. i \in 1..N /\ i <= N + 1 /\ m[i] = ks[i]
    BY <1>1, <1>2, <1>4, <1>6
  <2>2. i > 1 => i - 1 \in 1..N /\ m[i - 1] = ks[i - 1]
    BY <1>1, <1>2, <1>4, <1>6
  <2> QED
    BY <1>1, <2>1, <2>2 DEF Between, N
<1>7. Between(m, a) = Lower(Between(ks, a), key)
  <2>1. a > 1 => a - 1 \in 1..N /\ m[a - 1] = ks[a - 1]
    BY <1>1, <1>2, <1>4
  <2>2. a <= N => a \in 1..N /\ key < ks[a] /\ ks[a] \in Nat
    BY <1>1, <1>3, <1>4
  <2>3. ASSUME NEW k \in Keys PROVE k < key => (a <= N => k < ks[a])
    BY <1>1, <2>2
  <2>4. ASSUME NEW k \in Keys
        PROVE  k \in Between(m, a) <=> k \in Between(ks, a) /\ k < key
    <3>1. a <= N + 1
      BY <1>1, <1>4
    <3> QED
      BY <1>1, <1>4, <2>1, <2>3, <3>1 DEF Between, N
  <2> QED
    BY <2>4 DEF Between, Lower
<1>8. Between(m, a + 1) = Upper(Between(ks, a), key)
  <2>1. a > 1 => a - 1 \in 1..N /\ ks[a - 1] < key /\ ks[a - 1] \in Nat
    BY <1>1, <1>2, <1>4
  <2>2. a <= N => a \in 1..N /\ m[a + 1] = ks[a]
    BY <1>1, <1>3, <1>4
  <2>3. ASSUME NEW k \in Keys PROVE key <= k => (a > 1 => ks[a - 1] <= k)
    BY <1>1, <2>1
  <2>4. (a + 1) - 1 = a /\ a + 1 > 1 /\ (a + 1 <= N + 1 <=> a <= N)
    BY <1>1
  <2> QED
    BY <1>1, <1>4, <2>2, <2>3, <2>4 DEF Between, Upper, N
<1>9. ASSUME NEW i \in 1..(N + 1), i > a PROVE Between(m, i + 1) = Between(ks, i)
  <2>1. (i + 1) - 1 = i /\ i > 1 /\ i + 1 > 1 /\ (i + 1 <= N + 1 <=> i <= N)
    BY <1>1, <1>9
  <2>2. i <= N => m[i + 1] = ks[i]
    BY <1>1, <1>3, <1>9
  <2>3. m[i] = ks[i - 1]
    <3> DEFINE c == i - 1
    <3>1. c \in 1..N /\ c >= a /\ c + 1 = i
      BY <1>1, <1>9
    <3> HIDE DEF c
    <3>2. m[c + 1] = ks[c]
      BY <3>1, <1>3
    <3> QED
      BY <3>1, <3>2 DEF c
  <2> QED
    BY <1>1, <2>1, <2>2, <2>3 DEF Between, N
<1> QED
  BY <1>5, <1>6, <1>7, <1>8, <1>9 DEF N

\* The spans W2 are W with the span of left shared by left and right.
Shared(W2, W, left, key, right) ==
  /\ left \in DOMAIN W2 /\ W2[left] = Lower(W[left], key)
  /\ right \in DOMAIN W2 /\ W2[right] = Upper(W[left], key)
  /\ \A c \in DOMAIN W : c # left => c \in DOMAIN W2 /\ W2[c] = W[c]

\* Node n, of span s and level l, is the parent of left, which split at key.
ParentOfSplit(n, s, l, W, L, left, key, right) ==
  /\ s \subseteq Keys /\ InternalOK(n, s, l, W, L)
  /\ key \in s /\ left = Child(n, key)
  /\ right \in Nat /\ L[right] = L[left]
  /\ \E k \in W[left] : k < key

\* The parent of a split node, with the separator and the right half.
\* m is a node like n that also has the separator key.
Adopted(m, n, s, l, W, L, key) ==
  /\ InternalOK(m, s, l, W, L) /\ ~IsLeaf(m)
  /\ Len(m.keys) >= 1
  /\ \A i \in 1..Len(m.keys) :
       m.keys[i] = key \/ \E j \in 1..Len(n.keys) : m.keys[i] = n.keys[j]

LEMMA AdoptOK ==
  ASSUME NEW n, NEW s, NEW l, NEW W, NEW L, NEW key, NEW left, NEW right,
         ParentOfSplit(n, s, l, W, L, left, key, right),
         NEW W2, Shared(W2, W, left, key, right),
         NEW m, m = Adopt(n, key, right)
  PROVE  Adopted(m, n, s, l, W2, L, key)
<1> SUFFICES /\ InternalOK(m, s, l, W2, L) /\ ~IsLeaf(m)
             /\ Len(m.keys) >= 1
             /\ \A i \in 1..Len(m.keys) :
                  m.keys[i] = key \/ \E j \in 1..Len(n.keys) : m.keys[i] = n.keys[j]
  BY DEF Adopted
<1> DEFINE ks == n.keys
           cs == n.children
           N == Len(ks)
           a == BisectLeft(ks, key) + 1
<1> /\ s \subseteq Keys /\ InternalOK(n, s, l, W, L) /\ key \in s
    /\ left = Child(n, key) /\ right \in Nat /\ L[right] = L[left]
  BY DEF ParentOfSplit
<1> PICK k0 \in W[left] : k0 < key
  BY DEF ParentOfSplit
<1>1. /\ n \in InternalNodes /\ Sorted(ks) /\ Len(cs) = N + 1 /\ N \in Nat
      /\ ks \in Seq(Keys) /\ ks \in Seq(Nat) /\ cs \in Seq(Nat)
      /\ key \in Keys /\ key \in Nat /\ Keys \subseteq Nat
      /\ \A i \in 1..N : /\ ks[i] \in Nat /\ ks[i] \in s
                         /\ \E k \in s : k < ks[i]
      /\ \A i, j \in 1..N : i < j => ks[i] < ks[j]
  BY KeysNat DEF InternalOK, InternalNodes, Sorted
<1>2. /\ N \in Nat /\ key \in Nat /\ Keys \subseteq Nat
      /\ \A i \in 1..N : ks[i] \in Nat
      /\ \A i, j \in 1..N : i < j => ks[i] < ks[j]
  BY <1>1
<1>3. \A i \in 1..(N + 1) :
        cs[i] \in DOMAIN W /\ L[cs[i]] + 1 = l /\ W[cs[i]] = s \cap Between(ks, i)
  BY <1>1 DEF InternalOK
<1>4. PICK b \in 1..(N + 1) : left = cs[b] /\ key \in Between(ks, b)
  BY <1>1, ChildBetween
<1>5. W[left] = s \cap Between(ks, b) /\ left \in DOMAIN W /\ L[left] + 1 = l
  BY <1>3, <1>4
<1>6. a \in 1..(N + 1) /\ \A i \in 1..N : ks[i] < key <=> i < a
  <2> DEFINE bl == BisectLeft(ks, key)
  <2>1. bl \in 0..N /\ \A i \in 1..N : ks[i] < key <=> i <= bl
    BY <1>1, BisectLeftFacts
  <2>2. a = bl + 1
    OBVIOUS
  <2>3. \A i \in 1..N : i \in Nat
    OBVIOUS
  <2> HIDE DEF bl, a
  <2>4. N \in Nat
    BY <1>1
  <2>5. a \in 1..(N + 1) /\ \A i \in 1..N : i < a <=> i <= bl
    BY <2>4, <2>1, <2>2, <2>3
  <2> QED
    BY <2>5, <2>1
<1>7. N = Len(ks)
  OBVIOUS
<1>8. /\ m.keys = InsertAt(ks, a, key) /\ m.children = InsertAt(cs, a + 1, right)
      /\ m.kind = "internal"
      /\ m = [kind |-> "internal", keys |-> m.keys, children |-> m.children]
  <2> DEFINE bl == BisectLeft(ks, key)
  <2>1. m = Internal(InsertAt(ks, bl + 1, key), InsertAt(cs, bl + 2, right))
    BY DEF Adopt
  <2>2. a = bl + 1 /\ bl + 2 = a + 1
    <3>1. bl \in Nat
      BY <1>1, BisectLeftFacts
    <3> HIDE DEF bl
    <3> QED
      BY <3>1 DEF bl
  <2> HIDE DEF bl, a, ks, cs
  <2>3. m = Internal(InsertAt(ks, a, key), InsertAt(cs, a + 1, right))
    BY <2>1, <2>2
  <2> QED
    BY <2>3 DEF Internal
<1> HIDE DEF a, N, ks, cs
<1>9. \A i \in 1..N : ks[i] # key
  <2> SUFFICES ASSUME NEW i \in 1..N, ks[i] = key PROVE FALSE
    OBVIOUS
  <2>1. k0 \in Between(ks, b) /\ k0 \in Nat
    BY <1>1, <1>5
  <2>2. CASE i < b
    <3>1. b - 1 \in 1..N /\ ks[b - 1] <= k0 /\ i <= b - 1
      <4>1. b > 1 /\ b - 1 \in 1..N /\ i <= b - 1
        BY <2>2, <1>2
      <4> QED
        BY <4>1, <2>1 DEF Between
    <3> DEFINE c == b - 1
    <3>2. c \in 1..N /\ ks[c] <= k0 /\ i <= c
      BY <3>1
    <3> HIDE DEF c
    <3>3. i = c \/ ks[i] < ks[c]
      <4>1. i \in Nat /\ c \in Nat
        BY <3>2, <1>2
      <4> QED
        BY <3>2, <4>1, <1>2
    <3>4. ks[i] \in Nat /\ ks[c] \in Nat
      BY <3>2, <1>2
    <3> QED
      BY <2>1, <3>2, <3>3, <3>4, <1>2
  <2>3. CASE i >= b
    <3>1. b \in 1..N /\ key < ks[b]
      <4>1. b \in 1..N /\ b <= Len(ks)
        BY <2>3, <1>7, <1>2
      <4> QED
        BY <4>1, <1>4 DEF Between
    <3>2. i = b \/ ks[b] < ks[i]
      <4>1. b \in Nat /\ i \in Nat
        BY <1>2
      <4> QED
        BY <2>3, <3>1, <4>1, <1>2
    <3> QED
      BY <3>1, <3>2, <1>1
  <2> QED
    BY <2>2, <2>3, <1>1
<1>10. a = b
  <2>1. key \in Between(ks, a)
    <3>1. a > 1 => a - 1 \in 1..N /\ ks[a - 1] <= key
      <4> SUFFICES ASSUME a > 1 PROVE a - 1 \in 1..N /\ ks[a - 1] <= key
        OBVIOUS
      <4>1. a - 1 \in 1..N /\ a - 1 < a
        BY <1>1, <1>6
      <4> QED
        <5> DEFINE c == a - 1
        <5>1. c \in 1..N /\ c < a
          BY <4>1
        <5> HIDE DEF c
        <5>2. ks[c] < key /\ ks[c] \in Nat
          BY <5>1, <1>6, <1>2
        <5>3. ks[c] <= key
          BY <5>2, <1>2
        <5> QED
          BY <4>1, <5>3 DEF c
    <3>2. a <= N => a \in 1..N /\ key < ks[a]
      BY <1>1, <1>6, <1>9
    <3> QED
      BY <1>7, <1>1, <3>1, <3>2 DEF Between
  <2> QED
    BY <1>7, <2>1, <1>1, <1>4, <1>6, BetweenApart
<1>11. m.keys \in Seq(Keys) /\ IsInserted(m.keys, ks, a, key)
  BY <1>7, <1>1, <1>6, <1>8, InsertAtFacts
<1>12. m.children \in Seq(Nat) /\ IsInserted(m.children, cs, a + 1, right)
  <2>1. a + 1 \in 1..(Len(cs) + 1)
    BY <1>1, <1>6
  <2> QED
    BY <1>1, <2>1, <1>8, InsertAtFacts
<1>13. /\ Len(m.keys) = N + 1 /\ Len(m.children) = N + 2
       /\ \A i \in 1..(N + 1) : i < a => m.keys[i] = ks[i]
       /\ m.keys[a] = key
       /\ \A i \in 1..(N + 1) : i > a => m.keys[i] = ks[i - 1]
  <2>1. Len(m.children) = N + 2
    <3>1. Len(m.children) = Len(cs) + 1
      BY <1>12 DEF IsInserted
    <3> QED
      BY <3>1, <1>1
  <2> QED
    BY <2>1, <1>7, <1>11 DEF IsInserted
<1>14. /\ \A i \in 1..(N + 2) : i < a + 1 => m.children[i] = cs[i]
       /\ m.children[a + 1] = right
       /\ \A i \in 1..(N + 2) : i > a + 1 => m.children[i] = cs[i - 1]
  <2>1. Len(cs) + 1 = N + 2
    BY <1>1
  <2> QED
    BY <1>12, <2>1 DEF IsInserted
<1>15. Place(ks, key, a)
  BY <1>7, <1>6, <1>9 DEF Place
<1>16. /\ Sorted(m.keys)
       /\ \A i \in 1..(N + 1) : i < a => Between(m.keys, i) = Between(ks, i)
       /\ Between(m.keys, a) = Lower(Between(ks, a), key)
       /\ Between(m.keys, a + 1) = Upper(Between(ks, a), key)
       /\ \A i \in 1..(N + 1) : i > a => Between(m.keys, i + 1) = Between(ks, i)
  BY <1>7, <1>1, <1>6, <1>11, <1>15, InsertedSpans
<1>17. ASSUME NEW i \in 1..(N + 1)
       PROVE  m.keys[i] = key \/ \E j \in 1..N : m.keys[i] = ks[j]
  <2>1. CASE i < a
    BY <2>1, <1>1, <1>6, <1>13
  <2>2. CASE i = a
    BY <2>2, <1>13
  <2>3. CASE i > a
    <3>1. i - 1 \in 1..N /\ m.keys[i] = ks[i - 1]
      <4>1. i - 1 \in 1..N
        BY <2>3, <1>2, <1>6
      <4> QED
        BY <2>3, <4>1, <1>13
    <3> QED
      BY <3>1
  <2> QED
    BY <2>1, <2>2, <2>3, <1>6
<1>18. ASSUME NEW i \in 1..(N + 1)
       PROVE  m.keys[i] \in s /\ \E k \in s : k < m.keys[i]
  BY <1>1, <1>5, <1>17
<1>19. \A i \in 1..(N + 1) : i # a => cs[i] # left
  <2> SUFFICES ASSUME NEW i \in 1..(N + 1), cs[i] = left PROVE i = a
    OBVIOUS
  <2>1. key \in Between(ks, i)
    BY <1>3, <1>4, <1>5
  <2> QED
    BY <1>7, <2>1, <1>1, <1>4, <1>10, BetweenApart
<1>20. ASSUME NEW i \in 1..(N + 1), i # a
       PROVE  cs[i] \in DOMAIN W2 /\ L[cs[i]] + 1 = l /\ W2[cs[i]] = s \cap Between(ks, i)
  BY <1>3, <1>19, <1>20 DEF Shared
<1>21. ASSUME NEW i \in 1..(N + 2)
       PROVE  /\ m.children[i] \in DOMAIN W2 /\ L[m.children[i]] + 1 = l
              /\ W2[m.children[i]] = s \cap Between(m.keys, i)
  <2>1. CASE i < a
    <3>1. i \in 1..(N + 1) /\ m.children[i] = cs[i]
      <4>1. i \in 1..(N + 1) /\ i < a + 1
        BY <2>1, <1>2, <1>6
      <4> QED
        BY <4>1, <1>14
    <3> QED
      BY <2>1, <3>1, <1>16, <1>20
  <2>2. CASE i = a
    <3>1. m.children[i] = left
      <4>1. a \in 1..(N + 2) /\ a < a + 1
        BY <1>6, <1>2
      <4>2. m.children[a] = cs[a]
        BY <4>1, <1>14
      <4> QED
        BY <2>2, <4>2, <1>4, <1>10
    <3>2. s \cap Lower(Between(ks, a), key) = Lower(W[left], key)
      BY <1>5, <1>10 DEF Lower
    <3> QED
      BY <2>2, <3>1, <3>2, <1>5, <1>16 DEF Shared
  <2>3. CASE i = a + 1
    <3>1. m.children[i] = right
      BY <2>3, <1>14
    <3>2. s \cap Upper(Between(ks, a), key) = Upper(W[left], key)
      BY <1>5, <1>10 DEF Upper
    <3> QED
      BY <2>3, <3>1, <3>2, <1>5, <1>16 DEF Shared
  <2>4. CASE i > a + 1
    <3> DEFINE c == i - 1
    <3>1. c \in 1..(N + 1) /\ c > a /\ c + 1 = i
      BY <2>4, <1>1, <1>6
    <3>2. m.children[i] = cs[c]
      BY <2>4, <3>1, <1>1, <1>6, <1>14
    <3> HIDE DEF c
    <3>3. Between(m.keys, c + 1) = Between(ks, c) /\ c # a
      BY <3>1, <1>6, <1>16
    <3> QED
      BY <3>1, <3>2, <3>3, <1>20
  <2> QED
    BY <2>1, <2>2, <2>3, <2>4, <1>1, <1>6
<1>22. m \in InternalNodes /\ Len(m.children) = Len(m.keys) + 1
  <2>1. m \in InternalNodes
    BY <1>8, <1>11, <1>12 DEF InternalNodes
  <2> QED
    BY <1>1, <1>13, <2>1
<1>23. InternalOK(m, s, l, W2, L)
  <2>1. Len(m.keys) = N + 1 /\ Len(m.children) = N + 2
    BY <1>13
  <2> QED
    BY <2>1, <1>16, <1>18, <1>21, <1>22 DEF InternalOK
<1> QED
  BY <1>1, <1>8, <1>13, <1>17, <1>23 DEF IsLeaf, N, ks
-----------------------------------------------------------------------------
(* Split internal nodes. *)

Branch(n, a, b) == Internal(SubSeq(n.keys, a, b), SubSeq(n.children, a, b + 1))

\* m is the part of n with keys a to b.
IsBranch(m, n, a, b) ==
  /\ m \in InternalNodes /\ ~IsLeaf(m)
  /\ Len(m.keys) = b + 1 - a /\ Len(m.children) = Len(m.keys) + 1
  /\ Sorted(m.keys)
  /\ \A i \in 1..(b + 1 - a) : m.keys[i] = n.keys[a + i - 1]
  /\ \A i \in 1..(b + 2 - a) : m.children[i] = n.children[a + i - 1]

LEMMA BranchFacts ==
  ASSUME NEW n, n \in InternalNodes, Len(n.children) = Len(n.keys) + 1, Sorted(n.keys),
         NEW a \in 1..(Len(n.keys) + 1), NEW b \in 0..Len(n.keys), a <= b + 1,
         NEW m, m = Branch(n, a, b)
  PROVE  IsBranch(m, n, a, b)
<1> DEFINE ks == n.keys
           cs == n.children
           u == SubSeq(ks, a, b)
           w == SubSeq(cs, a, b + 1)
<1>1. /\ ks \in Seq(Keys) /\ cs \in Seq(Nat) /\ Len(ks) \in Nat /\ a \in Nat /\ b \in Nat
      /\ \A i, j \in 1..Len(ks) : i < j => ks[i] < ks[j]
  BY KeysNat DEF InternalNodes, Sorted
<1>2. /\ u \in Seq(Keys) /\ Len(u) = b + 1 - a
      /\ \A i \in 1..(b + 1 - a) : u[i] = ks[a + i - 1]
  <2>1. u \in Seq(Keys) /\ IsCut(u, ks, a, b)
    BY <1>1, CutOf
  <2> HIDE DEF u
  <2> QED
    BY <2>1 DEF IsCut
<1>3. a \in 1..(Len(cs) + 1) /\ b + 1 \in 0..Len(cs) /\ a <= (b + 1) + 1
      /\ (b + 1) + 1 - a = b + 2 - a
  BY <1>1
<1>4. /\ w \in Seq(Nat) /\ Len(w) = b + 2 - a
      /\ \A i \in 1..(b + 2 - a) : w[i] = cs[a + i - 1]
  <2>1. /\ w \in Seq(Nat) /\ Len(w) = (b + 1) + 1 - a
        /\ \A i \in 1..((b + 1) + 1 - a) : w[i] = cs[a + i - 1]
    <3>1. w \in Seq(Nat) /\ IsCut(w, cs, a, b + 1)
      BY <1>1, <1>3, CutOf
    <3> HIDE DEF w
    <3> QED
      BY <3>1 DEF IsCut
  <2> HIDE DEF w
  <2> QED
    BY <1>3, <2>1
<1>5. m = Internal(u, w)
  BY DEF Branch
<1> HIDE DEF u, w
<1>6. /\ m.keys = u /\ m.children = w /\ m.kind = "internal"
      /\ m \in InternalNodes
  BY <1>2, <1>4, <1>5 DEF Internal, InternalNodes
<1>7. Sorted(u)
  <2> SUFFICES ASSUME NEW i \in 1..(b + 1 - a), NEW j \in 1..(b + 1 - a), i < j
               PROVE  u[i] < u[j]
    BY <1>2 DEF Sorted
  <2>1. /\ a + i - 1 \in 1..Len(ks) /\ a + j - 1 \in 1..Len(ks)
        /\ a + i - 1 < a + j - 1
    BY <1>1
  <2> QED
    BY <2>1, <1>1, <1>2
<1>8. Len(m.keys) = b + 1 - a /\ Len(m.children) = Len(m.keys) + 1
  BY <1>1, <1>2, <1>4, <1>6
<1>9. m \in InternalNodes /\ ~IsLeaf(m)
  BY <1>6 DEF IsLeaf
<1> QED
  BY <1>2, <1>4, <1>6, <1>7, <1>8, <1>9 DEF IsBranch

\* Halves a and b of an internal node, for the two parts of its span.
SplitOK(n, s, l, W, L, sep, a, b) ==
  /\ sep \in s /\ Lower(s, sep) # {}
  /\ \E i \in 1..Len(n.keys) : n.keys[i] = sep
  /\ InternalOK(a, Lower(s, sep), l, W, L) /\ ~IsLeaf(a)
  /\ InternalOK(b, Upper(s, sep), l, W, L) /\ ~IsLeaf(b)
  /\ \A i \in 1..Len(a.keys) : \E j \in 1..Len(n.keys) : a.keys[i] = n.keys[j]
  /\ \A i \in 1..Len(b.keys) : \E j \in 1..Len(n.keys) : b.keys[i] = n.keys[j]

\* An internal node split at its median key.
LEMMA SplitInternalOK ==
  ASSUME NEW n, NEW s, s \subseteq Keys, NEW l, NEW W, NEW L, InternalOK(n, s, l, W, L),
         Len(n.keys) >= 1, NEW sep, sep = n.keys[Len(n.keys) \div 2 + 1],
         NEW left, left = SplitInternal(n)[1], NEW right, right = SplitInternal(n)[2]
  PROVE  SplitOK(n, s, l, W, L, sep, left, right)
<1> DEFINE ks == n.keys
           cs == n.children
           N == Len(ks)
           mid == N \div 2
<1>1. /\ n \in InternalNodes /\ Sorted(ks) /\ Len(cs) = N + 1 /\ N \in Nat /\ N >= 1
      /\ \A i \in 1..N : ks[i] \in s /\ \E k \in s : k < ks[i]
  BY KeysNat DEF InternalOK, InternalNodes
<1>2. /\ Keys \subseteq Nat
      /\ \A i \in 1..N : ks[i] \in Nat /\ ks[i] \in s /\ ks[i] \in Keys
      /\ \A i, j \in 1..N : i < j => ks[i] < ks[j]
  BY <1>1, KeysNat DEF Sorted, InternalNodes
<1>3. \A i \in 1..(N + 1) :
        cs[i] \in DOMAIN W /\ L[cs[i]] + 1 = l /\ W[cs[i]] = s \cap Between(ks, i)
  BY <1>1 DEF InternalOK
<1>4. mid \in 0..(N - 1)
  <2>1. N \in Nat /\ N >= 1
    BY <1>1
  <2> HIDE DEF N
  <2> QED
    BY <2>1
<1>5. left = Branch(n, 1, mid) /\ right = Branch(n, mid + 2, N)
  <2>1. left = Internal(SubSeq(ks, 1, mid), SubSeq(cs, 1, mid + 1))
    BY DEF SplitInternal
  <2>2. right = Internal(SubSeq(ks, mid + 2, N), SubSeq(cs, mid + 2, Len(cs)))
    BY DEF SplitInternal
  <2>3. Len(cs) = N + 1
    BY <1>1
  <2> HIDE DEF mid
  <2> QED
    BY <2>1, <2>2, <2>3 DEF Branch
<1>6. sep = ks[mid + 1]
  OBVIOUS
<1>7. N = Len(ks)
  OBVIOUS
<1> HIDE DEF mid, N
<1>8. N \in Nat /\ mid \in Nat /\ mid + 1 \in 1..N /\ mid <= N /\ mid + 1 <= N
  BY <1>1, <1>4
<1>9. sep \in s /\ sep \in Nat /\ sep \in Keys /\ \E k \in s : k < sep
  BY <1>1, <1>2, <1>6, <1>8
<1>10. /\ left \in InternalNodes /\ ~IsLeaf(left)
       /\ Len(left.keys) = mid /\ Len(left.children) = mid + 1
       /\ Sorted(left.keys)
       /\ \A i \in 1..mid : left.keys[i] = ks[i]
       /\ \A i \in 1..(mid + 1) : left.children[i] = cs[i]
  <2>1. 1 \in 1..(N + 1) /\ mid \in 0..N /\ 1 <= mid + 1
    BY <1>8
  <2>2. /\ left \in InternalNodes /\ ~IsLeaf(left)
        /\ Len(left.keys) = mid + 1 - 1 /\ Len(left.children) = Len(left.keys) + 1
        /\ Sorted(left.keys)
        /\ \A i \in 1..(mid + 1 - 1) : left.keys[i] = ks[1 + i - 1]
        /\ \A i \in 1..(mid + 2 - 1) : left.children[i] = cs[1 + i - 1]
    <3>1. IsBranch(left, n, 1, mid)
      BY <1>1, <1>5, <1>7, <2>1, BranchFacts
    <3> QED
      BY <3>1 DEF IsBranch
  <2>3. mid + 1 - 1 = mid /\ mid + 2 - 1 = mid + 1 /\ \A i \in 1..(mid + 1) : 1 + i - 1 = i
    BY <1>8
  <2> QED
    BY <2>2, <2>3, <1>8
<1>11. /\ right \in InternalNodes /\ ~IsLeaf(right)
       /\ Len(right.keys) = N - mid - 1 /\ Len(right.children) = N - mid
       /\ Sorted(right.keys)
       /\ \A i \in 1..(N - mid - 1) : right.keys[i] = ks[mid + 1 + i]
       /\ \A i \in 1..(N - mid) : right.children[i] = cs[mid + 1 + i]
  <2>1. mid + 2 \in 1..(N + 1) /\ N \in 0..N /\ mid + 2 <= N + 1
    BY <1>8
  <2>2. /\ right \in InternalNodes /\ ~IsLeaf(right)
        /\ Len(right.keys) = N + 1 - (mid + 2) /\ Len(right.children) = Len(right.keys) + 1
        /\ Sorted(right.keys)
        /\ \A i \in 1..(N + 1 - (mid + 2)) : right.keys[i] = ks[(mid + 2) + i - 1]
        /\ \A i \in 1..(N + 2 - (mid + 2)) : right.children[i] = cs[(mid + 2) + i - 1]
    <3>1. IsBranch(right, n, mid + 2, N)
      BY <1>1, <1>5, <1>7, <2>1, BranchFacts
    <3> QED
      BY <3>1 DEF IsBranch
  <2>3. /\ N + 1 - (mid + 2) = N - mid - 1 /\ N + 2 - (mid + 2) = N - mid
        /\ N - mid - 1 + 1 = N - mid
        /\ \A i \in 1..(N - mid) : (mid + 2) + i - 1 = mid + 1 + i
        /\ \A i \in 1..(N - mid - 1) : (mid + 2) + i - 1 = mid + 1 + i
    BY <1>8
  <2> QED
    BY <2>2, <2>3
<1>12. InternalOK(left, Lower(s, sep), l, W, L)
  <2>1. ASSUME NEW i \in 1..mid
        PROVE  /\ left.keys[i] \in Lower(s, sep)
               /\ \E k \in Lower(s, sep) : k < left.keys[i]
    <3>1. i \in 1..N /\ i < mid + 1
      BY <1>8
    <3>2. ks[i] \in s /\ ks[i] < sep /\ ks[i] \in Nat
      BY <3>1, <1>2, <1>6, <1>8
    <3>3. PICK k \in s : k < ks[i]
      BY <3>1, <1>1
    <3>4. k < sep
      BY <3>2, <3>3, <1>2, <1>9
    <3> QED
      BY <3>2, <3>3, <3>4, <1>10 DEF Lower
  <2>2. ASSUME NEW i \in 1..(mid + 1)
        PROVE  /\ left.children[i] \in DOMAIN W /\ L[left.children[i]] + 1 = l
               /\ W[left.children[i]] = Lower(s, sep) \cap Between(left.keys, i)
    <3>1. i \in 1..(N + 1) /\ left.children[i] = cs[i]
      BY <1>8, <1>10
    <3>2. i > 1 => i - 1 \in 1..N /\ i - 1 \in 1..mid /\ left.keys[i - 1] = ks[i - 1]
      BY <1>8, <1>10
    <3>3. i <= mid => /\ i \in 1..mid /\ left.keys[i] = ks[i]
                      /\ ks[i] < sep /\ ks[i] \in Nat
      <4> SUFFICES ASSUME i <= mid
                   PROVE  i \in 1..mid /\ left.keys[i] = ks[i] /\ ks[i] < sep /\ ks[i] \in Nat
        OBVIOUS
      <4>1. i \in 1..N /\ i < mid + 1 /\ i \in 1..mid
        BY <1>8
      <4> QED
        BY <4>1, <1>2, <1>6, <1>8, <1>10
    <3>4. ~(i <= mid) => i = mid + 1
      BY <1>8
    <3>5. ASSUME NEW k \in Keys
          PROVE  /\ k < sep /\ k \in Between(left.keys, i) => k \in Between(ks, i)
                 /\ k \in Between(ks, i) => k < sep /\ k \in Between(left.keys, i)
      <4>1. k \in Nat
        BY <1>2
      <4>2. CASE i <= mid
        <5>1. i <= N
          BY <4>2, <1>8
        <5>2. k \in Between(left.keys, i) <=> k \in Between(ks, i)
          BY <4>2, <5>1, <3>2, <3>3, <1>7, <1>10 DEF Between
        <5>3. k \in Between(ks, i) => k < sep
          BY <4>1, <4>2, <5>1, <3>3, <1>7, <1>9 DEF Between
        <5> QED
          BY <5>2, <5>3
      <4>3. CASE i = mid + 1
        <5>1. i <= N /\ ~(i <= mid) /\ ks[i] = sep
          BY <4>3, <1>6, <1>8
        <5> QED
          BY <4>3, <5>1, <3>2, <1>7, <1>10 DEF Between
      <4> QED
        BY <4>2, <4>3, <3>4
    <3>6. s \cap Between(ks, i) = Lower(s, sep) \cap Between(left.keys, i)
      BY <3>5 DEF Lower, Between
    <3> QED
      BY <3>1, <3>6, <1>3
  <2> QED
    BY <2>1, <2>2, <1>10 DEF InternalOK
<1>13. InternalOK(right, Upper(s, sep), l, W, L)
  <2>1. sep \in Upper(s, sep)
    BY <1>9 DEF Upper
  <2>2. ASSUME NEW i \in 1..(N - mid - 1)
        PROVE  /\ right.keys[i] \in Upper(s, sep)
               /\ \E k \in Upper(s, sep) : k < right.keys[i]
    <3>1. mid + 1 + i \in 1..N /\ mid + 1 < mid + 1 + i
      BY <1>8
    <3>2. right.keys[i] \in s /\ sep < right.keys[i] /\ right.keys[i] \in Nat
      BY <3>1, <1>2, <1>6, <1>8, <1>11
    <3> QED
      BY <2>1, <3>2, <1>9 DEF Upper
  <2>3. ASSUME NEW i \in 1..(N - mid)
        PROVE  /\ right.children[i] \in DOMAIN W /\ L[right.children[i]] + 1 = l
               /\ W[right.children[i]] = Upper(s, sep) \cap Between(right.keys, i)
    <3> DEFINE c == mid + 1 + i
    <3>1. /\ c \in 1..(N + 1) /\ c > 1 /\ c - 1 \in 1..N
          /\ (c <= N <=> i <= N - mid - 1)
          /\ i > 1 => i - 1 \in 1..(N - mid - 1) /\ mid + 1 + (i - 1) = c - 1
          /\ ~(i > 1) => c - 1 = mid + 1
      <4>1. i \in Nat /\ i >= 1 /\ i <= N - mid /\ N \in Nat /\ mid \in Nat
        BY <1>8
      <4> QED
        BY <4>1, SMTT(30)
    <3>2. right.children[i] = cs[c]
      BY <1>11
    <3>3. i <= N - mid - 1 => i \in 1..(N - mid - 1) /\ right.keys[i] = ks[c]
      BY <1>8, <1>11
    <3>4. i > 1 => right.keys[i - 1] = ks[c - 1]
      <4> DEFINE d == i - 1
      <4>1. i > 1 => d \in 1..(N - mid - 1) /\ mid + 1 + d = c - 1
        BY <3>1
      <4> HIDE DEF d, c
      <4>2. i > 1 => right.keys[d] = ks[c - 1]
        BY <4>1, <1>11
      <4> QED
        BY <4>2 DEF d
    <3>5. c - 1 \in 1..N /\ ks[c - 1] \in Nat /\ (i > 1 => sep < ks[c - 1])
          /\ (~(i > 1) => ks[c - 1] = sep)
      <4> DEFINE d == c - 1
      <4>1. d \in 1..N /\ (i > 1 => mid + 1 < d) /\ (~(i > 1) => d = mid + 1)
        BY <3>1, <1>8
      <4> HIDE DEF d
      <4>2. ks[d] \in Nat /\ (i > 1 => sep < ks[d]) /\ (~(i > 1) => ks[d] = sep)
        BY <4>1, <1>2, <1>6, <1>8
      <4> QED
        BY <4>1, <4>2 DEF d
    <3> HIDE DEF c
    <3>6. ASSUME NEW k \in Keys
          PROVE  k \in Between(ks, c) <=> sep <= k /\ k \in Between(right.keys, i)
      <4>1. k \in Nat
        BY <1>2
      <4>2. k \in Between(ks, c) <=> ks[c - 1] <= k /\ (c <= N => k < ks[c])
        BY <3>1, <1>7 DEF Between
      <4>3. k \in Between(right.keys, i) <=>
              (i > 1 => ks[c - 1] <= k) /\ (c <= N => k < ks[c])
        BY <3>1, <3>3, <3>4, <1>11 DEF Between
      <4>4. (i > 1 /\ ks[c - 1] <= k) => sep <= k
        BY <3>5, <4>1, <1>9
      <4> QED
        BY <3>5, <4>2, <4>3, <4>4
    <3>7. s \cap Between(ks, c) = Upper(s, sep) \cap Between(right.keys, i)
      BY <3>6 DEF Upper, Between
    <3> QED
      BY <3>1, <3>2, <3>7, <1>3
  <2>4. Len(right.children) = Len(right.keys) + 1
    BY <1>8, <1>11
  <2> QED
    BY <2>2, <2>3, <2>4, <1>11 DEF InternalOK
<1>14. \A i \in 1..Len(left.keys) : \E j \in 1..N : left.keys[i] = ks[j]
  <2>1. ASSUME NEW i \in 1..mid PROVE \E j \in 1..N : left.keys[i] = ks[j]
    <3>1. i \in 1..N
      BY <1>8
    <3> QED
      BY <3>1, <1>10
  <2> QED
    BY <2>1, <1>10
<1>15. \A i \in 1..Len(right.keys) : \E j \in 1..N : right.keys[i] = ks[j]
  <2>1. ASSUME NEW i \in 1..(N - mid - 1) PROVE \E j \in 1..N : right.keys[i] = ks[j]
    <3>1. mid + 1 + i \in 1..N
      BY <1>8
    <3> QED
      BY <3>1, <1>11
  <2> QED
    BY <2>1, <1>11
<1>16. Lower(s, sep) # {}
  BY <1>9 DEF Lower
<1> QED
  BY <1>6, <1>7, <1>8, <1>9, <1>10, <1>11, <1>12, <1>13, <1>14, <1>15, <1>16 DEF SplitOK
-----------------------------------------------------------------------------
(* Trees. *)

LEMMA TreeNodes ==
  ASSUME NEW ns, NEW r, NEW pr, NEW S, NEW L, Tree(ns, r, pr, S, L), NEW p \in DOMAIN ns
  PROVE  /\ IsLeaf(ns[p]) => LeafOK(ns[p], S[p]) /\ L[p] = 0
         /\ ~IsLeaf(ns[p]) => InternalOK(ns[p], S[p], L[p], Seen(S, pr), L)
         /\ S[p] # {} /\ S[p] \subseteq Keys /\ L[p] \in Nat /\ Convex(S[p])
BY DEF Tree, NodesOK, Spans

LEMMA NodesApart ==
  ASSUME NEW ns, NEW r, NEW pr, NEW S, NEW L, Tree(ns, r, pr, S, L),
         NEW p \in DOMAIN ns, NEW q \in DOMAIN ns, p # q, L[p] = L[q]
  PROVE  S[p] \cap S[q] = {}
BY DEF Tree, Spans

\* The keys in the leaves of ns are in the leaves of ns2 as well.
NoneLost(ns, ns2) == \A k : Stored(ns, k) => Stored(ns2, k)

\* Every key of n is a key of m.
KeepsAll(m, n) ==
  \A i \in 1..Len(n.keys) : \E j \in 1..Len(m.keys) : m.keys[j] = n.keys[i]

\* A leaf written again, with the keys it had.
LEMMA RewriteLeaf ==
  ASSUME NEW ns, NEW r, NEW S, NEW L, Tree(ns, r, NoCall, S, L),
         NEW p \in DOMAIN ns, IsLeaf(ns[p]),
         NEW n, LeafOK(n, S[p]), IsLeaf(n), n.next = ns[p].next, KeepsAll(n, ns[p]),
         NEW ct, Holds(ns, S, ct), NEW ct2, \A k \in S[p] : Answers(n, k, ct2[k]),
         \A k \in Keys \ S[p] : ct2[k] = ct[k],
         NEW ns2, ns2 = Write(ns, p, n)
  PROVE  Tree(ns2, r, NoCall, S, L) /\ Holds(ns2, S, ct2)
<1>1. /\ DOMAIN ns2 = DOMAIN ns /\ ns2[p] = n
      /\ \A q \in DOMAIN ns : q # p => ns2[q] = ns[q]
  <2>1. DOMAIN ns \cup {p} = DOMAIN ns
    OBVIOUS
  <2>2. DOMAIN ns2 = DOMAIN ns \cup {p} /\ ns2[p] = n
    BY DEF Write
  <2>3. \A q \in DOMAIN ns : q # p => ns2[q] = ns[q]
    BY DEF Write
  <2> QED
    BY <2>1, <2>2, <2>3
<1>2. \A q \in DOMAIN ns : IsLeaf(ns2[q]) <=> IsLeaf(ns[q])
  BY <1>1
<1>3. Seen(S, NoCall) = S
  BY DEF Seen
<1>4. NoneLost(ns, ns2)
  <2> SUFFICES ASSUME NEW k, NEW q \in DOMAIN ns, IsLeaf(ns[q]),
                      NEW i \in 1..Len(ns[q].keys), ns[q].keys[i] = k
               PROVE  Stored(ns2, k)
    BY DEF NoneLost, Stored
  <2>1. CASE q = p
    <3>1. PICK j \in 1..Len(n.keys) : n.keys[j] = k
      BY <2>1 DEF KeepsAll
    <3> QED
      BY <3>1, <1>1 DEF Stored
  <2>2. CASE q # p
    BY <2>2, <1>1 DEF Stored
  <2> QED
    BY <2>1, <2>2
<1>5. Spans(ns2, r, NoCall, S, L)
  BY <1>1 DEF Tree, Spans
<1>6. NodesOK(ns2, NoCall, S, L)
  <2>1. NodesOK(ns, NoCall, S, L)
    BY DEF Tree
  <2>2. L[p] = 0
    BY TreeNodes
  <2>3. ASSUME NEW q \in DOMAIN ns
        PROVE  \/ IsLeaf(ns2[q]) /\ LeafOK(ns2[q], S[q]) /\ L[q] = 0
               \/ ~IsLeaf(ns2[q]) /\ InternalOK(ns2[q], S[q], L[q], Seen(S, NoCall), L)
    <3>1. CASE q = p
      BY <3>1, <2>2, <1>1
    <3>2. CASE q # p
      BY <3>2, <2>1, <1>1 DEF NodesOK
    <3> QED
      BY <3>1, <3>2
  <2> QED
    BY <2>3, <1>1 DEF NodesOK
<1>7. SeparatorsStored(ns2)
  <2>1. SeparatorsStored(ns)
    BY DEF Tree
  <2>2. ASSUME NEW q \in DOMAIN ns, ~IsLeaf(ns2[q])
        PROVE  \A i \in 1..Len(ns2[q].keys) : Stored(ns2, ns2[q].keys[i])
    <3>1. q # p /\ ns2[q] = ns[q]
      BY <2>2, <1>1
    <3> QED
      BY <3>1, <2>1, <2>2, <1>4 DEF SeparatorsStored, NoneLost
  <2> QED
    BY <2>2, <1>1 DEF SeparatorsStored
<1>8. ChainOK(ns2, S)
  <2>1. ChainOK(ns, S)
    BY DEF Tree
  <2>2. \A q \in DOMAIN ns : IsLeaf(ns[q]) => ns2[q].next = ns[q].next
    BY <1>1
  <2> QED
    BY <2>1, <2>2, <1>1, <1>2 DEF ChainOK
<1>9. CallOK(ns2, NoCall, S, L)
  BY DEF CallOK
<1>10. Holds(ns2, S, ct2)
  <2>1. ASSUME NEW q \in DOMAIN ns, IsLeaf(ns[q]), q # p, NEW k \in S[q]
        PROVE  Answers(ns2[q], k, ct2[k])
    <3>1. L[q] = 0 /\ L[p] = 0 /\ k \in Keys
      BY <2>1, TreeNodes
    <3>2. k \notin S[p]
      BY <2>1, <3>1, NodesApart
    <3> QED
      BY <2>1, <3>1, <3>2, <1>1 DEF Holds
  <2> QED
    BY <2>1, <1>1, <1>2 DEF Holds
<1> QED
  BY <1>5, <1>6, <1>7, <1>8, <1>9, <1>10 DEF Tree
-----------------------------------------------------------------------------
(* A split in the middle of a tree. *)

\* The spans after page p gave its keys from sep on to page new.
SpansCut(S, p, sep, new) ==
  [q \in DOMAIN S \cup {new} |->
     IF q = p THEN Lower(S[p], sep) ELSE IF q = new THEN Upper(S[p], sep) ELSE S[q]]

LevelsCut(L, p, new) == [q \in DOMAIN L \cup {new} |-> IF q = new THEN L[p] ELSE L[q]]

LEMMA CutFacts ==
  ASSUME NEW s, s \subseteq Keys, Convex(s), NEW sep \in s, Lower(s, sep) # {},
         NEW lo, lo = Lower(s, sep), NEW hi, hi = Upper(s, sep)
  PROVE  /\ lo \cup hi = s /\ lo \cap hi = {} /\ lo # {} /\ hi # {}
         /\ sep \in hi /\ Convex(lo) /\ Convex(hi)
         /\ Above(lo) = hi \cup Above(hi) /\ Above(hi) = Above(s)
<1>1. Keys \subseteq Nat
  BY KeysNat
<1>2. \A k \in s : k \in Keys /\ k \in Nat /\ sep \in Nat
  BY <1>1
<1>3. /\ \A k : k \in lo <=> k \in s /\ k < sep
      /\ \A k : k \in hi <=> k \in s /\ sep <= k
  BY DEF Lower, Upper
<1>4. lo \cup hi = s /\ lo \cap hi = {} /\ lo # {} /\ sep \in hi
  BY <1>2, <1>3
<1>5. Convex(lo)
  <2> SUFFICES ASSUME NEW i \in lo, NEW j \in lo, NEW k \in Keys, i < k, k < j PROVE k \in lo
    BY DEF Convex
  <2>1. k \in s /\ k \in Nat /\ j \in Nat /\ j < sep /\ sep \in Nat
    BY <1>1, <1>2, <1>3 DEF Convex
  <2> QED
    BY <2>1, <1>3
<1>6. Convex(hi)
  <2> SUFFICES ASSUME NEW i \in hi, NEW j \in hi, NEW k \in Keys, i < k, k < j PROVE k \in hi
    BY DEF Convex
  <2>1. k \in s /\ k \in Nat /\ i \in Nat /\ sep <= i /\ sep \in Nat
    BY <1>1, <1>2, <1>3 DEF Convex
  <2> QED
    BY <2>1, <1>3
<1>7. PICK l \in lo : TRUE
  BY <1>4
<1>8. l \in s /\ l \in Nat /\ l < sep /\ sep \in Nat
  BY <1>2, <1>3
<1>9. Above(lo) = hi \cup Above(hi)
  <2>1. ASSUME NEW k \in Above(lo), k \notin hi PROVE k \in Above(hi)
    <3>1. k \in Keys /\ k \in Nat /\ l < k /\ k \notin lo
      <4>1. k \in Keys /\ \A j \in lo : j < k
        BY <2>1 DEF Above
      <4> QED
        BY <4>1, <1>1
    <3>2. k \notin s
      BY <2>1, <3>1, <1>4
    <3>3. ASSUME NEW u \in hi PROVE u < k
      <4>1. u \in s /\ u \in Nat /\ u # k
        BY <1>2, <1>3, <3>2
      <4>2. ~(k < u)
        BY <4>1, <3>1, <3>2, <1>8 DEF Convex
      <4> QED
        BY <4>1, <4>2, <3>1
    <3> QED
      BY <3>1, <3>3 DEF Above
  <2>2. ASSUME NEW k \in hi, NEW j \in lo PROVE j < k
    BY <1>2, <1>3
  <2>3. ASSUME NEW k \in Above(hi), NEW j \in lo PROVE j < k
    <3>1. k \in Nat /\ sep < k
      BY <1>1, <1>4, <2>3 DEF Above
    <3> QED
      BY <3>1, <1>2, <1>3
  <2>4. hi \subseteq Keys /\ Above(hi) \subseteq Keys
    BY <1>3 DEF Above
  <2>5. hi \subseteq Above(lo) /\ Above(hi) \subseteq Above(lo)
    BY <2>2, <2>3, <2>4 DEF Above
  <2> QED
    BY <2>1, <2>5
<1>10. Above(hi) = Above(s)
  <2>1. ASSUME NEW k \in Above(hi), NEW j \in s PROVE j < k
    <3>1. CASE j \in hi
      BY <2>1, <3>1 DEF Above
    <3>2. CASE j \in lo
      <4>1. k \in Nat /\ sep < k
        BY <1>1, <1>4, <2>1 DEF Above
      <4> QED
        BY <3>2, <4>1, <1>2, <1>3
    <3> QED
      BY <3>1, <3>2, <1>4
  <2>2. ASSUME NEW k \in Above(s), NEW j \in hi PROVE j < k
    BY <1>4, <2>2 DEF Above
  <2>3. Above(hi) \subseteq Keys /\ Above(s) \subseteq Keys
    BY DEF Above
  <2> QED
    BY <2>1, <2>2, <2>3 DEF Above
<1> QED
  BY <1>4, <1>5, <1>6, <1>9, <1>10

\* Page p split in two, the right half on a new page.
LEMMA SplitTree ==
  ASSUME NEW ns, NEW r, NEW S, NEW L, Tree(ns, r, NoCall, S, L),
         NEW p \in DOMAIN ns, DOMAIN ns \subseteq Nat,
         NEW new \in Nat \ {0}, new \notin DOMAIN ns,
         NEW sep \in S[p], Lower(S[p], sep) # {},
         NEW a, NEW b, NEW ns2, ns2 = Write(Write(ns, p, a), new, b),
         IsLeaf(a) <=> IsLeaf(ns[p]), IsLeaf(b) <=> IsLeaf(ns[p]),
         IsLeaf(ns[p]) => /\ LeafOK(a, Lower(S[p], sep)) /\ LeafOK(b, Upper(S[p], sep))
                          /\ a.next = new /\ b.next = ns[p].next,
         ~IsLeaf(ns[p]) => /\ InternalOK(a, Lower(S[p], sep), L[p], S, L)
                           /\ InternalOK(b, Upper(S[p], sep), L[p], S, L)
                           /\ \A i \in 1..Len(a.keys) : Stored(ns, a.keys[i])
                           /\ \A i \in 1..Len(b.keys) : Stored(ns, b.keys[i]),
         NoneLost(ns, ns2), Stored(ns2, sep),
         NEW key \in Keys, NEW ref \in Refs,
         NEW pr, pr = <<p, sep, new, key, ref>>,
         NEW S2, S2 = SpansCut(S, p, sep, new), NEW L2, L2 = LevelsCut(L, p, new)
  PROVE  Tree(ns2, r, pr, S2, L2)
<1> DEFINE lo == Lower(S[p], sep)
           hi == Upper(S[p], sep)
           D == DOMAIN ns
<1>1. /\ DOMAIN ns2 = D \cup {new} /\ ns2[p] = a /\ ns2[new] = b /\ p # new
      /\ \A q \in D : q # p => ns2[q] = ns[q]
  BY DEF Write
<1>2. /\ S \in [D -> SUBSET Keys] /\ L \in [D -> Nat] /\ r \in D /\ S[r] = Keys
      /\ \A q \in D : S[q] # {} /\ Convex(S[q]) /\ L[q] <= L[r]
      /\ \A q, x \in D : q # x /\ L[q] = L[x] => S[q] \cap S[x] = {}
  BY DEF Tree, Spans, Seen
<1>3. /\ DOMAIN S2 = D \cup {new} /\ S2[p] = lo /\ S2[new] = hi
      /\ \A q \in D : q # p => S2[q] = S[q]
  BY <1>1, <1>2 DEF SpansCut
<1>4. /\ L2 \in [D \cup {new} -> Nat] /\ L2[new] = L[p]
      /\ \A q \in D : L2[q] = L[q]
  BY <1>1, <1>2 DEF LevelsCut
<1>5. pr # NoCall /\ pr[1] = p /\ pr[2] = sep /\ pr[3] = new /\ pr[4] = key /\ pr[5] = ref
  BY DEF NoCall
<1>6. /\ lo \cup hi = S[p] /\ lo \cap hi = {} /\ lo # {} /\ hi # {}
      /\ sep \in hi /\ Convex(lo) /\ Convex(hi)
      /\ Above(lo) = hi \cup Above(hi) /\ Above(hi) = Above(S[p])
  <2>1. S[p] \subseteq Keys /\ Convex(S[p])
    BY <1>2
  <2> QED
    BY <2>1, CutFacts
<1> HIDE DEF lo, hi
<1>7. Seen(S2, pr) = S
  <2>1. DOMAIN S2 \ {new} = D
    <3>1. DOMAIN S2 = D \cup {new} /\ new \notin D
      BY <1>3
    <3> HIDE DEF D
    <3> QED
      BY <3>1
  <2>2. Seen(S2, pr) = [q \in D |-> IF q = p THEN S2[p] \cup S2[new] ELSE S2[q]]
    BY <2>1, <1>5 DEF Seen
  <2>3. \A q \in D : S[q] = IF q = p THEN S2[p] \cup S2[new] ELSE S2[q]
    BY <1>3, <1>6
  <2>4. S = [q \in D |-> S[q]]
    BY <1>2
  <2> QED
    BY <2>2, <2>3, <2>4
<1>8. Spans(ns2, r, pr, S2, L2)
  <2>1. S2 \in [D \cup {new} -> SUBSET Keys]
    <3>1. \A q \in D \cup {new} : S2[q] \subseteq Keys
      BY <1>2, <1>3, <1>6
    <3>2. S2 = [q \in D \cup {new} |-> S2[q]]
      BY <1>2 DEF SpansCut
    <3> QED
      BY <3>1, <3>2
  <2>2. \A q \in D \cup {new} : S2[q] # {} /\ Convex(S2[q]) /\ L2[q] <= L2[r]
    BY <1>2, <1>3, <1>4, <1>6
  <2>3. ASSUME NEW q \in D \cup {new}, NEW x \in D \cup {new}, q # x, L2[q] = L2[x]
        PROVE  S2[q] \cap S2[x] = {}
    <3>1. CASE q \in D /\ x \in D
      <4>1. S2[q] \subseteq S[q] /\ S2[x] \subseteq S[x]
        BY <3>1, <1>3, <1>6
      <4>2. S[q] \cap S[x] = {}
        BY <2>3, <3>1, <1>2, <1>4
      <4> QED
        BY <4>1, <4>2
    <3>2. CASE q = new
      <4>1. x \in D
        BY <2>3, <3>2
      <4>2. CASE x = p
        BY <3>2, <4>2, <1>3, <1>6
      <4>3. CASE x # p
        <5>1. S[p] \cap S[x] = {}
          BY <2>3, <3>2, <4>1, <4>3, <1>2, <1>4
        <5> QED
          BY <3>2, <4>1, <4>3, <5>1, <1>3, <1>6
      <4> QED
        BY <4>2, <4>3
    <3>3. CASE x = new
      <4>1. q \in D
        BY <2>3, <3>3
      <4>2. CASE q = p
        BY <3>3, <4>2, <1>3, <1>6
      <4>3. CASE q # p
        <5>1. S[p] \cap S[q] = {}
          BY <2>3, <3>3, <4>1, <4>3, <1>2, <1>4
        <5> QED
          BY <3>3, <4>1, <4>3, <5>1, <1>3, <1>6
      <4> QED
        BY <4>2, <4>3
    <3> QED
      BY <3>1, <3>2, <3>3
  <2>4. r \in DOMAIN Seen(S2, pr) /\ Seen(S2, pr)[r] = Keys
    BY <1>2, <1>7
  <2> QED
    BY <2>1, <2>2, <2>3, <2>4, <1>1, <1>4 DEF Spans
<1>9. ASSUME NEW n, NEW s, NEW l, InternalOK(n, s, l, S, L)
      PROVE  InternalOK(n, s, l, S, L2)
  <2>1. \A i \in 1..Len(n.children) : L2[n.children[i]] = L[n.children[i]]
    BY <1>2, <1>4, <1>9 DEF InternalOK
  <2> QED
    BY <2>1, <1>9 DEF InternalOK
<1>10. NodesOK(ns2, pr, S2, L2)
  <2>1. ASSUME NEW q \in D, q # p
        PROVE  \/ IsLeaf(ns2[q]) /\ LeafOK(ns2[q], S2[q]) /\ L2[q] = 0
               \/ ~IsLeaf(ns2[q]) /\ InternalOK(ns2[q], S2[q], L2[q], S, L2)
    <3>1. /\ IsLeaf(ns[q]) => LeafOK(ns[q], S[q]) /\ L[q] = 0
          /\ ~IsLeaf(ns[q]) => InternalOK(ns[q], S[q], L[q], S, L)
      <4>1. Seen(S, NoCall) = S
        BY DEF Seen
      <4> QED
        BY <4>1, TreeNodes
    <3>2. ns2[q] = ns[q] /\ S2[q] = S[q] /\ L2[q] = L[q]
      BY <2>1, <1>1, <1>3, <1>4
    <3> QED
      BY <3>1, <3>2, <1>9
  <2>2. CASE IsLeaf(ns[p])
    <3>1. /\ IsLeaf(a) /\ LeafOK(a, lo) /\ IsLeaf(b) /\ LeafOK(b, hi) /\ L[p] = 0
      BY <2>2, TreeNodes DEF lo, hi
    <3>2. L2[p] = 0 /\ L2[new] = 0
      BY <3>1, <1>4
    <3> QED
      BY <2>1, <3>1, <3>2, <1>1, <1>3, <1>7 DEF NodesOK
  <2>3. CASE ~IsLeaf(ns[p])
    <3>1. /\ ~IsLeaf(a) /\ InternalOK(a, lo, L[p], S, L2)
          /\ ~IsLeaf(b) /\ InternalOK(b, hi, L[p], S, L2)
      BY <2>3, <1>9 DEF lo, hi
    <3>2. L2[p] = L[p] /\ L2[new] = L[p]
      BY <1>4
    <3> QED
      BY <2>1, <3>1, <3>2, <1>1, <1>3, <1>7 DEF NodesOK
  <2> QED
    BY <2>2, <2>3
<1>11. SeparatorsStored(ns2)
  <2>1. ASSUME NEW q \in D \cup {new}, ~IsLeaf(ns2[q]), NEW i \in 1..Len(ns2[q].keys)
        PROVE  Stored(ns2, ns2[q].keys[i])
    <3>1. CASE q = p \/ q = new
      <4>1. ~IsLeaf(ns[p]) /\ Stored(ns, ns2[q].keys[i])
        BY <2>1, <3>1, <1>1
      <4> QED
        BY <4>1 DEF NoneLost
    <3>2. CASE q # p /\ q # new
      <4>1. q \in D /\ ns2[q] = ns[q]
        BY <3>2, <1>1
      <4>2. SeparatorsStored(ns)
        BY DEF Tree
      <4>3. Stored(ns, ns2[q].keys[i])
        BY <2>1, <4>1, <4>2 DEF SeparatorsStored
      <4> QED
        BY <4>3 DEF NoneLost
    <3> QED
      BY <3>1, <3>2
  <2> QED
    BY <2>1, <1>1 DEF SeparatorsStored
<1>12. ChainOK(ns2, S2)
  <2>1. ASSUME NEW x \in D, IsLeaf(ns[x])
        PROVE  IF ns[x].next = 0 THEN Above(S[x]) = {}
               ELSE /\ ns[x].next \in D /\ IsLeaf(ns[ns[x].next])
                    /\ Above(S[x]) = S[ns[x].next] \cup Above(S[ns[x].next])
    BY <2>1 DEF Tree, ChainOK
  <2>2. ASSUME NEW x \in D, x # p, IsLeaf(ns[x])
        PROVE  IF ns2[x].next = 0 THEN Above(S2[x]) = {}
               ELSE /\ ns2[x].next \in D \cup {new} /\ IsLeaf(ns2[ns2[x].next])
                    /\ Above(S2[x]) = S2[ns2[x].next] \cup Above(S2[ns2[x].next])
    <3> DEFINE q == ns[x].next
    <3>1. ns2[x].next = q /\ S2[x] = S[x]
      BY <2>2, <1>1, <1>3
    <3>2. CASE q = 0
      BY <2>1, <2>2, <3>1, <3>2
    <3>3. CASE q # 0
      <4>1. q \in D /\ IsLeaf(ns[q]) /\ Above(S[x]) = S[q] \cup Above(S[q])
        BY <2>1, <2>2, <3>3
      <4> HIDE DEF q
      <4>2. CASE q = p
        <5>1. IsLeaf(ns2[q]) /\ S2[q] \cup Above(S2[q]) = S[q] \cup Above(S[q])
          BY <4>1, <4>2, <1>1, <1>3, <1>6
        <5> QED
          BY <3>1, <3>3, <4>1, <5>1
      <4>3. CASE q # p
        <5>1. ns2[q] = ns[q] /\ S2[q] = S[q]
          BY <4>1, <4>3, <1>1, <1>3
        <5> QED
          BY <3>1, <3>3, <4>1, <5>1
      <4> QED
        BY <4>2, <4>3
    <3> QED
      BY <3>2, <3>3
  <2>3. ASSUME IsLeaf(ns[p])
        PROVE  /\ a.next = new /\ IsLeaf(ns2[new])
               /\ Above(S2[p]) = S2[new] \cup Above(S2[new])
    BY <2>3, <1>1, <1>3, <1>6
  <2>4. ASSUME IsLeaf(ns[p])
        PROVE  IF b.next = 0 THEN Above(S2[new]) = {}
               ELSE /\ b.next \in D \cup {new} /\ IsLeaf(ns2[b.next])
                    /\ Above(S2[new]) = S2[b.next] \cup Above(S2[b.next])
    <3> DEFINE q == ns[p].next
    <3>1. b.next = q /\ Above(S2[new]) = Above(S[p])
      BY <2>4, <1>3, <1>6
    <3>2. CASE q = 0
      BY <2>1, <2>4, <3>1, <3>2
    <3>3. CASE q # 0
      <4>1. q \in D /\ IsLeaf(ns[q]) /\ Above(S[p]) = S[q] \cup Above(S[q])
        BY <2>1, <2>4, <3>3
      <4> HIDE DEF q
      <4>2. q # p
        <5> SUFFICES ASSUME q = p PROVE FALSE
          OBVIOUS
        <5>1. PICK k \in S[p] : TRUE
          BY <1>2
        <5>2. k \in Above(S[p]) /\ k \in Nat
          BY <4>1, <5>1, <1>2, KeysNat
        <5>3. k < k
          BY <5>1, <5>2 DEF Above
        <5> QED
          BY <5>2, <5>3
      <4>3. ns2[q] = ns[q] /\ S2[q] = S[q]
        BY <4>1, <4>2, <1>1, <1>3
      <4> QED
        BY <3>1, <3>3, <4>1, <4>3
    <3> QED
      BY <3>2, <3>3
  <2>5. ASSUME NEW x \in D \cup {new}, IsLeaf(ns2[x])
        PROVE  IF ns2[x].next = 0 THEN Above(S2[x]) = {}
               ELSE /\ ns2[x].next \in D \cup {new} /\ IsLeaf(ns2[ns2[x].next])
                    /\ Above(S2[x]) = S2[ns2[x].next] \cup Above(S2[ns2[x].next])
    <3>1. CASE x = p
      BY <2>3, <2>5, <3>1, <1>1
    <3>2. CASE x = new
      BY <2>4, <2>5, <3>2, <1>1
    <3>3. CASE x # p /\ x # new
      BY <2>2, <2>5, <3>3, <1>1
    <3> QED
      BY <3>1, <3>2, <3>3
  <2> QED
    BY <2>5, <1>1 DEF ChainOK
<1>13. CallOK(ns2, pr, S2, L2)
  <2>1. pr \in Nat \X Keys \X Nat \X Keys \X Refs
    BY <1>2
  <2>2. /\ \A k \in S2[p] : k < sep
        /\ \A k \in S2[new] : sep <= k
    BY <1>3 DEF lo, hi, Lower, Upper
  <2> QED
    BY <2>1, <2>2, <1>1, <1>3, <1>4, <1>5, <1>6 DEF CallOK
<1> QED
  BY <1>8, <1>10, <1>11, <1>12, <1>13 DEF Tree

\* The leaves after a split answer as the ones before it.
LEMMA SplitHolds ==
  ASSUME NEW ns, NEW S, DOMAIN S = DOMAIN ns, NEW ct, Holds(ns, S, ct), NEW p \in DOMAIN ns,
         NEW new, new \notin DOMAIN ns, NEW sep, NEW a, NEW b,
         IsLeaf(a) <=> IsLeaf(ns[p]), IsLeaf(b) <=> IsLeaf(ns[p]),
         IsLeaf(ns[p]) =>
           /\ \A k \in Lower(S[p], sep) : \A x : Answers(ns[p], k, x) => Answers(a, k, x)
           /\ \A k \in Upper(S[p], sep) : \A x : Answers(ns[p], k, x) => Answers(b, k, x),
         NEW ns2, ns2 = Write(Write(ns, p, a), new, b),
         NEW S2, S2 = SpansCut(S, p, sep, new)
  PROVE  Holds(ns2, S2, ct)
<1>1. /\ DOMAIN ns2 = DOMAIN ns \cup {new} /\ ns2[p] = a /\ ns2[new] = b /\ p # new
      /\ \A q \in DOMAIN ns : q # p => ns2[q] = ns[q]
  BY DEF Write
<1>2. /\ S2[p] = Lower(S[p], sep) /\ S2[new] = Upper(S[p], sep)
      /\ \A q \in DOMAIN ns : q # p => S2[q] = S[q]
  BY <1>1 DEF SpansCut
<1>3. Lower(S[p], sep) \subseteq S[p] /\ Upper(S[p], sep) \subseteq S[p]
  BY DEF Lower, Upper
<1>4. ASSUME NEW q \in DOMAIN ns \cup {new}, IsLeaf(ns2[q]), NEW k \in S2[q]
      PROVE  Answers(ns2[q], k, ct[k])
  <2>1. CASE q = p
    BY <2>1, <1>1, <1>2, <1>3, <1>4 DEF Holds
  <2>2. CASE q = new
    BY <2>2, <1>1, <1>2, <1>3, <1>4 DEF Holds
  <2>3. CASE q # p /\ q # new
    BY <2>3, <1>1, <1>2, <1>4 DEF Holds
  <2> QED
    BY <2>1, <2>2, <2>3
<1> QED
  BY <1>1, <1>4 DEF Holds

\* The leaves are the same: an internal node is written.
LEMMA SameLeaves ==
  ASSUME NEW ns, NEW p \in DOMAIN ns, ~IsLeaf(ns[p]), NEW n, ~IsLeaf(n),
         NEW ns2, ns2 = Write(ns, p, n)
  PROVE  /\ NoneLost(ns, ns2)
         /\ \A S, ct : Holds(ns, S, ct) => Holds(ns2, S, ct)
<1>1. /\ DOMAIN ns2 = DOMAIN ns /\ ns2[p] = n
      /\ \A q \in DOMAIN ns : q # p => ns2[q] = ns[q]
  BY DEF Write
<1>2. \A q \in DOMAIN ns : IsLeaf(ns2[q]) => ns2[q] = ns[q]
  BY <1>1
<1>3. \A q \in DOMAIN ns : IsLeaf(ns[q]) => ns2[q] = ns[q]
  BY <1>1
<1>4. NoneLost(ns, ns2)
  BY <1>1, <1>3 DEF NoneLost, Stored
<1>5. \A S, ct : Holds(ns, S, ct) => Holds(ns2, S, ct)
  BY <1>1, <1>2 DEF Holds
<1> QED
  BY <1>4, <1>5

\* What the nodes above see is settled for all of them but the parent.
LEMMA OtherParents ==
  ASSUME NEW ns, NEW r, NEW pr, NEW S, NEW L, Tree(ns, r, pr, S, L), pr # NoCall,
         NEW p \in DOMAIN ns, ~IsLeaf(ns[p]),
         \A i \in 1..Len(ns[p].children) : ns[p].children[i] # pr[1]
  PROVE  InternalOK(ns[p], S[p], L[p], S, L)
<1>1. InternalOK(ns[p], S[p], L[p], Seen(S, pr), L)
  BY TreeNodes
<1>2. \A c \in DOMAIN Seen(S, pr) : c \in DOMAIN S /\ (c # pr[1] => Seen(S, pr)[c] = S[c])
  BY DEF Seen
<1> QED
  BY <1>1, <1>2 DEF InternalOK

\* The pages of a pending call share the span that the nodes above see.
Halves(ns, pr, S, L, W) ==
  /\ pr[1] \in DOMAIN ns /\ pr[3] \in DOMAIN ns /\ pr[1] # pr[3]
  /\ pr[1] \in Nat /\ pr[3] \in Nat /\ pr[2] \in Keys /\ pr[4] \in Keys
  /\ pr[5] \in Refs
  /\ L[pr[1]] = L[pr[3]] /\ pr[2] \in S[pr[3]] /\ Stored(ns, pr[2])
  /\ DOMAIN W = DOMAIN ns \ {pr[3]}
  /\ W[pr[1]] = S[pr[1]] \cup S[pr[3]]
  /\ \A c \in DOMAIN W : c # pr[1] => W[c] = S[c]
  /\ S[pr[1]] = Lower(W[pr[1]], pr[2]) /\ S[pr[3]] = Upper(W[pr[1]], pr[2])
  /\ \E k \in S[pr[1]] : k < pr[2]

LEMMA CallFacts ==
  ASSUME NEW ns, NEW r, NEW pr, NEW S, NEW L, Tree(ns, r, pr, S, L), pr # NoCall
  PROVE  Halves(ns, pr, S, L, Seen(S, pr))
<1> DEFINE left == pr[1]
           key == pr[2]
           right == pr[3]
           W == Seen(S, pr)
<1>1. /\ pr \in Nat \X Keys \X Nat \X Keys \X Refs
      /\ left \in DOMAIN ns /\ right \in DOMAIN ns /\ left # right
      /\ L[left] = L[right]
      /\ \A k \in S[left] : k < key
      /\ \A k \in S[right] : key <= k
      /\ key \in S[right] /\ Stored(ns, key)
  BY DEF Tree, CallOK
<1>2. left \in Nat /\ right \in Nat /\ key \in Keys /\ pr[4] \in Keys /\ pr[5] \in Refs
  BY <1>1
<1>3. S \in [DOMAIN ns -> SUBSET Keys] /\ S[left] # {}
  BY <1>1 DEF Tree, Spans
<1>4. W = [p \in DOMAIN ns \ {right} |-> IF p = left THEN S[p] \cup S[right] ELSE S[p]]
  BY <1>3 DEF Seen
<1>5. Keys \subseteq Nat /\ key \in Nat /\ S[left] \subseteq Keys /\ S[right] \subseteq Keys
  BY <1>1, <1>2, <1>3, KeysNat
<1> HIDE DEF left, key, right, W
<1>6. /\ DOMAIN W = DOMAIN ns \ {right} /\ W[left] = S[left] \cup S[right]
      /\ \A c \in DOMAIN W : c # left => W[c] = S[c]
  BY <1>1, <1>4
<1>7. S[left] = Lower(W[left], key) /\ S[right] = Upper(W[left], key)
  <2>1. ASSUME NEW k \in S[left] PROVE ~(key <= k)
    <3>1. k \in Nat /\ k < key
      BY <1>1, <1>5
    <3> QED
      BY <3>1, <1>5
  <2>2. ASSUME NEW k \in S[right] PROVE ~(k < key)
    <3>1. k \in Nat /\ key <= k
      BY <1>1, <1>5
    <3> QED
      BY <3>1, <1>5
  <2> QED
    BY <2>1, <2>2, <1>1, <1>6 DEF Lower, Upper
<1>8. \E k \in S[left] : k < key
  BY <1>1, <1>3
<1> QED
  BY <1>1, <1>2, <1>6, <1>7, <1>8 DEF left, key, right, W, Halves

\* The parent with the separator put into it, and every other node, are well
\* formed for the spans of the pages themselves.
LEMMA AdoptTree ==
  ASSUME NEW ns, NEW r, NEW pr, NEW S, NEW L, Tree(ns, r, pr, S, L), pr # NoCall,
         r # pr[1],
         NEW q \in DOMAIN ns, ~IsLeaf(ns[q]), pr[2] \in S[q],
         Child(ns[q], pr[2]) = pr[1],
         NEW m, m = Adopt(ns[q], pr[2], pr[3]), NEW ns2, ns2 = Write(ns, q, m)
  PROVE  Tree(ns2, r, NoCall, S, L) /\ ~IsLeaf(m) /\ Len(m.keys) >= 1
<1> DEFINE left == pr[1]
           key == pr[2]
           right == pr[3]
           W == Seen(S, pr)
<1>1. /\ left \in DOMAIN ns /\ right \in DOMAIN ns /\ left # right
      /\ right \in Nat /\ key \in Keys
      /\ L[left] = L[right] /\ key \in S[right] /\ Stored(ns, key)
      /\ DOMAIN W = DOMAIN ns \ {right}
      /\ W[left] = S[left] \cup S[right]
      /\ \A c \in DOMAIN W : c # left => W[c] = S[c]
      /\ S[left] = Lower(W[left], key) /\ S[right] = Upper(W[left], key)
      /\ \E k \in S[left] : k < key
  <2>1. Halves(ns, pr, S, L, W)
    BY CallFacts
  <2> HIDE DEF W
  <2> QED
    BY <2>1 DEF Halves
<1>2. InternalOK(ns[q], S[q], L[q], W, L) /\ S[q] \subseteq Keys
  BY TreeNodes
<1>3. /\ S \in [DOMAIN ns -> SUBSET Keys] /\ L \in [DOMAIN ns -> Nat]
      /\ r \in DOMAIN W /\ W[r] = Keys
      /\ \A p \in DOMAIN ns : S[p] # {} /\ Convex(S[p]) /\ L[p] <= L[r]
      /\ \A p, x \in DOMAIN ns : p # x /\ L[p] = L[x] => S[p] \cap S[x] = {}
  BY DEF Tree, Spans
<1>4. Seen(S, NoCall) = S
  BY DEF Seen
<1> HIDE DEF W
<1>5. Shared(S, W, left, key, right)
  BY <1>1, <1>3 DEF Shared
<1>6. /\ InternalOK(m, S[q], L[q], S, L) /\ ~IsLeaf(m) /\ Len(m.keys) >= 1
      /\ \A i \in 1..Len(m.keys) :
           m.keys[i] = key \/ \E j \in 1..Len(ns[q].keys) : m.keys[i] = ns[q].keys[j]
  <2>1. ParentOfSplit(ns[q], S[q], L[q], W, L, left, key, right)
    BY <1>1, <1>2 DEF ParentOfSplit
  <2> HIDE DEF left, key, right
  <2>2. m = Adopt(ns[q], key, right)
    BY DEF left, key, right
  <2> QED
    <3>1. Adopted(m, ns[q], S[q], L[q], S, L, key)
      BY <2>1, <2>2, <1>5, AdoptOK
    <3> QED
      BY <3>1 DEF Adopted
<1>7. /\ DOMAIN ns2 = DOMAIN ns /\ ns2[q] = m
      /\ \A p \in DOMAIN ns : p # q => ns2[p] = ns[p]
  BY DEF Write
<1>8. NoneLost(ns, ns2)
  BY <1>6, SameLeaves
<1>9. ASSUME NEW p \in DOMAIN ns, ~IsLeaf(ns[p]), NEW i \in 1..Len(ns[p].children),
             ns[p].children[i] = left
      PROVE  W[left] \subseteq S[p] /\ L[left] + 1 = L[p]
  <2>1. InternalOK(ns[p], S[p], L[p], W, L)
    BY <1>9, TreeNodes DEF W
  <2> QED
    BY <2>1, <1>9 DEF InternalOK
<1>10. ASSUME NEW p \in DOMAIN ns, ~IsLeaf(ns[p]), p # q
       PROVE  InternalOK(ns[p], S[p], L[p], S, L)
  <2>1. PICK i \in 1..Len(ns[q].children) : ns[q].children[i] = left
    BY <1>1, <1>2, ChildBetween DEF InternalOK
  <2>2. L[left] + 1 = L[q]
    BY <2>1, <1>9
  <2>3. ASSUME NEW j \in 1..Len(ns[p].children), ns[p].children[j] = left PROVE FALSE
    <3>1. key \in S[p] /\ L[p] = L[q]
      BY <2>2, <2>3, <1>1, <1>9, <1>10
    <3>2. S[p] \cap S[q] = {}
      BY <3>1, <1>3, <1>10
    <3> QED
      BY <3>1, <3>2
  <2> QED
    BY <2>3, <1>10, OtherParents
<1>11. Spans(ns2, r, NoCall, S, L)
  <2>1. r \in DOMAIN S /\ S[r] = Keys
    BY <1>1, <1>3
  <2> QED
    BY <2>1, <1>3, <1>4, <1>7 DEF Spans
<1>12. NodesOK(ns2, NoCall, S, L)
  <2>1. ASSUME NEW p \in DOMAIN ns
        PROVE  \/ IsLeaf(ns2[p]) /\ LeafOK(ns2[p], S[p]) /\ L[p] = 0
               \/ ~IsLeaf(ns2[p]) /\ InternalOK(ns2[p], S[p], L[p], S, L)
    <3>1. CASE p = q
      BY <3>1, <1>6, <1>7
    <3>2. CASE p # q /\ IsLeaf(ns[p])
      BY <3>2, <1>7, TreeNodes
    <3>3. CASE p # q /\ ~IsLeaf(ns[p])
      BY <3>3, <1>7, <1>10
    <3> QED
      BY <3>1, <3>2, <3>3
  <2> QED
    BY <2>1, <1>4, <1>7 DEF NodesOK
<1>13. SeparatorsStored(ns2)
  <2>1. SeparatorsStored(ns)
    BY DEF Tree
  <2>2. ASSUME NEW p \in DOMAIN ns, ~IsLeaf(ns2[p]), NEW i \in 1..Len(ns2[p].keys)
        PROVE  Stored(ns2, ns2[p].keys[i])
    <3>1. Stored(ns, ns2[p].keys[i])
      <4>1. CASE p = q
        BY <4>1, <2>1, <2>2, <1>1, <1>6, <1>7 DEF SeparatorsStored
      <4>2. CASE p # q
        BY <4>2, <2>1, <2>2, <1>7 DEF SeparatorsStored
      <4> QED
        BY <4>1, <4>2
    <3> QED
      BY <3>1, <1>8 DEF NoneLost
  <2> QED
    BY <2>2, <1>7 DEF SeparatorsStored
<1>14. ChainOK(ns2, S)
  <2>1. ChainOK(ns, S)
    BY DEF Tree
  <2>2. \A p \in DOMAIN ns : IsLeaf(ns2[p]) => IsLeaf(ns[p]) /\ ns2[p] = ns[p]
    BY <1>6, <1>7
  <2>3. \A p \in DOMAIN ns : IsLeaf(ns[p]) => IsLeaf(ns2[p])
    BY <1>7
  <2> QED
    BY <2>1, <2>2, <2>3, <1>7 DEF ChainOK
<1>15. CallOK(ns2, NoCall, S, L)
  BY DEF CallOK
<1> QED
  BY <1>6, <1>11, <1>12, <1>13, <1>14, <1>15 DEF Tree

\* A new root above the two halves of the old one.
LEMMA GrowTree ==
  ASSUME NEW ns, NEW r, NEW pr, NEW S, NEW L, Tree(ns, r, pr, S, L), pr # NoCall,
         r = pr[1], NEW new \in Nat \ {0}, new \notin DOMAIN ns,
         NEW ns2, ns2 = Write(ns, new, Internal(<<pr[2]>>, <<pr[1], pr[3]>>)),
         NEW ct, Holds(ns, S, ct)
  PROVE  \E S2, L2 : Tree(ns2, new, NoCall, S2, L2) /\ Holds(ns2, S2, ct)
<1> DEFINE left == pr[1]
           key == pr[2]
           right == pr[3]
           W == Seen(S, pr)
           m == Internal(<<key>>, <<left, right>>)
           D == DOMAIN ns
           S2 == [q \in D \cup {new} |-> IF q = new THEN Keys ELSE S[q]]
           L2 == [q \in D \cup {new} |-> IF q = new THEN L[left] + 1 ELSE L[q]]
<1>1. /\ left \in D /\ right \in D /\ left # right
      /\ left \in Nat /\ right \in Nat /\ key \in Keys
      /\ L[left] = L[right] /\ key \in S[right] /\ Stored(ns, key)
      /\ DOMAIN W = D \ {right}
      /\ W[left] = S[left] \cup S[right]
      /\ \A c \in DOMAIN W : c # left => W[c] = S[c]
      /\ S[left] = Lower(W[left], key) /\ S[right] = Upper(W[left], key)
      /\ \E k \in S[left] : k < key
  <2>1. Halves(ns, pr, S, L, W)
    BY CallFacts
  <2> HIDE DEF W
  <2> QED
    BY <2>1 DEF Halves
<1>2. /\ S \in [D -> SUBSET Keys] /\ L \in [D -> Nat]
      /\ r \in DOMAIN W /\ W[r] = Keys
      /\ \A p \in D : S[p] # {} /\ Convex(S[p]) /\ L[p] <= L[r]
      /\ \A p, x \in D : p # x /\ L[p] = L[x] => S[p] \cap S[x] = {}
  BY DEF Tree, Spans
<1>3. Seen(S2, NoCall) = S2
  BY DEF Seen
<1>4. /\ DOMAIN ns2 = D \cup {new} /\ ns2[new] = m
      /\ \A p \in D : ns2[p] = ns[p] /\ p # new
  BY DEF Write
<1>5. /\ S2 \in [D \cup {new} -> SUBSET Keys] /\ S2[new] = Keys
      /\ \A p \in D : S2[p] = S[p]
  BY <1>2, <1>4
<1>6. /\ L2 \in [D \cup {new} -> Nat] /\ L2[new] = L[left] + 1 /\ L[left] \in Nat
      /\ \A p \in D : L2[p] = L[p] /\ L[p] <= L[left] /\ L[p] \in Nat
  BY <1>1, <1>2, <1>4
<1>7. /\ m \in InternalNodes /\ ~IsLeaf(m) /\ m.keys = <<key>> /\ m.children = <<left, right>>
      /\ Len(m.keys) = 1 /\ Len(m.children) = 2
      /\ m.keys[1] = key /\ m.children[1] = left /\ m.children[2] = right
  BY <1>1 DEF Internal, InternalNodes, IsLeaf
<1> HIDE DEF W, S2, L2, m, D
<1>8. Spans(ns2, new, NoCall, S2, L2)
  <2>1. Convex(Keys) /\ Keys # {}
    BY <1>1 DEF Convex
  <2>2. \A p \in D \cup {new} : S2[p] # {} /\ Convex(S2[p]) /\ L2[p] <= L2[new]
    BY <2>1, <1>2, <1>5, <1>6
  <2>3. ASSUME NEW p \in D \cup {new}, NEW x \in D \cup {new}, p # x, L2[p] = L2[x]
        PROVE  S2[p] \cap S2[x] = {}
    <3>1. p \in D /\ x \in D
      BY <2>3, <1>6
    <3> QED
      BY <2>3, <3>1, <1>2, <1>5, <1>6
  <2> QED
    BY <2>2, <2>3, <1>3, <1>4, <1>5, <1>6 DEF Spans
<1>9. InternalOK(m, Keys, L2[new], S2, L2)
  <2>1. Between(m.keys, 1) = Lower(Keys, key) /\ Between(m.keys, 2) = Upper(Keys, key)
    BY <1>7 DEF Between, Lower, Upper
  <2>2. S2[left] = Lower(Keys, key) /\ S2[right] = Upper(Keys, key)
    BY <1>1, <1>2, <1>5
  <2>3. Lower(Keys, key) = Keys \cap Lower(Keys, key) /\ Upper(Keys, key) = Keys \cap Upper(Keys, key)
    BY DEF Lower, Upper
  <2>4. ASSUME NEW i \in 1..2
        PROVE  /\ m.children[i] \in DOMAIN S2 /\ L2[m.children[i]] + 1 = L2[new]
               /\ S2[m.children[i]] = Keys \cap Between(m.keys, i)
    <3>1. left \in DOMAIN S2 /\ right \in DOMAIN S2
      BY <1>1, <1>5
    <3>2. L2[left] + 1 = L2[new] /\ L2[right] + 1 = L2[new]
      BY <1>1, <1>6
    <3> QED
      BY <2>1, <2>2, <2>3, <3>1, <3>2, <1>7
  <2>5. Sorted(m.keys)
    BY <1>7 DEF Sorted
  <2>6. m.keys[1] \in Keys /\ \E k \in Keys : k < m.keys[1]
    BY <1>1, <1>2, <1>7
  <2> QED
    BY <2>4, <2>5, <2>6, <1>7 DEF InternalOK
<1>10. ASSUME NEW p \in D, ~IsLeaf(ns[p])
       PROVE  InternalOK(ns[p], S[p], L[p], S2, L2)
  <2>1. InternalOK(ns[p], S[p], L[p], W, L)
    BY <1>10, TreeNodes DEF W, D
  <2>2. ASSUME NEW i \in 1..Len(ns[p].children)
        PROVE  LET c == ns[p].children[i]
               IN c \in DOMAIN S2 /\ L2[c] = L[c] /\ S2[c] = W[c]
    <3> DEFINE c == ns[p].children[i]
    <3>1. c \in DOMAIN W /\ L[c] + 1 = L[p]
      BY <2>1 DEF InternalOK
    <3> HIDE DEF c
    <3>2. c \in D /\ c # left
      BY <3>1, <1>1, <1>6
    <3> QED
      BY <3>1, <3>2, <1>1, <1>5, <1>6 DEF c
  <2> QED
    BY <2>1, <2>2 DEF InternalOK
<1>11. NodesOK(ns2, NoCall, S2, L2)
  <2>1. ASSUME NEW p \in D \cup {new}
        PROVE  \/ IsLeaf(ns2[p]) /\ LeafOK(ns2[p], S2[p]) /\ L2[p] = 0
               \/ ~IsLeaf(ns2[p]) /\ InternalOK(ns2[p], S2[p], L2[p], S2, L2)
    <3>1. CASE p = new
      <4>1. ~IsLeaf(ns2[new])
        BY <1>4, <1>7
      <4>2. InternalOK(ns2[new], S2[new], L2[new], S2, L2)
        BY <1>4, <1>5, <1>7, <1>9
      <4> QED
        BY <3>1, <4>1, <4>2
    <3>2. CASE p \in D /\ IsLeaf(ns[p])
      <4>1. LeafOK(ns[p], S[p]) /\ L[p] = 0
        BY <3>2, TreeNodes DEF D
      <4> QED
        BY <3>2, <4>1, <1>4, <1>5, <1>6
    <3>3. CASE p \in D /\ ~IsLeaf(ns[p])
      BY <3>3, <1>4, <1>5, <1>6, <1>10
    <3> QED
      BY <3>1, <3>2, <3>3
  <2> QED
    BY <2>1, <1>3, <1>4 DEF NodesOK
<1>12. \A k : Stored(ns, k) => Stored(ns2, k)
  BY <1>4 DEF Stored, D
<1>13. SeparatorsStored(ns2)
  <2>1. SeparatorsStored(ns)
    BY DEF Tree
  <2>2. ASSUME NEW p \in D \cup {new}, ~IsLeaf(ns2[p]), NEW i \in 1..Len(ns2[p].keys)
        PROVE  Stored(ns2, ns2[p].keys[i])
    <3>1. CASE p = new
      <4>1. ns2[p] = m /\ i = 1
        BY <2>2, <3>1, <1>4, <1>7
      <4>2. ns2[p].keys[i] = key
        BY <4>1, <1>7
      <4> QED
        BY <4>2, <1>1, <1>12
    <3>2. CASE p \in D
      BY <2>1, <2>2, <3>2, <1>4, <1>12 DEF SeparatorsStored, D
    <3> QED
      BY <3>1, <3>2
  <2> QED
    BY <2>2, <1>4 DEF SeparatorsStored
<1>14. ChainOK(ns2, S2)
  <2>1. ChainOK(ns, S)
    BY DEF Tree
  <2>2. ASSUME NEW p \in D \cup {new}, IsLeaf(ns2[p])
        PROVE  IF ns2[p].next = 0 THEN Above(S2[p]) = {}
               ELSE /\ ns2[p].next \in D \cup {new} /\ IsLeaf(ns2[ns2[p].next])
                    /\ Above(S2[p]) = S2[ns2[p].next] \cup Above(S2[ns2[p].next])
    <3>1. p \in D /\ ns2[p] = ns[p] /\ S2[p] = S[p]
      BY <2>2, <1>4, <1>5, <1>7
    <3> QED
      BY <2>1, <2>2, <3>1, <1>4, <1>5 DEF ChainOK, D
  <2> QED
    BY <2>2, <1>4 DEF ChainOK
<1>15. CallOK(ns2, NoCall, S2, L2)
  BY DEF CallOK
<1>16. Holds(ns2, S2, ct)
  <2>1. ASSUME NEW p \in D \cup {new}, IsLeaf(ns2[p])
        PROVE  p \in D /\ ns2[p] = ns[p] /\ S2[p] = S[p]
    BY <2>1, <1>4, <1>5, <1>7
  <2> QED
    BY <2>1, <1>4 DEF Holds, D
<1> QED
  BY <1>8, <1>11, <1>13, <1>14, <1>15, <1>16 DEF Tree
-----------------------------------------------------------------------------
(* Steps. *)

\* A statement that is over leaves the tree ns with root r.
LEMMA ReturnInv ==
  ASSUME IInv, NEW ns, NEW r, Return(ns, r), nextPage' \in Nat \ {0},
         DOMAIN ns \subseteq 1..(nextPage' - 1),
         content' \in [Keys -> Refs \cup {Absent}], Maps(ns, r, NoCall, content')
  PROVE  IInv'
<1>1. /\ nodes' = ns /\ root' = r /\ promote' = NoCall
      /\ stable' = [nodes |-> ns, root |-> r]
  BY DEF Return
<1>2. stable'.nodes = ns /\ stable'.root = r
  BY <1>1
<1>3. Pending(promote', content') = content'
  BY <1>1 DEF Pending
<1> QED
  BY <1>1, <1>2, <1>3 DEF IInv

\* A statement that is rolled back leaves the tree it started from.
LEMMA RaiseInv ==
  ASSUME IInv, NEW n \in Nat, Raise(n), UNCHANGED content
  PROVE  IInv'
<1>1. /\ nodes' = stable.nodes /\ root' = stable.root /\ promote' = NoCall
      /\ stable' = stable /\ nextPage' = nextPage + n /\ content' = content
  BY DEF Raise
<1>2. /\ stable = [nodes |-> stable.nodes, root |-> stable.root]
      /\ nextPage \in Nat \ {0} /\ DOMAIN stable.nodes \subseteq 1..(nextPage - 1)
      /\ content \in [Keys -> Refs \cup {Absent}]
      /\ Maps(stable.nodes, stable.root, NoCall, content)
  BY DEF IInv
<1>3. Pending(promote', content') = content
  BY <1>1 DEF Pending
<1>4. nextPage' \in Nat \ {0} /\ DOMAIN stable.nodes \subseteq 1..(nextPage' - 1)
  BY <1>1, <1>2
<1> QED
  BY <1>1, <1>2, <1>3, <1>4 DEF IInv

\* A split that is to reach the parent leaves the call pr.
LEMMA PendingInv ==
  ASSUME IInv, NEW ns, NEW pr, pr # NoCall, nodes' = ns, promote' = pr,
         UNCHANGED <<root, stable, content>>, nextPage' = nextPage + 1,
         DOMAIN ns \subseteq 1..nextPage,
         Maps(ns, root, pr, [content EXCEPT ![pr[4]] = pr[5]])
  PROVE  IInv'
<1>1. Pending(promote', content') = [content EXCEPT ![pr[4]] = pr[5]]
  BY DEF Pending
<1>2. nextPage \in Nat \ {0}
  BY DEF IInv
<1>3. /\ nextPage' \in Nat \ {0} /\ nextPage' - 1 = nextPage
      /\ 1..(nextPage - 1) \subseteq 1..nextPage
  BY <1>2
<1> QED
  BY <1>1, <1>2, <1>3 DEF IInv

LEMMA LeafSplitKeeps ==
  ASSUME NEW ns, NEW p \in DOMAIN ns, NEW new, new \notin DOMAIN ns, NEW a, NEW b,
         IsLeaf(a), IsLeaf(b), Shares(ns[p], a, b),
         NEW ns2, ns2 = Write(Write(ns, p, a), new, b)
  PROVE  NoneLost(ns, ns2)
<1>1. /\ DOMAIN ns2 = DOMAIN ns \cup {new} /\ ns2[p] = a /\ ns2[new] = b /\ p # new
      /\ \A q \in DOMAIN ns : q # p => ns2[q] = ns[q]
  BY DEF Write
<1> SUFFICES ASSUME NEW k, Stored(ns, k) PROVE Stored(ns2, k)
  BY DEF NoneLost
<1>2. PICK q \in DOMAIN ns : IsLeaf(ns[q]) /\ \E i \in 1..Len(ns[q].keys) : ns[q].keys[i] = k
  BY DEF Stored
<1>3. PICK i \in 1..Len(ns[q].keys) : ns[q].keys[i] = k
  BY <1>2
<1>4. CASE q = p
  <2>1. CASE \E j \in 1..Len(a.keys) : a.keys[j] = k
    BY <2>1, <1>1 DEF Stored
  <2>2. CASE \E j \in 1..Len(b.keys) : b.keys[j] = k
    BY <2>2, <1>1 DEF Stored
  <2> QED
    BY <1>4, <1>3, <2>1, <2>2 DEF Shares
<1>5. CASE q # p
  <2>1. q \in DOMAIN ns2 /\ ns2[q] = ns[q]
    BY <1>1, <1>5
  <2> QED
    BY <1>2, <2>1 DEF Stored
<1> QED
  BY <1>4, <1>5

\* The tree at the start of a call.
LEMMA IdleTree ==
  ASSUME IInv, promote = NoCall, root # 0
  PROVE  \E S, L : Tree(nodes, root, NoCall, S, L) /\ Holds(nodes, S, content)
BY DEF IInv, Maps, Pending

LEMMA PendingTree ==
  ASSUME IInv, promote # NoCall
  PROVE  /\ root # 0
         /\ \E S, L : /\ Tree(nodes, root, promote, S, L)
                      /\ Holds(nodes, S, [content EXCEPT ![promote[4]] = promote[5]])
BY DEF IInv, Maps, Pending

LEMMA FirstInsertInv ==
  ASSUME IInv, promote = NoCall, NEW key \in Keys, NEW ref \in Refs, FirstInsert(key, ref)
  PROVE  IInv'
<1> DEFINE n == Leaf(<<key>>, <<ref>>, <<FALSE>>, 0)
           ns == Write(nodes, nextPage, n)
           ct == [content EXCEPT ![key] = ref]
           S == [p \in {nextPage} |-> Keys]
           L == [p \in {nextPage} |-> 0]
<1>1. /\ nodes = <<>> /\ content = [k \in Keys |-> Absent] /\ nextPage \in Nat \ {0}
  BY DEF IInv, Maps, Pending, FirstInsert
<1>2. CASE LeafFits(<<key>>)
  <2>1. Return(ns, nextPage) /\ nextPage' = nextPage + 1 /\ content' = ct
    BY <1>2 DEF FirstInsert
  <2>2. DOMAIN ns = {nextPage} /\ ns[nextPage] = n
    <3>1. DOMAIN nodes = {}
      BY <1>1
    <3> QED
      BY <3>1 DEF Write
  <2>3. /\ n \in LeafNodes /\ IsLeaf(n) /\ n.next = 0
        /\ Len(n.keys) = 1 /\ Len(n.refs) = 1 /\ Len(n.tombs) = 1
        /\ n.keys[1] = key /\ n.refs[1] = ref /\ n.tombs[1] = FALSE
    BY DEF Leaf, LeafNodes, IsLeaf
  <2> HIDE DEF n, ns
  <2>4. LeafOK(n, Keys) /\ Keys # {}
    BY <2>3 DEF LeafOK, Sorted
  <2>5. Seen(S, NoCall) = S
    BY DEF Seen
  <2>6. Spans(ns, nextPage, NoCall, S, L)
    BY <2>2, <2>4, <2>5 DEF Spans, Convex
  <2>7. NodesOK(ns, NoCall, S, L)
    BY <2>2, <2>3, <2>4 DEF NodesOK
  <2>8. SeparatorsStored(ns)
    BY <2>2, <2>3 DEF SeparatorsStored
  <2>9. ChainOK(ns, S)
    <3>1. Above(Keys) = {}
      <4> SUFFICES ASSUME NEW k \in Above(Keys) PROVE FALSE
        OBVIOUS
      <4>1. k \in Nat /\ k < k
        BY KeysNat DEF Above
      <4> QED
        BY <4>1
    <3> QED
      BY <3>1, <2>2, <2>3 DEF ChainOK
  <2>10. CallOK(ns, NoCall, S, L)
    BY DEF CallOK
  <2>11. ASSUME NEW k \in Keys PROVE Answers(n, k, ct[k])
    <3>1. CASE k = key
      BY <3>1, <2>3, <1>1 DEF Answers
    <3>2. CASE k # key
      BY <3>2, <2>3, <1>1 DEF Answers
    <3> QED
      BY <3>1, <3>2
  <2>12. Holds(ns, S, ct)
    BY <2>2, <2>11 DEF Holds
  <2>13. Tree(ns, nextPage, NoCall, S, L)
    BY <2>6, <2>7, <2>8, <2>9, <2>10 DEF Tree
  <2>14. Maps(ns, nextPage, NoCall, ct)
    BY <2>12, <2>13, <1>1 DEF Maps
  <2>15. nextPage' \in Nat \ {0} /\ DOMAIN ns \subseteq 1..(nextPage' - 1)
    BY <2>1, <2>2, <1>1
  <2>16. content' \in [Keys -> Refs \cup {Absent}]
    BY <2>1, <1>1
  <2> HIDE DEF ct
  <2> QED
    BY <2>1, <2>14, <2>15, <2>16, ReturnInv
<1>3. CASE ~LeafFits(<<key>>)
  BY <1>3, RaiseInv DEF FirstInsert
<1> QED
  BY <1>2, <1>3

LEMMA InsertInv ==
  ASSUME IInv, promote = NoCall, root # 0, NEW key \in Keys, NEW ref \in Refs,
         Insert(key, ref)
  PROVE  IInv'
<1> DEFINE p == LeafFor(key)
           n == Put(nodes[p], key, ref)
           a == SplitLeaf(n, nextPage)[1]
           b == SplitLeaf(n, nextPage)[2]
           sep == b.keys[1]
           ct == [content EXCEPT ![key] = ref]
           ns == Write(nodes, p, n)
           ns2 == Write(Write(nodes, p, a), nextPage, b)
<1>1. PICK S, L : Tree(nodes, root, NoCall, S, L) /\ Holds(nodes, S, content)
  BY IdleTree
<1>2. p \in DOMAIN nodes /\ IsLeaf(nodes[p]) /\ key \in S[p]
  BY <1>1, LeafForFacts
<1>3. LeafOK(nodes[p], S[p]) /\ S[p] \subseteq Keys /\ Convex(S[p])
  BY <1>1, <1>2, TreeNodes
<1>4. /\ LeafOK(n, S[p]) /\ IsLeaf(n) /\ n.next = nodes[p].next /\ Len(n.keys) >= 1
      /\ \A i \in 1..Len(nodes[p].keys) : \E j \in 1..Len(n.keys) : n.keys[j] = nodes[p].keys[i]
      /\ Answers(n, key, ref)
      /\ \A k \in S[p] : \A x : k # key /\ Answers(nodes[p], k, x) => Answers(n, k, x)
  <2> HIDE DEF p, n
  <2>1. n = Put(nodes[p], key, ref)
    BY DEF n
  <2> QED
    BY <1>2, <1>3, <2>1, PutFacts
<1>5. /\ nextPage \in Nat \ {0} /\ DOMAIN nodes \subseteq 1..(nextPage - 1)
      /\ content \in [Keys -> Refs \cup {Absent}]
  BY DEF IInv
<1>6. /\ nextPage \notin DOMAIN nodes /\ DOMAIN nodes \subseteq Nat
      /\ DOMAIN nodes \subseteq 1..nextPage /\ p \in Nat
  BY <1>2, <1>5
<1>7. /\ \/ /\ LeafFits(n.keys)
            /\ Return(ns, root) /\ content' = ct /\ UNCHANGED nextPage
         \/ /\ ~LeafFits(n.keys)
            /\ IF LeafFits(a.keys) /\ LeafFits(b.keys)
               THEN /\ nodes' = ns2
                    /\ promote' = <<p, sep, nextPage, key, ref>>
                    /\ nextPage' = nextPage + 1
                    /\ UNCHANGED <<root, stable>>
               ELSE Raise(1)
            /\ UNCHANGED content
  <2>1. ~FirstInsert(key, ref)
    BY DEF FirstInsert
  <2>2. \A h : (\A i \in 1..2 : LeafFits(h[i].keys)) <=> LeafFits(h[1].keys) /\ LeafFits(h[2].keys)
    <3> SUFFICES ASSUME NEW h
                 PROVE  (\A i \in 1..2 : LeafFits(h[i].keys)) <=>
                          LeafFits(h[1].keys) /\ LeafFits(h[2].keys)
      OBVIOUS
    <3>1. 1..2 = {1, 2}
      OBVIOUS
    <3> QED
      BY <3>1
  <2> HIDE DEF p, n
  <2> QED
    BY <2>1, <2>2 DEF Insert, p, n
<1> HIDE DEF p, n
<1>8. ct \in [Keys -> Refs \cup {Absent}] /\ ct[key] = ref
      /\ \A k \in Keys : k # key => ct[k] = content[k]
  BY <1>5
<1> HIDE DEF ct, ns, ns2, a, b
<1>9. Tree(ns, root, NoCall, S, L) /\ Holds(ns, S, ct)
  <2>1. ASSUME NEW k \in S[p] PROVE Answers(n, k, ct[k])
    <3>1. CASE k = key
      BY <3>1, <1>4, <1>8
    <3>2. CASE k # key
      <4>1. Answers(nodes[p], k, content[k])
        BY <1>1, <1>2 DEF Holds
      <4> QED
        BY <3>2, <4>1, <1>3, <1>4, <1>8
    <3> QED
      BY <3>1, <3>2
  <2>2. \A k \in Keys \ S[p] : ct[k] = content[k]
    BY <1>2, <1>8
  <2>3. KeepsAll(n, nodes[p])
    BY <1>4 DEF KeepsAll
  <2>4. ns = Write(nodes, p, n)
    BY DEF ns
  <2> QED
    BY <2>1, <2>2, <2>3, <2>4, <1>1, <1>2, <1>4, RewriteLeaf
<1>10. DOMAIN ns = DOMAIN nodes /\ ns[p] = n
  BY <1>2 DEF ns, Write
<1>11. CASE LeafFits(n.keys)
  <2>1. Return(ns, root) /\ content' = ct /\ nextPage' = nextPage
    BY <1>7, <1>11
  <2>2. Maps(ns, root, NoCall, ct)
    BY <1>9 DEF Maps
  <2>3. nextPage' \in Nat \ {0} /\ DOMAIN ns \subseteq 1..(nextPage' - 1)
    BY <2>1, <1>5, <1>10
  <2> QED
    BY <2>1, <2>2, <2>3, <1>8, ReturnInv
<1>12. CASE ~LeafFits(n.keys) /\ ~(LeafFits(a.keys) /\ LeafFits(b.keys))
  BY <1>7, <1>12, RaiseInv
<1>13. CASE ~LeafFits(n.keys) /\ LeafFits(a.keys) /\ LeafFits(b.keys)
  <2> DEFINE pr == <<p, sep, nextPage, key, ref>>
             S2 == SpansCut(S, p, sep, nextPage)
             L2 == LevelsCut(L, p, nextPage)
  <2>1. /\ nodes' = ns2 /\ promote' = pr /\ nextPage' = nextPage + 1
        /\ UNCHANGED <<root, stable, content>>
    BY <1>7, <1>13
  <2>2. /\ sep \in S[p] /\ Lower(S[p], sep) # {} /\ Len(b.keys) >= 1
        /\ LeafOK(a, Lower(S[p], sep)) /\ LeafOK(b, Upper(S[p], sep))
        /\ IsLeaf(a) /\ IsLeaf(b)
        /\ a.next = nextPage /\ b.next = n.next
        /\ Shares(n, a, b)
        /\ \A k \in Lower(S[p], sep) : \A x : Answers(n, k, x) => Answers(a, k, x)
        /\ \A k \in Upper(S[p], sep) : \A x : Answers(n, k, x) => Answers(b, k, x)
    <3>1. nextPage \in Nat /\ a = SplitLeaf(n, nextPage)[1] /\ b = SplitLeaf(n, nextPage)[2]
      BY <1>5 DEF a, b
    <3>2. Halved(n, S[p], sep, nextPage, a, b)
      BY <3>1, <1>3, <1>4, <1>13, SplitLeafFacts
    <3> QED
      BY <3>2, Zenon DEF Halved
  <2> HIDE DEF sep
  <2>3. /\ DOMAIN ns2 = DOMAIN nodes \cup {nextPage} /\ ns2[nextPage] = b
        /\ ns2 = Write(Write(ns, p, a), nextPage, b)
    BY <1>2, <1>6 DEF ns, ns2, Write
  <2>4. NoneLost(ns, ns2)
    BY <2>2, <2>3, <1>2, <1>6, <1>10, LeafSplitKeeps
  <2>5. Stored(ns2, sep)
    <3>1. Len(b.keys) \in Nat /\ 1 \in 1..Len(b.keys)
      BY <2>2, KeysNat DEF LeafOK, LeafNodes
    <3> QED
      BY <3>1, <2>2, <2>3 DEF Stored, sep
  <2>6. DOMAIN S = DOMAIN ns
    BY <1>1, <1>10 DEF Tree, Spans
  <2> HIDE DEF pr, S2, L2
  <2>7. Tree(ns2, root, pr, S2, L2)
    <3>1. /\ p \in DOMAIN ns /\ DOMAIN ns \subseteq Nat /\ nextPage \notin DOMAIN ns
          /\ IsLeaf(ns[p])
      BY <1>2, <1>4, <1>6, <1>10
    <3>2. /\ pr = <<p, sep, nextPage, key, ref>> /\ S2 = SpansCut(S, p, sep, nextPage)
          /\ L2 = LevelsCut(L, p, nextPage)
      BY DEF pr, S2, L2
    <3>3. b.next = ns[p].next
      BY <2>2, <1>10
    <3> QED
      BY <2>2, <2>3, <2>4, <2>5, <3>1, <3>2, <3>3, <1>5, <1>9, SplitTree
  <2>8. Holds(ns2, S2, ct)
    <3>1. p \in DOMAIN ns /\ nextPage \notin DOMAIN ns
      BY <1>2, <1>6, <1>10
    <3> QED
      BY <2>2, <2>3, <2>6, <3>1, <1>4, <1>9, <1>10, SplitHolds DEF S2
  <2>9. pr # NoCall /\ [content EXCEPT ![pr[4]] = pr[5]] = ct
    BY DEF pr, NoCall, ct
  <2>10. Maps(ns2, root, pr, ct)
    BY <2>7, <2>8 DEF Maps
  <2>11. DOMAIN ns2 \subseteq 1..nextPage
    BY <2>3, <1>5, <1>6
  <2> QED
    BY <2>1, <2>9, <2>10, <2>11, PendingInv
<1> QED
  BY <1>11, <1>12, <1>13

LEMMA DeleteInv ==
  ASSUME IInv, NEW key \in Keys, Delete(key)
  PROVE  IInv'
<1> DEFINE p == LeafFor(key)
           i == SlotIn(nodes[p], key)
           n == [nodes[p] EXCEPT !.tombs[i] = TRUE]
           ns == Write(nodes, p, n)
           ct == [content EXCEPT ![key] = Absent]
<1>1. /\ promote = NoCall /\ root # 0 /\ i # 0
      /\ Return([nodes EXCEPT ![p].tombs[i] = TRUE], root)
      /\ content' = ct /\ nextPage' = nextPage
  BY DEF Delete
<1>2. PICK S, L : Tree(nodes, root, NoCall, S, L) /\ Holds(nodes, S, content)
  BY <1>1, IdleTree
<1>3. p \in DOMAIN nodes /\ IsLeaf(nodes[p]) /\ key \in S[p]
  BY <1>2, LeafForFacts
<1>4. LeafOK(nodes[p], S[p]) /\ S[p] \subseteq Keys
  BY <1>2, <1>3, TreeNodes
<1>5. ns = [nodes EXCEPT ![p].tombs[i] = TRUE]
  <2> HIDE DEF p, i
  <2> QED
    BY <1>3 DEF Write
<1> HIDE DEF p
<1> DEFINE o == nodes[p]
<1>6. /\ o \in LeafNodes /\ Len(o.tombs) = Len(o.keys) /\ Len(o.refs) = Len(o.keys)
      /\ Sorted(o.keys) /\ \A j \in 1..Len(o.keys) : o.keys[j] \in S[p]
      /\ o.keys \in Seq(Keys) /\ o.refs \in Seq(Refs) /\ o.tombs \in Seq(BOOLEAN)
      /\ o.next \in Nat /\ o.kind = "leaf" /\ Len(o.keys) \in Nat
  BY <1>4, KeysNat DEF LeafOK, LeafNodes
<1>7. i \in 1..Len(o.keys) /\ o.keys[i] = key
  BY <1>1, <1>6, SlotInFacts
<1> HIDE DEF i, ns
<1>8. /\ n.keys = o.keys /\ n.refs = o.refs /\ n.next = o.next /\ n.kind = "leaf"
      /\ n.tombs = [o.tombs EXCEPT ![i] = TRUE]
      /\ n = [kind |-> "leaf", keys |-> n.keys, refs |-> n.refs, tombs |-> n.tombs,
              next |-> n.next]
  <2> DEFINE t == [o.tombs EXCEPT ![i] = TRUE]
  <2>1. n = [o EXCEPT !.tombs = t]
    OBVIOUS
  <2>2. o = [kind |-> "leaf", keys |-> o.keys, refs |-> o.refs, tombs |-> o.tombs,
             next |-> o.next]
    <3> HIDE DEF o
    <3> QED
      BY <1>6 DEF LeafNodes
  <2> HIDE DEF t, n, o
  <2>3. n = [kind |-> "leaf", keys |-> o.keys, refs |-> o.refs, tombs |-> t,
             next |-> o.next]
    BY <2>1, <2>2
  <2> QED
    BY <2>3 DEF t
<1>9. ns = Write(nodes, p, n)
  BY DEF ns
<1> HIDE DEF n, o
<1>10. n.tombs \in Seq(BOOLEAN) /\ IsReplaced(n.tombs, o.tombs, i, TRUE)
  <2>1. TRUE \in BOOLEAN /\ i \in 1..Len(o.tombs)
    BY <1>6, <1>7
  <2> DEFINE t == [o.tombs EXCEPT ![i] = TRUE]
  <2>2. t \in Seq(BOOLEAN) /\ IsReplaced(t, o.tombs, i, TRUE)
    BY <1>6, <2>1, ReplaceFacts
  <2>3. n.tombs = t
    BY <1>8
  <2> HIDE DEF t
  <2> QED
    BY <2>2, <2>3
<1>11. /\ Len(n.tombs) = Len(o.keys) /\ n.tombs[i] = TRUE
       /\ \A j \in 1..Len(o.keys) : j # i => n.tombs[j] = o.tombs[j]
  BY <1>6, <1>10 DEF IsReplaced
<1>12. LeafOK(n, S[p]) /\ IsLeaf(n) /\ KeepsAll(n, o)
  <2>1. n \in LeafNodes
    BY <1>6, <1>8, <1>10 DEF LeafNodes
  <2> QED
    BY <2>1, <1>6, <1>8, <1>11 DEF LeafOK, IsLeaf, KeepsAll
<1>13. /\ content \in [Keys -> Refs \cup {Absent}] /\ nextPage \in Nat \ {0}
       /\ DOMAIN nodes \subseteq 1..(nextPage - 1)
  BY DEF IInv
<1>14. ct \in [Keys -> Refs \cup {Absent}] /\ ct[key] = Absent
       /\ \A k \in Keys : k # key => ct[k] = content[k]
  BY <1>13
<1>15. ASSUME NEW k \in S[p] PROVE Answers(n, k, ct[k])
  <2>1. k \in Keys
    BY <1>4
  <2>2. CASE k = key
    <3>1. ASSUME NEW j \in 1..Len(n.keys), n.keys[j] = key PROVE n.tombs[j]
      <4>1. j = i
        <5>1. /\ j \in 1..Len(o.keys) /\ o.keys[j] = o.keys[i]
              /\ i \in Nat /\ j \in Nat
          BY <3>1, <1>6, <1>7, <1>8
        <5>2. ~(j < i) /\ ~(i < j)
          <6>1. o.keys[i] \in Nat
            BY <1>7, KeysNat
          <6> QED
            BY <5>1, <6>1, <1>6, <1>7 DEF Sorted
        <5> QED
          BY <5>1, <5>2
      <4> QED
        BY <4>1, <1>11
    <3> QED
      BY <2>2, <3>1, <1>14 DEF Answers
  <2>3. CASE k # key
    <3>1. Answers(o, k, content[k]) /\ ct[k] = content[k]
      BY <2>1, <2>3, <1>2, <1>3, <1>14 DEF Holds, o
    <3>2. \A j \in 1..Len(o.keys) : o.keys[j] = k => n.tombs[j] = o.tombs[j]
      BY <2>3, <1>7, <1>11
    <3>3. CASE \E j \in 1..Len(o.keys) : o.keys[j] = k /\ ~o.tombs[j] /\ content[k] = o.refs[j]
      <4>1. PICK j \in 1..Len(o.keys) : o.keys[j] = k /\ ~o.tombs[j] /\ content[k] = o.refs[j]
        BY <3>3
      <4>2. j \in 1..Len(n.keys) /\ n.keys[j] = k /\ ~n.tombs[j] /\ content[k] = n.refs[j]
        BY <4>1, <3>2, <1>8
      <4> QED
        BY <4>2, <3>1 DEF Answers
    <3>4. CASE content[k] = Absent /\ (\A j \in 1..Len(o.keys) : o.keys[j] = k => o.tombs[j])
      <4>1. \A j \in 1..Len(n.keys) : n.keys[j] = k => n.tombs[j]
        BY <3>2, <3>4, <1>8
      <4> QED
        BY <4>1, <3>1, <3>4 DEF Answers
    <3> QED
      BY <3>1, <3>3, <3>4 DEF Answers
  <2> QED
    BY <2>2, <2>3
<1> HIDE DEF ct
<1>16. Tree(ns, root, NoCall, S, L) /\ Holds(ns, S, ct)
  <2>1. \A k \in Keys \ S[p] : ct[k] = content[k]
    BY <1>3, <1>14
  <2>2. n.next = nodes[p].next /\ KeepsAll(n, nodes[p])
    BY <1>8, <1>12 DEF o
  <2> QED
    BY <2>1, <2>2, <1>2, <1>3, <1>9, <1>12, <1>15, RewriteLeaf
<1>17. Maps(ns, root, NoCall, ct)
  BY <1>1, <1>16 DEF Maps
<1>18. nextPage' \in Nat \ {0} /\ DOMAIN ns \subseteq 1..(nextPage' - 1)
  BY <1>1, <1>3, <1>9, <1>13 DEF Write
<1> QED
  BY <1>1, <1>5, <1>14, <1>17, <1>18, ReturnInv

LEMMA InsertIntoParentInv ==
  ASSUME IInv, InsertIntoParent
  PROVE  IInv'
<1> DEFINE left == promote[1]
           key == promote[2]
           right == promote[3]
           q == ParentOf(left, key)
           n == Adopt(nodes[q], key, right)
           a == SplitInternal(n)[1]
           b == SplitInternal(n)[2]
           sep == n.keys[Len(n.keys) \div 2 + 1]
           ct == [content EXCEPT ![promote[4]] = promote[5]]
           ns == Write(nodes, q, n)
           ns2 == Write(Write(nodes, q, a), nextPage, b)
           pr == <<q, sep, nextPage, promote[4], promote[5]>>
<1>1. /\ promote # NoCall
      /\ \/ GrowRoot(left, key, right) /\ content' = ct
         \/ /\ root # left /\ InternalFits(n.keys)
            /\ Return(ns, root) /\ nextPage' = nextPage /\ content' = ct
         \/ /\ root # left /\ ~InternalFits(n.keys)
            /\ \/ /\ nodes' = ns2 /\ promote' = pr /\ nextPage' = nextPage + 1
                  /\ UNCHANGED <<root, stable>>
               \/ Raise(IF InternalFits(a.keys) THEN 1 ELSE 0)
            /\ UNCHANGED content
  <2> HIDE DEF q, n
  <2> QED
    BY DEF InsertIntoParent, q, n
<1>2. PICK S, L : Tree(nodes, root, promote, S, L) /\ Holds(nodes, S, ct)
  BY <1>1, PendingTree
<1>3. /\ left \in DOMAIN nodes /\ right \in DOMAIN nodes
      /\ promote[4] \in Keys /\ promote[5] \in Refs /\ key \in Keys /\ Stored(nodes, key)
  <2>1. Halves(nodes, promote, S, L, Seen(S, promote))
    BY <1>1, <1>2, CallFacts
  <2> QED
    BY <2>1 DEF Halves
<1>4. /\ nextPage \in Nat \ {0} /\ DOMAIN nodes \subseteq 1..(nextPage - 1)
      /\ content \in [Keys -> Refs \cup {Absent}]
  BY DEF IInv
<1>5. /\ nextPage \notin DOMAIN nodes /\ DOMAIN nodes \subseteq Nat
      /\ DOMAIN nodes \subseteq 1..nextPage
  BY <1>4
<1>6. ct \in [Keys -> Refs \cup {Absent}]
  BY <1>3, <1>4
<1> HIDE DEF ct, q, n, ns, ns2, a, b, sep
<1>7. CASE GrowRoot(left, key, right) /\ content' = ct
  <2> DEFINE nsr == Write(nodes, nextPage, Internal(<<key>>, <<left, right>>))
  <2>1. root = left /\ Return(nsr, nextPage) /\ nextPage' = nextPage + 1
    BY <1>7 DEF GrowRoot
  <2>2. \E S2, L2 : Tree(nsr, nextPage, NoCall, S2, L2) /\ Holds(nsr, S2, ct)
    BY <1>1, <1>2, <1>4, <1>5, <2>1, GrowTree
  <2>3. DOMAIN nsr = DOMAIN nodes \cup {nextPage}
    BY DEF Write
  <2> HIDE DEF nsr
  <2>4. Maps(nsr, nextPage, NoCall, ct)
    BY <2>2, <1>4 DEF Maps
  <2>5. nextPage' \in Nat \ {0} /\ DOMAIN nsr \subseteq 1..(nextPage' - 1)
    BY <2>1, <2>3, <1>4, <1>5
  <2> QED
    BY <2>1, <2>4, <2>5, <1>6, <1>7, ReturnInv
<1>8. CASE root # left
  <2>1. q \in DOMAIN nodes /\ ~IsLeaf(nodes[q]) /\ key \in S[q] /\ Child(nodes[q], key) = left
    BY <1>1, <1>2, <1>8, ParentOfFacts DEF q
  <2>2. Tree(ns, root, NoCall, S, L) /\ ~IsLeaf(n) /\ Len(n.keys) >= 1
    <3>1. n = Adopt(nodes[q], key, right) /\ ns = Write(nodes, q, n)
      BY DEF n, ns
    <3> QED
      BY <1>1, <1>2, <1>8, <2>1, <3>1, AdoptTree
  <2>3. Holds(ns, S, ct)
    BY <1>2, <2>1, <2>2, SameLeaves DEF ns
  <2>4. DOMAIN ns = DOMAIN nodes /\ ns[q] = n /\ q \in DOMAIN ns
    BY <2>1 DEF ns, Write
  <2>5. root # 0
    BY <1>1, PendingTree
  <2>6. CASE Return(ns, root) /\ nextPage' = nextPage /\ content' = ct
    <3>1. Maps(ns, root, NoCall, ct)
      BY <2>2, <2>3, <2>5 DEF Maps
    <3>2. nextPage' \in Nat \ {0} /\ DOMAIN ns \subseteq 1..(nextPage' - 1)
      BY <2>4, <2>6, <1>4
    <3> QED
      BY <2>6, <3>1, <3>2, <1>6, ReturnInv
  <2>7. CASE /\ nodes' = ns2 /\ promote' = pr /\ nextPage' = nextPage + 1
             /\ UNCHANGED <<root, stable>> /\ UNCHANGED content
    <3> DEFINE S2 == SpansCut(S, q, sep, nextPage)
               L2 == LevelsCut(L, q, nextPage)
    <3>1. /\ InternalOK(n, S[q], L[q], S, L) /\ S[q] \subseteq Keys
      <4>1. Seen(S, NoCall) = S
        BY DEF Seen
      <4> QED
        BY <2>2, <2>4, <4>1, TreeNodes
    <3>2. /\ sep \in S[q] /\ Lower(S[q], sep) # {}
          /\ \E i \in 1..Len(n.keys) : n.keys[i] = sep
          /\ InternalOK(a, Lower(S[q], sep), L[q], S, L) /\ ~IsLeaf(a)
          /\ InternalOK(b, Upper(S[q], sep), L[q], S, L) /\ ~IsLeaf(b)
          /\ \A i \in 1..Len(a.keys) : \E j \in 1..Len(n.keys) : a.keys[i] = n.keys[j]
          /\ \A i \in 1..Len(b.keys) : \E j \in 1..Len(n.keys) : b.keys[i] = n.keys[j]
      <4>1. /\ sep = n.keys[Len(n.keys) \div 2 + 1]
            /\ a = SplitInternal(n)[1] /\ b = SplitInternal(n)[2]
        BY DEF a, b, sep
      <4>2. SplitOK(n, S[q], L[q], S, L, sep, a, b)
        BY <2>2, <3>1, <4>1, SplitInternalOK
      <4> QED
        BY <4>2 DEF SplitOK
    <3>3. \A i \in 1..Len(n.keys) : Stored(ns, n.keys[i])
      BY <2>2, <2>4 DEF Tree, SeparatorsStored
    <3>4. /\ \A i \in 1..Len(a.keys) : Stored(ns, a.keys[i])
          /\ \A i \in 1..Len(b.keys) : Stored(ns, b.keys[i])
          /\ Stored(ns, sep)
      BY <3>2, <3>3
    <3>5. ns2 = Write(Write(ns, q, a), nextPage, b)
      BY <2>1, <1>5 DEF ns, ns2, Write
    <3>6. NoneLost(ns, ns2)
      <4> DEFINE nsa == Write(ns, q, a)
      <4>1. NoneLost(ns, nsa)
        BY <2>2, <2>4, <3>2, SameLeaves
      <4>2. /\ nextPage \notin DOMAIN nsa /\ DOMAIN ns2 = DOMAIN nsa \cup {nextPage}
            /\ \A p \in DOMAIN nsa : ns2[p] = nsa[p]
        BY <2>4, <3>5, <1>5 DEF Write
      <4> HIDE DEF nsa
      <4>3. NoneLost(nsa, ns2)
        BY <4>2 DEF NoneLost, Stored
      <4> QED
        BY <4>1, <4>3 DEF NoneLost
    <3>7. Stored(ns2, sep)
      BY <3>4, <3>6 DEF NoneLost
    <3> HIDE DEF S2, L2, pr
    <3>8. Tree(ns2, root, pr, S2, L2)
      <4>1. /\ DOMAIN ns \subseteq Nat /\ nextPage \notin DOMAIN ns /\ ~IsLeaf(ns[q])
        BY <2>2, <2>4, <1>5
      <4>2. /\ pr = <<q, sep, nextPage, promote[4], promote[5]>>
            /\ S2 = SpansCut(S, q, sep, nextPage) /\ L2 = LevelsCut(L, q, nextPage)
        BY DEF pr, S2, L2
      <4> QED
        BY <2>2, <2>4, <3>2, <3>4, <3>5, <3>6, <3>7, <4>1, <4>2, <1>3, <1>4, SplitTree
    <3>9. Holds(ns2, S2, ct)
      <4>1. DOMAIN S = DOMAIN ns
        BY <2>2 DEF Tree, Spans
      <4> QED
        BY <2>2, <2>3, <2>4, <3>2, <3>5, <4>1, <1>5, SplitHolds DEF S2
    <3>10. Maps(ns2, root, pr, ct)
      BY <2>5, <3>8, <3>9 DEF Maps
    <3>11. pr # NoCall /\ [content EXCEPT ![pr[4]] = pr[5]] = ct
      BY DEF pr, NoCall, ct
    <3>12. DOMAIN ns2 \subseteq 1..nextPage
      BY <2>4, <3>5, <1>4, <1>5 DEF Write
    <3> QED
      BY <2>7, <3>10, <3>11, <3>12, PendingInv DEF pr
  <2>8. CASE /\ Raise(IF InternalFits(a.keys) THEN 1 ELSE 0) /\ UNCHANGED content
    <3>1. (IF InternalFits(a.keys) THEN 1 ELSE 0) \in Nat
      OBVIOUS
    <3> QED
      BY <2>8, <3>1, RaiseInv
  <2> QED
    BY <1>1, <1>8, <2>6, <2>7, <2>8 DEF GrowRoot
<1> QED
  BY <1>1, <1>7, <1>8 DEF GrowRoot

LEMMA InitInv == Init => IInv
<1> SUFFICES ASSUME Init PROVE IInv
  OBVIOUS
<1>1. DOMAIN nodes = {}
  BY DEF Init
<1>2. /\ nodes = <<>> /\ root = 0 /\ nextPage = 1 /\ promote = NoCall
      /\ stable = [nodes |-> nodes, root |-> root] /\ stable.nodes = nodes /\ stable.root = root
      /\ content = [k \in Keys |-> Absent]
  BY DEF Init
<1>3. content \in [Keys -> Refs \cup {Absent}]
  BY <1>2
<1>4. Maps(nodes, root, NoCall, content) /\ Pending(promote, content) = content
  BY <1>2 DEF Maps, Pending
<1>5. Maps(stable.nodes, stable.root, NoCall, content)
  BY <1>2, <1>4
<1>6. DOMAIN nodes \subseteq 1..(nextPage - 1) /\ DOMAIN stable.nodes \subseteq 1..(nextPage - 1)
  BY <1>1, <1>2
<1> QED
  BY <1>2, <1>3, <1>4, <1>5, <1>6 DEF IInv

LEMMA StepInv == IInv /\ [Next]_vars => IInv'
<1> SUFFICES ASSUME IInv, [Next]_vars PROVE IInv'
  OBVIOUS
<1>1. ASSUME NEW key \in Keys, NEW ref \in Refs, Insert(key, ref) PROVE IInv'
  <2>1. CASE root = 0
    BY <1>1, <2>1, FirstInsertInv DEF Insert
  <2>2. CASE root # 0
    BY <1>1, <2>2, InsertInv DEF Insert
  <2> QED
    BY <2>1, <2>2
<1>2. CASE InsertIntoParent
  BY <1>2, InsertIntoParentInv
<1>3. ASSUME NEW key \in Keys, Delete(key) PROVE IInv'
  BY <1>3, DeleteInv
<1>4. CASE UNCHANGED vars
  BY <1>4 DEF vars, IInv, Maps, Pending
<1> QED
  BY <1>1, <1>2, <1>3, <1>4 DEF Next

\* Of the nodes as values, whatever their length.
LEMMA ValuesInv == Spec => []IInv
BY InitInv, StepInv, PTL DEF Spec

(***************************************************************************)
(* The spans of the nodes, the chain of the leaves, the map they hold and  *)
(* the tree a rollback returns to are right in every reachable state, also *)
(* between two calls of _insert_into_parent and after an insert that       *)
(* raised, until a statement ends with a node that its page cannot hold.   *)
(***************************************************************************)
THEOREM Invariance == Spec => [](overran \/ IInv)
BY ValuesInv, PTL
-----------------------------------------------------------------------------
(* The separators. *)

\* The index keys below a node, by the recursion over its children.
BelowCode(ns, g) ==
  [p \in DOMAIN ns |-> IF ns[p].kind = "leaf" THEN ToSet(ns[p].keys)
                       ELSE UNION {g[c] : c \in ToSet(ns[p].children)}]

\* The keys stored in a node's span.
Within(ns, S) == [p \in DOMAIN ns |-> {k \in S[p] : Stored(ns, k)}]

\* A child of an internal node, in a tree without a pending call.
LEMMA ChildSpans ==
  ASSUME NEW ns, NEW r, NEW S, NEW L, Tree(ns, r, NoCall, S, L),
         NEW p \in DOMAIN ns, ~IsLeaf(ns[p])
  PROVE  /\ ns[p] \in InternalNodes /\ Sorted(ns[p].keys)
         /\ Len(ns[p].children) = Len(ns[p].keys) + 1
         /\ \A i \in 1..Len(ns[p].keys) : ns[p].keys[i] \in S[p]
         /\ \A i \in 1..Len(ns[p].children) :
              LET c == ns[p].children[i]
              IN /\ c \in DOMAIN ns /\ L[c] + 1 = L[p]
                 /\ S[c] = S[p] \cap Between(ns[p].keys, i)
         /\ \A k \in S[p] : \E i \in 1..Len(ns[p].children) : k \in S[ns[p].children[i]]
<1>1. Seen(S, NoCall) = S /\ DOMAIN S = DOMAIN ns /\ S[p] \subseteq Keys
  BY DEF Tree, Spans, Seen
<1>2. InternalOK(ns[p], S[p], L[p], S, L)
  BY <1>1 DEF Tree, NodesOK
<1>3. ASSUME NEW k \in S[p]
      PROVE  \E i \in 1..Len(ns[p].children) : k \in S[ns[p].children[i]]
  <2>1. PICK i \in 1..Len(ns[p].children) : k \in Between(ns[p].keys, i)
    BY <1>1, <1>2, ChildBetween DEF InternalOK
  <2> QED
    BY <2>1, <1>2 DEF InternalOK
<1> QED
  BY <1>1, <1>2, <1>3 DEF InternalOK

LEMMA WithinLeaf ==
  ASSUME NEW ns, NEW r, NEW S, NEW L, Tree(ns, r, NoCall, S, L),
         NEW p \in DOMAIN ns, IsLeaf(ns[p])
  PROVE  ToSet(ns[p].keys) = {k \in S[p] : Stored(ns, k)}
<1>1. \A q \in DOMAIN ns : IsLeaf(ns[q]) => LeafOK(ns[q], S[q]) /\ L[q] = 0
  BY DEF Tree, NodesOK, InternalOK, InternalNodes, IsLeaf
<1>2. \A q \in DOMAIN ns : p # q /\ L[p] = L[q] => S[p] \cap S[q] = {}
  BY DEF Tree, Spans
<1>3. DOMAIN ns[p].keys = 1..Len(ns[p].keys)
  BY <1>1 DEF LeafOK, LeafNodes
<1>4. ASSUME NEW k \in ToSet(ns[p].keys) PROVE k \in S[p] /\ Stored(ns, k)
  <2>1. PICK i \in 1..Len(ns[p].keys) : ns[p].keys[i] = k
    BY <1>3 DEF ToSet
  <2> QED
    BY <2>1, <1>1 DEF Stored, LeafOK
<1>5. ASSUME NEW k \in S[p], Stored(ns, k) PROVE k \in ToSet(ns[p].keys)
  <2>1. PICK q \in DOMAIN ns : IsLeaf(ns[q]) /\ \E i \in 1..Len(ns[q].keys) : ns[q].keys[i] = k
    BY <1>5 DEF Stored
  <2>2. k \in S[q] /\ L[q] = 0 /\ L[p] = 0
    BY <2>1, <1>1 DEF LeafOK
  <2>3. p = q
    BY <2>2, <1>2
  <2> QED
    BY <2>1, <2>3, <1>3 DEF ToSet
<1> QED
  BY <1>4, <1>5

\* What the recursion computes: the stored keys of the node's span.
LEMMA BelowFacts ==
  ASSUME NEW ns, NEW r, NEW S, NEW L, Tree(ns, r, NoCall, S, L)
  PROVE  /\ Within(ns, S) = BelowCode(ns, Within(ns, S))
         /\ \A g : g = BelowCode(ns, g) => g = Within(ns, S)
<1> DEFINE D == DOMAIN ns
           F == Within(ns, S)
           Kids(p) == ToSet(ns[p].children)
<1>1. /\ L \in [D -> Nat] /\ r \in D /\ L[r] \in Nat /\ \A p \in D : L[p] <= L[r]
  BY DEF Tree, Spans, Seen
<1>2. \A p \in D : F[p] = {k \in S[p] : Stored(ns, k)}
  BY DEF Within
<1>3. ASSUME NEW p \in D, ~IsLeaf(ns[p])
      PROVE  /\ \A c \in Kids(p) : c \in D /\ L[c] + 1 = L[p] /\ S[c] \subseteq S[p]
             /\ \A k \in S[p] : \E c \in Kids(p) : k \in S[c]
  <2>1. /\ ns[p] \in InternalNodes
        /\ \A i \in 1..Len(ns[p].children) :
              LET c == ns[p].children[i]
              IN /\ c \in DOMAIN ns /\ L[c] + 1 = L[p]
                 /\ S[c] = S[p] \cap Between(ns[p].keys, i)
        /\ \A k \in S[p] : \E i \in 1..Len(ns[p].children) : k \in S[ns[p].children[i]]
    BY <1>3, ChildSpans
  <2>2. DOMAIN ns[p].children = 1..Len(ns[p].children)
    BY <2>1 DEF InternalNodes
  <2> QED
    BY <2>1, <2>2 DEF ToSet
<1>4. ASSUME NEW p \in D, ~IsLeaf(ns[p]) PROVE F[p] = UNION {F[c] : c \in Kids(p)}
  <2> HIDE DEF F, Kids
  <2>1. ASSUME NEW k \in F[p] PROVE k \in UNION {F[c] : c \in Kids(p)}
    <3>1. k \in S[p] /\ Stored(ns, k)
      BY <1>2
    <3>2. PICK c \in Kids(p) : k \in S[c]
      BY <3>1, <1>3, <1>4
    <3>3. c \in D
      BY <1>3, <1>4
    <3>4. k \in F[c]
      BY <3>1, <3>2, <3>3, <1>2
    <3> QED
      BY <3>4
  <2>2. ASSUME NEW c \in Kids(p), NEW k \in F[c] PROVE k \in F[p]
    <3>1. c \in D /\ S[c] \subseteq S[p]
      BY <1>3, <1>4
    <3> QED
      BY <3>1, <1>2
  <2> QED
    BY <2>1, <2>2
<1>5. ASSUME NEW p \in D, IsLeaf(ns[p]) PROVE F[p] = ToSet(ns[p].keys)
  BY <1>2, <1>5, WithinLeaf
<1>6. F = BelowCode(ns, F)
  <2>1. \A p \in D : F[p] = IF ns[p].kind = "leaf" THEN ToSet(ns[p].keys)
                            ELSE UNION {F[c] : c \in ToSet(ns[p].children)}
    BY <1>4, <1>5 DEF IsLeaf
  <2>2. F = [p \in D |-> F[p]]
    BY DEF Within
  <2> HIDE DEF F
  <2> QED
    BY <2>1, <2>2 DEF BelowCode
<1>7. ASSUME NEW g, g = BelowCode(ns, g) PROVE g = F
  <2>1. /\ g = [p \in D |-> g[p]]
        /\ \A p \in D : g[p] = IF IsLeaf(ns[p]) THEN ToSet(ns[p].keys)
                               ELSE UNION {g[c] : c \in Kids(p)}
    BY <1>7 DEF BelowCode, IsLeaf
  <2> DEFINE P == {n \in Nat : \A p \in D : L[p] <= n => g[p] = F[p]}
  <2> HIDE DEF F, Kids
  <2>2. ASSUME NEW n \in Nat, NEW p \in D, L[p] <= n, ~IsLeaf(ns[p]),
               \A q \in D : L[q] < n => g[q] = F[q]
        PROVE  g[p] = F[p]
    <3>1. \A c \in Kids(p) : c \in D /\ L[c] + 1 = L[p]
      BY <1>3, <2>2
    <3>2. \A c \in Kids(p) : g[c] = F[c]
      BY <3>1, <2>2, <1>1
    <3>3. {g[c] : c \in Kids(p)} = {F[c] : c \in Kids(p)}
      BY <3>2
    <3> QED
      BY <3>3, <1>4, <2>1, <2>2
  <2>3. \A p \in D : IsLeaf(ns[p]) => g[p] = F[p]
    BY <2>1, <1>5
  <2>4. 0 \in P
    <3>1. \A q \in D : ~(L[q] < 0)
      BY <1>1
    <3> QED
      BY <2>2, <2>3, <3>1
  <2>5. ASSUME NEW n \in Nat, n \in P PROVE n + 1 \in P
    <3>1. \A q \in D : L[q] < n + 1 => L[q] <= n
      BY <1>1
    <3>2. \A q \in D : L[q] < n + 1 => g[q] = F[q]
      BY <3>1, <2>5
    <3>3. n + 1 \in Nat
      OBVIOUS
    <3> QED
      BY <3>2, <3>3, <2>2, <2>3
  <2>6. L[r] \in P
    <3> HIDE DEF P
    <3> QED
      BY <1>1, <2>4, <2>5, Induction
  <2>7. \A p \in D : g[p] = F[p]
    BY <2>6, <1>1
  <2>8. F = [p \in D |-> F[p]]
    BY DEF F, Within
  <2> QED
    BY <2>1, <2>7, <2>8
<1> QED
  BY <1>6, <1>7

\* SeparatorsExact, for an idle tree.
LEMMA SeparatorsOfTree ==
  ASSUME NEW ns, NEW r, NEW S, NEW L, Tree(ns, r, NoCall, S, L),
         NEW p \in DOMAIN ns, ~IsLeaf(ns[p]), NEW i \in 1..Len(ns[p].keys)
  PROVE  LET F == Within(ns, S)
         IN /\ ns[p].keys[i] = Min(F[ns[p].children[i + 1]])
            /\ \A k \in F[ns[p].children[i]] : k < ns[p].keys[i]
<1> DEFINE ks == ns[p].keys
           cs == ns[p].children
           F == Within(ns, S)
           a == cs[i]
           b == cs[i + 1]
<1>1. /\ ns[p] \in InternalNodes /\ Sorted(ks) /\ Len(cs) = Len(ks) + 1 /\ ks[i] \in S[p]
      /\ \A j \in 1..Len(cs) : /\ cs[j] \in DOMAIN ns
                               /\ S[cs[j]] = S[p] \cap Between(ks, j)
  BY ChildSpans
<1>2. /\ ks \in Seq(Keys) /\ Len(ks) \in Nat /\ ks[i] \in Keys /\ ks[i] \in Nat
      /\ \A j \in 1..Len(ks) : ks[j] \in Nat
  BY <1>1, KeysNat DEF InternalNodes
<1>3. i \in 1..Len(cs) /\ i + 1 \in 1..Len(cs) /\ (i + 1) - 1 = i /\ i \in Nat
  BY <1>1, <1>2
<1>4. /\ a \in DOMAIN ns /\ S[a] = S[p] \cap Between(ks, i)
      /\ b \in DOMAIN ns /\ S[b] = S[p] \cap Between(ks, i + 1)
  BY <1>1, <1>3
<1>5. F[a] = {k \in S[a] : Stored(ns, k)} /\ F[b] = {k \in S[b] : Stored(ns, k)}
  BY <1>4 DEF Within
<1>6. Stored(ns, ks[i])
  BY DEF Tree, SeparatorsStored
<1>7. ks[i] \in Between(ks, i + 1)
  <2>1. i + 1 <= Len(ks) => ks[i] < ks[i + 1]
    BY <1>1, <1>2, <1>3 DEF Sorted
  <2> QED
    BY <2>1, <1>2, <1>3 DEF Between
<1>8. ks[i] \in F[b]
  BY <1>1, <1>4, <1>5, <1>6, <1>7
<1>9. \A k \in Between(ks, i + 1) : k \in Nat /\ ks[i] <= k
  <2>1. i + 1 > 1 /\ Between(ks, i + 1) \subseteq {k \in Keys : i + 1 > 1 => ks[(i + 1) - 1] <= k}
    BY <1>3 DEF Between
  <2> QED
    BY <2>1, <1>3, KeysNat
<1>10. \A k \in F[b] : k \in Nat /\ ks[i] <= k
  BY <1>4, <1>5, <1>9
<1>11. \A k \in F[a] : k < ks[i]
  <2>1. \A k \in Between(ks, i) : k < ks[i]
    BY <1>2, <1>3 DEF Between
  <2> QED
    BY <2>1, <1>4, <1>5
<1>12. ks[i] = Min(F[b])
  <2>1. Min(F[b]) \in F[b] /\ \A y \in F[b] : Min(F[b]) <= y
    BY <1>8, <1>10 DEF Min
  <2> HIDE DEF F
  <2>2. Min(F[b]) <= ks[i] /\ ks[i] <= Min(F[b]) /\ Min(F[b]) \in Nat
    BY <2>1, <1>8, <1>10
  <2> QED
    BY <2>2, <1>2
<1> QED
  BY <1>11, <1>12

LEMMA SeparatorsInv == overran \/ IInv => SeparatorsExact
<1>0. CASE overran
  BY <1>0 DEF SeparatorsExact
<1> SUFFICES ASSUME IInv PROVE SeparatorsExact
  BY <1>0
<1> DEFINE below == CHOOSE g : g = BelowCode(nodes, g)
<1>1. ASSUME Idle, NEW p \in DOMAIN nodes, nodes[p].kind = "internal",
             NEW i \in DOMAIN nodes[p].keys
      PROVE  /\ nodes[p].keys[i] = Min(below[nodes[p].children[i + 1]])
             /\ \A k \in below[nodes[p].children[i]] : k < nodes[p].keys[i]
  <2>1. promote = NoCall
    BY <1>1 DEF Idle
  <2>2. root # 0
    <3>1. DOMAIN <<>> = {}
      OBVIOUS
    <3> QED
      BY <3>1, <1>1 DEF IInv, Maps
  <2>3. PICK S, L : Tree(nodes, root, NoCall, S, L)
    BY <2>1, <2>2 DEF IInv, Maps
  <2>4. below = Within(nodes, S)
    BY <2>3, BelowFacts
  <2>5. ~IsLeaf(nodes[p])
    BY <1>1 DEF IsLeaf
  <2>6. i \in 1..Len(nodes[p].keys)
    BY <1>1, <2>3, <2>5, ChildSpans DEF InternalNodes
  <2> HIDE DEF below
  <2> QED
    BY <2>3, <2>4, <2>5, <2>6, SeparatorsOfTree
<1>2. ASSUME ~Idle, root # promote[1] PROVE ParentOf(promote[1], promote[2]) # 0
  <2>1. promote # NoCall
    BY <1>2 DEF Idle
  <2>2. root # 0
    BY <2>1 DEF IInv, Maps
  <2>3. PICK S, L : Tree(nodes, root, promote, S, L)
    BY <2>2 DEF IInv, Maps
  <2>4. ParentOf(promote[1], promote[2]) \in DOMAIN nodes
    BY <2>1, <2>3, <1>2, ParentOfFacts
  <2>5. 0 \notin DOMAIN nodes
    BY DEF IInv
  <2> QED
    BY <2>4, <2>5
<1>3. SeparatorsExact =
        (~overran =>
           /\ Idle => \A p \in DOMAIN nodes : nodes[p].kind = "internal" =>
                \A i \in DOMAIN nodes[p].keys :
                   /\ nodes[p].keys[i] = Min(below[nodes[p].children[i + 1]])
                   /\ \A k \in below[nodes[p].children[i]] : k < nodes[p].keys[i]
           /\ ~Idle /\ root # promote[1] => ParentOf(promote[1], promote[2]) # 0)
  BY DEF SeparatorsExact, BelowCode
<1> HIDE DEF below
<1> QED
  BY <1>1, <1>2, <1>3

(***************************************************************************)
(* SeparatorsExact for any keys, key lengths and page size: keys[i] of an  *)
(* internal node is the smallest key below children[i + 1] and everything  *)
(* below children[i] is smaller, and _find_parent_pid finds the parent of  *)
(* the node an insertion has split, however far up the split has           *)
(* travelled; until a node has outgrown its page.                          *)
(***************************************************************************)
THEOREM SeparatorsHold == Spec => []SeparatorsExact
BY Invariance, SeparatorsInv, PTL
-----------------------------------------------------------------------------
(* Lookups. *)

LEMMA SearchOfTree ==
  ASSUME NEW S, NEW L, root # 0, Tree(nodes, root, NoCall, S, L),
         Holds(nodes, S, content), NEW key \in Keys
  PROVE  Search(key) = content[key]
<1> DEFINE n == nodes[LeafFor(key)]
           i == SlotIn(n, key)
<1>1. LeafFor(key) \in DOMAIN nodes /\ IsLeaf(n) /\ key \in S[LeafFor(key)]
  BY LeafForFacts
<1>2. LeafOK(n, S[LeafFor(key)])
  BY <1>1 DEF Tree, NodesOK
<1>3. Answers(n, key, content[key])
  BY <1>1 DEF Holds
<1>4. /\ n \in LeafNodes /\ Sorted(n.keys)
      /\ n.keys \in Seq(Keys) /\ Len(n.keys) \in Nat /\ \A j \in 1..Len(n.keys) : n.keys[j] \in Nat
  BY <1>2, KeysNat DEF LeafOK, LeafNodes
<1>5. /\ i \in 0..Len(n.keys) /\ (i # 0 => n.keys[i] = key)
      /\ i = 0 => \A j \in 1..Len(n.keys) : n.keys[j] # key
  BY <1>4, SlotInFacts
<1>6. Search(key) = IF i = 0 \/ n.tombs[i] THEN Absent ELSE n.refs[i]
  BY DEF Search
<1> HIDE DEF i, n
<1>7. CASE i = 0
  BY <1>3, <1>5, <1>6, <1>7, Zenon DEF Answers
<1>8. CASE i # 0
  <2>1. i \in 1..Len(n.keys) /\ n.keys[i] = key
    BY <1>4, <1>5, <1>8
  <2>2. \A j \in 1..Len(n.keys) : n.keys[j] = key => j = i
    <3>1. ASSUME NEW j \in 1..Len(n.keys), n.keys[j] = key, j # i PROVE FALSE
      BY <2>1, <3>1, <1>4 DEF Sorted
    <3> QED
      BY <3>1
  <2> QED
    BY <2>1, <2>2, <1>3, <1>6, <1>8, Zenon DEF Answers
<1> QED
  BY <1>7, <1>8

\* A recursion that stops in B, and elsewhere passes on what the next call
\* returns, with a prefix outside C.
Recursion(D, B, C, h, nx, g) ==
  [p \in D |-> IF p \in B THEN <<>>
               ELSE IF p \in C THEN g[nx[p]] ELSE h[p] \o g[nx[p]]]

LEMMA RecursionExists ==
  ASSUME NEW D, NEW L \in [D -> Nat], NEW N \in Nat, \A p \in D : L[p] <= N,
         NEW B, NEW C, NEW h, NEW nx, \A p \in D \ B : nx[p] \in D /\ L[nx[p]] < L[p]
  PROVE  \E g : g = Recursion(D, B, C, h, nx, g)
<1> DEFINE Up(n) == {p \in D : L[p] <= n}
           P == {n \in Nat : \E g : g = Recursion(Up(n), B, C, h, nx, g)}
<1>1. 0 \in P
  <2> DEFINE g == [p \in Up(0) |-> <<>>]
  <2>1. \A p \in Up(0) : p \in B
    OBVIOUS
  <2>2. g = Recursion(Up(0), B, C, h, nx, g)
    BY <2>1 DEF Recursion
  <2> QED
    BY <2>2
<1>2. ASSUME NEW n \in Nat, n \in P PROVE n + 1 \in P
  <2>1. PICK g : g = Recursion(Up(n), B, C, h, nx, g)
    BY <1>2
  <2> DEFINE f == [p \in Up(n + 1) |-> IF p \in B THEN <<>>
                     ELSE IF p \in C THEN g[nx[p]] ELSE h[p] \o g[nx[p]]]
  <2>2. ASSUME NEW p \in Up(n) PROVE p \in Up(n + 1) /\ f[p] = g[p]
    <3>1. p \in Up(n + 1)
      OBVIOUS
    <3> HIDE DEF Up
    <3>2. g[p] = IF p \in B THEN <<>> ELSE IF p \in C THEN g[nx[p]] ELSE h[p] \o g[nx[p]]
      BY <2>1 DEF Recursion
    <3> QED
      BY <3>1, <3>2
  <2>3. ASSUME NEW p \in Up(n + 1), p \notin B PROVE f[nx[p]] = g[nx[p]]
    <3>1. nx[p] \in Up(n)
      BY <2>3
    <3> QED
      BY <2>2, <3>1
  <2>4. f = Recursion(Up(n + 1), B, C, h, nx, f)
    <3> HIDE DEF Up
    <3>1. \A p \in Up(n + 1) : f[p] = IF p \in B THEN <<>>
            ELSE IF p \in C THEN f[nx[p]] ELSE h[p] \o f[nx[p]]
      BY <2>3
    <3>2. f = [p \in Up(n + 1) |-> f[p]]
      OBVIOUS
    <3> HIDE DEF f
    <3> QED
      BY <3>1, <3>2 DEF Recursion
  <2> HIDE DEF f, Up
  <2>5. n + 1 \in Nat /\ \E q : q = Recursion(Up(n + 1), B, C, h, nx, q)
    BY <2>4
  <2> QED
    BY <2>5
<1>3. N \in P
  <2> HIDE DEF P
  <2> QED
    BY <1>1, <1>2, Induction
<1>4. Up(N) = D
  OBVIOUS
<1> QED
  BY <1>3, <1>4

\* The live keys that are smaller than `to`.
Live(to) == {k \in Keys : k < to /\ content[k] # Absent}

ListingCode(to, g) ==
  [k \in Nat |-> IF k >= to THEN <<>>
                 ELSE IF k \in Keys /\ content[k] # Absent THEN <<content[k]>> \o g[k + 1]
                 ELSE g[k + 1]]

LEMMA ListingExists ==
  ASSUME NEW to \in Nat, NEW from \in Nat
  PROVE  \E up : up = ListingCode(to, up) /\ Listing(from, to) = up[from]
<1> DEFINE L == [k \in Nat |-> IF k >= to THEN 0 ELSE to - k]
           B == {k \in Nat : k >= to}
           C == {k \in Nat : ~(k \in Keys /\ content[k] # Absent)}
           h == [k \in Nat |-> <<content[k]>>]
           nx == [k \in Nat |-> k + 1]
           D == Nat
<1>1. L \in [D -> Nat] /\ \A k \in D : L[k] <= to
  OBVIOUS
<1>2. \A k \in D \ B : nx[k] \in D /\ L[nx[k]] < L[k]
  OBVIOUS
<1>3. \A g : ListingCode(to, g) = Recursion(Nat, B, C, h, nx, g)
  BY DEF ListingCode, Recursion
<1>4. \E g : g = ListingCode(to, g)
  <2> HIDE DEF L, B, C, h, nx, D
  <2>1. \E g : g = Recursion(D, B, C, h, nx, g)
    BY <1>1, <1>2, RecursionExists
  <2> QED
    BY <1>3, <2>1, Zenon DEF D
<1>5. Listing(from, to) = (CHOOSE g : g = ListingCode(to, g))[from]
  BY DEF Listing, ListingCode
<1> QED
  BY <1>4, <1>5

Before(e, s) == <<e>> \o s

\* x is the least element of T from k on.
Starts(T, k, x) == k <= x /\ \A y \in T : y < k \/ x <= y

\* The listing from k starts with the least live key from k on.
LEMMA ListingFacts ==
  ASSUME NEW to \in Nat, NEW up, up = ListingCode(to, up), NEW k \in Nat
  PROVE  /\ (\A x \in Live(to) : x < k) => up[k] = <<>>
         /\ \A x \in Live(to) :
              Starts(Live(to), k, x) => up[k] = Before(content[x], up[x + 1])
<1>1. \A a \in Nat : up[a] = IF a >= to THEN <<>>
                 ELSE IF a \in Keys /\ content[a] # Absent THEN <<content[a]>> \o up[a + 1]
                 ELSE up[a + 1]
  BY Zenon DEF ListingCode
<1>2. /\ \A a \in Nat : a >= to => up[a] = <<>>
      /\ \A a \in Nat : ~(a >= to) /\ ~(a \in Keys /\ content[a] # Absent) => up[a] = up[a + 1]
  BY <1>1, Zenon
<1>3. ASSUME NEW a \in Nat, ~(a >= to), a \in Keys, content[a] # Absent
      PROVE  up[a] = Before(content[a], up[a + 1])
  BY <1>1, <1>3, Zenon DEF Before
<1>4. Live(to) \subseteq Nat /\ \A x \in Live(to) : x \in Keys /\ x < to /\ content[x] # Absent
  BY KeysNat DEF Live
<1>5. \A a \in Nat : a < to /\ a \notin Live(to) => up[a] = up[a + 1]
  <2>1. \A a \in Nat : a < to /\ a \notin Live(to) => ~(a \in Keys /\ content[a] # Absent)
    BY DEF Live
  <2> QED
    BY <1>2, <2>1
<1> DEFINE P == {n \in Nat : (k + n <= to /\ \A x \in Live(to) : x < k \/ k + n <= x) => up[k] = up[k + n]}
<1>6. 0 \in P
  BY DEF Live
<1>7. ASSUME NEW n \in Nat, n \in P PROVE n + 1 \in P
  <2>1. SUFFICES ASSUME k + (n + 1) <= to, \A x \in Live(to) : x < k \/ k + (n + 1) <= x
                 PROVE  up[k] = up[k + (n + 1)]
    OBVIOUS
  <2>2. k + n <= to /\ (\A x \in Live(to) : x < k \/ k + n <= x) /\ k + n < to /\ k + n \in Nat
    BY <2>1, <1>4
  <2>3. k + n \notin Live(to)
    BY <2>1, <2>2
  <2>4. up[k + n] = up[(k + n) + 1] /\ (k + n) + 1 = k + (n + 1)
    BY <2>2, <2>3, <1>5
  <2>5. up[k] = up[k + n]
    BY <2>2, <1>7
  <2> QED
    BY <2>4, <2>5
<1>8. Nat \subseteq P
  <2> HIDE DEF P
  <2> QED
    BY <1>6, <1>7, Induction
<1>9. ASSUME NEW b \in Nat, k <= b, b <= to, \A x \in Live(to) : x < k \/ b <= x
      PROVE  up[k] = up[b]
  <2>1. b - k \in P /\ k + (b - k) = b
    <3> HIDE DEF P
    <3> QED
      BY <1>8, <1>9
  <2> QED
    BY <2>1, <1>9
<1>10. ASSUME \A x \in Live(to) : x < k PROVE up[k] = <<>>
  <2>1. CASE k >= to
    BY <2>1, <1>2
  <2>2. CASE k < to
    <3>1. up[k] = up[to]
      BY <2>2, <1>9, <1>10
    <3> QED
      BY <3>1, <1>2
  <2> QED
    BY <2>1, <2>2
<1>11. ASSUME NEW x \in Live(to), k <= x, \A y \in Live(to) : y < k \/ x <= y
       PROVE  up[k] = Before(content[x], up[x + 1])
  <2>1. x \in Nat /\ x < to /\ x \in Keys /\ content[x] # Absent
    BY <1>4
  <2>2. up[k] = up[x]
    BY <2>1, <1>9, <1>11
  <2>3. ~(x >= to)
    BY <2>1
  <2>4. up[x] = Before(content[x], up[x + 1])
    BY <2>1, <2>3, <1>3
  <2> QED
    BY <2>2, <2>4
<1> QED
  BY <1>10, <1>11 DEF Starts
-----------------------------------------------------------------------------
(* The walk of range. *)

LEMMA Bounded ==
  ASSUME NEW n \in Nat, NEW f, \A i \in 1..n : f[i] \in Nat
  PROVE  \E b \in Nat : \A i \in 1..n : f[i] <= b
<1> DEFINE P == {m \in Nat : m <= n => \E b \in Nat : \A i \in 1..m : f[i] <= b}
<1>1. 0 \in P
  OBVIOUS
<1>2. ASSUME NEW m \in Nat, m \in P PROVE m + 1 \in P
  <2>1. SUFFICES ASSUME m + 1 <= n PROVE \E b \in Nat : \A i \in 1..(m + 1) : f[i] <= b
    OBVIOUS
  <2>2. PICK b \in Nat : \A i \in 1..m : f[i] <= b
    BY <1>2, <2>1
  <2>3. m + 1 \in 1..n /\ f[m + 1] \in Nat /\ \A i \in 1..(m + 1) : i \in 1..m \/ i = m + 1
    BY <2>1
  <2>4. \A i \in 1..m : f[i] \in Nat
    BY <2>1
  <2>5. CASE f[m + 1] <= b
    BY <2>2, <2>3, <2>5
  <2>6. CASE f[m + 1] > b
    <3>1. \A i \in 1..(m + 1) : f[i] <= f[m + 1]
      BY <2>2, <2>3, <2>4, <2>6
    <3> QED
      BY <2>3, <3>1
  <2> QED
    BY <2>3, <2>5, <2>6
<1>3. n \in P
  <2> HIDE DEF P
  <2> QED
    BY <1>1, <1>2, Induction
<1> QED
  BY <1>3

LEMMA MinFacts ==
  ASSUME NEW T, T \subseteq Nat, T # {}
  PROVE  Min(T) \in T /\ Min(T) \in Nat /\ \A x \in T : Min(T) <= x
<1>1. PICK x \in T : \A y \in T : x <= y
  BY LeastElement
<1> QED
  BY <1>1 DEF Min

Leaves(ns) == {p \in DOMAIN ns : ns[p].kind = "leaf"}

\* An entry of a leaf, or a place after its last entry.
Places(ns) == Leaves(ns) \X (Nat \ {0})

AtEnd(ns, w) == w[2] > Len(ns[w[1]].keys)

AtLast(ns, w) == AtEnd(ns, w) /\ ns[w[1]].next = 0

Follow(ns, w) ==
  IF AtEnd(ns, w) THEN <<ns[w[1]].next, 1>> ELSE <<w[1], w[2] + 1>>

\* How far a place is in the order of the keys.
Position(ns, S, w) ==
  IF AtEnd(ns, w) THEN 2 * Min(Above(S[w[1]])) - 1 ELSE 2 * ns[w[1]].keys[w[2]]

Bound(ns, S, p) ==
  IF ns[p].next # 0 THEN 2 * Min(Above(S[p]))
  ELSE IF Len(ns[p].keys) = 0 THEN 0 ELSE 2 * ns[p].keys[Len(ns[p].keys)]

LEMMA LeafFacts ==
  ASSUME NEW ns, NEW r, NEW S, NEW L, Tree(ns, r, NoCall, S, L), NEW p \in Leaves(ns)
  PROVE  /\ LeafOK(ns[p], S[p]) /\ Sorted(ns[p].keys) /\ Len(ns[p].keys) \in Nat
         /\ \A i \in 1..Len(ns[p].keys) : ns[p].keys[i] \in S[p] /\ ns[p].keys[i] \in Nat
         /\ S[p] \subseteq Nat /\ S[p] # {} /\ S[p] \subseteq Keys
         /\ Above(S[p]) \subseteq Nat
         /\ \A x \in S[p], y \in Above(S[p]) : x < y
<1>1. IsLeaf(ns[p]) /\ p \in DOMAIN ns
  BY DEF Leaves, IsLeaf
<1>2. LeafOK(ns[p], S[p])
  BY <1>1 DEF Tree, NodesOK
<1>3. S[p] \subseteq Keys /\ S[p] # {}
  BY <1>1 DEF Tree, Spans
<1>4. ns[p].keys \in Seq(Keys) /\ Sorted(ns[p].keys)
      /\ \A i \in 1..Len(ns[p].keys) : ns[p].keys[i] \in S[p]
  BY <1>2 DEF LeafOK, LeafNodes
<1>5. Above(S[p]) \subseteq Keys /\ \A x \in S[p], y \in Above(S[p]) : x < y
  BY DEF Above
<1> QED
  BY <1>2, <1>3, <1>4, <1>5, KeysNat

LEMMA NextFacts ==
  ASSUME NEW ns, NEW r, NEW S, NEW L, Tree(ns, r, NoCall, S, L), NEW p \in Leaves(ns)
  PROVE  LET q == ns[p].next
         IN /\ q = 0 => Above(S[p]) = {}
            /\ q # 0 => /\ q \in Leaves(ns)
                        /\ Above(S[p]) = S[q] \cup Above(S[q])
                        /\ Above(S[p]) # {}
<1>1. IsLeaf(ns[p]) /\ p \in DOMAIN ns
  BY DEF Leaves, IsLeaf
<1> DEFINE q == ns[p].next
<1>2. /\ q = 0 => Above(S[p]) = {}
      /\ q # 0 => /\ q \in DOMAIN ns /\ IsLeaf(ns[q])
                  /\ Above(S[p]) = S[q] \cup Above(S[q])
  BY <1>1 DEF Tree, ChainOK
<1>3. q # 0 => q \in Leaves(ns)
  BY <1>2 DEF Leaves, IsLeaf
<1>4. q # 0 => S[q] # {}
  BY <1>3, LeafFacts
<1> QED
  BY <1>2, <1>3, <1>4

\* A walk goes forward in the order of the keys.
LEMMA FollowFacts ==
  ASSUME NEW ns, NEW r, NEW S, NEW L, Tree(ns, r, NoCall, S, L),
         NEW w \in Places(ns), ~AtLast(ns, w)
  PROVE  /\ Follow(ns, w) \in Places(ns)
         /\ Position(ns, S, w) \in Nat
         /\ Bound(ns, S, w[1]) \in Nat
         /\ Position(ns, S, w) <= Bound(ns, S, w[1])
         /\ ~AtLast(ns, Follow(ns, w)) => Position(ns, S, w) < Position(ns, S, Follow(ns, w))
<1> DEFINE p == w[1]
           i == w[2]
           ks == ns[p].keys
           q == ns[p].next
<1>1. p \in Leaves(ns) /\ i \in Nat \ {0} /\ w = <<p, i>>
  BY DEF Places
<1>2. /\ Sorted(ks) /\ Len(ks) \in Nat
      /\ \A j \in 1..Len(ks) : ks[j] \in S[p] /\ ks[j] \in Nat
      /\ S[p] \subseteq Nat /\ S[p] # {}
      /\ Above(S[p]) \subseteq Nat
      /\ \A x \in S[p], y \in Above(S[p]) : x < y
  BY <1>1, LeafFacts
<1>3. /\ q = 0 => Above(S[p]) = {}
      /\ q # 0 => /\ q \in Leaves(ns)
                  /\ Above(S[p]) = S[q] \cup Above(S[q])
                  /\ Above(S[p]) # {}
  BY <1>1, NextFacts
<1> DEFINE m == Min(Above(S[p]))
<1>4. q # 0 => /\ m \in Above(S[p]) /\ m \in Nat
               /\ \A x \in Above(S[p]) : m <= x
               /\ \A x \in S[p] : x < m
               /\ m >= 1
  <2>1. SUFFICES ASSUME q # 0 PROVE m \in Above(S[p]) /\ m \in Nat /\ (\A x \in Above(S[p]) : m <= x)
                       /\ (\A x \in S[p] : x < m) /\ m >= 1
    OBVIOUS
  <2>2. m \in Above(S[p]) /\ m \in Nat /\ \A x \in Above(S[p]) : m <= x
    BY <2>1, <1>2, <1>3, MinFacts
  <2> HIDE DEF m
  <2>3. \A x \in S[p] : x < m /\ x \in Nat
    BY <2>2, <1>2
  <2>4. m >= 1
    BY <2>2, <2>3, <1>2
  <2> QED
    BY <2>2, <2>3, <2>4
<1>5. /\ AtEnd(ns, w) <=> i > Len(ks)
      /\ AtEnd(ns, w) => q # 0
      /\ Follow(ns, w) = IF AtEnd(ns, w) THEN <<q, 1>> ELSE <<p, i + 1>>
      /\ Position(ns, S, w) = IF AtEnd(ns, w) THEN 2 * m - 1 ELSE 2 * ks[i]
      /\ Bound(ns, S, p) = IF q # 0 THEN 2 * m ELSE IF Len(ks) = 0 THEN 0 ELSE 2 * ks[Len(ks)]
  BY DEF AtEnd, AtLast, Follow, Position, Bound
<1> HIDE DEF m
<1>6. CASE i > Len(ks)
  <2>1. q # 0 /\ Follow(ns, w) = <<q, 1>> /\ Position(ns, S, w) = 2 * m - 1
        /\ Bound(ns, S, p) = 2 * m
    BY <1>5, <1>6
  <2> DEFINE n == Min(Above(S[q]))
             kq == ns[q].keys
             v == <<q, 1>>
  <2>2. v \in Places(ns)
    BY <2>1, <1>3 DEF Places
  <2>3. v[1] = q /\ v[2] = 1
    OBVIOUS
  <2>4. Position(ns, S, v) = IF 1 > Len(kq) THEN 2 * n - 1 ELSE 2 * kq[1]
    BY <2>3 DEF Position, AtEnd
  <2>5. /\ Len(kq) \in Nat
        /\ \A j \in 1..Len(kq) : kq[j] \in S[q] /\ kq[j] \in Nat
        /\ S[q] # {} /\ S[q] \subseteq Nat /\ Above(S[q]) \subseteq Nat
        /\ \A x \in S[q], y \in Above(S[q]) : x < y
    BY <2>1, <1>3, LeafFacts
  <2>6. ASSUME ~AtLast(ns, v) PROVE 2 * m - 1 < Position(ns, S, v)
    <3>1. CASE 1 > Len(kq)
      <4>1. ns[q].next # 0
        BY <2>3, <2>6, <3>1 DEF AtLast, AtEnd
      <4>2. Above(S[q]) # {}
        BY <4>1, <2>1, <1>3, NextFacts
      <4>3. n \in Above(S[q]) /\ n \in Nat
        BY <4>2, <2>5, MinFacts
      <4> HIDE DEF n
      <4>4. PICK x \in S[q] : x \in Nat
        BY <2>5
      <4>5. m <= x /\ x < n
        BY <4>3, <4>4, <2>1, <2>5, <1>3, <1>4
      <4> QED
        BY <4>3, <4>4, <4>5, <3>1, <2>1, <2>4, <1>4
    <3>2. CASE ~(1 > Len(kq))
      <4>1. 1 \in 1..Len(kq)
        BY <3>2, <2>5
      <4>2. kq[1] \in S[q] /\ kq[1] \in Nat
        BY <4>1, <2>5
      <4>3. m <= kq[1]
        BY <4>2, <2>1, <1>3, <1>4
      <4> QED
        BY <4>2, <4>3, <3>2, <2>1, <2>4, <1>4
    <3> QED
      BY <3>1, <3>2
  <2>7. 2 * m - 1 \in Nat /\ 2 * m \in Nat /\ 2 * m - 1 <= 2 * m
    BY <2>1, <1>4
  <2> QED
    BY <2>1, <2>2, <2>6, <2>7
<1>7. CASE ~(i > Len(ks))
  <2>1. /\ Follow(ns, w) = <<p, i + 1>> /\ Position(ns, S, w) = 2 * ks[i]
        /\ i \in 1..Len(ks) /\ Len(ks) # 0 /\ Len(ks) \in 1..Len(ks)
    BY <1>1, <1>2, <1>5, <1>7
  <2>2. ks[i] \in S[p] /\ ks[i] \in Nat /\ ks[Len(ks)] \in S[p] /\ ks[Len(ks)] \in Nat
    BY <2>1, <1>2
  <2>3. ks[i] <= ks[Len(ks)]
    <3>1. i = Len(ks) \/ i < Len(ks)
      BY <2>1, <1>2
    <3>2. i < Len(ks) => ks[i] < ks[Len(ks)]
      <4> DEFINE j == Len(ks)
      <4>1. i \in 1..j /\ j \in 1..j /\ \A a, b \in 1..j : a < b => ks[a] < ks[b]
        BY <2>1, <1>2 DEF Sorted
      <4> HIDE DEF j
      <4>2. i < j => ks[i] < ks[j]
        BY <4>1
      <4> QED
        BY <4>2 DEF j
    <3> QED
      BY <3>1, <3>2, <2>2
  <2>4. Bound(ns, S, p) \in Nat /\ 2 * ks[i] <= Bound(ns, S, p)
    <3>1. CASE q # 0
      BY <3>1, <2>2, <1>4, <1>5
    <3>2. CASE q = 0
      <4> DEFINE x == ks[i]
                 y == ks[Len(ks)]
      <4>1. x \in Nat /\ y \in Nat /\ x <= y
        BY <2>2, <2>3
      <4>2. Bound(ns, S, p) = 2 * y
        BY <3>2, <2>1, <1>5
      <4> HIDE DEF x, y
      <4>3. 2 * x <= 2 * y /\ 2 * y \in Nat
        BY <4>1
      <4> QED
        BY <4>2, <4>3 DEF x
    <3> QED
      BY <3>1, <3>2
  <2> DEFINE v == <<p, i + 1>>
  <2>5. v \in Places(ns)
    BY <1>1 DEF Places
  <2>6. v[1] = p /\ v[2] = i + 1
    OBVIOUS
  <2>7. Position(ns, S, v) = IF i + 1 > Len(ks) THEN 2 * m - 1 ELSE 2 * ks[i + 1]
    BY <2>6 DEF Position, AtEnd, m
  <2>8. ASSUME ~AtLast(ns, v) PROVE 2 * ks[i] < Position(ns, S, v)
    <3>1. CASE i + 1 > Len(ks)
      <4>1. q # 0
        BY <2>6, <2>8, <3>1 DEF AtLast, AtEnd
      <4> QED
        BY <4>1, <3>1, <2>2, <2>7, <1>4
    <3>2. CASE ~(i + 1 > Len(ks))
      <4>1. i + 1 \in 1..Len(ks) /\ i < i + 1
        BY <3>2, <2>1, <1>2
      <4>2. ks[i] < ks[i + 1] /\ ks[i + 1] \in Nat
        BY <4>1, <2>1, <1>2 DEF Sorted
      <4> DEFINE x == ks[i]
                 y == ks[i + 1]
                 z == Position(ns, S, v)
      <4>3. z = 2 * y
        BY <3>2, <2>7
      <4>4. x \in Nat /\ y \in Nat /\ x < y
        BY <4>2, <2>2
      <4> HIDE DEF x, y, z
      <4>5. 2 * x < z
        BY <4>3, <4>4
      <4> QED
        BY <4>5 DEF x, z
    <3> QED
      BY <3>1, <3>2
  <2>9. 2 * ks[i] \in Nat
    BY <2>2
  <2> QED
    BY <2>1, <2>4, <2>5, <2>8, <2>9
<1> QED
  BY <1>6, <1>7

WalkCode(ns, from, to, g) ==
  [w \in Places(ns) |->
     IF AtEnd(ns, w)
     THEN IF ns[w[1]].next = 0 THEN <<>> ELSE g[<<ns[w[1]].next, 1>>]
     ELSE IF ns[w[1]].keys[w[2]] >= to THEN <<>>
     ELSE IF ns[w[1]].keys[w[2]] >= from /\ ~ns[w[1]].tombs[w[2]]
     THEN <<ns[w[1]].refs[w[2]]>> \o g[<<w[1], w[2] + 1>>]
     ELSE g[<<w[1], w[2] + 1>>]]

\* The walk is over, or returns the entry it is at.
Ends(ns, to, w) ==
  \/ AtLast(ns, w)
  \/ ~AtEnd(ns, w) /\ ns[w[1]].keys[w[2]] >= to

Takes(ns, from, w) ==
  ~AtEnd(ns, w) /\ ns[w[1]].keys[w[2]] >= from /\ ~ns[w[1]].tombs[w[2]]

\* M is at most b, and decreases along a walk.
Measure(ns, M, b) ==
  /\ M \in [Places(ns) -> Nat] /\ b \in Nat
  /\ \A w \in Places(ns) : M[w] <= b
  /\ \A w \in Places(ns) : ~AtLast(ns, w) =>
       Follow(ns, w) \in Places(ns) /\ M[Follow(ns, w)] < M[w]

LEMMA WalkExists ==
  ASSUME NEW S, NEW L, Tree(nodes, root, NoCall, S, L), NEW n \in Nat,
         DOMAIN nodes \subseteq 1..n, root # 0, NEW from, NEW to
  PROVE  \E M, b, g : /\ Measure(nodes, M, b)
                      /\ g = WalkCode(nodes, from, to, g)
                      /\ RangeScan(from, to) = g[<<LeafFor(from), 1>>]
<1> DEFINE D == Places(nodes)
           f == [p \in 1..n |-> IF p \in Leaves(nodes) /\ Bound(nodes, S, p) \in Nat
                                THEN Bound(nodes, S, p) ELSE 0]
<1>1. PICK b \in Nat : \A p \in 1..n : f[p] <= b
  BY Bounded
<1> DEFINE M == [w \in D |-> IF AtLast(nodes, w) THEN 0
                             ELSE 1 + (b - Position(nodes, S, w))]
<1>2. ASSUME NEW w \in D, ~AtLast(nodes, w)
      PROVE  /\ Follow(nodes, w) \in D
             /\ Position(nodes, S, w) \in Nat /\ Position(nodes, S, w) <= b
             /\ ~AtLast(nodes, Follow(nodes, w)) =>
                  Position(nodes, S, w) < Position(nodes, S, Follow(nodes, w))
  <2>1. /\ Follow(nodes, w) \in D
        /\ Position(nodes, S, w) \in Nat /\ Bound(nodes, S, w[1]) \in Nat
        /\ Position(nodes, S, w) <= Bound(nodes, S, w[1])
        /\ ~AtLast(nodes, Follow(nodes, w)) =>
             Position(nodes, S, w) < Position(nodes, S, Follow(nodes, w))
    BY <1>2, FollowFacts
  <2>2. w[1] \in Leaves(nodes) /\ w[1] \in 1..n
    BY DEF Places, Leaves
  <2>3. f[w[1]] = Bound(nodes, S, w[1])
    BY <2>1, <2>2
  <2>4. Bound(nodes, S, w[1]) <= b
    BY <2>2, <2>3, <1>1
  <2> QED
    BY <2>1, <2>4
<1> HIDE DEF D, f
<1>3. M \in [D -> Nat] /\ \A w \in D : M[w] <= b + 1
  BY <1>2
<1>4. \A w \in D : ~AtLast(nodes, w) => Follow(nodes, w) \in D /\ M[Follow(nodes, w)] < M[w]
  <2>1. ASSUME NEW w \in D, ~AtLast(nodes, w)
        PROVE  Follow(nodes, w) \in D /\ M[Follow(nodes, w)] < M[w]
    <3> DEFINE v == Follow(nodes, w)
    <3>1. v \in D /\ M[w] = 1 + (b - Position(nodes, S, w))
      BY <2>1, <1>2
    <3>2. CASE AtLast(nodes, v)
      <4>1. M[v] = 0
        BY <3>1, <3>2
      <4> QED
        BY <4>1, <3>1, <2>1, <1>2
    <3>3. CASE ~AtLast(nodes, v)
      <4>1. M[v] = 1 + (b - Position(nodes, S, v)) /\ Position(nodes, S, v) \in Nat
        BY <3>1, <3>3, <1>2
      <4> QED
        BY <4>1, <3>1, <3>3, <2>1, <1>2
    <3> QED
      BY <3>2, <3>3
  <2> QED
    BY <2>1
<1> HIDE DEF M
<1> DEFINE B == {w \in D : Ends(nodes, to, w)}
           C == {w \in D : ~Takes(nodes, from, w)}
           h == [w \in D |-> <<nodes[w[1]].refs[w[2]]>>]
           nx == [w \in D |-> Follow(nodes, w)]
<1>5. \A g : WalkCode(nodes, from, to, g) = Recursion(D, B, C, h, nx, g)
  <2> SUFFICES ASSUME NEW g PROVE WalkCode(nodes, from, to, g) = Recursion(D, B, C, h, nx, g)
    OBVIOUS
  <2> DEFINE l(w) == WalkCode(nodes, from, to, g)[w]
             e(w) == Recursion(D, B, C, h, nx, g)[w]
  <2>1. ASSUME NEW w \in D PROVE l(w) = e(w)
    <3>1. nx[w] = Follow(nodes, w) /\ h[w] = <<nodes[w[1]].refs[w[2]]>>
          /\ (w \in B <=> Ends(nodes, to, w)) /\ (w \in C <=> ~Takes(nodes, from, w))
      OBVIOUS
    <3>2. e(w) = IF Ends(nodes, to, w) THEN <<>>
                 ELSE IF ~Takes(nodes, from, w) THEN g[Follow(nodes, w)]
                 ELSE <<nodes[w[1]].refs[w[2]]>> \o g[Follow(nodes, w)]
      BY <3>1, Zenon DEF Recursion
    <3>3. l(w) = IF AtEnd(nodes, w)
                 THEN IF nodes[w[1]].next = 0 THEN <<>> ELSE g[<<nodes[w[1]].next, 1>>]
                 ELSE IF nodes[w[1]].keys[w[2]] >= to THEN <<>>
                 ELSE IF nodes[w[1]].keys[w[2]] >= from /\ ~nodes[w[1]].tombs[w[2]]
                 THEN <<nodes[w[1]].refs[w[2]]>> \o g[<<w[1], w[2] + 1>>]
                 ELSE g[<<w[1], w[2] + 1>>]
      BY Zenon DEF WalkCode, D
    <3> DEFINE turn == g[<<nodes[w[1]].next, 1>>]
               step == g[<<w[1], w[2] + 1>>]
               take == <<nodes[w[1]].refs[w[2]]>> \o step
    <3>4. CASE AtEnd(nodes, w)
      <4>1. /\ g[Follow(nodes, w)] = turn /\ ~Takes(nodes, from, w)
            /\ Ends(nodes, to, w) <=> nodes[w[1]].next = 0
        BY <3>4, Zenon DEF Ends, Takes, AtLast, Follow
      <4>2. l(w) = IF nodes[w[1]].next = 0 THEN <<>> ELSE turn
        BY <3>3, <3>4, Zenon
      <4> HIDE DEF l, e, turn
      <4> QED
        BY <3>2, <4>1, <4>2, Zenon
    <3>5. CASE ~AtEnd(nodes, w)
      <4>1. /\ g[Follow(nodes, w)] = step
            /\ Ends(nodes, to, w) <=> nodes[w[1]].keys[w[2]] >= to
            /\ Takes(nodes, from, w) <=>
                 nodes[w[1]].keys[w[2]] >= from /\ ~nodes[w[1]].tombs[w[2]]
        BY <3>5, Zenon DEF Ends, Takes, AtLast, Follow
      <4>2. l(w) = IF Ends(nodes, to, w) THEN <<>>
                   ELSE IF Takes(nodes, from, w) THEN take ELSE step
        BY <3>3, <3>5, <4>1, Zenon
      <4>3. e(w) = IF Ends(nodes, to, w) THEN <<>>
                   ELSE IF ~Takes(nodes, from, w) THEN step ELSE take
        BY <3>2, <4>1, Zenon
      <4> HIDE DEF l, e, step, take
      <4> QED
        BY <4>2, <4>3
    <3> QED
      BY <3>4, <3>5
  <2>2. DOMAIN WalkCode(nodes, from, to, g) = D /\ DOMAIN Recursion(D, B, C, h, nx, g) = D
    BY Zenon DEF WalkCode, Recursion, D
  <2>3. WalkCode(nodes, from, to, g) = [w \in D |-> l(w)]
    BY Zenon DEF WalkCode, D
  <2>4. Recursion(D, B, C, h, nx, g) = [w \in D |-> e(w)]
    BY Zenon DEF Recursion
  <2> HIDE DEF l, e
  <2> QED
    BY <2>1, <2>3, <2>4, Zenon
<1>6. \E g : g = Recursion(D, B, C, h, nx, g)
  <2>1. \A w \in D \ B : nx[w] \in D /\ M[nx[w]] < M[w]
    BY <1>4 DEF Ends
  <2>2. b + 1 \in Nat
    OBVIOUS
  <2> HIDE DEF B, C, h, nx
  <2> QED
    BY <2>1, <2>2, <1>3, RecursionExists
<1>7. PICK g : g = WalkCode(nodes, from, to, g) /\ RangeScan(from, to) = g[<<LeafFor(from), 1>>]
  <2>1. \E g : g = WalkCode(nodes, from, to, g)
    BY <1>5, <1>6, Zenon
  <2>2. RangeScan(from, to) = (CHOOSE g : g = WalkCode(nodes, from, to, g))[<<LeafFor(from), 1>>]
    BY Zenon DEF RangeScan, WalkCode, Places, Leaves, AtEnd
  <2> QED
    BY <2>1, <2>2, Zenon
<1>8. b + 1 \in Nat
  OBVIOUS
<1>9. Measure(nodes, M, b + 1)
  BY <1>3, <1>4, <1>8 DEF D, Measure
<1> QED
  BY <1>7, <1>9

\* The live keys a walk at w has still to return.
Todo(ns, S, T, w) ==
  {k \in T : \/ k \in Above(S[w[1]])
             \/ \E j \in 1..Len(ns[w[1]].keys) : w[2] <= j /\ ns[w[1]].keys[j] = k}

\* Entry j of a leaf is what content says of its key.
EntryOK(n, j) ==
  /\ n.keys[j] \in Keys
  /\ content[n.keys[j]] # Absent <=> ~n.tombs[j]
  /\ ~n.tombs[j] => content[n.keys[j]] = n.refs[j]

\* The live keys of a leaf's span are entries of the leaf, with their references.
LEMMA LiveEntries ==
  ASSUME NEW ns, NEW r, NEW S, NEW L, Tree(ns, r, NoCall, S, L),
         Holds(ns, S, content), content \in [Keys -> Refs \cup {Absent}],
         NEW p \in Leaves(ns)
  PROVE  /\ \A k \in S[p] : content[k] # Absent =>
              \E j \in 1..Len(ns[p].keys) : ns[p].keys[j] = k
         /\ \A j \in 1..Len(ns[p].keys) : EntryOK(ns[p], j)
<1> DEFINE n == ns[p]
<1>1. /\ LeafOK(n, S[p]) /\ Sorted(n.keys) /\ Len(n.keys) \in Nat
      /\ S[p] \subseteq Keys
      /\ \A j \in 1..Len(n.keys) : n.keys[j] \in S[p] /\ n.keys[j] \in Nat
  BY LeafFacts
<1>2. \A k \in S[p] : Answers(n, k, content[k])
  BY DEF Holds, Leaves, IsLeaf
<1>3. /\ n.refs \in Seq(Refs) /\ Len(n.refs) = Len(n.keys)
      /\ Absent \notin Refs
  BY <1>1, BTreeAssumption DEF LeafOK, LeafNodes
<1>4. \A j \in 1..Len(n.keys) : n.refs[j] \in Refs /\ n.refs[j] # Absent
  BY <1>1, <1>3
<1> HIDE DEF n
<1>5. ASSUME NEW k \in S[p], content[k] # Absent
      PROVE  \E j \in 1..Len(n.keys) : n.keys[j] = k
  BY <1>2, <1>5, Zenon DEF Answers
<1>6. ASSUME NEW j \in 1..Len(n.keys)
      PROVE  EntryOK(n, j)
  <2>1. n.keys[j] \in S[p] /\ n.keys[j] \in Keys
    BY <1>1
  <2>2. \A i \in 1..Len(n.keys) : n.keys[i] = n.keys[j] => i = j
    <3>1. ASSUME NEW i \in 1..Len(n.keys), n.keys[i] = n.keys[j], i # j PROVE FALSE
      BY <3>1, <1>1 DEF Sorted
    <3> QED
      BY <3>1
  <2>3. Answers(n, n.keys[j], content[n.keys[j]])
    BY <2>1, <1>2
  <2>4. CASE n.tombs[j]
    <3>1. content[n.keys[j]] = Absent
      BY <2>2, <2>3, <2>4, Zenon DEF Answers
    <3> QED
      BY <3>1, <2>1, <2>4, Zenon DEF EntryOK
  <2>5. CASE ~n.tombs[j]
    <3>1. content[n.keys[j]] = n.refs[j]
      BY <2>2, <2>3, <2>5, Zenon DEF Answers
    <3>2. n.refs[j] # Absent
      BY <1>4
    <3> QED
      BY <3>1, <3>2, <2>1, <2>5, Zenon DEF EntryOK
  <2> QED
    BY <2>4, <2>5, Zenon
<1> QED
  BY <1>5, <1>6, Zenon DEF n

\* What is left of the walk after one step.
TodoOK(ns, S, T, from, to, w) ==
  /\ Ends(ns, to, w) => Todo(ns, S, T, w) = {}
  /\ ~Ends(ns, to, w) /\ ~Takes(ns, from, w) =>
       Todo(ns, S, T, Follow(ns, w)) = Todo(ns, S, T, w)
  /\ ~Ends(ns, to, w) /\ Takes(ns, from, w) =>
       LET x == ns[w[1]].keys[w[2]]
       IN /\ x \in T /\ x \in Nat /\ content[x] = ns[w[1]].refs[w[2]]
          /\ Todo(ns, S, T, w) = Todo(ns, S, T, Follow(ns, w)) \cup {x}
          /\ \A y \in Todo(ns, S, T, Follow(ns, w)) : x < y

LEMMA TodoFacts ==
  ASSUME NEW ns, NEW r, NEW S, NEW L, Tree(ns, r, NoCall, S, L),
         Holds(ns, S, content), content \in [Keys -> Refs \cup {Absent}],
         NEW from \in Nat, NEW to \in Nat, NEW w \in Places(ns),
         NEW T, T = {k \in Live(to) : from <= k}
  PROVE  TodoOK(ns, S, T, from, to, w)
<1> SUFFICES /\ Ends(ns, to, w) => Todo(ns, S, T, w) = {}
             /\ ~Ends(ns, to, w) /\ ~Takes(ns, from, w) =>
                  Todo(ns, S, T, Follow(ns, w)) = Todo(ns, S, T, w)
             /\ ~Ends(ns, to, w) /\ Takes(ns, from, w) =>
                  LET x == ns[w[1]].keys[w[2]]
                  IN /\ x \in T /\ x \in Nat /\ content[x] = ns[w[1]].refs[w[2]]
                     /\ Todo(ns, S, T, w) = Todo(ns, S, T, Follow(ns, w)) \cup {x}
                     /\ \A y \in Todo(ns, S, T, Follow(ns, w)) : x < y
  BY DEF TodoOK
<1> DEFINE p == w[1]
           i == w[2]
           n == ns[p]
           ks == n.keys
           q == n.next
<1>1. p \in Leaves(ns) /\ i \in Nat \ {0} /\ w = <<p, i>>
  BY DEF Places
<1>2. /\ Sorted(ks) /\ Len(ks) \in Nat
      /\ \A j \in 1..Len(ks) : ks[j] \in S[p] /\ ks[j] \in Nat
      /\ S[p] \subseteq Nat /\ S[p] # {}
      /\ Above(S[p]) \subseteq Nat
      /\ \A x \in S[p], y \in Above(S[p]) : x < y
  BY <1>1, LeafFacts
<1>3. /\ q = 0 => Above(S[p]) = {}
      /\ q # 0 => /\ q \in Leaves(ns)
                  /\ Above(S[p]) = S[q] \cup Above(S[q])
  BY <1>1, NextFacts
<1>4. \A j \in 1..Len(ks) : EntryOK(n, j)
  BY <1>1, LiveEntries
<1>5. T \subseteq Nat /\ \A k \in T : from <= k /\ k < to /\ content[k] # Absent
  BY KeysNat DEF Live
<1>6. \A k : k \in Todo(ns, S, T, w) <=>
         k \in T /\ (k \in Above(S[p]) \/ \E j \in 1..Len(ks) : i <= j /\ ks[j] = k)
  BY Zenon DEF Todo
<1>7. /\ AtEnd(ns, w) <=> i > Len(ks)
      /\ Follow(ns, w) = IF AtEnd(ns, w) THEN <<q, 1>> ELSE <<p, i + 1>>
      /\ Ends(ns, to, w) <=> (AtEnd(ns, w) /\ q = 0) \/ (~AtEnd(ns, w) /\ ks[i] >= to)
      /\ Takes(ns, from, w) <=> ~AtEnd(ns, w) /\ ks[i] >= from /\ ~n.tombs[i]
  BY Zenon DEF AtEnd, Follow, Ends, AtLast, Takes
<1> HIDE DEF p, i, n, q
<1>8. CASE i > Len(ks)
  <2>1. \A k : k \in Todo(ns, S, T, w) <=> k \in T /\ k \in Above(S[p])
    BY <1>1, <1>2, <1>6, <1>8
  <2>2. CASE q = 0
    <3>1. Todo(ns, S, T, w) = {}
      BY <2>1, <2>2, <1>3
    <3> QED
      BY <3>1, <2>2, <1>7, <1>8
  <2>3. CASE q # 0
    <3> DEFINE v == <<q, 1>>
               kq == ns[q].keys
    <3>1. \A k : k \in Todo(ns, S, T, v) <=>
            k \in T /\ (k \in Above(S[q]) \/ \E j \in 1..Len(kq) : 1 <= j /\ kq[j] = k)
      BY DEF Todo
    <3>2. /\ \A k \in S[q] : content[k] # Absent => \E j \in 1..Len(kq) : kq[j] = k
      BY <2>3, <1>3, LiveEntries
    <3>3. Len(kq) \in Nat /\ \A j \in 1..Len(kq) : kq[j] \in S[q]
      BY <2>3, <1>3, LeafFacts
    <3>4. \A k : k \in Todo(ns, S, T, v) <=> k \in Todo(ns, S, T, w)
      <4>1. ASSUME NEW k \in T PROVE k \in S[q] <=> \E j \in 1..Len(kq) : 1 <= j /\ kq[j] = k
        BY <3>2, <3>3, <1>5
      <4> QED
        BY <4>1, <3>1, <2>1, <2>3, <1>3
    <3>5. Todo(ns, S, T, v) = Todo(ns, S, T, w)
      BY <3>4
    <3> QED
      BY <3>5, <2>3, <1>7, <1>8
  <2> QED
    BY <2>2, <2>3
<1>9. CASE ~(i > Len(ks))
  <2> DEFINE x == ks[i]
             v == <<p, i + 1>>
  <2>1. i \in 1..Len(ks) /\ x \in S[p] /\ x \in Nat /\ i \in Nat
    BY <1>1, <1>2, <1>9
  <2>2. \A k : k \in Todo(ns, S, T, v) <=>
          k \in T /\ (k \in Above(S[p]) \/ \E j \in 1..Len(ks) : i + 1 <= j /\ ks[j] = k)
    BY DEF Todo, n
  <2>3. \A j \in 1..Len(ks) : i <= j <=> (j = i \/ i + 1 <= j)
    BY <2>1
  <2>4. \A j \in 1..Len(ks) : i + 1 <= j => x < ks[j]
    BY <2>1 , <1>2 DEF Sorted
  <2>5. \A y \in Todo(ns, S, T, v) : x < y
    BY <2>1, <2>2, <2>4, <1>2, SMTT(30)
  <2>6. \A k : k \in Todo(ns, S, T, w) <=> k \in Todo(ns, S, T, v) \/ (k = x /\ x \in T)
    BY <2>1, <2>2, <2>3, <1>6
  <2>7. x \in Keys /\ (content[x] # Absent <=> ~n.tombs[i]) /\ (~n.tombs[i] => content[x] = n.refs[i])
    BY <2>1, <1>4, Zenon DEF EntryOK
  <2>8. x \in T <=> x < to /\ from <= x /\ content[x] # Absent
    BY <2>7 DEF Live
  <2>9. Follow(ns, w) = v /\ (Ends(ns, to, w) <=> x >= to)
        /\ (Takes(ns, from, w) <=> x >= from /\ ~n.tombs[i])
    BY <1>7, <1>9, Zenon
  <2> HIDE DEF x, v
  <2>10. CASE x >= to
    <3>1. \A y : y \notin Todo(ns, S, T, w)
      <4>1. x \notin T
        BY <2>1, <2>8, <2>10
      <4>2. ASSUME NEW y \in Todo(ns, S, T, v) PROVE FALSE
        <5>1. x < y /\ y \in T
          BY <2>2, <2>5
        <5> QED
          BY <5>1, <2>1, <2>10, <1>5
      <4> QED
        BY <4>1, <4>2, <2>6
    <3>2. Todo(ns, S, T, w) = {}
      BY <3>1
    <3> QED
      BY <3>2, <2>9, <2>10
  <2>11. CASE ~(x >= to) /\ ~Takes(ns, from, w)
    <3>1. x \notin T
      BY <2>1, <2>7, <2>8, <2>9, <2>11
    <3>2. Todo(ns, S, T, w) = Todo(ns, S, T, v)
      BY <3>1, <2>6
    <3> QED
      BY <3>2, <2>9, <2>11
  <2>12. CASE ~(x >= to) /\ Takes(ns, from, w)
    <3>1. ~n.tombs[i] /\ x >= from
      BY <2>9, <2>12, Zenon
    <3>2. content[x] # Absent /\ content[x] = n.refs[i]
      BY <3>1, <2>7, Zenon
    <3>3. x \in T
      BY <2>1, <2>8, <2>12, <3>1, <3>2
    <3>4. Todo(ns, S, T, w) = Todo(ns, S, T, v) \cup {x}
      BY <3>3, <2>6
    <3>5. ~Ends(ns, to, w) /\ x = ns[w[1]].keys[w[2]] /\ n.refs[i] = ns[w[1]].refs[w[2]]
      BY <2>9, <2>12, Zenon DEF x, n, p, i
    <3> QED
      BY <3>2, <3>3, <3>4, <3>5, <2>1, <2>5, <2>9, <2>12, Zenon
  <2> QED
    BY <2>10, <2>11, <2>12
<1> QED
  BY <1>8, <1>9

\* A walk returns the listing of what it has still to return.
LEMMA WalkFacts ==
  ASSUME NEW ns, NEW r, NEW S, NEW L, Tree(ns, r, NoCall, S, L),
         Holds(ns, S, content), content \in [Keys -> Refs \cup {Absent}],
         NEW from \in Nat, NEW to \in Nat,
         NEW M, NEW b, Measure(ns, M, b),
         NEW g, g = WalkCode(ns, from, to, g),
         NEW up, up = ListingCode(to, up),
         NEW T, T = {k \in Live(to) : from <= k},
         NEW w \in Places(ns), NEW k \in Nat, from <= k,
         Todo(ns, S, T, w) = {x \in T : k <= x}
  PROVE  g[w] = up[k]
<1> DEFINE D == Places(ns)
           Rest(a) == {x \in T : a <= x}
           Good(v) == \A a \in Nat : from <= a /\ Todo(ns, S, T, v) = Rest(a) => g[v] = up[a]
           P == {n \in Nat : \A v \in D : M[v] <= n => Good(v)}
<1>1. ASSUME NEW v \in D
      PROVE  /\ Ends(ns, to, v) => g[v] = <<>>
             /\ ~Ends(ns, to, v) /\ ~Takes(ns, from, v) => g[v] = g[Follow(ns, v)]
             /\ ~Ends(ns, to, v) /\ Takes(ns, from, v) =>
                  g[v] = <<ns[v[1]].refs[v[2]]>> \o g[Follow(ns, v)]
  <2> DEFINE turn == g[<<ns[v[1]].next, 1>>]
             step == g[<<v[1], v[2] + 1>>]
             take == <<ns[v[1]].refs[v[2]]>> \o step
  <2>1. g[v] = IF AtEnd(ns, v) THEN IF ns[v[1]].next = 0 THEN <<>> ELSE turn
               ELSE IF ns[v[1]].keys[v[2]] >= to THEN <<>>
               ELSE IF ns[v[1]].keys[v[2]] >= from /\ ~ns[v[1]].tombs[v[2]]
               THEN take ELSE step
    BY Zenon DEF WalkCode
  <2>2. CASE AtEnd(ns, v)
    <3>1. /\ g[Follow(ns, v)] = turn /\ ~Takes(ns, from, v)
          /\ Ends(ns, to, v) <=> ns[v[1]].next = 0
      BY <2>2, Zenon DEF Ends, Takes, AtLast, Follow
    <3>2. g[v] = IF ns[v[1]].next = 0 THEN <<>> ELSE turn
      BY <2>1, <2>2, Zenon
    <3> QED
      BY <3>1, <3>2, Zenon
  <2>3. CASE ~AtEnd(ns, v)
    <3>1. /\ g[Follow(ns, v)] = step
          /\ Ends(ns, to, v) <=> ns[v[1]].keys[v[2]] >= to
          /\ Takes(ns, from, v) <=> ns[v[1]].keys[v[2]] >= from /\ ~ns[v[1]].tombs[v[2]]
      BY <2>3, Zenon DEF Ends, Takes, AtLast, Follow
    <3>2. g[v] = IF Ends(ns, to, v) THEN <<>>
                 ELSE IF Takes(ns, from, v) THEN take ELSE step
      BY <2>1, <2>3, <3>1, Zenon
    <3> QED
      BY <3>1, <3>2, Zenon
  <2> QED
    BY <2>2, <2>3
<1>2. /\ M \in [D -> Nat] /\ b \in Nat /\ \A v \in D : M[v] <= b
      /\ \A v \in D : ~AtLast(ns, v) => Follow(ns, v) \in D /\ M[Follow(ns, v)] < M[v]
  BY DEF Measure
<1>3. \A v \in D : TodoOK(ns, S, T, from, to, v)
  BY TodoFacts
<1>4. T \subseteq Nat /\ T \subseteq Live(to) /\ Live(to) \subseteq Nat
  BY KeysNat DEF Live
<1>5. ASSUME NEW n \in Nat, NEW v \in D, M[v] <= n,
             \A u \in D : M[u] < n => Good(u)
      PROVE  Good(v)
  <2> SUFFICES ASSUME NEW a \in Nat, from <= a, Todo(ns, S, T, v) = Rest(a)
               PROVE  g[v] = up[a]
    OBVIOUS
  <2> DEFINE u == Follow(ns, v)
             x == ns[v[1]].keys[v[2]]
  <2>1. ~Ends(ns, to, v) => u \in D /\ Good(u)
    <3>1. ~Ends(ns, to, v) => u \in D /\ M[u] < M[v] /\ M[u] \in Nat /\ M[v] \in Nat
      <4> HIDE DEF D
      <4> QED
        BY <1>2 DEF Ends
    <3> HIDE DEF u, D, Good
    <3> QED
      BY <3>1, <1>5
  <2>2. CASE Ends(ns, to, v)
    <3>1. Rest(a) = {}
      BY <2>2, <1>3, Zenon DEF TodoOK
    <3>2. \A y \in Live(to) : y < a
      BY <3>1, <1>4
    <3>3. up[a] = <<>>
      BY <3>2, ListingFacts
    <3> QED
      BY <3>3, <2>2, <1>1
  <2>3. CASE ~Ends(ns, to, v) /\ ~Takes(ns, from, v)
    <3>1. Todo(ns, S, T, u) = Rest(a)
      BY <2>3, <1>3, Zenon DEF TodoOK
    <3>2. g[u] = up[a]
      BY <3>1, <2>1, <2>3
    <3> QED
      BY <3>2, <2>3, <1>1, Zenon
  <2>4. CASE ~Ends(ns, to, v) /\ Takes(ns, from, v)
    <3>1. /\ x \in T /\ x \in Nat /\ content[x] = ns[v[1]].refs[v[2]]
          /\ Rest(a) = Todo(ns, S, T, u) \cup {x}
          /\ \A y \in Todo(ns, S, T, u) : x < y
      BY <2>4, <1>3, Zenon DEF TodoOK
    <3> HIDE DEF x, u
    <3> DEFINE R == Todo(ns, S, T, u)
    <3>2. a <= x
      BY <3>1
    <3>3. R = Rest(x + 1)
      <4>1. ASSUME NEW y \in R PROVE y \in Rest(x + 1)
        <5>1. y \in Rest(a) /\ x < y
          BY <3>1
        <5> QED
          BY <5>1, <3>1, <1>4
      <4>2. ASSUME NEW y \in Rest(x + 1) PROVE y \in R
        <5>1. y \in T /\ y \in Nat /\ x + 1 <= y
          BY <1>4
        <5>2. y \in Rest(a) /\ y # x
          BY <5>1, <3>1, <3>2
        <5> HIDE DEF Rest, R
        <5> QED
          BY <5>2, <3>1 DEF R
      <4> QED
        BY <4>1, <4>2
    <3>4. from <= x + 1 /\ x + 1 \in Nat
      BY <3>1, <3>2
    <3>5. g[u] = up[x + 1]
      BY <3>3, <3>4, <2>1, <2>4
    <3>6. \A y \in Live(to) : y < a \/ x <= y
      <4>1. ASSUME NEW y \in Live(to), ~(y < a) PROVE x <= y
        <5>1. y \in Nat /\ a <= y /\ from <= y
          BY <4>1, <1>4
        <5>2. y \in Rest(a)
          BY <5>1
        <5>3. y \in Todo(ns, S, T, u) \/ y = x
          BY <5>2, <3>1, Zenon
        <5> QED
          BY <5>1, <5>3, <3>1
      <4> QED
        BY <4>1
    <3>7. x \in Live(to)
      BY <3>1, <1>4
    <3>8. up[a] = Before(content[x], up[x + 1])
      BY <3>2, <3>6, <3>7, ListingFacts DEF Starts
    <3>9. g[v] = <<ns[v[1]].refs[v[2]]>> \o g[u]
      BY <2>4, <1>1, Zenon DEF u
    <3> QED
      BY <3>1, <3>5, <3>8, <3>9, Zenon DEF Before
  <2> QED
    BY <2>2, <2>3, <2>4
<1> HIDE DEF Good, D
<1>6. 0 \in P
  <2>1. \A u \in D : ~(M[u] < 0)
    BY <1>2
  <2> QED
    BY <2>1, <1>5, <1>2
<1>7. ASSUME NEW n \in Nat, n \in P PROVE n + 1 \in P
  <2>1. \A u \in D : M[u] < n + 1 => M[u] <= n
    BY <1>2
  <2>2. n + 1 \in Nat /\ \A u \in D : M[u] < n + 1 => Good(u)
    BY <2>1, <1>7
  <2> QED
    BY <2>2, <1>5
<1>8. b \in P
  <2> HIDE DEF P
  <2> QED
    BY <1>6, <1>7, <1>2, Induction
<1>9. Good(w)
  BY <1>8, <1>2 DEF D
<1> QED
  BY <1>9 DEF Good

LEMMA RangeOfTree ==
  ASSUME NEW S, NEW L, root # 0, Tree(nodes, root, NoCall, S, L),
         Holds(nodes, S, content), content \in [Keys -> Refs \cup {Absent}],
         NEW n \in Nat, DOMAIN nodes \subseteq 1..n,
         NEW from \in Keys, NEW to \in Nat
  PROVE  RangeScan(from, to) = Listing(from, to)
<1> DEFINE p == LeafFor(from)
           w == <<p, 1>>
           T == {k \in Live(to) : from <= k}
<1>1. from \in Nat /\ Live(to) \subseteq Nat /\ Live(to) \subseteq Keys
  BY KeysNat DEF Live
<1>2. p \in DOMAIN nodes /\ IsLeaf(nodes[p]) /\ from \in S[p] /\ p \in Leaves(nodes)
  BY LeafForFacts DEF Leaves, IsLeaf
<1> HIDE DEF p
<1>3. w \in Places(nodes)
  BY <1>2 DEF Places
<1>4. Todo(nodes, S, T, w) = {x \in T : from <= x}
  <2>1. /\ Len(nodes[p].keys) \in Nat /\ S[p] \subseteq Nat
    BY <1>2, LeafFacts
  <2>2. \A k \in S[p] : content[k] # Absent => \E j \in 1..Len(nodes[p].keys) : nodes[p].keys[j] = k
    BY <1>2, LiveEntries
  <2>3. Convex(S[p])
    BY <1>2 DEF Tree, Spans
  <2>4. w[1] = p /\ w[2] = 1
    OBVIOUS
  <2>5. ASSUME NEW k \in T PROVE k \in Todo(nodes, S, T, w)
    <3>1. k \in Keys /\ k \in Nat /\ content[k] # Absent /\ from <= k
      BY <1>1 DEF Live
    <3>2. CASE k \in S[p]
      <4>1. PICK j \in 1..Len(nodes[p].keys) : nodes[p].keys[j] = k
        BY <2>2, <3>1, <3>2
      <4>2. 1 <= j
        BY <2>1
      <4> QED
        BY <4>1, <4>2, <2>4 DEF Todo
    <3>3. CASE k \notin S[p]
      <4>1. \A j \in S[p] : j < k
        BY <3>1, <3>3, <1>1, <1>2, <2>1, <2>3 DEF Convex
      <4> QED
        BY <4>1, <3>1, <2>4 DEF Todo, Above
    <3> QED
      BY <3>2, <3>3
  <2> QED
    BY <2>5 DEF Todo
<1> HIDE DEF T, w
<1>5. PICK M, b, g : /\ Measure(nodes, M, b)
                     /\ g = WalkCode(nodes, from, to, g)
                     /\ RangeScan(from, to) = g[w]
  BY WalkExists DEF w, p
<1>6. PICK up : up = ListingCode(to, up) /\ Listing(from, to) = up[from]
  BY <1>1, ListingExists
<1>7. from <= from
  BY <1>1
<1>8. T = {k \in Live(to) : from <= k}
  BY DEF T
<1>9. g[w] = up[from]
  BY <1>1, <1>3, <1>4, <1>5, <1>6, <1>7, <1>8, WalkFacts
<1> QED
  BY <1>5, <1>6, <1>9

LEMMA LookupsInv == overran \/ IInv => LookupsCorrect
<1> SUFFICES ASSUME IInv, promote = NoCall PROVE
        /\ \A k \in Keys : Search(k) = content[k]
        /\ \A from \in Keys, to \in {k + 1 : k \in Keys} :
             RangeScan(from, to) = Listing(from, to)
  BY DEF LookupsCorrect, Idle
<1>1. /\ content \in [Keys -> Refs \cup {Absent}]
      /\ Maps(nodes, root, NoCall, content)
      /\ nextPage - 1 \in Nat /\ DOMAIN nodes \subseteq 1..(nextPage - 1)
  BY DEF IInv, Pending
<1>2. \A from \in Keys, to \in {k + 1 : k \in Keys} : from \in Nat /\ to \in Nat
  BY KeysNat
<1>3. CASE root = 0
  <2>1. content = [k \in Keys |-> Absent]
    BY <1>1, <1>3 DEF Maps
  <2>2. ASSUME NEW k \in Keys PROVE Search(k) = content[k]
    BY <2>1, <1>3 DEF Search
  <2>3. ASSUME NEW from \in Keys, NEW to \in {k + 1 : k \in Keys}
        PROVE  RangeScan(from, to) = Listing(from, to)
    <3>1. PICK up : up = ListingCode(to, up) /\ Listing(from, to) = up[from]
      BY <1>2, ListingExists
    <3>2. Live(to) = {}
      BY <2>1 DEF Live
    <3>3. up[from] = <<>>
      BY <3>1, <3>2, <1>2, ListingFacts
    <3>4. RangeScan(from, to) = <<>>
      BY <1>3, Zenon DEF RangeScan
    <3> QED
      BY <3>1, <3>3, <3>4
  <2> QED
    BY <2>2, <2>3
<1>4. CASE root # 0
  <2>1. PICK S, L : Tree(nodes, root, NoCall, S, L) /\ Holds(nodes, S, content)
    BY <1>1, <1>4 DEF Maps
  <2>2. \A k \in Keys : Search(k) = content[k]
    BY <2>1, <1>4, SearchOfTree
  <2>3. ASSUME NEW from \in Keys, NEW to \in {k + 1 : k \in Keys}
        PROVE  RangeScan(from, to) = Listing(from, to)
    BY <2>1, <1>1, <1>2, <1>4, RangeOfTree
  <2> QED
    BY <2>2, <2>3
<1> QED
  BY <1>3, <1>4

(***************************************************************************)
(* LookupsCorrect for any keys, key lengths and page size: between         *)
(* statements search returns the last reference inserted for a key and not *)
(* deleted since, and range the live references of [start, end) in key     *)
(* order, whichever leaves have split and whichever statements were rolled *)
(* back; until a node has outgrown its page.                               *)
(***************************************************************************)
THEOREM LookupsHold == Spec => []LookupsCorrect
BY Invariance, LookupsInv, PTL
=============================================================================
