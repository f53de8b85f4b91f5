------------------------------- MODULE BTree -------------------------------
(***************************************************************************)
(* The B+tree of an index (btree.py): leaves of keys, slot references and  *)
(* tombstones, chained left to right; internal nodes of separators and     *)
(* children; nodes that split when their serialised form no longer fits a  *)
(* page.  A key is a number with a length in bytes, so that the sizes the  *)
(* code computes are the sizes here.                                       *)
(*                                                                         *)
(* insert runs inside a statement: when it raises, the Executor rolls back *)
(* and the tree is again the one the statement started from (stable).      *)
(***************************************************************************)
EXTENDS Naturals, Sequences, SequencesExt, FiniteSets

CONSTANTS
  Keys,        \* index keys, as numbers in their byte order
  KeyLen,      \* the encoded length of each key
  Refs,        \* slot references (page_id, slot_id)
  PageSize,    \* bytes of a page
  MaxPages     \* bound: pages allocated

Absent == "absent"

ASSUME BTreeAssumption ==
  /\ Keys \subseteq Nat
  /\ KeyLen \in [Keys -> Nat]
  /\ PageSize \in Nat /\ MaxPages \in Nat
  /\ Absent \notin Refs

VARIABLES
  nodes,       \* page id -> node
  root,        \* root_page_id, 0 for None
  nextPage,    \* the next page alloc_page returns
  promote,     \* the pending call of _insert_into_parent, or NoCall
  stable,      \* nodes and root when the statement began
  content,     \* ghost: what the statements so far put in the index
  overran      \* ghost: a statement has ended with a node longer than a page

vars == <<nodes, root, nextPage, promote, stable, content, overran>>

NoCall == <<>>

HeaderSize == 10

Leaf(ks, vs, ts, next) ==
  [kind |-> "leaf", keys |-> ks, refs |-> vs, tombs |-> ts, next |-> next]

Internal(ks, cs) == [kind |-> "internal", keys |-> ks, children |-> cs]

\* Bytes up to the end of the last key.
UsedBytes(perKey, ks) ==
  HeaderSize + FoldSeq(LAMBDA k, n : n + perKey + KeyLen[k], 0, ks)

\* LeafNode.serialize raises when an entry ends beyond the page: 1 byte of
\* flags, 2 of length, the key, 8 of slot reference.
LeafFits(ks) == UsedBytes(11, ks) <= PageSize

\* InternalNode.serialize checks each child and key, not the last child.
InternalFits(ks) == UsedBytes(6, ks) <= PageSize

\* With the last child the bytes that serialize returns may be up to 4 more
\* than a page: they go over the start of the next page (write_main_page), and
\* a read of the node misses them.  The nodes below are values that know
\* nothing of it.
Overruns(ns) ==
  \E p \in DOMAIN ns : ns[p].kind = "internal" /\ UsedBytes(6, ns[p].keys) + 4 > PageSize

-----------------------------------------------------------------------------
\* _bisect_left and _bisect_right.
Bisect(ks, goesRight(_)) ==
  LET b[w \in (0..Len(ks)) \X (0..Len(ks))] ==
        LET lo == w[1]  hi == w[2]  mid == (lo + hi) \div 2
        IN  IF lo >= hi THEN lo
            ELSE IF goesRight(ks[mid + 1]) THEN b[<<mid + 1, hi>>] ELSE b[<<lo, mid>>]
  IN  b[<<0, Len(ks)>>]

BisectLeft(ks, key) == Bisect(ks, LAMBDA k : k < key)

BisectRight(ks, key) == Bisect(ks, LAMBDA k : k <= key)

\* The child a search for key goes to.
Child(n, key) == n.children[BisectRight(n.keys, key) + 1]

\* _descend_to_leaf
LeafFor(key) ==
  LET down[p \in DOMAIN nodes] ==
        IF nodes[p].kind = "leaf" THEN p ELSE down[Child(nodes[p], key)]
  IN  down[root]

\* _find_parent_pid; 0 stands for the RuntimeError at its end.
ParentOf(target, key) ==
  LET up[p \in DOMAIN nodes] ==
        IF nodes[p].kind = "leaf" THEN 0
        ELSE IF Child(nodes[p], key) = target THEN p
        ELSE up[Child(nodes[p], key)]
  IN  up[root]

\* The place of key in a leaf, 0 when it is not there.
SlotIn(n, key) ==
  LET i == BisectLeft(n.keys, key) + 1
  IN  IF i <= Len(n.keys) /\ n.keys[i] = key THEN i ELSE 0

Search(key) ==
  IF root = 0 THEN Absent
  ELSE LET n == nodes[LeafFor(key)]
           i == SlotIn(n, key)
       IN  IF i = 0 \/ n.tombs[i] THEN Absent ELSE n.refs[i]

\* range: entry by entry from the leaf of `from` along the chain, up to the
\* first key that is not below `to`.
RangeScan(from, to) ==
  LET leaves == {p \in DOMAIN nodes : nodes[p].kind = "leaf"}
      walk[w \in leaves \X (Nat \ {0})] ==
        LET n == nodes[w[1]]
            i == w[2]
        IN  IF i > Len(n.keys)
            THEN IF n.next = 0 THEN <<>> ELSE walk[<<n.next, 1>>]
            ELSE IF n.keys[i] >= to THEN <<>>
            ELSE IF n.keys[i] >= from /\ ~n.tombs[i]
            THEN <<n.refs[i]>> \o walk[<<w[1], i + 1>>]
            ELSE walk[<<w[1], i + 1>>]
  IN  IF root = 0 THEN <<>> ELSE walk[<<LeafFor(from), 1>>]
-----------------------------------------------------------------------------
Write(ns, p, n) == [q \in DOMAIN ns \cup {p} |-> IF q = p THEN n ELSE ns[q]]

Init ==
  /\ nodes = <<>> /\ root = 0
  /\ nextPage = 1
  /\ promote = NoCall
  /\ stable = [nodes |-> nodes, root |-> root]
  /\ content = [k \in Keys |-> Absent]
  /\ overran = FALSE

\* The statement is over and the tree is ns with root r.
Return(ns, r) ==
  /\ nodes' = ns /\ root' = r
  /\ stable' = [nodes |-> ns, root |-> r]
  /\ promote' = NoCall
  /\ overran' = (overran \/ Overruns(ns))

\* ValueError: the statement is rolled back; a page it has allocated stays
\* allocated.
Raise(allocated) ==
  /\ nodes' = stable.nodes /\ root' = stable.root
  /\ promote' = NoCall
  /\ nextPage' = nextPage + allocated
  /\ UNCHANGED <<stable, overran>>

FirstInsert(key, ref) ==
  /\ root = 0
  /\ IF LeafFits(<<key>>)
     THEN /\ Return(Write(nodes, nextPage, Leaf(<<key>>, <<ref>>, <<FALSE>>, 0)),
                    nextPage)
          /\ nextPage' = nextPage + 1
          /\ content' = [content EXCEPT ![key] = ref]
     ELSE Raise(1) /\ UNCHANGED content

\* The leaf with (key, ref) put into it: replaced in place, or inserted.
Put(n, key, ref) ==
  LET i == SlotIn(n, key)
      at == BisectLeft(n.keys, key) + 1
  IN  IF i # 0
      THEN [n EXCEPT !.refs[i] = ref, !.tombs[i] = FALSE]
      ELSE Leaf(InsertAt(n.keys, at, key), InsertAt(n.refs, at, ref),
                InsertAt(n.tombs, at, FALSE), n.next)

\* Mutant: the right half is not chained to the old neighbour.
SplitLeafUnchained(n, rightPage) ==
  LET mid == Len(n.keys) \div 2
      half(s, left) == IF left THEN SubSeq(s, 1, mid) ELSE SubSeq(s, mid + 1, Len(s))
      part(left, next) == Leaf(half(n.keys, left), half(n.refs, left),
                               half(n.tombs, left), next)
  IN  <<part(TRUE, rightPage), part(FALSE, 0)>>

\* The two halves of an overfull leaf; the left one keeps the page.
SplitLeaf(n, rightPage) ==
  LET mid == Len(n.keys) \div 2
      half(s, left) == IF left THEN SubSeq(s, 1, mid) ELSE SubSeq(s, mid + 1, Len(s))
      part(left, next) == Leaf(half(n.keys, left), half(n.refs, left),
                               half(n.tombs, left), next)
  IN  <<part(TRUE, rightPage), part(FALSE, n.next)>>

\* BTree.insert, up to the call of _insert_into_parent.
Insert(key, ref) ==
  /\ promote = NoCall
  /\ nextPage < MaxPages
  /\ \/ FirstInsert(key, ref)
     \/ /\ root # 0
        /\ LET p == LeafFor(key)
               n == Put(nodes[p], key, ref)
               halves == SplitLeaf(n, nextPage)
           IN  \/ /\ LeafFits(n.keys)
                  /\ Return(Write(nodes, p, n), root)
                  /\ content' = [content EXCEPT ![key] = ref]
                  /\ UNCHANGED nextPage
               \/ /\ ~LeafFits(n.keys)
                  /\ IF \A i \in 1..2 : LeafFits(halves[i].keys)
                     THEN /\ nodes' = Write(Write(nodes, p, halves[1]), nextPage,
                                           halves[2])
                          /\ promote' = <<p, halves[2].keys[1], nextPage, key, ref>>
                          /\ nextPage' = nextPage + 1
                          /\ UNCHANGED <<root, stable, overran>>
                     ELSE Raise(1)
                  /\ UNCHANGED content

\* The split reached the root: a new root above its two halves.
GrowRoot(left, key, right) ==
  /\ root = left
  /\ Return(Write(nodes, nextPage, Internal(<<key>>, <<left, right>>)), nextPage)
  /\ nextPage' = nextPage + 1

\* The parent with the separator and the right half put into it.
Adopt(n, key, right) ==
  LET i == BisectLeft(n.keys, key)
  IN  Internal(InsertAt(n.keys, i + 1, key), InsertAt(n.children, i + 2, right))

\* Mutant: the separator moves up and also stays in the right half.
SplitInternalKeepsMedian(n) ==
  LET mid == Len(n.keys) \div 2
  IN  <<Internal(SubSeq(n.keys, 1, mid), SubSeq(n.children, 1, mid + 1)),
        Internal(SubSeq(n.keys, mid + 1, Len(n.keys)),
                 SubSeq(n.children, mid + 1, Len(n.children)))>>

\* The halves of an overfull internal node; the median key moves up.
SplitInternal(n) ==
  LET mid == Len(n.keys) \div 2
  IN  <<Internal(SubSeq(n.keys, 1, mid), SubSeq(n.children, 1, mid + 1)),
        Internal(SubSeq(n.keys, mid + 2, Len(n.keys)),
                 SubSeq(n.children, mid + 2, Len(n.children)))>>

\* One call of _insert_into_parent.
InsertIntoParent ==
  /\ promote # NoCall
  /\ LET left  == promote[1]
         key   == promote[2]
         right == promote[3]
         done  == content' = [content EXCEPT ![promote[4]] = promote[5]]
         q     == ParentOf(left, key)
         n     == Adopt(nodes[q], key, right)
         halves == SplitInternal(n)
     IN  \/ GrowRoot(left, key, right) /\ done
         \/ /\ root # left
            /\ InternalFits(n.keys)
            /\ Return(Write(nodes, q, n), root)
            /\ UNCHANGED nextPage
            /\ done
         \/ /\ root # left
            /\ ~InternalFits(n.keys)
            /\ IF \A i \in 1..2 : InternalFits(halves[i].keys)
               THEN /\ nodes' = Write(Write(nodes, q, halves[1]), nextPage, halves[2])
                    /\ promote' = <<q, n.keys[Len(n.keys) \div 2 + 1], nextPage,
                                    promote[4], promote[5]>>
                    /\ nextPage' = nextPage + 1
                    /\ UNCHANGED <<root, stable, overran>>
               ELSE Raise(IF InternalFits(halves[1].keys) THEN 1 ELSE 0)
            /\ UNCHANGED content

\* BTree.delete: the entry stays in its leaf, as a tombstone.
Delete(key) ==
  /\ promote = NoCall
  /\ root # 0
  /\ LET p == LeafFor(key)
         i == SlotIn(nodes[p], key)
     IN  /\ i # 0
         /\ Return([nodes EXCEPT ![p].tombs[i] = TRUE], root)
  /\ content' = [content EXCEPT ![key] = Absent]
  /\ UNCHANGED nextPage

Next ==
  \/ \E key \in Keys, ref \in Refs : Insert(key, ref)
  \/ InsertIntoParent
  \/ \E key \in Keys : Delete(key)

Spec == Init /\ [][Next]_vars
-----------------------------------------------------------------------------
Idle == promote = NoCall

\* The live references of the keys of [from, to), in key order.
Listing(from, to) ==
  LET up[k \in Nat] ==
        IF k >= to THEN <<>>
        ELSE IF k \in Keys /\ content[k] # Absent THEN <<content[k]>> \o up[k + 1]
        ELSE up[k + 1]
  IN  up[from]

(***************************************************************************)
(* The index is the map the statements built, whatever splits came in      *)
(* between and whichever statements were rolled back: search returns the   *)
(* last reference inserted for a key that has not been deleted since, and  *)
(* range the live references of [from, to) in key order, the chain of      *)
(* leaves missing no leaf, also when one in the middle has split.  It is   *)
(* promised as long as no internal node outgrew its page by the 4 bytes    *)
(* that InternalNode.serialize does not count.                             *)
(***************************************************************************)
LookupsCorrect ==
  Idle /\ ~overran =>
    /\ \A k \in Keys : Search(k) = content[k]
    /\ \A from \in Keys, to \in {k + 1 : k \in Keys} :
         RangeScan(from, to) = Listing(from, to)

(***************************************************************************)
(* The convention _descend_to_leaf and range rely on: keys[i] of an        *)
(* internal node is the smallest key below children[i + 1], and everything *)
(* below children[i] is smaller.  The path of an insertion finds the       *)
(* parent of the node it split.  The exception is that of LookupsCorrect.  *)
(***************************************************************************)
SeparatorsExact ==
  LET below[p \in DOMAIN nodes] ==
        IF nodes[p].kind = "leaf" THEN ToSet(nodes[p].keys)
        ELSE UNION {below[c] : c \in ToSet(nodes[p].children)}
  IN  ~overran =>
        /\ Idle => \A p \in DOMAIN nodes : nodes[p].kind = "internal" =>
             \A i \in DOMAIN nodes[p].keys :
                /\ nodes[p].keys[i] = Min(below[nodes[p].children[i + 1]])
                /\ \A k \in below[nodes[p].children[i]] : k < nodes[p].keys[i]
        /\ ~Idle /\ root # promote[1] => ParentOf(promote[1], promote[2]) # 0
=============================================================================
