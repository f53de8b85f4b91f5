------------------------------ MODULE Resolver ------------------------------
(***************************************************************************)
(* Name resolution of a SELECT with JOINs (resolver.py): every reference   *)
(* becomes a position, in a table, in the rows of the joins so far or in   *)
(* the merged rows.  A source is its number in the chain of joins, a       *)
(* reference is <<source, column>>, and source 0 stands for a bare name.   *)
(* A join clause has a kind, the names of USING, the NATURAL flag and the  *)
(* comparison of ON, or NoOn.                                              *)
(***************************************************************************)
EXTENDS Naturals, FiniteSets, SequencesExt

CONSTANT Sources    \* the columns of FROM's table and of each JOIN's

ASSUME ResolverAssumption == Sources # << >>

NoOn == [op |-> "none"]
NoHaving == [op |-> "none"]
Star == "*"

\* <<Aggregates, i>> refers to the i-th aggregate of the SELECT list.
Aggregates == Len(Sources) + 1

Position(seq, x) == SelectInSeq(seq, LAMBDA e : e = x)

\* _make_resolver: the columns a reference can mean.
Hits(ref) ==
  {<<s, Position(Sources[s], ref[2])>> :
     s \in {t \in DOMAIN Sources : ref[1] \in {0, t} /\ Contains(Sources[t], ref[2])}}

\* Otherwise UnknownQualifiedColumn or AmbiguousColumn.
Resolves(ref) == Cardinality(Hits(ref)) = 1

Resolve(ref) == CHOOSE h \in Hits(ref) : TRUE

ColumnOf(ref) == LET h == Resolve(ref) IN <<h[1], Sources[h[1]][h[2]]>>

\* The columns join j merges; its left source is the one before its right.
KeyNames(js, j) ==
  IF js[j].natural
  THEN SelectSeq(Sources[j], LAMBDA c : Contains(Sources[j + 1], c))
  ELSE js[j].using

\* MissingUsingKey.
KeyMissing(js, j) ==
  \E c \in ToSet(KeyNames(js, j)) :
    ~(Contains(Sources[j], c) /\ Contains(Sources[j + 1], c))

\* cumulative_seen_total: each column name of the first j sources once.
Cumulative(j) ==
  FoldLeft(LAMBDA seen, c : IF Contains(seen, c) THEN seen ELSE Append(seen, c),
           << >>, FlattenSeq(SubSeq(Sources, 1, j)))

\* Mutant: the position in the left table, not in the rows of the joins.
LeftColLocal(j, name) == Position(Sources[j], name)

LeftCol(j, name) == Position(Cumulative(j), name)

JoinKeys(js, j) ==
  [i \in DOMAIN KeyNames(js, j) |->
     LET name == KeyNames(js, j)[i]
     IN [left |-> LeftCol(j, name), right |-> Position(Sources[j + 1], name),
         label |-> name]]

\* _drop_right_by_source: the columns of s that are merged into its left side.
Dropped(js, s) == IF s = 1 THEN {} ELSE ToSet(KeyNames(js, s - 1))

\* The merged rows: each source's columns but the dropped ones.
OutputLayout(js) ==
  FlattenSeq([s \in 1..(Len(js) + 1) |->
    LET kept == SelectSeq(Sources[s], LAMBDA c : c \notin Dropped(js, s))
    IN [i \in DOMAIN kept |-> <<s, kept[i]>>]])

\* _merged_position; 0 raises UnknownQualifiedColumn.
MergedPosition(js, ref) == Position(OutputLayout(js), ColumnOf(ref))

\* Mutant: WHERE keeps the position in the table.
WherePositionLocal(js, ref) == Resolve(ref)[2]

\* _remap_where_positions: a dropped column keeps its position in its table.
WherePosition(js, ref) ==
  IF MergedPosition(js, ref) # 0 THEN MergedPosition(js, ref) ELSE Resolve(ref)[2]

IsAggregate(q) == q.group # << >> \/ q.aggs # << >>

GroupPositions(q) == [i \in DOMAIN q.group |-> MergedPosition(q.joins, q.group[i])]

\* _fold_order_by and HAVING: the position in the rows they are applied to;
\* 0 raises for a column that is not grouped.
ResultPosition(q, ref) ==
  IF ~IsAggregate(q) THEN MergedPosition(q.joins, ref)
  ELSE IF ref[1] = Aggregates THEN Len(q.group) + ref[2]
  ELSE Position(GroupPositions(q), MergedPosition(q.joins, ref))

\* The references of HAVING and ORDER BY.
ResultRefs(q) ==
  {q.order[i].ref : i \in DOMAIN q.order}
    \cup (IF q.having = NoHaving THEN {} ELSE {q.having.ref})

\* The references that must be columns of the merged rows.
MergedRefs(q) ==
  ToSet(q.group) \cup {q.aggs[i].arg : i \in {h \in DOMAIN q.aggs : q.aggs[h].func # Star}}
    \cup {ref \in ResultRefs(q) : ref[1] # Aggregates}

\* resolve raises for a key or a reference.
ResolutionFails(q) ==
  \/ \E j \in DOMAIN q.joins :
       \/ KeyMissing(q.joins, j)
       \/ q.joins[j].on # NoOn
            /\ ~(Resolves(q.joins[j].on.left) /\ Resolves(q.joins[j].on.right))
  \/ \E clause \in ToSet(q.where) : \E test \in ToSet(clause) : ~Resolves(test.ref)
  \/ \E ref \in MergedRefs(q) : ~Resolves(ref) \/ MergedPosition(q.joins, ref) = 0
  \/ \E ref \in ResultRefs(q) : ResultPosition(q, ref) = 0
  \/ q.having # NoHaving /\ ~IsAggregate(q)
=============================================================================
