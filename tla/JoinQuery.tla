------------------------------ MODULE JoinQuery ------------------------------
(***************************************************************************)
(* A SELECT with JOINs (plan.py, _join_executor.py): the plan is evaluated *)
(* from its leaves, one node a step: the joins in the order of the chain,  *)
(* WHERE, GROUP BY with HAVING, ORDER BY, LIMIT and OFFSET, the columns.   *)
(* Rows are sequences and every node finds its columns by position.        *)
(* A WHERE is a sequence of clauses, one of which must hold, each a        *)
(* sequence of tests that must hold: evaluation is two-valued, so AND, OR  *)
(* and NOT come down to that.  An average is a number of units of          *)
(* 1/Scale, and so is the literal it is compared with.                     *)
(***************************************************************************)
EXTENDS Resolver, Integers

CONSTANTS
  NULL,
  Workloads,  \* sets of queries, each with contents the sources may have
  NoLimit,
  Scale

ASSUME JoinQueryAssumption ==
  /\ Scale \in Nat \ {0}
  /\ \A q \in UNION {w.queries : w \in Workloads} :
       /\ Len(q.joins) \in {0, Len(Sources) - 1}
       /\ \A i \in DOMAIN q.joins :
            q.joins[i].kind = "CROSS" => q.joins[i].using = << >> /\ ~q.joins[i].natural

VARIABLES
  tables,     \* the contents of each source
  query,      \* the statement
  node,       \* the plan node to evaluate next, or "done" or "raised"
  joined,     \* sources the rows come from
  rows,       \* the rows of the last node evaluated
  schema,     \* their labels: references, <<0, name>> for a merged key
  sorted      \* the rows ORDER BY was given

vars == <<tables, query, node, joined, rows, schema, sorted>>

Labels(s) == [i \in DOMAIN Sources[s] |-> <<s, Sources[s][i]>>]

Init ==
  /\ \E w \in Workloads : tables \in w.tables /\ query \in w.queries
  /\ node = "resolve"
  /\ joined = 0
  /\ rows = << >> /\ schema = << >> /\ sorted = << >>

Raise ==
  /\ node' = "raised"
  /\ UNCHANGED <<tables, query, joined, rows, schema, sorted>>

\* build_plan, and the scan of the first table.
BuildPlan ==
  /\ node = "resolve"
  /\ IF ResolutionFails(query)
     THEN Raise
     ELSE /\ node' = "join"
          /\ joined' = 1
          /\ rows' = tables[1]
          /\ schema' = Labels(1)
          /\ UNCHANGED <<tables, query, sorted>>
-----------------------------------------------------------------------------
\* _build_source_position_map: merged keys are counted too.
Offset(s) == Len(FlattenSeq(SubSeq(Sources, 1, s - 1)))

Compare(op, a, b) ==
  CASE op = "=" -> a = b
    [] op = "<" -> a < b
    [] op = ">" -> a > b

\* The positions ON compares in the rows of join j, left and right.
OnLeft(on) == Offset(Resolve(on.left)[1]) + Resolve(on.left)[2]
OnRight(on) == Resolve(on.right)[2]

\* KeyError, IndexError or TypeError from the comparison of ON.
MatchRaises(j, lr, rr) ==
  LET on == query.joins[j].on
  IN /\ KeyNames(query.joins, j) = << >>
     /\ on # NoOn
     /\ \/ Resolve(on.left)[1] > j
        \/ Resolve(on.right)[1] # j + 1
        \/ OnLeft(on) > Len(lr)
        \/ on.op # "=" /\ NULL \in {lr[OnLeft(on)], rr[OnRight(on)]}

Matches(j, lr, rr) ==
  LET keys == JoinKeys(query.joins, j)
      on == query.joins[j].on
  IN IF keys # << >>
     THEN \A k \in ToSet(keys) : lr[k.left] # NULL /\ lr[k.left] = rr[k.right]
     ELSE on = NoOn \/ Compare(on.op, lr[OnLeft(on)], rr[OnRight(on)])

\* The columns of the right side that are not merged.
Kept(j) ==
  SelectSeq([i \in DOMAIN Sources[j + 1] |-> i],
            LAMBDA i : Sources[j + 1][i] \notin Dropped(query.joins, j + 1))

\* A NULL key of the left row is taken from the right one.
CoalesceRow(j, lr, rr) ==
  LET keys == ToSet(JoinKeys(query.joins, j))
      Merged(i) == IF lr[i] = NULL /\ \E k \in keys : k.left = i
                   THEN rr[(CHOOSE k \in keys : k.left = i).right]
                   ELSE lr[i]
  IN [i \in DOMAIN lr |-> Merged(i)] \o [i \in DOMAIN Kept(j) |-> rr[Kept(j)[i]]]

NullPadRight(j, lr) == lr \o [i \in DOMAIN Kept(j) |-> NULL]

NullPadLeft(j, rr) == CoalesceRow(j, [i \in DOMAIN schema |-> NULL], rr)

Map(seq, F(_)) == [i \in DOMAIN seq |-> F(seq[i])]

NestedLoopLeft(j, right, pad) ==
  FlattenSeq(Map(rows, LAMBDA lr :
    LET found == SelectSeq(right, LAMBDA rr : Matches(j, lr, rr))
    IN IF found = << >> /\ pad
       THEN <<NullPadRight(j, lr)>>
       ELSE Map(found, LAMBDA rr : CoalesceRow(j, lr, rr))))

NestedLoopRight(j, right) ==
  FlattenSeq(Map(right, LAMBDA rr :
    LET found == SelectSeq(rows, LAMBDA lr : Matches(j, lr, rr))
    IN IF found = << >>
       THEN <<NullPadLeft(j, rr)>>
       ELSE Map(found, LAMBDA lr : CoalesceRow(j, lr, rr))))

NestedLoopFull(j, right) ==
  NestedLoopLeft(j, right, TRUE)
    \o Map(SelectSeq(right, LAMBDA rr : \A lr \in ToSet(rows) : ~Matches(j, lr, rr)),
           LAMBDA rr : NullPadLeft(j, rr))

NestedLoopCross(right) ==
  FlattenSeq(Map(rows, LAMBDA lr : Map(right, LAMBDA rr : lr \o rr)))

MergedSchema(j) ==
  LET keys == ToSet(JoinKeys(query.joins, j))
      Left(i) == IF \E k \in keys : k.left = i
                 THEN <<0, (CHOOSE k \in keys : k.left = i).label>>
                 ELSE schema[i]
  IN [i \in DOMAIN schema |-> Left(i)] \o Map(Kept(j), LAMBDA i : Labels(j + 1)[i])

\* One join of the chain: its right side is a scan.
EvalJoin ==
  LET j == joined
      right == tables[j + 1]
      kind == query.joins[j].kind
  IN /\ node = "join" /\ j < Len(Sources)
     /\ IF kind # "CROSS" /\ \E lr \in ToSet(rows), rr \in ToSet(right) : MatchRaises(j, lr, rr)
        THEN Raise
        ELSE /\ rows' = CASE kind = "CROSS" -> NestedLoopCross(right)
                          [] kind = "INNER" -> NestedLoopLeft(j, right, FALSE)
                          [] kind = "LEFT"  -> NestedLoopLeft(j, right, TRUE)
                          [] kind = "RIGHT" -> NestedLoopRight(j, right)
                          [] kind = "FULL"  -> NestedLoopFull(j, right)
             /\ schema' = MergedSchema(j)
             /\ joined' = j + 1
             /\ UNCHANGED <<tables, query, node, sorted>>
-----------------------------------------------------------------------------
Holds(test, r) == (r[WherePosition(query.joins, test.ref)] = test.value) = test.is

\* WHERE, when there is one.
EvalFilter ==
  /\ node = "join" /\ joined = Len(Sources)
  /\ rows' = IF query.where = << >> THEN rows
             ELSE SelectSeq(rows, LAMBDA r :
                    \E clause \in ToSet(query.where) : \A test \in ToSet(clause) : Holds(test, r))
  /\ node' = IF IsAggregate(query) THEN "aggregate" ELSE "sort"
  /\ UNCHANGED <<tables, query, joined, schema, sorted>>

\* _compute_aggregate over the rows of a group.
Aggregated(agg, group) ==
  LET p == MergedPosition(query.joins, agg.arg)
      values == SelectSeq(Map(group, LAMBDA r : r[p]), LAMBDA v : v # NULL)
  IN CASE agg.func = Star    -> Len(group)
       [] agg.func = "COUNT" -> Len(values)
       [] values = << >>     -> NULL
       [] agg.func = "SUM"   -> FoldLeft(LAMBDA a, b : a + b, 0, values)
       [] agg.func = "AVG"   -> (Scale * FoldLeft(LAMBDA a, b : a + b, 0, values)) \div Len(values)
       [] agg.func = "MIN"   -> Min(ToSet(values))
       [] agg.func = "MAX"   -> Max(ToSet(values))

\* The groups in the order their first rows come in; without GROUP BY there
\* is one, of all the rows.
Grouped ==
  LET key(r) == Map(GroupPositions(query), LAMBDA p : r[p])
      firsts == FoldLeft(LAMBDA ks, r : IF Contains(ks, key(r)) THEN ks ELSE Append(ks, key(r)),
                         IF query.group = << >> THEN <<<< >>>> ELSE << >>, rows)
  IN Map(firsts, LAMBDA k :
       k \o Map(query.aggs, LAMBDA agg :
               Aggregated(agg, SelectSeq(rows, LAMBDA r : key(r) = k))))

HavingValue(r) == r[ResultPosition(query, query.having.ref)]

\* GROUP BY, the aggregates and HAVING, whose comparison raises for NULL.
EvalAggregate ==
  /\ node = "aggregate"
  /\ IF query.having.op \in {"<", ">"} /\ \E r \in ToSet(Grouped) : HavingValue(r) = NULL
     THEN Raise
     ELSE /\ rows' = SelectSeq(Grouped, LAMBDA r :
                      query.having = NoHaving
                        \/ Compare(query.having.op, HavingValue(r), query.having.value))
          /\ schema' = Map(GroupPositions(query), LAMBDA p : schema[p])
                         \o [i \in DOMAIN query.aggs |-> <<Aggregates, i>>]
          /\ node' = "sort"
          /\ UNCHANGED <<tables, query, joined, sorted>>

\* The key of a row is (value is None, value).
KeyBefore(a, b) == (a # NULL /\ b = NULL) \/ (NULL \notin {a, b} /\ a < b)

StableSort(seq, Before(_, _)) ==
  LET Rank(i) == 1 + Cardinality({h \in DOMAIN seq :
                       \/ Before(seq[h], seq[i])
                       \/ h < i /\ ~Before(seq[i], seq[h])})
  IN [r \in DOMAIN seq |-> seq[CHOOSE i \in DOMAIN seq : Rank(i) = r]]

SortBy(seq, item) ==
  LET p == ResultPosition(query, item.ref)
  IN StableSort(seq, LAMBDA a, b : IF item.desc THEN KeyBefore(b[p], a[p])
                                   ELSE KeyBefore(a[p], b[p]))

\* Mutant: the first key of ORDER BY is sorted by first.
SortedFirstKeyFirst(seq) == FoldLeft(SortBy, seq, query.order)

\* One stable sort per key, from the last one of ORDER BY to the first.
Sorted(seq) == FoldLeft(SortBy, seq, Reverse(query.order))

EvalSort ==
  /\ node = "sort"
  /\ rows' = Sorted(rows)
  /\ sorted' = rows
  /\ node' = "limit"
  /\ UNCHANGED <<tables, query, joined, schema>>

Cut(seq) ==
  LET rest == SubSeq(seq, query.offset + 1, Len(seq))
  IN IF query.limit = NoLimit \/ query.limit > Len(rest)
     THEN rest ELSE SubSeq(rest, 1, query.limit)

EvalLimit ==
  /\ node = "limit"
  /\ rows' = Cut(rows)
  /\ node' = "project"
  /\ UNCHANGED <<tables, query, joined, schema, sorted>>

\* An aggregate by its alias: without AS its label in the rows and the one
\* looked up are made by two functions, which agree on COUNT(*) only.
AggregatePosition(i) ==
  IF query.aggs[i].alias \/ query.aggs[i].func = Star
  THEN Position(schema, <<Aggregates, i>>) ELSE 0

\* _resolve_col: the label, the name of a merged key, or the only column of
\* that name; 0 raises.
LabelPosition(ref) ==
  LET suffix == {i \in DOMAIN schema : schema[i][1] # Aggregates /\ schema[i][2] = ref[2]}
  IN CASE ref[1] = Aggregates            -> AggregatePosition(ref[2])
       [] Contains(schema, ref)          -> Position(schema, ref)
       [] Contains(schema, <<0, ref[2]>>) -> Position(schema, <<0, ref[2]>>)
       [] OTHER -> IF Cardinality(suffix) = 1 THEN CHOOSE i \in suffix : TRUE ELSE 0

\* The columns of SELECT; none for SELECT *.
EvalProject ==
  /\ node = "project"
  /\ IF rows # << >> /\ \E i \in DOMAIN query.items : LabelPosition(query.items[i]) = 0
     THEN Raise
     ELSE /\ IF query.items = << >> THEN UNCHANGED <<rows, schema>>
             ELSE /\ rows' = Map(rows, LAMBDA r :
                               Map(query.items, LAMBDA ref : r[LabelPosition(ref)]))
                  /\ schema' = query.items
          /\ node' = "done"
          /\ UNCHANGED <<tables, query, joined, sorted>>

JoinNext ==
  \/ BuildPlan \/ EvalJoin \/ EvalFilter \/ EvalAggregate
  \/ EvalSort \/ EvalLimit \/ EvalProject
=============================================================================
