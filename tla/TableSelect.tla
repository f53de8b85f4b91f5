----------------------------- MODULE TableSelect -----------------------------
(***************************************************************************)
(* SELECT (executor.py, _exec_select): one with JOINs is a JoinQuery; one  *)
(* on a single table, source 1, is looked up in an index or scanned and    *)
(* filtered, then sorted, or grouped, filtered by HAVING and sorted, then  *)
(* cut and projected.  Names are looked up in the table and, after         *)
(* grouping, among the grouped columns and the aggregates.                 *)
(* Values are numbers; those from FirstText up stand for texts.            *)
(***************************************************************************)
EXTENDS JoinQuery

CONSTANTS
  TextCols,   \* the names of the text columns
  FirstText,
  Indexed     \* the columns of source 1 that have an index

\* Keys are unique (TableStore); the aggregates are taken from the SELECT list.
ASSUME TableSelectAssumption ==
  \A w \in Workloads : (\E q \in w.queries : q.joins = << >>) =>
    /\ \A q \in w.queries : \A a \in DOMAIN q.aggs : Contains(q.items, <<Aggregates, a>>)
    /\ \A ts \in w.tables, c \in Indexed : \A g, h \in DOMAIN ts[1] :
         LET p == Position(Sources[1], c)
         IN g # h /\ ts[1][g][p] # NULL => ts[1][g][p] # ts[1][h][p]

\* schema_name_index; 0 for a name that is not a column.
ColumnIndex(ref) == Position(Sources[1], ref[2])

IsText(v) == v # NULL /\ v >= FirstText

OrderRefs == {query.order[i].ref : i \in DOMAIN query.order}
-----------------------------------------------------------------------------
(* WHERE. *)

\* An unknown column, or a literal that is not of the column's type.
TestRaises(test) ==
  ColumnIndex(test.ref) = 0 \/ IsText(test.value) # (test.ref[2] \in TextCols)

TestHolds(test, r) ==
  ~TestRaises(test) /\ (r[ColumnIndex(test.ref)] = test.value) = test.is

ClauseHolds(clause, r) == \A t \in DOMAIN clause : TestHolds(clause[t], r)

EvalExpr(r) ==
  query.where = << >> \/ \E c \in DOMAIN query.where : ClauseHolds(query.where[c], r)

\* AND and OR stop at the first test that decides, so a test raises only for
\* a row that reaches it.
EvalRaises(r) ==
  \E c \in DOMAIN query.where : \E t \in DOMAIN query.where[c] :
    /\ TestRaises(query.where[c][t])
    /\ \A d \in 1..(c - 1) : ~ClauseHolds(query.where[d], r)
    /\ \A u \in 1..(t - 1) : TestHolds(query.where[c][u], r)

\* _is_single_eq_on_indexed.
IsIndexedEquality ==
  /\ ~IsAggregate(query)
  /\ Len(query.where) = 1 /\ Len(query.where[1]) = 1
  /\ query.where[1][1].is /\ query.where[1][1].ref[2] \in Indexed

ValidateSelect ==
  /\ node = "resolve"
  /\ IF \/ query.offset < 0
        \/ query.limit # NoLimit /\ query.limit < 0
        \/ ~IsAggregate(query) /\ \E ref \in OrderRefs \cup ToSet(query.items) : ColumnIndex(ref) = 0
     THEN Raise
     ELSE /\ node' = IF IsIndexedEquality THEN "lookup" ELSE "scan"
          /\ schema' = Labels(1)
          /\ UNCHANGED <<tables, query, joined, rows, sorted>>

\* _exec_indexed_select: the row of the key, which needs no sort.
IndexedSelect ==
  LET test == query.where[1][1]
      hits == {i \in DOMAIN tables[1] : tables[1][i][ColumnIndex(test.ref)] = test.value}
  IN /\ node = "lookup"
     /\ IF TestRaises(test) THEN Raise
        ELSE /\ rows' = IF hits = {} THEN << >> ELSE <<tables[1][CHOOSE i \in hits : TRUE]>>
             /\ sorted' = rows'
             /\ node' = "limit"
             /\ UNCHANGED <<tables, query, joined, schema>>

ScanSelect ==
  /\ node = "scan"
  /\ IF \E r \in ToSet(tables[1]) : EvalRaises(r) THEN Raise
     ELSE /\ rows' = SelectSeq(tables[1], EvalExpr)
          /\ node' = IF IsAggregate(query) THEN "aggregate" ELSE "sort"
          /\ UNCHANGED <<tables, query, joined, schema, sorted>>
-----------------------------------------------------------------------------
(* GROUP BY and HAVING. *)

\* COUNT, SUM, AVG, MIN and MAX of the values that are not NULL.
TableAggregate(agg, group) ==
  LET given == SelectSeq(Map(group, LAMBDA r : r[ColumnIndex(agg.arg)]), LAMBDA v : v # NULL)
      Fold(F(_, _)) == IF given = << >> THEN NULL ELSE FoldLeft(F, Head(given), Tail(given))
  IN CASE agg.func = Star    -> Len(group)
       [] agg.func = "COUNT" -> Len(given)
       [] agg.func = "SUM"   -> Fold(LAMBDA a, b : a + b)
       [] agg.func = "AVG"   -> IF given = << >> THEN NULL
                                ELSE (Scale * Fold(LAMBDA a, b : a + b)) \div Len(given)
       [] agg.func = "MIN"   -> Fold(LAMBDA a, b : IF b < a THEN b ELSE a)
       [] agg.func = "MAX"   -> Fold(LAMBDA a, b : IF b > a THEN b ELSE a)

GroupKey(r) == Map(query.group, LAMBDA ref : r[ColumnIndex(ref)])

\* Mutant: without GROUP BY too, a group needs a row.
GroupKeysOfRows ==
  FoldLeft(LAMBDA ks, r : IF Contains(ks, GroupKey(r)) THEN ks ELSE Append(ks, GroupKey(r)),
           << >>, rows)

\* The groups as a dict keeps them, by first row; one without GROUP BY.
GroupKeys ==
  IF query.group = << >> THEN <<<< >>>>
  ELSE FoldLeft(LAMBDA ks, r : IF Contains(ks, GroupKey(r)) THEN ks ELSE Append(ks, GroupKey(r)),
                << >>, rows)

\* apply_aggregation: the grouped columns, then the aggregates.
TableGroups ==
  Map(GroupKeys, LAMBDA k :
    k \o Map(query.aggs, LAMBDA agg :
            TableAggregate(agg, SelectSeq(rows, LAMBDA r : GroupKey(r) = k))))

AggregationRaises ==
  \/ \E ref \in ToSet(query.group) : ColumnIndex(ref) = 0
  \/ GroupKeys # << >>
       /\ \E agg \in ToSet(query.aggs) : agg.func # Star /\ ColumnIndex(agg.arg) = 0

\* row_name_index of a group's row: an aggregate by its alias, a grouped
\* column by its name; 0 raises.
GroupColumn(ref) ==
  IF ref[1] # Aggregates THEN Position(query.group, ref)
  ELSE IF ref[2] \in DOMAIN query.aggs THEN Len(query.group) + ref[2] ELSE 0

\* _normalize_having_for_executor looks for the aggregate whatever the rows
\* are, apply_having for the column only if there are some.
HavingRaises(groups) ==
  /\ query.having # NoHaving
  /\ GroupColumn(query.having.ref) = 0
  /\ (query.having.ref[1] = Aggregates \/ groups # << >>)

\* _compare: nothing compares with NULL.
HavingHolds(r) ==
  LET value == r[GroupColumn(query.having.ref)]
  IN value # NULL /\ Compare(query.having.op, value, query.having.value)

AggregateSelect ==
  /\ node = "aggregate"
  /\ IF AggregationRaises \/ HavingRaises(TableGroups) THEN Raise
     ELSE /\ rows' = IF query.having = NoHaving THEN TableGroups
                     ELSE SelectSeq(TableGroups, HavingHolds)
          /\ schema' = query.group \o [i \in DOMAIN query.aggs |-> <<Aggregates, i>>]
          /\ node' = "sort"
          /\ UNCHANGED <<tables, query, joined, sorted>>
-----------------------------------------------------------------------------
(* ORDER BY. *)

\* The row a comes before b by the first key in which they differ.
CmpBefore(a, b) ==
  LET At(i, r) == r[ColumnIndex(query.order[i].ref)]
  IN \E i \in DOMAIN query.order :
       /\ \A h \in 1..(i - 1) : At(h, a) = At(h, b)
       /\ At(i, a) # At(i, b)
       /\ IF query.order[i].desc THEN At(i, a) > At(i, b) ELSE At(i, a) < At(i, b)

\* A value that is NULL fails the validation before a comparison, which every
\* row comes to that is not alone with its earlier keys.
CmpRaises ==
  LET At(i, r) == rows[r][ColumnIndex(query.order[i].ref)]
  IN \E i \in DOMAIN query.order, a, b \in DOMAIN rows :
       /\ a # b /\ At(i, a) = NULL
       /\ \A h \in 1..(i - 1) : At(h, a) = At(h, b)

\* sort_key: a number is negated for DESC, a text is not, and NULL is 0.
SortPart(v, desc) ==
  IF v = NULL THEN IF desc THEN <<1, 0>> ELSE <<0, 0>>
  ELSE <<0, IF desc /\ ~IsText(v) THEN -v ELSE v>>

SortKey(r) ==
  [i \in DOMAIN query.order |-> SortPart(r[GroupColumn(query.order[i].ref)], query.order[i].desc)]

KeyLess(a, b) ==
  \E i \in DOMAIN a :
    /\ \A h \in 1..(i - 1) : a[h] = b[h]
    /\ a[i][1] < b[i][1] \/ (a[i][1] = b[i][1] /\ a[i][2] < b[i][2])

\* A text cannot be compared with the 0 that stands for NULL.
KeyLessRaises ==
  \E i \in DOMAIN query.order, a, b \in ToSet(rows) :
    /\ ~query.order[i].desc
    /\ IsText(a[GroupColumn(query.order[i].ref)]) /\ b[GroupColumn(query.order[i].ref)] = NULL
    /\ \A h \in 1..(i - 1) : SortKey(a)[h] = SortKey(b)[h]

SortSelect ==
  LET raises == IF IsAggregate(query)
                THEN rows # << >> /\ ((\E ref \in OrderRefs : GroupColumn(ref) = 0) \/ KeyLessRaises)
                ELSE CmpRaises
  IN /\ node = "sort"
     /\ IF raises THEN Raise
        ELSE /\ rows' = IF IsAggregate(query)
                        THEN StableSort(rows, LAMBDA a, b : KeyLess(SortKey(a), SortKey(b)))
                        ELSE StableSort(rows, CmpBefore)
             /\ sorted' = rows
             /\ node' = "limit"
             /\ UNCHANGED <<tables, query, joined, schema>>
-----------------------------------------------------------------------------
\* OFFSET and LIMIT cut as they do after joins.
ApplyLimitOffset == EvalLimit

\* Mutant: a group's row already has the order of the SELECT list.
ItemInPlace(ref) ==
  IF IsAggregate(query) THEN Position(query.items, ref) ELSE ColumnIndex(ref)

ItemColumn(ref) == IF IsAggregate(query) THEN GroupColumn(ref) ELSE ColumnIndex(ref)

\* _project_legacy_row and _project_aggregate_row.
ProjectSelect ==
  /\ node = "project"
  /\ IF rows # << >> /\ \E ref \in ToSet(query.items) : ItemColumn(ref) = 0
     THEN Raise
     ELSE /\ IF query.items = << >> THEN UNCHANGED <<rows, schema>>
             ELSE /\ rows' = Map(rows, LAMBDA r : Map(query.items, LAMBDA ref : r[ItemColumn(ref)]))
                  /\ schema' = query.items
          /\ node' = "done"
          /\ UNCHANGED <<tables, query, joined, sorted>>

TableNext ==
  \/ ValidateSelect \/ IndexedSelect \/ ScanSelect \/ AggregateSelect
  \/ SortSelect \/ ApplyLimitOffset \/ ProjectSelect

Next ==
  \/ query.joins # << >> /\ JoinNext
  \/ query.joins = << >> /\ TableNext

Spec == Init /\ [][Next]_vars
=============================================================================
