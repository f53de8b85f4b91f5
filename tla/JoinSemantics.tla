---------------------------- MODULE JoinSemantics ----------------------------
(***************************************************************************)
(* What a SELECT means, without positions, for both of its executors.  A   *)
(* row is the number of the row each source contributes, 0 where it has    *)
(* none, and a column has a value by its name.  The columns USING or       *)
(* NATURAL merges have one value, the leftmost that is not NULL.           *)
(***************************************************************************)
EXTENDS TableSelect

\* Source t's column c is merged with the one of s.
Merged(s, t, c) ==
  \A m \in DOMAIN Sources :
    (m >= s /\ m < t) \/ (m >= t /\ m < s) => Contains(KeyNames(query.joins, m), c)

ValueOf(origin, column) ==
  LET s == column[1]
      c == column[2]
      Own(t) == IF origin[t] = 0 THEN NULL
                ELSE tables[t][origin[t]][Position(Sources[t], c)]
      given == {t \in DOMAIN origin : Merged(s, t, c) /\ Own(t) # NULL}
  IN IF given = {} THEN NULL ELSE Own(Min(given))

\* Row i of source j + 1 goes with the origin: a comparison of ON or of merged
\* columns with a NULL does not match.
Together(j, origin, i) ==
  LET join == query.joins[j]
      Right(c) == tables[j + 1][i][Position(Sources[j + 1], c)]
      Holding(op, a, b) == a # NULL /\ b # NULL /\ Compare(op, a, b)
      row == Append(origin, i)
  IN IF KeyNames(query.joins, j) # << >>
     THEN \A c \in ToSet(KeyNames(query.joins, j)) : Holding("=", ValueOf(origin, <<j, c>>), Right(c))
     ELSE \/ join.on = NoOn
          \/ Holding(join.on.op, ValueOf(row, ColumnOf(join.on.left)),
                                 ValueOf(row, ColumnOf(join.on.right)))

\* The origins of the rows of the first s sources joined.
Origins[s \in DOMAIN Sources] ==
  IF s = 1 THEN {<<i>> : i \in DOMAIN tables[1]}
  ELSE LET j == s - 1
           right == DOMAIN tables[s]
           kind == query.joins[j].kind
           Pairs == {<<o, i>> \in Origins[j] \X right : kind = "CROSS" \/ Together(j, o, i)}
           Alone == {o \in Origins[j] : \A i \in right : <<o, i>> \notin Pairs}
           Unmet == {i \in right : \A o \in Origins[j] : <<o, i>> \notin Pairs}
       IN {Append(p[1], p[2]) : p \in Pairs}
            \cup (IF kind \in {"LEFT", "FULL"} THEN {Append(o, 0) : o \in Alone} ELSE {})
            \cup (IF kind \in {"RIGHT", "FULL"}
                  THEN {Append([t \in 1..j |-> 0], i) : i \in Unmet} ELSE {})

\* The sequence has one row for each member of the set.
RowsOfAll(seq, set, RowOf(_)) ==
  \A r \in ToSet(seq) \cup {RowOf(m) : m \in set} :
    Cardinality({i \in DOMAIN seq : seq[i] = r}) = Cardinality({m \in set : RowOf(m) = r})

\* The rows of the columns that these origins have.
SameRows(seq, columns, origins) ==
  RowsOfAll(seq, origins, LAMBDA o : [i \in DOMAIN columns |-> ValueOf(o, columns[i])])

Selected ==
  {o \in Origins[Len(query.joins) + 1] :
     query.where = << >> \/ \E c \in DOMAIN query.where : \A t \in DOMAIN query.where[c] :
       LET test == query.where[c][t]
       IN (ValueOf(o, ColumnOf(test.ref)) = test.value) = test.is}

\* A group is the values its origins have in the grouped columns.
KeyOf(o) == [i \in DOMAIN query.group |-> ValueOf(o, ColumnOf(query.group[i]))]

\* The aggregate of the origins given, whose argument is not NULL.
AggregateGiven(func, given, In(_)) ==
  CASE func = "COUNT" -> Cardinality(given)
    [] given = {}     -> NULL
    [] func = "SUM"   -> MapThenSumSet(In, given)
    [] func = "AVG"   -> (Scale * MapThenSumSet(In, given)) \div Cardinality(given)
    [] func = "MIN"   -> Min({In(o) : o \in given})
    [] func = "MAX"   -> Max({In(o) : o \in given})

AggregateOf(agg, group) ==
  LET In(o) == ValueOf(o, ColumnOf(agg.arg))
  IN IF agg.func = Star THEN Cardinality(group)
     ELSE AggregateGiven(agg.func, {o \in group : In(o) # NULL}, In)

\* What a reference means in a group.
InGroup(ref, k) ==
  IF ref[1] = Aggregates THEN AggregateOf(query.aggs[ref[2]], {o \in Selected : KeyOf(o) = k})
  ELSE k[CHOOSE i \in DOMAIN k : query.group[i] = ref]

\* The groups that HAVING keeps; without GROUP BY all the rows are one.
Groups ==
  LET keys == IF query.group = << >> THEN {<< >>} ELSE {KeyOf(o) : o \in Selected}
  IN {k \in keys :
        query.having = NoHaving
          \/ LET value == InGroup(query.having.ref, k)
             IN value # NULL /\ Compare(query.having.op, value, query.having.value)}

\* One row of these columns for each of the groups.
GroupRows(seq, refs) ==
  RowsOfAll(seq, Groups, LAMBDA k : [i \in DOMAIN refs |-> InGroup(refs[i], k)])

\* A single table's NULLs come last, those of joins as if they were the
\* greatest value.
Before(a, b, desc) ==
  IF query.joins = << >> /\ NULL \in {a, b} THEN a # NULL
  ELSE IF desc THEN KeyBefore(b, a) ELSE KeyBefore(a, b)

\* The order of ORDER BY, first key first.
RowBefore(a, b) ==
  LET At(i, r) == r[ResultPosition(query, query.order[i].ref)]
  IN \E i \in DOMAIN query.order :
       /\ At(i, a) # At(i, b) /\ Before(At(i, a), At(i, b), query.order[i].desc)
       /\ \A h \in 1..(i - 1) : At(h, a) = At(h, b)

\* Groups of a single table that are sorted otherwise: by a column with
\* NULLs, which count as 0, or downwards by texts, which are not reversed.
SortedOtherwise ==
  /\ query.joins = << >> /\ IsAggregate(query)
  /\ \E i \in DOMAIN query.order, r \in ToSet(sorted) :
       LET v == r[ResultPosition(query, query.order[i].ref)]
       IN IF query.order[i].desc THEN IsText(v) ELSE v = NULL
-----------------------------------------------------------------------------
(* What the code is known to answer otherwise than it is asked.            *)

\* ON meets NULLs on both sides, which Python's = takes for equal.
NullsMeet ==
  \E j \in DOMAIN query.joins :
    LET on == query.joins[j].on
    IN /\ on # NoOn
       /\ \E o \in Origins[j], i \in DOMAIN tables[j + 1] :
            \A ref \in {on.left, on.right} : ValueOf(Append(o, i), ColumnOf(ref)) = NULL

\* Of the columns of the rows up to the key, no two have one name: the resolver
\* counts names (resolver.py:404).
KeyInPlace(j, c) ==
  LET layout == OutputLayout(SubSeq(query.joins, 1, j - 1))
      home   == Min({s \in 1..j : Merged(s, j, c)})
      upto   == 1..Position(layout, <<home, c>>)
  IN \A g, h \in upto : layout[g][2] = layout[h][2] => g = h

\* No column up to the one ON names on the left is merged away: the executor
\* counts all the columns (_join_executor.py:138).
OperandInPlace(on) ==
  LET s == ColumnOf(on.left)[1]
      c == ColumnOf(on.left)[2]
  IN \A t \in 1..s, gone \in UNION {ToSet(Sources[m]) : m \in 1..s} :
       gone \in Dropped(query.joins, t)
         => t = s /\ Position(Sources[s], gone) > Position(Sources[s], c)

\* A chain that merges columns after one that does not, or the other way round,
\* has all its keys and operands where they are looked for.
InPlace ==
  \A j \in DOMAIN query.joins :
    /\ \A c \in ToSet(KeyNames(query.joins, j)) : KeyInPlace(j, c)
    /\ query.joins[j].on # NoOn => OperandInPlace(query.joins[j].on)

JoinsRegular == InPlace /\ ~NullsMeet

\* WHERE names no column that is merged away: the position of t2.k in t2 is taken
\* for one in the merged rows (resolver.py:253).
WhereRegular ==
  query.joins = << >> \/
    \A clause \in ToSet(query.where) : \A test \in ToSet(clause) :
      LET column == ColumnOf(test.ref) IN column[2] \notin Dropped(query.joins, column[1])

Regular == JoinsRegular /\ WhereRegular
-----------------------------------------------------------------------------
(***************************************************************************)
(* The nested loops of the joins, chained, give the rows the chain means,  *)
(* each as often as it means it, with every column in its place in the     *)
(* merged rows (_nested_loop_*, _coalesce_row, _null_pad_*, JoinKey): also *)
(* for chains that mix USING or NATURAL with ON, as far as the resolver    *)
(* and the executor count to the same columns, and where no ON meets NULLs *)
(* on both sides.                                                          *)
(***************************************************************************)
JoinsAsMeant ==
  node = "join" /\ joined = Len(Sources) /\ JoinsRegular
    => SameRows(rows, OutputLayout(query.joins), Origins[joined])

(***************************************************************************)
(* WHERE keeps the rows whose named columns pass, also when a merged       *)
(* column or one that a merge has moved is named (_remap_where_positions), *)
(* when AND and OR stop early (eval_expr) and when the row is looked up in *)
(* an index instead (_exec_indexed_select); sorting loses and repeats      *)
(* none.  Where JoinsAsMeant speaks, and WHERE does not name a column that *)
(* is merged away.                                                         *)
(***************************************************************************)
FilterAsMeant ==
  node \in (IF IsAggregate(query) THEN {"aggregate"} ELSE {"sort", "limit"}) /\ Regular
    => SameRows(rows, OutputLayout(query.joins), Selected)

(***************************************************************************)
(* GROUP BY and HAVING give one row for each value of the grouped columns  *)
(* among the rows selected, with the aggregates of the rows that have it,  *)
(* NULL apart, and without GROUP BY one row in any case (_eval_aggregate,  *)
(* apply_aggregation, apply_having): where FilterAsMeant speaks.           *)
(***************************************************************************)
GroupsAsMeant ==
  node = "sort" /\ IsAggregate(query) /\ Regular
    => GroupRows(rows, query.group \o [i \in DOMAIN query.aggs |-> <<Aggregates, i>>])

(***************************************************************************)
(* ORDER BY on several keys, then OFFSET, then LIMIT: what is left is the  *)
(* stretch of the rows sorted by the keys together, equal rows in the      *)
(* order they came in (_eval_sort, _eval_limit, stable_sort,               *)
(* apply_order_limit_phase1, _apply_limit_offset).                         *)
(***************************************************************************)
OrderedThenCut ==
  node = "project" /\ ~SortedOtherwise =>
    LET all == StableSort(sorted, RowBefore)
        rest == IF query.offset > Len(all) THEN 0 ELSE Len(all) - query.offset
    IN /\ Len(rows) = IF query.limit = NoLimit THEN rest ELSE Min({query.limit, rest})
       /\ \A i \in DOMAIN rows : rows[i] = all[query.offset + i]

(***************************************************************************)
(* The SELECT list gives each item the value it names, in the order of the *)
(* list: columns by label, merged key or bare name and, of grouped rows,   *)
(* which have another order, the grouped columns and the aggregates        *)
(* (_resolve_col, _project_legacy_row, _project_aggregate_row): where      *)
(* FilterAsMeant speaks.                                                   *)
(***************************************************************************)
ColumnsAsNamed ==
  node = "done" /\ query.items # << >> /\ query.limit = NoLimit /\ query.offset = 0 /\ Regular =>
    IF IsAggregate(query) THEN GroupRows(rows, query.items)
    ELSE SameRows(rows, [i \in DOMAIN query.items |-> ColumnOf(query.items[i])], Selected)
=============================================================================
