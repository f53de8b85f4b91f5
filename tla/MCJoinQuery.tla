----------------------------- MODULE MCJoinQuery -----------------------------
(***************************************************************************)
(* Model-checking instances of JoinSemantics: chains of two joins over     *)
(* tables of up to two rows whose key takes two values or NULL, the other  *)
(* column telling the rows apart, and queries of one table of up to three  *)
(* rows with NULLs, negative numbers and texts.                            *)
(***************************************************************************)
EXTENDS JoinSemantics

Keys == {1, 2, NULL}

\* Sources whose key columns stand in different places.
Mixed == <<<<"k", "x">>, <<"y", "k", "v">>, <<"k", "z", "y">>>>

Row(s, key, i) ==
  [c \in DOMAIN Sources[s] |->
     IF Sources[s][c] = "k" THEN key ELSE IF Sources[s][c] = "y" THEN i ELSE 10 * s + i]

\* Up to so many rows.
Contents(s, max) ==
  {[i \in 1..n |-> Row(s, ks[i], i)] : n \in 0..max, ks \in [1..max -> Keys]}

SmallTables ==
  {<<a, b, c>> : a \in Contents(1, 2), b \in Contents(2, 2), c \in Contents(3, 1)}

Outer == {"INNER", "LEFT", "RIGHT", "FULL"}
Using(kind, names) == [kind |-> kind, using |-> names, natural |-> FALSE, on |-> NoOn]
Natural(kind) == [kind |-> kind, using |-> << >>, natural |-> TRUE, on |-> NoOn]
On(kind, l, op, r) == [kind |-> kind, using |-> << >>, natural |-> FALSE,
                       on |-> [op |-> op, left |-> l, right |-> r]]
Cross == Using("CROSS", << >>)

Is(ref, v) == [ref |-> ref, value |-> v, is |-> TRUE]
IsNot(ref, v) == [ref |-> ref, value |-> v, is |-> FALSE]
Asc(ref) == [ref |-> ref, desc |-> FALSE]
Desc(ref) == [ref |-> ref, desc |-> TRUE]

Ask(joins, where) ==
  [joins |-> joins, where |-> where, order |-> << >>, limit |-> NoLimit, offset |-> 0,
   items |-> << >>, group |-> << >>, aggs |-> << >>, having |-> NoHaving]

MergeChains ==
  {<<a, b>> : a \in {Using(k, <<"k">>) : k \in Outer} \cup {Natural("FULL")},
              b \in {Natural(k) : k \in Outer} \cup {Using("LEFT", <<"k">>)}}

UsingQueries ==
  {Ask(js, w) : js \in MergeChains,
                w \in {<< >>, <<<<Is(<<1, "k">>, 1)>>, <<IsNot(<<2, "y">>, 1), Is(<<3, "z">>, 31)>>>>}}
    \cup {[Ask(<<Using(k, <<"k">>), Natural("FULL")>>, << >>) EXCEPT
             !.items = <<<<3, "k">>, <<0, "y">>, <<0, "k">>>>] : k \in Outer}
    \cup {Ask(<<Using("LEFT", <<"k">>), Natural("LEFT")>>, <<<<Is(<<2, "k">>, 1)>>>>)}

\* ON before a merge on a column of its own and on one of both tables, a merge
\* before an ON that names a column in place, moved or merged away.
MixedQueries ==
  {Ask(js, w) :
     js \in {<<On(k, <<1, "k">>, "=", <<2, "k">>), b>> :
               k \in {"INNER", "LEFT", "FULL"},
               b \in {Using(l, <<"y">>) : l \in Outer} \cup {Using("LEFT", <<"k">>)}}
            \cup {<<Cross, Using("FULL", <<"y">>)>>, <<Cross, Natural("INNER")>>}
            \cup {<<Using(k, <<"k">>), On(l, ref, "=", <<3, "y">>)>> :
                    k \in {"INNER", "FULL"}, l \in {"LEFT", "RIGHT"},
                    ref \in {<<1, "k">>, <<2, "y">>, <<2, "k">>}}
            \cup {<<Using("RIGHT", <<"k">>), Cross>>},
     w \in {<< >>, <<<<IsNot(<<2, "y">>, 1)>>>>}}
    \cup {[Ask(<<On("LEFT", <<1, "k">>, "=", <<2, "k">>), Using("FULL", <<"y">>)>>, << >>) EXCEPT
             !.items = <<<<0, "y">>, <<2, "k">>, <<0, "z">>>>]}

OnChains ==
  {<<a, b>> : a \in {On(k, <<1, "k">>, "=", <<2, "k">>) : k \in Outer} \cup {Cross},
              b \in {On(k, <<2, "k">>, "=", <<0, "z">>) : k \in {"INNER"}}
                      \cup {On(k, <<1, "k">>, "=", <<3, "k">>) : k \in Outer} \cup {Cross}}
    \cup {<<On("LEFT", <<1, "k">>, "<", <<2, "k">>), Using("LEFT", <<"k", "w">>)>>,
          <<On("LEFT", <<1, "k">>, "<", <<2, "k">>), On("LEFT", <<2, "k">>, ">", <<3, "k">>)>>}

OnQueries ==
  {Ask(js, w) : js \in OnChains, w \in {<< >>, <<<<IsNot(<<2, "k">>, 1)>>>>}}
    \cup {[Ask(<<On("FULL", <<1, "k">>, "=", <<2, "k">>), Cross>>, << >>) EXCEPT
             !.order = o, !.limit = n, !.offset = m, !.items = <<<<1, "x">>, <<0, "z">>>>] :
            o \in {<<Desc(<<1, "k">>), Asc(<<2, "y">>)>>, <<Asc(<<2, "k">>), Desc(<<1, "k">>)>>},
            n \in {NoLimit, 0, 2}, m \in {0, 1}}
    \cup {[Ask(<<Cross, Cross>>, << >>) EXCEPT !.items = <<<<0, "k">>>>]}

Agg(func, arg) == [func |-> func, arg |-> arg, alias |-> TRUE]
Count == Agg(Star, <<0, Star>>)
Having(ref, op, v) == [ref |-> ref, op |-> op, value |-> v]

\* GROUP BY over outer joins, on a merged key and on columns of both sides.
GroupQueries ==
  {[Ask(<<j, Natural("LEFT")>>, << >>) EXCEPT
      !.group = g, !.aggs = as, !.having = end[1], !.order = end[2]] :
     j \in {Using(k, <<"k">>) : k \in {"INNER", "FULL"}},
     g \in {<< >>, <<<<1, "k">>>>, <<<<2, "y">>, <<1, "k">>>>},
     as \in {<<Count, Agg("COUNT", <<2, "y">>)>>, <<Agg("SUM", <<2, "y">>), Agg("MAX", <<1, "x">>)>>},
     end \in {<<NoHaving, <<Desc(<<Aggregates, 2>>), Asc(<<1, "k">>)>>>>,
              <<Having(<<Aggregates, 1>>, "=", 2), << >>>>,
              <<Having(<<Aggregates, 1>>, ">", 1), <<Desc(<<Aggregates, 2>>)>>>>}}
    \cup {[Ask(<<Cross, Cross>>, << >>) EXCEPT
             !.group = <<<<1, "k">>>>, !.aggs = <<Agg("MIN", <<2, "y">>)>>,
             !.having = Having(ref, "=", 1), !.items = <<<<1, "k">>, <<Aggregates, 1>>>>] :
            ref \in {<<1, "k">>, <<2, "k">>}}

-----------------------------------------------------------------------------
(* Queries of one table: k is a number, x a text with an index. *)

OneTable ==
  {<<[i \in 1..n |-> <<ks[i], xs[i]>>], << >>, << >>>> :
     n \in 0..3, ks \in [1..3 -> {-1, 2, NULL}], xs \in {<<12, 11, 13>>, <<11, NULL, 12>>}}

k == <<1, "k">>
x == <<1, "x">>
unknown == <<1, "w">>

ScanQueries ==
  {[Ask(<< >>, w) EXCEPT !.order = o, !.limit = cut[1], !.offset = cut[2], !.items = is] :
     w \in {<< >>, <<<<Is(x, 12)>>>>, <<<<Is(k, 2), IsNot(x, 11)>>, <<Is(x, 13)>>>>},
     o \in {<< >>, <<Desc(x)>>, <<Desc(k), Asc(x)>>},
     cut \in {<<NoLimit, 0>>, <<1, 1>>, <<0, 2>>, <<-1, 0>>},
     is \in {<< >>, <<x, k>>}}
    \cup {Ask(<< >>, <<<<IsNot(k, 2), test>>>>) : test \in {Is(unknown, 2), IsNot(x, 2)}}
    \cup {Ask(<< >>, <<<<Is(x, 2)>>>>), [Ask(<< >>, << >>) EXCEPT !.order = <<Asc(unknown)>>]}

First == <<Aggregates, 1>>
Second == <<Aggregates, 2>>

GroupedQueries ==
  {[Ask(<< >>, w) EXCEPT !.group = g, !.aggs = as, !.having = h, !.order = o,
                         !.items = <<Second, First>> \o g, !.limit = n] :
     w \in {<< >>, <<<<IsNot(x, 11)>>>>},
     g \in {<< >>, <<k>>, <<x>>},
     as \in {<<Count, Agg("MIN", x)>>, <<Agg("SUM", k), Agg("AVG", k)>>,
             <<Agg("COUNT", k), Agg("MAX", k)>>},
     h \in {NoHaving, Having(First, ">", 0), Having(k, "=", 2), Having(<<Aggregates, 3>>, "=", 1)},
     o \in {<< >>, <<Desc(First), Asc(k)>>, <<Asc(x)>>},
     n \in {NoLimit, 1}}
    \cup {[Ask(<< >>, << >>) EXCEPT !.group = g, !.aggs = <<Agg("SUM", a)>>, !.items = is] :
             g \in {<<unknown>>, <<k>>}, a \in {k, unknown}, is \in {<<First, x>>, <<k, First>>}}
    \cup {[Ask(<< >>, << >>) EXCEPT !.group = <<k>>]}

Asked ==
  {[queries |-> UsingQueries \cup OnQueries \cup MixedQueries \cup GroupQueries, tables |-> SmallTables],
   [queries |-> ScanQueries \cup GroupedQueries, tables |-> OneTable]}
=============================================================================
