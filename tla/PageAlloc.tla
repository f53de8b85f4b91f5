------------------------------ MODULE PageAlloc -----------------------------
(***************************************************************************)
(* Who owns a page of the file: the free list, a table's data or a B+tree  *)
(* (pager.py, executor.py, _executor_drop.py, _index_pager.py).            *)
(*                                                                         *)
(* The free list is threaded through the free pages from a head in page 0. *)
(* alloc_page pops it in the main file at once, inside a transaction or    *)
(* not; DROP pushes through the transaction's page buffer, which COMMIT    *)
(* writes over the main file.  Only the bytes the free list needs are      *)
(* modelled: page 0 is the head and any other page its link, or Bytes.     *)
(***************************************************************************)
EXTENDS Naturals, Sequences, FiniteSets

CONSTANTS
  Tables,        \* table names
  Indexed,       \* those with an indexed column
  Growing,       \* those that may fill their pages and need another
  Droppable,     \* those that may be dropped
  Explicit,      \* TRUE: BEGIN, COMMIT and ROLLBACK are used
  MixedTxns,     \* TRUE: a transaction may allocate pages after a DROP
  Interleaved,   \* TRUE: a table may grow past the pages of other tables
  Reopens,       \* TRUE: the file is closed and opened again
  Failures,      \* TRUE: statements may raise after their allocations
  MaxPages,      \* bound: the largest page id
  MaxWrappers    \* bound: index pagers created in a session

ASSUME PageAllocAssumption ==
  /\ Indexed \subseteq Tables /\ Growing \subseteq Tables /\ Droppable \subseteq Tables
  /\ {Explicit, MixedTxns, Interleaved, Reopens, Failures} \subseteq BOOLEAN
  /\ IsFiniteSet(Tables)
  /\ MaxPages \in Nat \ {0} /\ MaxWrappers \in Nat

VARIABLES
  main,          \* page id -> what the main file holds there
  nextId,        \* _next_page_id
  buf,           \* _page_buffer
  mem,           \* what a snapshot copies: catalogue, page lists, indexes
  wrappers,      \* _index_pagers: the pages each index pager has allocated
  open,          \* an explicit transaction is open
  snap           \* mem at its BEGIN; NoTables outside one

vars == <<main, nextId, buf, mem, wrappers, open, snap>>

Pages == 2..MaxPages
Bytes == MaxPages + 1       \* contents that are no link of the free list
NoTable == [root |-> 0, next |-> 0]
NoWrapper == 0

NoTables ==
  [cat   |-> [t \in Tables |-> NoTable],
   data  |-> [t \in Tables |-> << >>],
   nodes |-> [t \in Tables |-> {}],
   ix    |-> [t \in Tables |-> NoWrapper]]

Exists(m, t) == m.cat[t] # NoTable

Overlay(b, f) == [p \in DOMAIN f |-> IF p \in DOMAIN b THEN b[p] ELSE f[p]]

Put(b, p, c) == [q \in (DOMAIN b) \cup {p} |-> IF q = p THEN c ELSE b[q]]

\* The pages a running statement sees and has changed so far.
Begun == [main |-> main, nextId |-> nextId, buf |-> buf,
          mem |-> mem, wrappers |-> wrappers]

Read(st, p) == IF p \in DOMAIN st.buf THEN st.buf[p] ELSE st.main[p]

Reserved(ws) == UNION {ws[i] : i \in DOMAIN ws}
-----------------------------------------------------------------------------
(* The allocator. *)

\* The page alloc_page returns.
Allocated(st) == IF st.main[0] # 0 THEN st.main[0] ELSE st.nextId

CanAlloc(st) ==
  /\ Allocated(st) \in Pages
  /\ open /\ 0 \in DOMAIN st.buf => MixedTxns

\* Mutant: the head stays on the page handed out.
AllocKeepsHead(st) ==
  IF st.main[0] # 0
  THEN st
  ELSE [st EXCEPT !.nextId = @ + 1]

\* Pops the free list and clears the page, or extends the file.
AllocPage(st) ==
  IF st.main[0] # 0
  THEN [st EXCEPT !.main[0] = st.main[st.main[0]], !.main[st.main[0]] = 0]
  ELSE [st EXCEPT !.nextId = @ + 1]

\* _txn_write_page: every statement runs in a transaction.
TxnWrite(st, p, c) == [st EXCEPT !.buf = Put(@, p, c)]

TxnFree(st, p) == TxnWrite(TxnWrite(st, p, Read(st, 0)), 0, p)

\* Frees the pages of a set in ascending order.
TxnFreeAll(st, S) ==
  LET freed[i \in 0..MaxPages] ==
        IF i = 0 THEN st
        ELSE IF i \in S THEN TxnFree(freed[i - 1], i) ELSE freed[i - 1]
  IN freed[MaxPages]
-----------------------------------------------------------------------------
(* Statements, as functions of the state they run in. *)

CreateTable(st, t) ==
  LET root == Allocated(st)
      s1   == TxnWrite(AllocPage(st), root, Bytes)
      s2   == [s1 EXCEPT !.mem.cat[t]  = [root |-> root, next |-> root],
                         !.mem.data[t] = <<root>>,
                         !.mem.nodes[t] = {}]
  IN IF t \in Indexed
     THEN [s2 EXCEPT !.wrappers = Append(@, {}),
                     !.mem.ix[t] = Len(s2.wrappers) + 1]
     ELSE s2

\* Mutant: the catalogue is not told of the new page.
ExtendForgetsNext(st, t) ==
  LET pid == Allocated(st)
  IN [TxnWrite(AllocPage(st), pid, Bytes) EXCEPT !.mem.data[t] = Append(@, pid)]

\* A full chain: a new data page at its end.
ExtendChain(st, t) ==
  LET pid == Allocated(st)
      s1  == TxnWrite(AllocPage(st), pid, Bytes)
  IN [s1 EXCEPT !.mem.data[t] = Append(@, pid), !.mem.cat[t].next = pid]

\* The root of an empty index, or a node that a split makes.
ExtendIndex(st, t) ==
  LET pid == Allocated(st)
      s1  == TxnWrite(AllocPage(st), pid, Bytes)
  IN [s1 EXCEPT !.wrappers[st.mem.ix[t]] = @ \cup {pid},
                !.mem.nodes[t] = @ \cup {pid}]

\* The catalogue's range without the pages of index pagers.
CollectTableDataPages(st, t) ==
  (st.mem.cat[t].root..st.mem.cat[t].next) \ Reserved(st.wrappers)

\* Mutant: the index pager still lists the pages it has freed.
DropKeepsTracking(st, t) ==
  LET ix == st.mem.ix[t]
      s1 == TxnFreeAll(st, CollectTableDataPages(st, t))
      s2 == IF ix = NoWrapper THEN s1 ELSE TxnFreeAll(s1, st.wrappers[ix])
  IN [s2 EXCEPT !.mem.cat[t] = NoTable, !.mem.data[t] = << >>,
                !.mem.nodes[t] = {}, !.mem.ix[t] = NoWrapper]

DropTable(st, t) ==
  LET ix == st.mem.ix[t]
      s1 == TxnFreeAll(st, CollectTableDataPages(st, t))
      s2 == IF ix = NoWrapper THEN s1
            ELSE [TxnFreeAll(s1, st.wrappers[ix]) EXCEPT !.wrappers[ix] = {}]
  IN [s2 EXCEPT !.mem.cat[t] = NoTable, !.mem.data[t] = << >>,
                !.mem.nodes[t] = {}, !.mem.ix[t] = NoWrapper]
-----------------------------------------------------------------------------
(* How a statement ends. *)

\* Inside BEGIN the effects stay in the buffer; else they are committed.
Succeed(st) ==
  /\ nextId' = st.nextId
  /\ mem' = st.mem
  /\ wrappers' = st.wrappers
  /\ IF open THEN main' = st.main /\ buf' = st.buf
             ELSE main' = Overlay(st.buf, st.main) /\ buf' = << >>
  /\ UNCHANGED <<open, snap>>

\* The statement raised: the transaction is rolled back, and what the pager
\* allocated and the index pagers recorded stays.
Fail(st) ==
  /\ Failures
  /\ main' = st.main
  /\ nextId' = st.nextId
  /\ wrappers' = st.wrappers
  /\ buf' = << >>
  /\ mem' = IF open THEN snap ELSE mem
  /\ open' = FALSE
  /\ snap' = NoTables

Finish(st) == Succeed(st) \/ Fail(st)

Create(t) ==
  /\ ~Exists(mem, t)
  /\ CanAlloc(Begun)
  /\ t \in Indexed => Len(wrappers) < MaxWrappers
  /\ Finish(CreateTable(Begun, t))

\* _alloc_data_page pops a page that an index pager has recorded, pushes it
\* back and pops it again, for ever.
MeetsReserved == Allocated(Begun) \in Reserved(wrappers)

\* The free list of the main file, as the pages a walk from the head meets.
FreeWalk ==
  LET walk[i \in 1..MaxPages] ==
        IF i = 1 THEN main[0]
        ELSE IF walk[i - 1] \in Pages THEN main[walk[i - 1]] ELSE walk[i - 1]
  IN walk

FreePages == {FreeWalk[i] : i \in DOMAIN FreeWalk} \ {0}

DataPages(t) == {mem.data[t][i] : i \in DOMAIN mem.data[t]}

\* The table grows upwards, past no free page, no page of another table and
\* none that another index pager has recorded.
Contiguous(t, pid) ==
  LET range  == mem.cat[t].root..pid
      others == {wrappers[i] : i \in DOMAIN wrappers \ {mem.ix[t]}}
                  \cup {DataPages(u) \cup mem.nodes[u] : u \in Tables \ {t}}
  IN /\ pid > mem.cat[t].next
     /\ range \cap FreePages \subseteq {pid}
     /\ range \cap UNION others = {}

InsertFits(t) ==
  /\ Exists(mem, t)
  /\ mem.data[t] # << >>
  /\ t \in Indexed
  /\ CanAlloc(Begun)
  /\ Finish(ExtendIndex(Begun, t))

InsertExtends(t) ==
  /\ Exists(mem, t)
  /\ t \in Growing
  /\ CanAlloc(Begun)
  /\ Interleaved \/ Contiguous(t, Allocated(Begun))
  /\ ~MeetsReserved
  /\ LET st == ExtendChain(Begun, t)
     IN \/ Finish(st)
        \/ t \in Indexed /\ CanAlloc(st) /\ Finish(ExtendIndex(st, t))

Drop(t) ==
  /\ t \in Droppable
  /\ Exists(mem, t)
  /\ Finish(DropTable(Begun, t))

Begin ==
  /\ Explicit
  /\ ~open
  /\ open' = TRUE
  /\ snap' = mem
  /\ UNCHANGED <<main, nextId, buf, mem, wrappers>>

Commit ==
  /\ open
  /\ open' = FALSE
  /\ main' = Overlay(buf, main)
  /\ buf' = << >>
  /\ snap' = NoTables
  /\ UNCHANGED <<nextId, mem, wrappers>>

Rollback ==
  /\ open
  /\ open' = FALSE
  /\ buf' = << >>
  /\ mem' = snap
  /\ snap' = NoTables
  /\ UNCHANGED <<main, nextId, wrappers>>

Ascending(a, b) == [i \in 1..(b + 1 - a) |-> a + i - 1]

\* _rebuild_data_pages_from_chain: the index pagers are new and empty.
DataPagesFromChain(c) ==
  IF c.root = 0 \/ c.next < c.root THEN << >> ELSE Ascending(c.root, c.next)

\* close, and Database(path) again: new indexes, new index pagers.
Reopen ==
  LET live == {t \in Indexed : Exists(mem, t)}
      number == CHOOSE f \in [live -> 1..Cardinality(live)] :
                  \A t, u \in live : f[t] = f[u] => t = u
  IN /\ Reopens /\ ~open
     /\ Cardinality(live) <= MaxWrappers
     /\ wrappers' = [i \in 1..Cardinality(live) |-> {}]
     /\ mem' = [cat   |-> mem.cat,
                data  |-> [t \in Tables |-> DataPagesFromChain(mem.cat[t])],
                nodes |-> [t \in Tables |-> {}],
                ix    |-> [t \in Tables |->
                             IF t \in live THEN number[t] ELSE NoWrapper]]
     /\ UNCHANGED <<main, nextId, buf, open, snap>>
-----------------------------------------------------------------------------
Init ==
  /\ main = [p \in 0..MaxPages |-> 0]
  /\ nextId = 2
  /\ buf = << >>
  /\ mem = NoTables
  /\ wrappers = << >>
  /\ open = FALSE
  /\ snap = NoTables

Next ==
  \/ \E t \in Tables : \/ Create(t) \/ Drop(t)
                       \/ InsertFits(t) \/ InsertExtends(t)
  \/ Begin \/ Commit \/ Rollback
  \/ Reopen

Spec == Init /\ [][Next]_vars
-----------------------------------------------------------------------------
(***************************************************************************)
(* Between transactions a page has one owner: the data pages of the        *)
(* tables, the nodes of the indexes and the free list are disjoint, and    *)
(* the free list ends (alloc_page, _txn_free_page and exec_drop_table      *)
(* through any creations, drops, failed statements and reopens).           *)
(***************************************************************************)
OneOwner ==
  ~open =>
    /\ FreePages \subseteq Pages
    /\ FreeWalk[MaxPages] = 0
    /\ \A t \in Tables :
         /\ (DataPages(t) \cup mem.nodes[t]) \cap FreePages = {}
         /\ DataPages(t) \cap mem.nodes[t] = {}
         /\ \A u \in Tables \ {t} :
              (DataPages(t) \cup mem.nodes[t])
                \cap (DataPages(u) \cup mem.nodes[u]) = {}

(***************************************************************************)
(* Reopening finds the table's pages: every data page of a table lies in   *)
(* the range that _rebuild_data_pages_from_chain walks, and no data page   *)
(* of another table does.                                                  *)
(***************************************************************************)
ReopenFindsPages ==
  \A t \in Tables :
    LET range == mem.cat[t].root..mem.cat[t].next
    IN /\ DataPages(t) \subseteq range
       /\ \A u \in Tables \ {t} : Exists(mem, t) => DataPages(u) \cap range = {}

(***************************************************************************)
(* An INSERT that needs a page gets one: _alloc_data_page never pops a     *)
(* page that an index pager has recorded, which it would push back and pop *)
(* again for ever.                                                         *)
(***************************************************************************)
AllocDataPageEnds == ~MeetsReserved
=============================================================================
