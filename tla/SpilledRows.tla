----------------------------- MODULE SpilledRows ----------------------------
(***************************************************************************)
(* Rows longer than a page (executor.py, _executor_drop.py).  The first    *)
(* chunk of such a row is a slot of a data page, flagged SPILL_START; the  *)
(* others are overflow pages, linked from the header of the data page.     *)
(* The pages are those of PageLayout, where a row's length is the length   *)
(* of what its slot holds.  A statement changes one row and is one step;   *)
(* TableStore has the statements that change many.                         *)
(***************************************************************************)
EXTENDS PagerPages

CONSTANTS
  Tables,        \* table names
  FullLen,       \* the encoded lengths of the rows
  MaxRows        \* bound: the rows of all tables together

ChunkSize == MaxInline - SlotSize

Spills(r) == FullLen[r] > MaxInline

ASSUME SpilledRowsAssumption ==
  /\ FullLen \in [Rows -> Nat \ {0}]
  /\ \A r \in Rows : RowLen[r] = IF Spills(r) THEN ChunkSize ELSE FullLen[r]
  /\ MaxSlots # 0 /\ ChunkSize \in Nat \ {0}
  /\ MaxRows \in Nat

VARIABLES cat,      \* the catalogue's root and next page of each table
          data,     \* _table_data_pages
          stored,   \* ghost: how often the statements put each row
          strays    \* ghost: what no property answers for (Strays, Reopen)

rowVars == <<cat, data, stored, strays>>

NoTable == [root |-> 0, next |-> 0]

Begun == [file |-> file, head |-> head, nextId |-> nextId,
          cat |-> cat, data |-> data]

Exists(t) == cat[t] # NoTable
-----------------------------------------------------------------------------
(* Reading. *)

Pad == <<"pad", 0>>

\* The rest of a row in chunks, each filled up to the end of its page.
RestChunks(r) == (FullLen[r] - 1) \div ChunkSize

Chunk(r, k) ==
  [j \in 1..(PageSize - HeaderSize) |->
     IF j <= ChunkSize /\ k * ChunkSize + j <= FullLen[r]
     THEN <<r, k * ChunkSize + j>> ELSE Pad]

ChainWalk(f, pid) == Walk(f[pid].chain, [p \in PageIds |-> f[p].chain])

ChainPages(f, pid) == OnWalk(ChainWalk(f, pid))

\* A walk that does not end at NULL_PAGE_ID never returns a row.
ReadOverflowChain(f, pid) ==
  LET walk == ChainWalk(f, pid)
      hops == SelectSeq(walk, LAMBDA p : p \in PageIds)
  IN IF walk[MaxPages] # NullPage THEN Corrupt
     ELSE FlattenSeq([i \in DOMAIN hops |-> f[hops[i]].body])

ReadSlotRowBytes(f, pid, sid) ==
  Get(f[pid].page, sid)
    \o IF sid \in f[pid].spill THEN ReadOverflowChain(f, pid) ELSE << >>

\* What decode_row finds at the front are the first n bytes of r.
StartsAs(bytes, r, n) ==
  /\ Len(bytes) >= n
  /\ \A j \in 1..n : bytes[j] = <<r, j>>
-----------------------------------------------------------------------------
(* Placing a row. *)

\* to_bytes: the page with a new row; the bytes of anything else are gone.
PutRow(st, pid, r) ==
  LET was   == st.file[pid]
      sid   == InsertSlot(was.page, r)
      image == [was EXCEPT !.type = 1, !.link = 0, !.body = << >>,
                           !.page = PageInsert(@, r), !.spill = @ \ {sid}]
  IN [st EXCEPT !.file[pid] = image]

PagesFor(st, t, r) == {i \in DOMAIN st.data[t] : CanInsert(st.file[st.data[t][i]].page, r)}

PageFor(st, t, r) == st.data[t][Min(PagesFor(st, t, r))]

ExtendChain(st, t) ==
  [AllocPage(st) EXCEPT !.data[t] = Append(@, Fresh(st)),
                        !.cat[t].next = Fresh(st)]

\* The pages with one that takes the row among those of the table.
WithRoom(st, t, r) == IF PagesFor(st, t, r) # {} THEN st ELSE ExtendChain(st, t)

InsertInlineOnly(st, t, r) ==
  LET roomy == WithRoom(st, t, r)
  IN PutRow(roomy, PageFor(roomy, t, r), r)

\* Mutant: the last page keeps the placeholder for its successor.
AddChunkOpenEnded(acc, r, k) ==
  LET pid == Fresh(acc.st)
  IN [prev |-> pid,
      st   |-> [AllocPage(acc.st) EXCEPT
                  !.file[pid] = [Zeroed EXCEPT !.type = 2, !.body = Chunk(r, k)],
                  !.file[acc.prev].chain = pid]]

\* One overflow page behind page acc.prev.
AddChunk(acc, r, k) ==
  LET pid == Fresh(acc.st)
      tail == IF k = RestChunks(r) THEN NullPage ELSE 0
  IN [prev |-> pid,
      st   |-> [AllocPage(acc.st) EXCEPT
                  !.file[pid] = [Zeroed EXCEPT !.type = 2, !.chain = tail,
                                               !.body = Chunk(r, k)],
                  !.file[acc.prev].chain = pid]]

InsertWithOverflow(st, t, r) ==
  LET roomy == WithRoom(st, t, r)
      pid   == PageFor(roomy, t, r)
      sid   == InsertSlot(roomy.file[pid].page, r)
      s1    == [PutRow(roomy, pid, r) EXCEPT !.file[pid].spill = @ \cup {sid}]
  IN FoldLeft(LAMBDA acc, k : AddChunk(acc, r, k), [prev |-> pid, st |-> s1],
              [k \in 1..RestChunks(r) |-> k]).st

InsertRowIntoChain(st, t, r) ==
  IF Spills(r) THEN InsertWithOverflow(st, t, r) ELSE InsertInlineOnly(st, t, r)
-----------------------------------------------------------------------------
(* Removing a row. *)

\* RuntimeError: "overflow chain corruption".
ChainBroken(st, pid) ==
  \/ ChainWalk(st.file, pid)[MaxPages] # NullPage
  \/ \E p \in ChainPages(st.file, pid) : st.file[p].type # 2

\* Mutant: the pages go to the free list, and the data page still names them.
FreeChainToList(st, pid) ==
  FoldLeft(FreePage, st,
           SelectSeq(ChainWalk(st.file, pid), LAMBDA p : p \in PageIds))

\* The pages lose their type and go to no list.
FreeOverflowChain(st, pid) ==
  [st EXCEPT !.file = [p \in DOMAIN @ |->
     IF p \in ChainPages(st.file, pid) THEN [@[p] EXCEPT !.type = 0] ELSE @[p]]]

DeleteSlot(st, pid, sid) ==
  LET s1 == IF sid \in st.file[pid].spill THEN FreeOverflowChain(st, pid) ELSE st
      image == [s1.file[pid] EXCEPT !.page = PageDelete(@, sid), !.spill = @ \ {sid}]
  IN [s1 EXCEPT !.file[pid] = image]

\* _apply_page_updates for one row, and the insert it may have queued.
UpdateSlot(st, t, pid, sid, r) ==
  LET gone  == DeleteSlot(st, pid, sid)
      image == [st.file[pid] EXCEPT !.page = PageUpdate(@, sid, r), !.spill = @ \ {sid}]
  IN IF FullLen[r] <= st.file[pid].page.slots[sid].len
     THEN [st EXCEPT !.file[pid] = image]
     ELSE IF ~Spills(r) /\ CanInsert(gone.file[pid].page, r)
     THEN PutRow(gone, pid, r)
     ELSE InsertRowIntoChain(gone, t, r)

\* Mutant: only the data pages of the range.
CollectWithoutChains(st, t) ==
  [i \in 1..(st.cat[t].next + 1 - st.cat[t].root) |-> st.cat[t].root + i - 1]

\* The chain of a page, as far as it leads to overflow pages.
Overflows(st, pid) ==
  LET walk == ChainWalk(st.file, pid)
      ends == {i \in DOMAIN walk : walk[i] \notin PageIds \/ st.file[walk[i]].type # 2}
  IN SubSeq(walk, 1, IF ends = {} THEN MaxPages ELSE Min(ends) - 1)

Once(seen, p) == IF p \in ToSet(seen) THEN seen ELSE Append(seen, p)

Visit(st, seen, pid) ==
  IF pid \in ToSet(seen) THEN seen
  ELSE FoldLeft(Once, Append(seen, pid), Overflows(st, pid))

\* The pages of a range of page ids, each followed by its overflow chain, no
\* page twice.
CollectTableDataPages(st, t) ==
  FoldLeft(LAMBDA seen, pid : Visit(st, seen, pid), << >>,
           [i \in 1..(st.cat[t].next + 1 - st.cat[t].root) |-> st.cat[t].root + i - 1])
-----------------------------------------------------------------------------
(* Statements. *)

\* Pages that a data page of t leads to, its own included.
Reach(st, t) ==
  UNION {{st.data[t][i]} \cup ChainPages(st.file, st.data[t][i]) :
           i \in DOMAIN st.data[t]}

PageRange(st, t) == IF st.cat[t] = NoTable THEN {} ELSE st.cat[t].root..st.cat[t].next

\* Ranges that hold no page of the free list and none of another table.
RangesApart(st) ==
  \A t \in Tables :
    /\ st.cat[t].root <= st.cat[t].next
    /\ PageRange(st, t) \cap FreeList(st) = {}
    /\ \A u \in Tables \ {t} : PageRange(st, t) \cap Reach(st, u) = {}

\* What a statement may leave behind: a page whose image is not the page that
\* was written, and a range that holds pages of others.  Nothing checks it.
Strays(st) ==
  {"overfull" : p \in {q \in PageIds : ~Fits(st.file[q].page)}}
    \cup {x \in {"mixed"} : ~RangesApart(st)}

Commit(st) ==
  /\ file' = st.file /\ head' = st.head /\ nextId' = st.nextId
  /\ cat' = st.cat /\ data' = st.data
  /\ strays' = strays \cup Strays(st)

\* The statement raised after its allocations (an index that cannot be
\* written): the pages popped from the free list are cleared and lost.
Fail(st) ==
  /\ file' = [p \in DOMAIN file |->
                IF p \in FreeList(Begun) \ FreeList(st) THEN Zeroed ELSE file[p]]
  /\ head' = st.head /\ nextId' = st.nextId
  /\ UNCHANGED rowVars

Total == FoldSet(LAMBDA x, n : n + stored[x[1]][x[2]], 0, Tables \X Rows)

Create(t) ==
  LET root == Fresh(Begun)
  IN /\ ~Exists(t)
     /\ RoomFor(Begun, 1)
     /\ Commit([AllocPage(Begun) EXCEPT
                  !.file[root] = [Zeroed EXCEPT !.type = 1, !.chain = NullPage],
                  !.cat[t] = [root |-> root, next |-> root],
                  !.data[t] = <<root>>])
     /\ UNCHANGED stored

Insert(t, r) ==
  LET st == InsertRowIntoChain(Begun, t, r)
  IN /\ Exists(t)
     /\ Total < MaxRows
     /\ RoomFor(Begun, 1 + RestChunks(r))
     /\ \/ Commit(st) /\ stored' = [stored EXCEPT ![t][r] = @ + 1]
        \/ Fail(st)

\* The row that a slot holds the start of.
RowIn(pid, sid) == Get(file[pid].page, sid)[1][1]

Slots(t) ==
  UNION {{data[t][i]} \X Live(file[data[t][i]].page) : i \in DOMAIN data[t]}

Delete(t, ref) ==
  LET pid == ref[1]  sid == ref[2]
  IN /\ sid \in file[pid].spill => ~ChainBroken(Begun, pid)
     /\ Commit(DeleteSlot(Begun, pid, sid))
     /\ stored' = [stored EXCEPT ![t][RowIn(pid, sid)] = @ - 1]

Update(t, ref, r) ==
  LET pid == ref[1]  sid == ref[2]
      st  == UpdateSlot(Begun, t, pid, sid, r)
  IN /\ RoomFor(Begun, 1 + RestChunks(r))
     /\ sid \in file[pid].spill => ~ChainBroken(Begun, pid)
     /\ \/ /\ Commit(st)
           /\ stored' = [stored EXCEPT ![t][RowIn(pid, sid)] = @ - 1, ![t][r] = @ + 1]
        \/ Fail(st)

Drop(t) ==
  /\ Exists(t)
  /\ LET st == FoldLeft(FreePage, Begun, CollectTableDataPages(Begun, t))
     IN Commit([st EXCEPT !.cat[t] = NoTable, !.data[t] = << >>])
  /\ stored' = [stored EXCEPT ![t] = [r \in Rows |-> 0]]

\* Closing and opening: every page of the range is taken for a data page, the
\* overflow pages among them too.
Reopen ==
  /\ data' = [t \in Tables |->
                [i \in 1..Cardinality(PageRange(Begun, t)) |-> cat[t].root + i - 1]]
  /\ strays' = strays \cup
       {"reopened" : t \in {u \in Tables :
                              \E p \in PageRange(Begun, u) : file[p].type = 2}}
  /\ UNCHANGED <<file, head, nextId, cat, stored>>

RowsInit ==
  /\ cat = [t \in Tables |-> NoTable]
  /\ data = [t \in Tables |-> << >>]
  /\ stored = [t \in Tables |-> [r \in Rows |-> 0]]
  /\ strays = {}

\* Pages and ranges are what the code takes them for.
Orderly == strays \subseteq {"reopened"}

\* Bound: what comes after a statement that left anything else is not followed.
RowsNext ==
  /\ Orderly
  /\ \/ \E t \in Tables : \/ Create(t) \/ Drop(t)
                          \/ \E r \in Rows : Insert(t, r)
                          \/ \E ref \in Slots(t) : Delete(t, ref)
                          \/ \E ref \in Slots(t), r \in Rows : Update(t, ref, r)
     \/ Reopen
-----------------------------------------------------------------------------
\* _read_overflow_chain joins whole pages, so that the padding of a chunk's
\* page comes before the next chunk: from the third on a row is not read back.
ReadBack(r) == Min({FullLen[r], 2 * ChunkSize})

(***************************************************************************)
(* A scan of a table finds exactly the rows its statements put there, and  *)
(* reads back a row of up to two chunks whole, of a longer one the first   *)
(* two: the second chunk is found through the header of the data page,     *)
(* whatever statements that keep pages and ranges in order, and reopens    *)
(* that take no overflow page for a data page, have done to the rows       *)
(* around it (_insert_with_overflow and _read_overflow_chain).             *)
(***************************************************************************)
RowsWhole ==
  strays = {} =>
    \A t \in Tables :
      /\ \A r \in Rows :
           Cardinality({ref \in Slots(t) :
             StartsAs(ReadSlotRowBytes(file, ref[1], ref[2]), r, ReadBack(r))}) = stored[t][r]
      /\ Cardinality(Slots(t)) =
           FoldSet(LAMBDA r, n : n + stored[t][r], 0, Rows)

\* The pages t needs: its data pages and the chains of its rows.
Needed(t) ==
  {data[t][i] : i \in DOMAIN data[t]}
    \cup UNION {ChainPages(file, ref[1]) :
                  ref \in {x \in Slots(t) : x[2] \in file[x[1]].spill}}

(***************************************************************************)
(* A page is needed by one table at most, and none that is needed is on    *)
(* the free list, from which alloc_page would hand it out again: as long   *)
(* as the statements keep pages and ranges in order.                       *)
(***************************************************************************)
ChainsApart ==
  Orderly =>
    /\ FreeWalk(Begun)[MaxPages] = 0
    /\ \A t \in Tables :
         /\ Needed(t) \cap FreeList(Begun) = {}
         /\ \A u \in Tables \ {t} : Needed(t) \cap Needed(u) = {}

(***************************************************************************)
(* DROP TABLE returns every page the table needed, the overflow chains     *)
(* included, to the free list (collect_table_data_pages): where RowsWhole  *)
(* speaks.                                                                 *)
(***************************************************************************)
DropReturnsPages ==
  [][\A t \in Tables : strays' = {} /\ Exists(t) /\ ~Exists(t)' =>
       Needed(t) \subseteq FreeList(Begun)']_<<pagerVars, rowVars>>
=============================================================================
