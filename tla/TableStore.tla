----------------------------- MODULE TableStore -----------------------------
(***************************************************************************)
(* INSERT, DELETE and UPDATE on one table and its indexes (executor.py),   *)
(* over the slotted pages of PageLayout.  The indexes are the maps that    *)
(* BTree shows B+trees to be.  A statement runs alone and one that raises  *)
(* is rolled back (WalStore), so a statement is one step.                  *)
(***************************************************************************)
EXTENDS Statements, PageLayout, SequencesExt

CONSTANTS Values,      \* the literals, Null not among them
          Batches,     \* the VALUES lists of INSERT statements
          Wheres,      \* the WHERE clauses
          Assignments, \* the SET lists
          MaxPages     \* bound on the data pages

\* Rows fit a page, also after an UPDATE: longer ones are SpilledRows.
ASSUME TableStoreAssumption ==
  /\ IsFiniteSet(Rows) /\ Rows \subseteq [Cols -> Values \cup {Null}]
  /\ Null \notin Values
  /\ \A r \in Rows : RowLen[r] <= MaxInline
  /\ Batches \subseteq Seq(Rows)
  /\ \A r \in Rows, sets \in Assignments : Assign(r, sets) \in Rows
  /\ MaxPages \in Nat

VARIABLES pages,       \* _table_data_pages[table] and the pages it names
          index        \* for each indexed column, literal -> slot reference

vars == <<pages, index>>

NoRef == <<0, 0>>

IndexedColumns == PKCols \cup UniqueCols

EmptyIndex == [c \in IndexedColumns |-> [v \in Values |-> NoRef]]

\* The slot references that _scan_table visits.
Refs(ps) == UNION {{i} \X Live(ps[i]) : i \in DOMAIN ps}

\* decode_row of the slot's bytes.
RowAt(ps, ref) == Get(ps[ref[1]], ref[2])[1][1]

\* The rows of table pages ps, as a bag.
Bag(ps) ==
  [r \in Rows |-> Cardinality({ref \in Refs(ps) : RowAt(ps, ref) = r})]
-----------------------------------------------------------------------------
(* Index maintenance. *)

IndexRow(ix, r, ref) ==
  [c \in IndexedColumns |->
     IF r[c] = Null THEN ix[c] ELSE [ix[c] EXCEPT ![r[c]] = ref]]

UnindexRow(ix, r) == IndexRow(ix, r, NoRef)

\* Mutant: the new key is inserted and the old one stays.
AddNewKey(ix, old, new, ref) ==
  [c \in IndexedColumns |->
     IF old[c] = new[c] THEN ix[c] ELSE IndexRow(ix, new, ref)[c]]

UpdateIndexForRow(ix, old, new, ref) ==
  [c \in IndexedColumns |->
     IF old[c] = new[c] THEN ix[c]
     ELSE IndexRow(UnindexRow(ix, old), new, ref)[c]]
-----------------------------------------------------------------------------
(* INSERT. *)

\* The first page that takes the row, or a new one.
PageFor(ps, r) ==
  IF \E i \in DOMAIN ps : CanInsert(ps[i], r)
  THEN CHOOSE i \in DOMAIN ps :
         CanInsert(ps[i], r) /\ \A j \in 1..(i - 1) : ~CanInsert(ps[j], r)
  ELSE Len(ps) + 1

InsertRowIntoChain(ps, r) ==
  LET i   == PageFor(ps, r)
      old == IF i \in DOMAIN ps THEN ps[i] ELSE EmptyPage
  IN [pages |-> [j \in (DOMAIN ps) \cup {i} |->
                    IF j = i THEN PageInsert(old, r) ELSE ps[j]],
      ref   |-> <<i, InsertSlot(old, r)>>]

\* Mutant: only the root page is scanned.
IsDuplicateInRoot(ps, r) == \E ref \in Refs(<<ps[1]>>) : SameKey(r, RowAt(ps, ref))

IsDuplicate(ps, r) == \E ref \in Refs(ps) : SameKey(r, RowAt(ps, ref))

\* One row of an INSERT; once a row is rejected the rest is not tried.
InsertRow(st, r) ==
  IF st.raised \/ NullViolation(r) \/ IsDuplicate(st.pages, r)
  THEN [st EXCEPT !.raised = TRUE]
  ELSE LET placed == InsertRowIntoChain(st.pages, r)
       IN [pages  |-> placed.pages,
           index  |-> IndexRow(st.index, r, placed.ref),
           raised |-> FALSE]

Begun == [pages |-> pages, index |-> index, raised |-> FALSE]

\* The statements that SlottedPage shows to be sound, within the bound.
WithinPages(ps) == Len(ps) <= MaxPages /\ \A i \in DOMAIN ps : Fits(ps[i])

Commit(st) ==
  /\ WithinPages(st.pages)
  /\ pages' = st.pages
  /\ index' = st.index

Insert(batch) ==
  LET st == FoldLeft(InsertRow, Begun, batch)
  IN IF st.raised THEN UNCHANGED vars ELSE Commit(st)
-----------------------------------------------------------------------------
(* DELETE. *)

Matched(w) == {ref \in Refs(pages) : Matches(RowAt(pages, ref), w)}

\* page.delete for each of the slots.
DeleteSlots(p, gone) ==
  [p EXCEPT !.slots =
     [s \in DOMAIN @ |->
        IF s \in gone THEN [off |-> TombstoneOffset, len |-> @[s].len, tomb |-> TRUE]
        ELSE @[s]]]

UnindexRows(ix, rows) ==
  [c \in IndexedColumns |-> [v \in Values |->
     IF \E r \in rows : r[c] = v THEN NoRef ELSE ix[c][v]]]

\* The slots are deleted and the keys unindexed in scan order, which makes no
\* difference.
Delete(w) ==
  Commit([pages  |-> [i \in DOMAIN pages |->
                        DeleteSlots(pages[i], {s \in Live(pages[i]) : <<i, s>> \in Matched(w)})],
          index  |-> UnindexRows(index, {RowAt(pages, ref) : ref \in Matched(w)}),
          raised |-> FALSE])
-----------------------------------------------------------------------------
(* UPDATE. *)

\* Mutant: a row that moves within its page keeps its old slot.
MoveWithoutDelete(st, pid, sid, sets) ==
  LET new == Assign(RowAt(pages, <<pid, sid>>), sets)
  IN IF CanUpdate(st.page, sid, new)
     THEN [st EXCEPT !.page = PageUpdate(@, sid, new)]
     ELSE IF CanInsert(st.page, new)
     THEN [st EXCEPT !.page = PageInsert(@, new)]
     ELSE [st EXCEPT !.page = PageDelete(@, sid),
                     !.pending = Append(@, <<RowAt(pages, <<pid, sid>>), new>>)]

\* One row of a page: in place when the slot is long enough, else deleted and
\* put elsewhere in the page, else queued for the chain.
UpdateSlot(st, pid, sid, sets) ==
  LET old   == RowAt(pages, <<pid, sid>>)
      new   == Assign(old, sets)
      freed == PageDelete(st.page, sid)
  IN IF CanUpdate(st.page, sid, new)
     THEN [st EXCEPT !.page  = PageUpdate(@, sid, new),
                     !.index = UpdateIndexForRow(@, old, new, <<pid, sid>>)]
     ELSE IF CanInsert(freed, new)
     THEN [st EXCEPT !.page  = PageInsert(freed, new),
                     !.index = UpdateIndexForRow(@, old, new,
                                 <<pid, InsertSlot(freed, new)>>)]
     ELSE [st EXCEPT !.page = freed, !.pending = Append(@, <<old, new>>)]

UpdateMatched(st, pid, sid, matched, sets) ==
  IF <<pid, sid>> \in matched THEN UpdateSlot(st, pid, sid, sets) ELSE st

\* A queued row, once its page has been written.
InsertPending(st, change) ==
  LET placed == InsertRowIntoChain(st.pages, change[2])
  IN [st EXCEPT !.pages = placed.pages,
                !.index = UpdateIndexForRow(@, change[1], change[2], placed.ref)]

\* 1 to n, in order.
Upto(n) == [i \in 1..n |-> i]

\* The matched rows of a page in the order of their slots.
UpdateSlots(st, pid, matched, sets) ==
  FoldLeft(LAMBDA p, sid : UpdateMatched(p, pid, sid, matched, sets),
           [page |-> st.pages[pid], index |-> st.index, pending |-> << >>],
           Upto(Len(pages[pid].slots)))

\* The slots of a page and, once it has been written, its queue.
UpdatePage(st, pid, matched, sets) ==
  LET applied == UpdateSlots(st, pid, matched, sets)
  IN FoldLeft(InsertPending,
              [st EXCEPT !.pages[pid] = applied.page, !.index = applied.index],
              applied.pending)

ApplyUpdate(sets, w) ==
  FoldLeft(LAMBDA st, pid : UpdatePage(st, pid, Matched(w), sets),
           Begun, Upto(Len(pages)))

Update(sets, w) == Commit(ApplyUpdate(sets, w))

\* Closing and opening the database: rebuild_for_table without rows.
Reopen ==
  /\ index' = EmptyIndex
  /\ UNCHANGED pages
-----------------------------------------------------------------------------
Init == pages = <<EmptyPage>> /\ index = EmptyIndex

Next ==
  \/ \E batch \in Batches : Insert(batch)
  \/ \E w \in Wheres : Delete(w)
  \/ \E sets \in Assignments, w \in Wheres : Update(sets, w)
  \/ Reopen

Spec == Init /\ [][Next]_vars
-----------------------------------------------------------------------------
\* SELECT ... WHERE col = literal by a scan, and by the index: what
\* _read_row_by_slot finds at the reference, without a second comparison.
ScanSelect(c, v) == {ref \in Refs(pages) : RowAt(pages, ref)[c] = v}

IndexSelect(c, v) == {index[c][v]} \cap Refs(pages)

IndexAgrees ==
  \A c \in IndexedColumns, v \in Values : IndexSelect(c, v) = ScanSelect(c, v)

NoDuplicates(ps) ==
  \A x, y \in Refs(ps) : x # y => ~SameKey(RowAt(ps, x), RowAt(ps, y))

\* An UPDATE that makes a row longer than its slot moves the row.
Moves(sets, w) ==
  \E ref \in Matched(w) :
    RowLen[Assign(RowAt(pages, ref), sets)] > pages[ref[1]].slots[ref[2]].len

(***************************************************************************)
(* While SELECT by an indexed column finds exactly the rows a scan would,  *)
(* no INSERT, no DELETE and no UPDATE changes that (_index_row,            *)
(* _unindex_row and _update_index_for_row keep the reference of every      *)
(* key), except an UPDATE that moves a row or gives two rows one key.      *)
(***************************************************************************)
IndexKept ==
  [][IndexAgrees /\ NoDuplicates(pages) =>
       \/ IndexAgrees'
       \/ Reopen
       \/ ~NoDuplicates(pages')
       \/ \E sets \in Assignments, w \in Wheres : Moves(sets, w) /\ Update(sets, w)]_vars

(***************************************************************************)
(* A row is never stored beside one with its primary key or UNIQUE value:  *)
(* two rows share a key only if an UPDATE, which checks no constraint,     *)
(* gave it to them (the scan of _validate_unique_keys, over rows that      *)
(* updates and reused slots have moved).                                   *)
(***************************************************************************)
KeysUnique ==
  [][NoDuplicates(pages) =>
       \/ NoDuplicates(pages')
       \/ \E sets \in Assignments, w \in Wheres : Update(sets, w)]_vars

Abstract == INSTANCE Table WITH rows <- Bag(pages)

(***************************************************************************)
(* Seen through a full scan the pages are a table: no statement loses a    *)
(* row, returns one twice or changes one it did not match, also when an    *)
(* update moves rows into pages and slots it has yet to visit.             *)
(***************************************************************************)
ImplementsTable == Abstract!Spec
=============================================================================
