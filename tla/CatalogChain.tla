---------------------------- MODULE CatalogChain ----------------------------
(***************************************************************************)
(* The catalogue as a chain of pages (catalog.py, pager.py).  The tables   *)
(* are packed into segments of at most a page's body, a table that is too  *)
(* long for one is split between its columns, and the segments are linked  *)
(* from page 1.  A catalogue is a sequence of entries, for the order of    *)
(* the code's dictionaries.  The length of a JSON text is the sum of the   *)
(* lengths of its parts.  No statement writes this format, which the code  *)
(* reserves for catalogues longer than a page: it is the pager's interface *)
(* that is modelled here, with the pages others take from the free list.   *)
(***************************************************************************)
EXTENDS PagerPages

CONSTANTS
  Catalogs,      \* the catalogues that are written
  ColumnLen,     \* the lengths of column entries
  Envelope,      \* the length of a segment without tables
  EntryLen,      \* the length of a table entry without columns and ids
  IdsLen,        \* the length of root_page_id and next_page_id
  BodySize,      \* CHAIN_BODY_SIZE
  Margin         \* CHAIN_BODY_SIZE - CHAIN_THRESHOLD

\* The table entries of the catalogues.
Entries == UNION {{c[i] : i \in DOMAIN c} : c \in Catalogs}

ASSUME CatalogChainAssumption ==
  /\ {Envelope, EntryLen, IdsLen, BodySize, Margin} \subseteq Nat
  /\ << >> \in Catalogs
  /\ Catalogs \subseteq Seq(Entries)
  /\ \A e \in Entries : e.cols \in Seq(DOMAIN ColumnLen)

VARIABLES written,   \* ghost: the catalogue last written without an error
          intact,    \* ghost: no write has raised since
          taken      \* the pages others have allocated

catalogVars == <<written, intact, taken>>

ChainHead == 1
Threshold == BodySize - Margin

\* An entry of a continuation segment has no page ids.
NoIds == << >>

SumOf(s) == FoldLeft(LAMBDA n, x : n + x, 0, s)

EntrySize(e) ==
  EntryLen + (IF e.ids = NoIds THEN 0 ELSE IdsLen)
           + SumOf([i \in DOMAIN e.cols |-> ColumnLen[e.cols[i]]])

SegmentSize(seg) == Envelope + SumOf([i \in DOMAIN seg |-> EntrySize(seg[i])])
-----------------------------------------------------------------------------
(* Packing. *)

WithColumns(e, cols, first) ==
  <<[e EXCEPT !.cols = cols, !.ids = IF first THEN @ ELSE NoIds]>>

\* The next column joins the chunk, or the chunk is emitted and the column
\* starts another.  An empty chunk is not emitted.
SplitColumn(acc, e, c) ==
  IF SegmentSize(WithColumns(e, Append(acc.chunk, c), acc.segs = << >>)) <= BodySize
  THEN [acc EXCEPT !.chunk = Append(@, c)]
  ELSE [segs  |-> IF acc.chunk = << >> THEN acc.segs
                  ELSE Append(acc.segs, WithColumns(e, acc.chunk, acc.segs = << >>)),
        chunk |-> <<c>>]

SplitSingleTable(e) ==
  LET acc == FoldLeft(LAMBDA a, c : SplitColumn(a, e, c),
                      [segs |-> << >>, chunk |-> << >>], e.cols)
  IN IF acc.chunk = << >> THEN acc.segs
     ELSE Append(acc.segs, WithColumns(e, acc.chunk, acc.segs = << >>))

Flush(acc) ==
  IF acc.cur = << >> THEN acc
  ELSE [segs |-> Append(acc.segs, acc.cur), cur |-> << >>]

PackTable(acc, e) ==
  IF SegmentSize(<<e>>) > BodySize
  THEN [Flush(acc) EXCEPT !.segs = @ \o SplitSingleTable(e)]
  ELSE IF SegmentSize(Append(acc.cur, e)) <= Threshold
  THEN [acc EXCEPT !.cur = Append(@, e)]
  ELSE [Flush(acc) EXCEPT !.cur = <<e>>]

\* An empty catalogue is one segment without tables.
SerializeSegments(c) ==
  IF c = << >> \/ SegmentSize(c) <= Threshold THEN <<c>>
  ELSE Flush(FoldLeft(PackTable, [segs |-> << >>, cur |-> << >>], c)).segs

\* _pack_chain: one page a segment.
Segments == [c \in Catalogs |-> SerializeSegments(c)]

\* CatalogCorrupt: a segment that no page can hold, or an entry too long
\* without columns to split it by.
PackRaises(c) ==
  \/ \E i \in DOMAIN Segments[c] : SegmentSize(Segments[c][i]) > BodySize
  \/ \E i \in DOMAIN c : c[i].cols = << >> /\ SegmentSize(<<c[i]>>) > BodySize
-----------------------------------------------------------------------------
(* Reading. *)

NameIn(tables, n) == SelectInSeq(tables, LAMBDA e : e.name = n)

\* Mutant: a second sighting replaces the first.
MergeReplaces(tables, e) ==
  IF NameIn(tables, e.name) = 0 THEN Append(tables, e)
  ELSE [tables EXCEPT ![NameIn(tables, e.name)].cols = e.cols]

MergeTableEntry(tables, e) ==
  LET i == NameIn(tables, e.name)
  IN IF i = 0 THEN Append(tables, e)
     ELSE [tables EXCEPT ![i].cols = @ \o e.cols,
                         ![i].ids = IF e.ids = NoIds THEN @ ELSE e.ids]

CatalogWalk(f) == Walk(f[ChainHead].link, [p \in PageIds |-> f[p].link])

\* The part of the walk that is on pages.
CatalogPages(f) ==
  LET walk == CatalogWalk(f)
  IN SubSeq(walk, 1, Cardinality({i \in DOMAIN walk : walk[i] \in PageIds}))

UnpackChain(f) ==
  LET segs == <<f[ChainHead].body>>
                \o [i \in DOMAIN CatalogPages(f) |-> f[CatalogPages(f)[i]].body]
  IN FoldLeft(MergeTableEntry, << >>, FlattenSeq(segs))
-----------------------------------------------------------------------------
(* Writing. *)

Pager == [file |-> file, head |-> head, nextId |-> nextId]

\* Mutant: the pages of the old chain are not returned.
ReclaimNothing(st) == [st EXCEPT !.file[ChainHead].link = 0]

\* The pages after the head go to the free list; the head becomes the tail.
Reclaim(st) ==
  [FoldLeft(FreePage, st, CatalogPages(st.file)) EXCEPT !.file[ChainHead].link = 0]

\* The segments after the first, each on a page of its own, linked from prev.
AddSegment(acc, seg) ==
  LET pid == Fresh(acc.st)
  IN [prev |-> pid,
      st   |-> [AllocPage(acc.st) EXCEPT !.file[pid] = [Zeroed EXCEPT !.body = seg],
                                         !.file[acc.prev].link = pid]]

WriteSegments(st, segs) ==
  FoldLeft(AddSegment,
           [prev |-> ChainHead,
            st |-> [st EXCEPT !.file[ChainHead] = [Zeroed EXCEPT !.body = Head(segs)]]],
           Tail(segs)).st

Become(st) == file' = st.file /\ head' = st.head /\ nextId' = st.nextId

WriteCatalogChain(c) ==
  LET free == Reclaim(Pager)
      segs == Segments[c]
  IN /\ ~PackRaises(c)
     /\ RoomFor(free, Len(segs) - 1)
     /\ Become(WriteSegments(free, segs))
     /\ written' = c
     /\ intact' = TRUE
     /\ UNCHANGED taken

\* CatalogCorrupt is raised once the old chain has been given back.
WriteRaises(c) ==
  /\ PackRaises(c)
  /\ Become(Reclaim(Pager))
  /\ intact' = FALSE
  /\ UNCHANGED <<written, taken>>

TakePage ==
  /\ RoomFor(Pager, 1)
  /\ Become(AllocPage(Pager))
  /\ taken' = taken \cup {Fresh(Pager)}
  /\ UNCHANGED <<written, intact>>

ReleasePage(p) ==
  /\ p \in taken
  /\ Become(FreePage(Pager, p))
  /\ taken' = taken \ {p}
  /\ UNCHANGED <<written, intact>>

CatalogInit == written = << >> /\ intact = TRUE /\ taken = {}

CatalogNext ==
  \/ \E c \in Catalogs : WriteCatalogChain(c) \/ WriteRaises(c)
  \/ TakePage
  \/ \E p \in PageIds : ReleasePage(p)
-----------------------------------------------------------------------------
(***************************************************************************)
(* Reading the chain returns the catalogue last written: every table once, *)
(* in order, with all its columns and its page ids, however the tables     *)
(* were packed and split (_serialize_segments and _unpack_chain).  After a *)
(* write that raised, what is left to read is the first segment of the     *)
(* catalogue that was being replaced.                                      *)
(***************************************************************************)
CatalogReadBack ==
  UnpackChain(file) = IF intact THEN written ELSE Segments[written][1]

\* Every page of the file is in the chain, on the free list or in the hands
\* of others, and in one of these places only.
PagesAccounted ==
  LET chain == {CatalogPages(file)[i] : i \in DOMAIN CatalogPages(file)}
  IN /\ CatalogWalk(file)[MaxPages] = 0
     /\ chain \cup taken \cup FreeList(Pager) = 2..(nextId - 1)
     /\ chain \cap FreeList(Pager) = {}
     /\ taken \cap (chain \cup FreeList(Pager)) = {}
=============================================================================
