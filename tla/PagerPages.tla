----------------------------- MODULE PagerPages -----------------------------
(***************************************************************************)
(* The pages that chains are made of, and the free list they come from     *)
(* (pager.py).  A page image keeps the fields that a chain, a slotted page *)
(* and the free list read, each where the code has it: the free list and   *)
(* the catalogue chain link through the first four bytes of a page, the    *)
(* overflow chain through the next four.                                   *)
(***************************************************************************)
EXTENDS PageLayout, SequencesExt

CONSTANT MaxPages       \* bound: the largest page id

ASSUME PagerPagesAssumption == MaxPages \in Nat \ {0}

VARIABLES file,         \* page id -> page image
          head,         \* free_list_head, 0 for none
          nextId        \* _next_page_id

pagerVars == <<file, head, nextId>>

\* Page 0 is the file header, which head stands for; page 1 the catalogue.
PageIds == 2..MaxPages

NullPage == MaxPages + 1

\* type: byte 0 of a table's page: 1 data, 2 overflow, 0 anything else;
\* link: bytes 0 to 3 as a page id; chain: overflow_next, bytes 4 to 7;
\* page, spill: the page as from_bytes decodes it, and its SPILL_START slots;
\* body: the bytes after the header of an overflow or a catalogue page.
Zeroed == [type |-> 0, link |-> 0, chain |-> 0,
           page |-> EmptyPage, spill |-> {}, body |-> << >>]

Fresh(st) == IF st.head # 0 THEN st.head ELSE st.nextId

\* Pops the free list and clears the page, or extends the file.
AllocPage(st) ==
  IF st.head # 0
  THEN [st EXCEPT !.head = st.file[st.head].link, !.file[st.head] = Zeroed]
  ELSE [st EXCEPT !.nextId = @ + 1]

\* Only the first four bytes of the page change.  The slots and the body
\* stay too, but alloc_page clears them before they are read.
FreePage(st, p) ==
  [st EXCEPT !.file[p] = [Zeroed EXCEPT !.link = st.head, !.chain = st.file[p].chain],
             !.head = p]

\* The walk from page p along next, until it leaves the pages.
Walk(p, next) ==
  LET at[i \in 1..MaxPages] ==
        IF i = 1 THEN p
        ELSE IF at[i - 1] \in PageIds THEN next[at[i - 1]] ELSE at[i - 1]
  IN at

OnWalk(w) == {w[i] : i \in DOMAIN w} \cap PageIds

FreeWalk(st) == Walk(st.head, [p \in PageIds |-> st.file[p].link])

FreeList(st) == OnWalk(FreeWalk(st))

\* The bound leaves room for n more pages.
RoomFor(st, n) == Cardinality(FreeList(st)) + MaxPages + 1 - st.nextId >= n
=============================================================================
