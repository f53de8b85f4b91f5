------------------------- MODULE SlottedPageProofs --------------------------
(***************************************************************************)
(* SlottedPage, proved for any rows and any sizes: what a slot answers.    *)
(***************************************************************************)
EXTENDS SlottedPage, PageLayoutProofs

Contents == Rows \cup {NoRow}

\* Every slot holds the row its owner put there, and a deleted one none.
SlotsHold(p, st) ==
  /\ Len(st) = Len(p.slots)
  /\ \A i \in 1..Len(p.slots) :
       IF st[i] = NoRow THEN p.slots[i].tomb ELSE Holds(p, i, st[i])

SlotInv == TypeOK /\ SlotsHold(page, stored)
-----------------------------------------------------------------------------
\* Appending a row leaves what the other slots hold.
LEMMA AppendKeeps ==
  ASSUME NEW p \in Page, NEW st \in Seq(Contents), SlotsHold(p, st),
         NEW i \in 1..(Len(p.slots) + 1), NEW r \in Rows
  PROVE  /\ PutAt(st, i, r) \in Seq(Contents)
         /\ SlotsHold(AppendIntoData(p, i, r), PutAt(st, i, r))
  <1> DEFINE q == AppendIntoData(p, i, r)
             t == PutAt(st, i, r)
  <1>1. Len(st) = Len(p.slots) /\ DOMAIN st = DOMAIN p.slots /\ r \in Contents
    BY PageType DEF SlotsHold, Contents
  <1>2. t \in Seq(Contents)
    BY <1>1, PutSlot
  <1>3. Len(t) = IF i \in DOMAIN st THEN Len(st) ELSE Len(st) + 1
    BY <1>1, PutSlot
  <1>4. t[i] = r
    BY <1>1, PutSlot
  <1>5. \A j \in 1..Len(st) : j # i => t[j] = st[j]
    <2>1. i \in 1..(Len(st) + 1) /\ r \in Contents
      BY <1>1
    <2> QED  BY <2>1, PutSlot
  <1>6. /\ q \in Page
        /\ Len(q.slots) = IF i \in DOMAIN p.slots THEN Len(p.slots) ELSE Len(p.slots) + 1
        /\ Len(q.data) = Len(p.data) + RowLen[r]
        /\ Holds(q, i, r)
        /\ \A j \in 1..Len(p.slots) : j # i => q.slots[j] = p.slots[j]
        /\ \A k \in 1..Len(p.data) : q.data[k] = p.data[k]
    BY AppendedPage
  <1> HIDE DEF q, t
  <1>7. Len(p.slots) \in Nat /\ Len(p.data) \in Nat /\ RowLen[r] \in Nat
    BY RowBytesType DEF Page
  <1>8. ASSUME NEW j \in 1..Len(q.slots)
        PROVE  IF t[j] = NoRow THEN q.slots[j].tomb ELSE Holds(q, j, t[j])
    <2>1. CASE j = i
      BY <1>4, <1>6, <2>1, RewriteAssumption
    <2>2. CASE j # i
      <3>1. j \in 1..Len(p.slots)
        BY <1>6, <1>7, <2>2 DEF Page
      <3>2. t[j] = st[j] /\ q.slots[j] = p.slots[j]
        BY <1>1, <1>5, <1>6, <2>2, <3>1
      <3>3. CASE st[j] = NoRow
        BY <3>1, <3>2, <3>3 DEF SlotsHold
      <3>4. CASE st[j] # NoRow
        <4>1. Holds(p, j, st[j]) /\ st[j] \in Rows
          BY <1>1, <3>1, <3>4 DEF SlotsHold, Contents
        <4>2. Holds(q, j, st[j])
          BY <2>2, <3>1, <4>1, AppendHolds DEF q
        <4> QED  BY <3>2, <3>4, <4>2
      <3> QED  BY <3>3, <3>4
    <2> QED  BY <2>1, <2>2
  <1>9. Len(t) = Len(q.slots)
    BY <1>1, <1>3, <1>6
  <1> QED  BY <1>2, <1>8, <1>9 DEF SlotsHold, q, t

\* Deleting a row leaves what the other slots hold.
LEMMA DeleteKeeps ==
  ASSUME NEW p \in Page, NEW st \in Seq(Contents), SlotsHold(p, st),
         NEW i \in Live(p)
  PROVE  /\ PageDelete(p, i) \in Page
         /\ Len(PageDelete(p, i).slots) = Len(p.slots)
         /\ PageDelete(p, i).data = p.data
         /\ [st EXCEPT ![i] = NoRow] \in Seq(Contents)
         /\ SlotsHold(PageDelete(p, i), [st EXCEPT ![i] = NoRow])
  <1> DEFINE q == PageDelete(p, i)
             t == [st EXCEPT ![i] = NoRow]
  <1>1. i \in 1..Len(p.slots)
    BY PageType DEF Live
  <1>2. /\ q \in Page /\ Len(q.slots) = Len(p.slots) /\ q.data = p.data
        /\ q.slots[i].tomb
        /\ \A j \in 1..Len(p.slots) : j # i => q.slots[j] = p.slots[j]
    BY DeletedPage
  <1>3. /\ t \in Seq(Contents)
        /\ Len(t) = Len(st)
        /\ \A j \in 1..Len(st) : t[j] = IF j = i THEN NoRow ELSE st[j]
    <2>1. NoRow \in Contents /\ i \in 1..Len(st)
      BY <1>1 DEF Contents, SlotsHold
    <2> QED  BY <2>1, ExceptSeq
  <1> HIDE DEF q, t
  <1>4. SlotsHold(q, t)
    <2>1. Len(t) = Len(q.slots)
      BY <1>2, <1>3 DEF SlotsHold
    <2>2. ASSUME NEW j \in 1..Len(q.slots)
          PROVE  IF t[j] = NoRow THEN q.slots[j].tomb ELSE Holds(q, j, t[j])
      <3>1. j \in 1..Len(p.slots) /\ Len(st) = Len(p.slots)
        BY <1>2 DEF SlotsHold
      <3>2. CASE j = i
        BY <1>2, <1>3, <3>1, <3>2
      <3>3. CASE j # i
        <4>1. t[j] = st[j] /\ q.slots[j] = p.slots[j]
          BY <1>2, <1>3, <3>1, <3>3
        <4>2. IF st[j] = NoRow THEN p.slots[j].tomb ELSE Holds(p, j, st[j])
          BY <3>1 DEF SlotsHold
        <4>3. q.data = p.data
          BY <1>2
        <4> QED  BY <4>1, <4>2, <4>3 DEF Holds
      <3> QED  BY <3>2, <3>3
    <2> QED  BY <2>1, <2>2 DEF SlotsHold
  <1> QED  BY <1>2, <1>3, <1>4 DEF q, t
-----------------------------------------------------------------------------
LEMMA SlotInit == Init => SlotInv
  <1> SUFFICES ASSUME Init PROVE SlotInv
    OBVIOUS
  <1>1. page \in Page
    BY DEF Init, EmptyPage, Page
  <1>2. page.slots = << >>
    BY DEF Init, EmptyPage
  <1> QED  BY <1>1, <1>2, RewriteAssumption DEF Init, SlotInv, TypeOK, SlotsHold

LEMMA InsertInv ==
  ASSUME SlotInv, NEW r \in Rows, Insert(r)
  PROVE  SlotInv'
  <1> DEFINE i == InsertSlot(page, r)
  <1>1. page \in Page /\ stored \in Seq(Contents) /\ SlotsHold(page, stored)
    BY DEF SlotInv, TypeOK, Contents
  <1>2. i \in 1..(Len(page.slots) + 1)
    BY <1>1, InsertSlotIn
  <1>3. page' = AppendIntoData(page, i, r) /\ stored' = PutAt(stored, i, r)
    BY DEF Insert, PageInsert, PutAt
  <1>4. rewrites' \in 0..MaxRewrites
    BY RewriteAssumption DEF SlotInv, TypeOK, Insert
  <1> HIDE DEF i
  <1>5. page' \in Page
    BY <1>1, <1>2, <1>3, AppendedPage
  <1>6. stored' \in Seq(Contents) /\ SlotsHold(page', stored')
    BY <1>1, <1>2, <1>3, AppendKeeps
  <1> QED  BY <1>4, <1>5, <1>6 DEF SlotInv, TypeOK, Contents

LEMMA DeleteInv ==
  ASSUME SlotInv, NEW i, Delete(i)
  PROVE  SlotInv'
  <1>1. page \in Page /\ stored \in Seq(Contents) /\ SlotsHold(page, stored)
    BY DEF SlotInv, TypeOK, Contents
  <1>2. i \in Live(page)
    BY DEF Delete
  <1>3. page' = PageDelete(page, i) /\ stored' = [stored EXCEPT ![i] = NoRow]
    BY DEF Delete
  <1>4. page' \in Page /\ stored' \in Seq(Contents) /\ SlotsHold(page', stored')
    BY <1>1, <1>2, <1>3, DeleteKeeps
  <1> QED  BY <1>4 DEF SlotInv, TypeOK, Contents, Delete

LEMMA UpdateInv ==
  ASSUME SlotInv, NEW i, NEW r \in Rows, Update(i, r)
  PROVE  SlotInv'
  <1>1. page \in Page /\ stored \in Seq(Contents) /\ SlotsHold(page, stored)
    BY DEF SlotInv, TypeOK, Contents
  <1>2. i \in DOMAIN page.slots /\ i \in 1..(Len(page.slots) + 1)
    BY <1>1, PageType DEF Update, CanUpdate, Live
  <1>3. page' = AppendIntoData(page, i, r)
    BY DEF Update, PageUpdate
  <1>4. stored' = PutAt(stored, i, r)
    <2>1. DOMAIN stored = DOMAIN page.slots
      BY <1>1, PageType DEF SlotsHold
    <2>2. (DOMAIN stored) \cup {i} = DOMAIN stored
      BY <1>2, <2>1
    <2> QED  BY <2>2 DEF Update, PutAt
  <1>5. rewrites' \in 0..MaxRewrites
    BY RewriteAssumption DEF SlotInv, TypeOK, Update
  <1>6. page' \in Page
    BY <1>1, <1>2, <1>3, AppendedPage
  <1>7. stored' \in Seq(Contents) /\ SlotsHold(page', stored')
    BY <1>1, <1>2, <1>3, <1>4, AppendKeeps
  <1> QED  BY <1>5, <1>6, <1>7 DEF SlotInv, TypeOK, Contents

LEMMA MoveInv ==
  ASSUME SlotInv, NEW i, NEW r \in Rows, Move(i, r)
  PROVE  SlotInv'
  <1> DEFINE gone == PageDelete(page, i)
             left == [stored EXCEPT ![i] = NoRow]
             j == InsertSlot(gone, r)
  <1>1. page \in Page /\ stored \in Seq(Contents) /\ SlotsHold(page, stored)
    BY DEF SlotInv, TypeOK, Contents
  <1>2. i \in Live(page)
    BY DEF Move
  <1>3. gone \in Page /\ left \in Seq(Contents) /\ SlotsHold(gone, left)
    BY <1>1, <1>2, DeleteKeeps
  <1>4. page' = AppendIntoData(gone, j, r) /\ stored' = PutAt(left, j, r)
    BY DEF Move, PageInsert, PutAt
  <1>5. rewrites' \in 0..MaxRewrites
    BY RewriteAssumption DEF SlotInv, TypeOK, Move
  <1> HIDE DEF gone, left
  <1>6. j \in 1..(Len(gone.slots) + 1)
    BY <1>3, InsertSlotIn
  <1> HIDE DEF j
  <1>7. page' \in Page
    BY <1>3, <1>4, <1>6, AppendedPage
  <1>8. stored' \in Seq(Contents) /\ SlotsHold(page', stored')
    BY <1>3, <1>4, <1>6, AppendKeeps
  <1> QED  BY <1>5, <1>7, <1>8 DEF SlotInv, TypeOK, Contents

LEMMA SlotStep == SlotInv /\ [Next]_vars => SlotInv'
  <1> SUFFICES ASSUME SlotInv, [Next]_vars PROVE SlotInv'
    OBVIOUS
  <1>1. CASE UNCHANGED vars
    BY <1>1 DEF SlotInv, TypeOK, SlotsHold, Holds, vars
  <1> QED  BY <1>1, InsertInv, DeleteInv, UpdateInv, MoveInv DEF Next

LEMMA HeldIsAnswered == SlotInv => GetReturnsStored
  <1> SUFFICES ASSUME SlotInv PROVE GetReturnsStored
    OBVIOUS
  <1>1. page \in Page /\ stored \in Seq(Contents) /\ SlotsHold(page, stored)
    BY DEF SlotInv, TypeOK, Contents
  <1>2. DOMAIN stored = 1..Len(page.slots) /\ DOMAIN page.slots = 1..Len(page.slots)
    BY <1>1, PageType DEF SlotsHold
  <1>3. ASSUME NEW i \in 1..Len(page.slots)
        PROVE  Get(page, i) = IF stored[i] = NoRow THEN Nothing ELSE RowBytes(stored[i])
    <2>1. CASE stored[i] = NoRow
      BY <1>1, <1>2, <2>1 DEF SlotsHold, Get, Live
    <2>2. CASE stored[i] # NoRow
      <3>1. stored[i] \in Rows /\ Holds(page, i, stored[i])
        BY <1>1, <1>2, <2>2 DEF Contents, SlotsHold
      <3> QED  BY <1>1, <2>2, <3>1, HeldBytes
    <2> QED  BY <2>1, <2>2
  <1> QED  BY <1>2, <1>3 DEF GetReturnsStored

(***************************************************************************)
(* Every slot answers with the bytes of the row last put there and a       *)
(* deleted one with nothing, for any rows, sizes and sequence of inserts,  *)
(* updates and deletes, as long as the image of the page could be stored   *)
(* (get, insert, update and delete of SlottedPage).                        *)
(***************************************************************************)
THEOREM SlotsAnswer == Spec => []GetReturnsStored
  BY SlotInit, SlotStep, HeldIsAnswered, PTL DEF Spec
=============================================================================
