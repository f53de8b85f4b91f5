----------------------------- MODULE SlottedPage ----------------------------
(***************************************************************************)
(* One page through the statements that use it.  Every one decodes the     *)
(* stored image, changes the page and stores the image again, so the state *)
(* is the page as the next statement decodes it.  An image that no longer  *)
(* decodes to the page it was made from (~Fits) ends the run.              *)
(***************************************************************************)
EXTENDS PageLayout

CONSTANTS MaxRewrites,  \* bound on updates and reused slots, together
          NoRow         \* what a slot without a row holds

ASSUME RewriteAssumption == MaxRewrites \in Nat /\ NoRow \notin Rows

VARIABLES page,         \* the page last stored
          stored,       \* for each slot, the row its owner put there
          rewrites      \* updates and reuses of a slot so far

vars == <<page, stored, rewrites>>

Init ==
  /\ page = EmptyPage
  /\ stored = << >>
  /\ rewrites = 0

Insert(r) ==
  LET i == InsertSlot(page, r)
  IN /\ Fits(page)
     /\ CanInsert(page, r)
     /\ rewrites' = IF i \in DOMAIN page.slots THEN rewrites + 1 ELSE rewrites
     /\ rewrites' <= MaxRewrites
     /\ page' = PageInsert(page, r)
     /\ stored' = [j \in (DOMAIN stored) \cup {i} |->
                      IF j = i THEN r ELSE stored[j]]

Delete(i) ==
  /\ Fits(page)
  /\ i \in Live(page)
  /\ page' = PageDelete(page, i)
  /\ stored' = [stored EXCEPT ![i] = NoRow]
  /\ UNCHANGED rewrites

Update(i, r) ==
  /\ Fits(page)
  /\ CanUpdate(page, i, r)
  /\ rewrites < MaxRewrites
  /\ rewrites' = rewrites + 1
  /\ page' = PageUpdate(page, i, r)
  /\ stored' = [stored EXCEPT ![i] = r]

\* A row that has grown is deleted and inserted again, into another slot of
\* the page.
Move(i, r) ==
  LET gone == PageDelete(page, i)
      j    == InsertSlot(gone, r)
      left == [stored EXCEPT ![i] = NoRow]
  IN /\ Fits(page)
     /\ i \in Live(page)
     /\ RowLen[r] > page.slots[i].len
     /\ CanInsert(gone, r)
     /\ rewrites' = IF j \in DOMAIN page.slots THEN rewrites + 1 ELSE rewrites
     /\ rewrites' <= MaxRewrites
     /\ page' = PageInsert(gone, r)
     /\ stored' = [k \in (DOMAIN left) \cup {j} |-> IF k = j THEN r ELSE left[k]]

Next ==
  \/ \E r \in Rows : Insert(r)
  \/ \E i \in 1..MaxSlots : Delete(i)
  \/ \E i \in 1..MaxSlots, r \in Rows : Update(i, r) \/ Move(i, r)

Spec == Init /\ [][Next]_vars
-----------------------------------------------------------------------------
TypeOK ==
  /\ page \in Page
  /\ stored \in Seq(Rows \cup {NoRow})
  /\ rewrites \in 0..MaxRewrites

(***************************************************************************)
(* Every slot answers with the bytes of the row last put there and a       *)
(* deleted one with nothing, after any inserts, updates and deletes of its *)
(* neighbours (get, over the offsets the other operations leave).          *)
(***************************************************************************)
GetReturnsStored ==
  /\ DOMAIN stored = DOMAIN page.slots
  /\ \A i \in DOMAIN stored :
       Get(page, i) = IF stored[i] = NoRow THEN Nothing
                      ELSE RowBytes(stored[i])
=============================================================================
