----------------------------- MODULE PageLayout -----------------------------
(***************************************************************************)
(* A slotted page of rows (slotted_page.py): a directory of slots after    *)
(* the header and a data area that only ever grows, towards the directory. *)
(* A byte of the data area is the pair <<row, position in the row>>; an    *)
(* offset of 0 is the first byte, as in the code, and slot ids count from  *)
(* 1.  The fields num_slots, free_offset and data_offset of the class are  *)
(* the lengths of the two sequences below.                                 *)
(***************************************************************************)
EXTENDS Integers, Sequences, FiniteSets

CONSTANTS Rows,         \* the encoded rows
          RowLen,       \* their lengths in bytes
          PageSize,     \* PAGE_SIZE
          HeaderSize,   \* HEADER_SIZE
          SlotSize,     \* SLOT_SIZE
          MaxSlots      \* MAX_SLOTS

ASSUME PageLayoutAssumption ==
  /\ RowLen \in [Rows -> Nat \ {0}]
  /\ PageSize \in Nat
  /\ HeaderSize \in Nat
  /\ SlotSize \in Nat
  /\ MaxSlots \in Nat

\* The two bytes at the end of the page that hold the length of the data.
Marker == 2

MaxInline == PageSize - HeaderSize - Marker

Slot == [off : Nat, len : Nat, tomb : BOOLEAN]

Page == [slots : Seq(Slot), data : Seq(Rows \X Nat)]

EmptyPage == [slots |-> << >>, data |-> << >>]

\* What a slot without a row, or outside the directory, answers.
Nothing == << >>

\* The ValueError of a slot that points outside the data area.
Corrupt == << <<"corrupt", 0>> >>

RowBytes(r) == [j \in 1..RowLen[r] |-> <<r, j>>]

DataOffset(p) == PageSize - Marker - Len(p.data)

DirectoryEnd(p) == HeaderSize + Len(p.slots) * SlotSize

FreeSpace(p) == DataOffset(p) - DirectoryEnd(p)

(***************************************************************************)
(* to_bytes writes the directory and then the data area, which ends at the *)
(* marker, so a data area that has grown past the end of the directory     *)
(* overwrites slots; one longer than the page makes the image longer than  *)
(* a page.  An image from_bytes reads back as it was is one that fits.     *)
(***************************************************************************)
Fits(p) == FreeSpace(p) >= 0

Live(p) == {i \in DOMAIN p.slots : ~p.slots[i].tomb}

\* Mutant: the offset is taken after the data area has grown.
AppendThenPoint(p, i, r) ==
  LET s == [off |-> Len(p.data) + RowLen[r], len |-> RowLen[r], tomb |-> FALSE]
  IN [slots |-> [j \in (DOMAIN p.slots) \cup {i} |->
                    IF j = i THEN s ELSE p.slots[j]],
      data  |-> p.data \o RowBytes(r)]

\* The row's bytes go to the tail of the data area, wherever the slot's
\* previous ones are, and nothing compares them with the free space.
AppendIntoData(p, i, r) ==
  LET s == [off |-> Len(p.data), len |-> RowLen[r], tomb |-> FALSE]
  IN [slots |-> [j \in (DOMAIN p.slots) \cup {i} |->
                    IF j = i THEN s ELSE p.slots[j]],
      data  |-> p.data \o RowBytes(r)]

Reusable(p, r) ==
  {i \in DOMAIN p.slots : p.slots[i].tomb /\ RowLen[r] <= p.slots[i].len}

HasRoom(p, r) == Len(p.slots) < MaxSlots /\ FreeSpace(p) >= RowLen[r]

\* insert does not raise PageFull.
CanInsert(p, r) ==
  RowLen[r] <= MaxInline /\ (Reusable(p, r) # {} \/ HasRoom(p, r))

\* The slot insert uses: the first tombstone wide enough, or a new one.
InsertSlot(p, r) ==
  IF Reusable(p, r) # {}
  THEN CHOOSE i \in Reusable(p, r) : \A j \in Reusable(p, r) : i <= j
  ELSE Len(p.slots) + 1

PageInsert(p, r) == AppendIntoData(p, InsertSlot(p, r), r)

TombstoneOffset == 65535

\* The length of a deleted slot stays, for insert to compare with.
PageDelete(p, i) ==
  [p EXCEPT !.slots[i] = [off |-> TombstoneOffset, len |-> @.len, tomb |-> TRUE]]

\* update does not raise: the slot holds a row at least as long.
CanUpdate(p, i, r) == i \in Live(p) /\ RowLen[r] <= p.slots[i].len

PageUpdate(p, i, r) == AppendIntoData(p, i, r)

\* get raises ValueError when a slot points outside the data area.
Get(p, i) ==
  IF i \in Live(p)
  THEN LET last == p.slots[i].off + p.slots[i].len
       IN IF last <= Len(p.data) THEN SubSeq(p.data, p.slots[i].off + 1, last)
          ELSE Corrupt
  ELSE Nothing
=============================================================================
