-------------------------------- MODULE Table -------------------------------
(***************************************************************************)
(* What the statements promise about one table: a bag of rows, without     *)
(* pages, slots or indexes.  A statement that raises changes nothing.      *)
(* UPDATE checks no constraint (executor.py, _exec_update).                *)
(***************************************************************************)
EXTENDS Statements, Sequences, FiniteSetsExt

CONSTANTS Rows, Batches, Wheres, Assignments

VARIABLE rows    \* how many copies of each row the table holds

Empty == [r \in Rows |-> 0]

Add(bag, r) == [bag EXCEPT ![r] = @ + 1]

Rejected(bag, r) ==
  NullViolation(r) \/ \E s \in Rows : bag[s] > 0 /\ SameKey(r, s)

\* The table after the first i rows of a batch.
AfterBatch(batch) ==
  LET after[i \in 0..Len(batch)] ==
        IF i = 0 THEN rows ELSE Add(after[i - 1], batch[i])
  IN after

Insert(batch) ==
  /\ \A i \in 1..Len(batch) : ~Rejected(AfterBatch(batch)[i - 1], batch[i])
  /\ rows' = AfterBatch(batch)[Len(batch)]

Delete(w) == rows' = [r \in Rows |-> IF Matches(r, w) THEN 0 ELSE rows[r]]

\* Every matching row becomes its assigned form, once.
Update(sets, w) ==
  LET from(r) == {s \in Rows : Matches(s, w) /\ Assign(s, sets) = r}
  IN rows' = [r \in Rows |->
                (IF Matches(r, w) THEN 0 ELSE rows[r])
                  + MapThenSumSet(LAMBDA s : rows[s], from(r))]

Init == rows = Empty

Next ==
  \/ \E batch \in Batches : Insert(batch)
  \/ \E w \in Wheres : Delete(w)
  \/ \E sets \in Assignments, w \in Wheres : Update(sets, w)

Spec == Init /\ [][Next]_rows
=============================================================================
