--------------------------- MODULE WalStoreProofs ---------------------------
(***************************************************************************)
(* WalStore and PowerLoss, proved for any set of pages and values and any  *)
(* bounds.  First the types, and the coherence of the catalogue.  Then,    *)
(* when every committed transaction wrote a page and no step fails after   *)
(* the COMMIT record is in the log: crash atomicity and the refinement of  *)
(* AtomicStore.  Then commits that fail anywhere, and power losses.  What  *)
(* is said of the log ends with the first transaction that is committed    *)
(* after a failed ROLLBACK took its records (Lapsed); it is proved to be   *)
(* the only way out.                                                       *)
(***************************************************************************)
EXTENDS PowerLoss, TLAPS

Covered ==
  /\ ~EmptyCommits
  /\ FailPoints \subseteq {"append_commit", "rollback"}

Images == [Pages -> Values]
Deltas == [Pages -> Values \cup {Untouched}]
-----------------------------------------------------------------------------
(* Facts about the operators of the log.                                   *)

\* The fields of a log record, by kind.
LEMMA RecordFields ==
  ASSUME NEW r \in Record
  PROVE  /\ r.pos \in Nat /\ r.txn \in Nat
         /\ r.kind \in {"PAGE_WRITE", "COMMIT", "ROLLBACK"}
         /\ r.kind = "PAGE_WRITE" => r.page \in Pages /\ r.data \in Values
BY DEF Record

\* Laying a transaction's writes over a page map gives a page map.
LEMMA OverlayType ==
  ASSUME NEW m \in Images, NEW d \in Deltas
  PROVE  Overlay(m, d) \in Images
BY DEF Overlay, Images, Deltas

LEMMA OverlayBlank ==
  ASSUME NEW m \in Images
  PROVE  Overlay(m, Blank) = m
BY DEF Overlay, Blank, Images

\* What is well formed about a log whatever was committed.
Placed(w) ==
  /\ \A r \in w.recs : r.pos < w.end
  /\ \A r \in w.recs, s \in w.recs : r.pos = s.pos => r = s
  /\ \A r \in PageWrites(w) :
       \E q \in w.recs : LastOf(q, WritesOf(w, r.txn, r.page))

\* Wal.truncate_before keeps or drops a transaction's records together.
LEMMA KeepPlaced ==
  ASSUME NEW w \in Logs, Placed(w), NEW R \in SUBSET w.recs,
         \A r \in R, s \in w.recs : s.txn = r.txn => s \in R
  PROVE  Keep(w, R) \in Logs /\ Placed(Keep(w, R))
<1> DEFINE k == Keep(w, R)
<1>1. /\ k.recs = R
      /\ k.end = IF R = {} THEN 0 ELSE w.end
      /\ k.torn = FALSE
  BY DEF Keep
<1>2. k \in Logs
  BY DEF Keep, Logs
<1>3. PageWrites(k) = {r \in R : r.kind = "PAGE_WRITE"}
  BY <1>1 DEF PageWrites
<1>4. \A r \in R, p \in Pages : WritesOf(k, r.txn, p) = WritesOf(w, r.txn, p)
  BY <1>1, <1>3 DEF WritesOf, PageWrites
<1>5. /\ \A r \in k.recs : r.pos < k.end
      /\ \A r \in k.recs, s \in k.recs : r.pos = s.pos => r = s
  BY <1>1 DEF Placed
<1>6. \A r \in PageWrites(k) :
        \E q \in k.recs : LastOf(q, WritesOf(k, r.txn, r.page))
  <2> SUFFICES ASSUME NEW r \in PageWrites(k)
               PROVE  \E q \in k.recs : LastOf(q, WritesOf(k, r.txn, r.page))
    OBVIOUS
  <2>1. r \in R /\ r \in w.recs /\ r.kind = "PAGE_WRITE" /\ r \in PageWrites(w)
    BY <1>3 DEF PageWrites
  <2>2. r \in Record
    BY <2>1 DEF Logs
  <2>3. r.page \in Pages
    BY <2>1, <2>2, RecordFields
  <2>4. PICK q \in w.recs : LastOf(q, WritesOf(w, r.txn, r.page))
    BY <2>1 DEF Placed
  <2>5. q \in k.recs
    BY <2>1, <2>4, <1>1 DEF LastOf, WritesOf
  <2> QED
    BY <2>1, <2>3, <2>4, <2>5, <1>4
<1> QED
  BY <1>2, <1>5, <1>6 DEF Placed

\* Wal.append of any record.
LEMMA AppendPlaced ==
  ASSUME NEW w \in Logs, Placed(w), NEW n \in Record, n.pos = w.end
  PROVE  AppendRecord(w, n) \in Logs /\ Placed(AppendRecord(w, n))
<1> DEFINE x == AppendRecord(w, n)
<1>1. /\ w.recs \in SUBSET Record /\ w.end \in Nat /\ w.torn \in BOOLEAN
      /\ x.recs = w.recs \cup {n} /\ x.end = w.end + 1
      /\ x = [recs |-> w.recs \cup {n}, end |-> w.end + 1, torn |-> w.torn]
  BY DEF AppendRecord, Logs
<1>2. x \in Logs
  BY <1>1 DEF Logs
<1>3. \A r \in w.recs : r.pos \in Nat /\ r.pos < w.end
  BY <1>1, RecordFields DEF Placed
<1>4. /\ \A r \in x.recs : r.pos < x.end
      /\ \A r \in x.recs, s \in x.recs : r.pos = s.pos => r = s
  BY <1>1, <1>3 DEF Placed
<1>5. \A t, p : WritesOf(x, t, p) \in
               {WritesOf(w, t, p), WritesOf(w, t, p) \cup {n}}
  BY <1>1 DEF WritesOf, PageWrites
<1>6. \A t, p : n \in WritesOf(x, t, p) => LastOf(n, WritesOf(x, t, p))
  BY <1>1, <1>3 DEF LastOf, WritesOf, PageWrites
<1>7. ASSUME NEW r \in PageWrites(x)
      PROVE  \E q \in x.recs : LastOf(q, WritesOf(x, r.txn, r.page))
  <2>1. CASE n \in WritesOf(x, r.txn, r.page)
    BY <1>1, <1>6, <2>1
  <2>2. CASE n \notin WritesOf(x, r.txn, r.page)
    <3>1. r \in PageWrites(w) /\ WritesOf(x, r.txn, r.page) = WritesOf(w, r.txn, r.page)
      BY <1>1, <1>5, <2>2 DEF WritesOf, PageWrites
    <3> QED
      BY <1>1, <3>1 DEF Placed
  <2> QED
    BY <2>1, <2>2
<1> QED
  BY <1>2, <1>4, <1>7 DEF Placed

\* So a well-formed log stays well formed.
LEMMA KeepOK ==
  ASSUME NEW w \in Logs, WellFormed(w), NEW R \in SUBSET w.recs,
         \A r \in R, s \in w.recs : s.txn = r.txn => s \in R
  PROVE  /\ Keep(w, R) \in Logs
         /\ WellFormed(Keep(w, R))
         /\ OneCommit(w) => OneCommit(Keep(w, R))
         /\ CommitRecords(Keep(w, R)) = {r \in R : r.kind = "COMMIT"}
         /\ PageWrites(Keep(w, R)) = {r \in R : r.kind = "PAGE_WRITE"}
<1> DEFINE k == Keep(w, R)
<1>1. /\ k.recs = R
      /\ k.end = IF R = {} THEN 0 ELSE w.end
      /\ k.torn = FALSE
  BY DEF Keep
<1>2. k \in Logs
  BY DEF Keep, Logs
<1>3. /\ CommitRecords(k) = {r \in R : r.kind = "COMMIT"}
      /\ PageWrites(k) = {r \in R : r.kind = "PAGE_WRITE"}
  BY <1>1 DEF CommitRecords, PageWrites
<1>6. Placed(k)
  BY KeepPlaced DEF WellFormed, Placed
<1>7. \A r \in CommitRecords(k) : \E q \in PageWrites(k) : q.txn = r.txn
  BY <1>3 DEF WellFormed, CommitRecords, PageWrites
<1>8. OneCommit(w) => OneCommit(k)
  BY <1>3 DEF OneCommit, CommitRecords
<1> QED
  BY <1>2, <1>3, <1>6, <1>7, <1>8 DEF WellFormed, Placed

\* Wal.append of a page record.
LEMMA AppendPageOK ==
  ASSUME NEW w \in Logs, WellFormed(w), NEW t \in Nat, NEW p \in Pages,
         NEW v \in Values, NEW d \in Deltas
  PROVE  LET x == AppendRecord(w, PageRecord(w, t, p, v))
         IN  /\ x \in Logs
             /\ WellFormed(x)
             /\ OneCommit(w) => OneCommit(x)
             /\ CommitRecords(x) = CommitRecords(w)
             /\ PageWrites(x) = PageWrites(w) \cup {PageRecord(w, t, p, v)}
             /\ LoggedBy(w, t, d) => LoggedBy(x, t, [d EXCEPT ![p] = v])
<1> DEFINE n == PageRecord(w, t, p, v)
           x == AppendRecord(w, n)
<1>1. /\ w.recs \in SUBSET Record /\ w.end \in Nat /\ w.torn \in BOOLEAN
      /\ x.recs = w.recs \cup {n} /\ x.end = w.end + 1
      /\ x = [recs |-> w.recs \cup {n}, end |-> w.end + 1, torn |-> w.torn]
  BY DEF AppendRecord, Logs
<1>2. /\ n \in Record /\ n.pos = w.end /\ n.txn = t
      /\ n.kind = "PAGE_WRITE" /\ n.page = p /\ n.data = v
  BY <1>1 DEF PageRecord, Record
<1>3. x \in Logs
  BY <1>1, <1>2 DEF Logs
<1>4. /\ CommitRecords(x) = CommitRecords(w)
      /\ PageWrites(x) = PageWrites(w) \cup {n}
  BY <1>1, <1>2 DEF CommitRecords, PageWrites
<1>5. /\ WritesOf(x, t, p) = WritesOf(w, t, p) \cup {n}
      /\ \A u, q : u # t \/ q # p => WritesOf(x, u, q) = WritesOf(w, u, q)
  BY <1>2, <1>4 DEF WritesOf
<1>6. \A r \in w.recs : r.pos \in Nat /\ r.pos < w.end
  BY <1>1, RecordFields DEF WellFormed, OneCommit
<1>7. LastOf(n, WritesOf(x, t, p))
  BY <1>1, <1>2, <1>5, <1>6 DEF LastOf, WritesOf, PageWrites
<1>8. Placed(x)
  BY <1>2, AppendPlaced DEF WellFormed, Placed
<1>10. /\ \A r \in CommitRecords(x) : \E q \in PageWrites(x) : q.txn = r.txn
       /\ OneCommit(w) => OneCommit(x)
  BY <1>4 DEF WellFormed, OneCommit
<1>11. ASSUME LoggedBy(w, t, d) PROVE LoggedBy(x, t, [d EXCEPT ![p] = v])
  <2>1. \A q \in Pages : [d EXCEPT ![p] = v][q] = IF q = p THEN v ELSE d[q]
    BY DEF Deltas
  <2> DEFINE e == [d EXCEPT ![p] = v]
  <2>2. e[p] = v /\ v # Untouched
    BY <2>1, WalStoreAssumption
  <2> HIDE DEF e, x, n
  <2>3. \E q \in x.recs : LastOf(q, WritesOf(x, t, p)) /\ q.data = e[p]
    BY <2>2, <1>1, <1>2, <1>7
  <2>4. ASSUME NEW q \in Pages, q # p
        PROVE  IF e[q] = Untouched THEN WritesOf(x, t, q) = {}
               ELSE \E r \in x.recs : LastOf(r, WritesOf(x, t, q)) /\ r.data = e[q]
    <3>1. e[q] = d[q] /\ WritesOf(x, t, q) = WritesOf(w, t, q)
      BY <2>1, <2>4, <1>5 DEF e
    <3>2. IF d[q] = Untouched THEN WritesOf(w, t, q) = {}
          ELSE \E r \in w.recs : LastOf(r, WritesOf(w, t, q)) /\ r.data = d[q]
      BY <1>11 DEF LoggedBy
    <3> QED
      BY <3>1, <3>2, <1>1
  <2>5. LoggedBy(x, t, e)
    BY <2>2, <2>3, <2>4 DEF LoggedBy
  <2> QED
    BY <2>5 DEF e
<1> QED
  BY <1>3, <1>4, <1>8, <1>10, <1>11 DEF WellFormed, Placed, OneCommit

\* Wal.append of a ROLLBACK record, or of the COMMIT record of a transaction
\* that wrote a page to a log without COMMIT records.
LEMMA AppendStatusOK ==
  ASSUME NEW w \in Logs, WellFormed(w), NEW t \in Nat,
         NEW k \in {"COMMIT", "ROLLBACK"},
         k = "COMMIT" => \E q \in PageWrites(w) : q.txn = t
  PROVE  LET n == StatusRecord(w, t, k)
             x == AppendRecord(w, n)
         IN  /\ x \in Logs
             /\ WellFormed(x)
             /\ (\/ k = "ROLLBACK" /\ OneCommit(w)
                 \/ CommitRecords(w) = {}) => OneCommit(x)
             /\ CommitRecords(x) = CommitRecords(w) \cup
                                   (IF k = "COMMIT" THEN {n} ELSE {})
             /\ PageWrites(x) = PageWrites(w)
             /\ \A d \in Deltas : LoggedBy(w, t, d) => LoggedBy(x, t, d)
             /\ k = "COMMIT" => IsCommitted(x, t)
<1> DEFINE n == StatusRecord(w, t, k)
           x == AppendRecord(w, n)
<1>1. /\ w.recs \in SUBSET Record /\ w.end \in Nat /\ w.torn \in BOOLEAN
      /\ x.recs = w.recs \cup {n} /\ x.end = w.end + 1
      /\ x = [recs |-> w.recs \cup {n}, end |-> w.end + 1, torn |-> w.torn]
  BY DEF AppendRecord, Logs
<1>2. n \in Record /\ n.pos = w.end /\ n.txn = t /\ n.kind = k
  BY <1>1 DEF StatusRecord, Record
<1>3. x \in Logs
  BY <1>1, <1>2 DEF Logs
<1>4. /\ CommitRecords(x) = CommitRecords(w) \cup (IF k = "COMMIT" THEN {n} ELSE {})
      /\ PageWrites(x) = PageWrites(w)
  BY <1>1, <1>2 DEF CommitRecords, PageWrites
<1>5. \A u, q : WritesOf(x, u, q) = WritesOf(w, u, q)
  BY <1>4 DEF WritesOf
<1>6. \A r \in w.recs : r.pos \in Nat /\ r.pos < w.end
  BY <1>1, RecordFields DEF WellFormed, OneCommit
<1>7. Placed(x)
  BY <1>2, AppendPlaced DEF WellFormed, Placed
<1>9. /\ \A r \in CommitRecords(x) : \E q \in PageWrites(x) : q.txn = r.txn
      /\ (\/ k = "ROLLBACK" /\ OneCommit(w)
          \/ CommitRecords(w) = {}) => OneCommit(x)
  BY <1>2, <1>4 DEF WellFormed, OneCommit
<1>10. \A d \in Deltas : LoggedBy(w, t, d) => LoggedBy(x, t, d)
  BY <1>1, <1>5 DEF LoggedBy
<1>11. ASSUME k = "COMMIT" PROVE IsCommitted(x, t)
  BY <1>1, <1>2, <1>6, <1>11 DEF IsCommitted, StatusOf
<1> QED
  BY <1>3, <1>4, <1>7, <1>9, <1>10, <1>11 DEF WellFormed, Placed, OneCommit
-----------------------------------------------------------------------------
(* What a replay produces.                                                 *)

\* What a replay does depends on the records alone.
LEMMA SameRecords ==
  ASSUME NEW w, NEW x, x.recs = w.recs
  PROVE  /\ PageWrites(x) = PageWrites(w)
         /\ CommitRecords(x) = CommitRecords(w)
         /\ Redo(x) = Redo(w)
         /\ \A t, p : RedoValue(x, t, p) = RedoValue(w, t, p)
<1>1. PageWrites(x) = PageWrites(w) /\ CommitRecords(x) = CommitRecords(w)
  BY DEF PageWrites, CommitRecords
<1>2. \A t, p : WritesOf(x, t, p) = WritesOf(w, t, p)
  BY <1>1 DEF WritesOf
<1>3. \A t : IsCommitted(x, t) <=> IsCommitted(w, t)
  BY DEF IsCommitted, StatusOf
<1>4. Redo(x) = Redo(w)
  BY <1>1, <1>3 DEF Redo
<1>5. \A t, p : RedoValue(x, t, p) = RedoValue(w, t, p)
  BY <1>2 DEF RedoValue
<1> QED
  BY <1>1, <1>4, <1>5

\* Without a COMMIT record there is nothing to redo.
LEMMA NothingToRedo ==
  ASSUME NEW w, CommitRecords(w) = {}
  PROVE  Redo(w) = {}
<1>1. \A t : ~IsCommitted(w, t)
  BY DEF IsCommitted, StatusOf, CommitRecords
<1> QED
  BY <1>1 DEF Redo

\* A log without COMMIT records changes nothing.
LEMMA RecoveredNoCommit ==
  ASSUME NEW m \in Images, NEW w \in Logs, CommitRecords(w) = {}
  PROVE  Redo(w) = {} /\ Recovered(m, w) = m
<1>1. Redo(w) = {}
  BY NothingToRedo
<1>2. \A p \in Pages : Redoers(w, p) = {}
  BY <1>1 DEF Redoers
<1> QED
  BY <1>1, <1>2 DEF Recovered, Images

\* A replay of w writes page p.
Covers(w, p) == Redoers(w, p) # {}

LEMMA CoversRedo ==
  ASSUME NEW w, NEW p
  PROVE  Covers(w, p) <=> \E t : <<t, p>> \in Redo(w)
BY DEF Covers, Redoers, Redo

\* Logs with the same records, over contents that agree where those records
\* write nothing, recover to the same pages.
LEMMA SameReplay ==
  ASSUME NEW m, NEW n, NEW w, NEW x, w.recs = x.recs,
         \A p \in Pages : Covers(w, p) \/ m[p] = n[p]
  PROVE  Recovered(m, w) = Recovered(n, x)
<1> DEFINE Top(y, p) == CHOOSE t \in Redoers(y, p) :
                           \A u \in Redoers(y, p) : u <= t
<1>1. /\ \A p : Redoers(w, p) = Redoers(x, p)
      /\ \A t, p : RedoValue(w, t, p) = RedoValue(x, t, p)
  BY SameRecords DEF Redoers
<1>2. \A p : Top(w, p) = Top(x, p)
  BY <1>1
<1> HIDE DEF Top
<1>3. \A p \in Pages : (IF Redoers(w, p) = {} THEN m[p]
                        ELSE RedoValue(w, Top(w, p), p))
                     = (IF Redoers(x, p) = {} THEN n[p]
                        ELSE RedoValue(x, Top(x, p), p))
  BY <1>1, <1>2 DEF Covers
<1> QED
  BY <1>3 DEF Recovered, Top

\* What a replay writes: the last record that a committed transaction has for
\* the page.
LEMMA PlacedRedone ==
  ASSUME NEW w \in Logs, Placed(w), NEW t, NEW p, <<t, p>> \in Redo(w)
  PROVE  /\ t \in Nat /\ p \in Pages
         /\ IsCommitted(w, t)
         /\ WritesOf(w, t, p) # {}
         /\ t \in Redoers(w, p)
         /\ RedoValue(w, t, p) \in Values
         /\ \A q : LastOf(q, WritesOf(w, t, p)) => RedoValue(w, t, p) = q.data
<1>0. w.recs \in SUBSET Record
  BY DEF Logs
<1>1. PICK r \in PageWrites(w) : r.txn = t /\ r.page = p /\ IsCommitted(w, t)
  BY DEF Redo
<1>2. r \in w.recs /\ r \in Record /\ r.kind = "PAGE_WRITE"
  BY <1>0, <1>1 DEF PageWrites
<1>3. t \in Nat /\ p \in Pages /\ r \in WritesOf(w, t, p)
  BY <1>1, <1>2, RecordFields DEF WritesOf
<1>4. t \in Redoers(w, p)
  BY <1>1 DEF Redoers
<1>5. PICK q \in w.recs : LastOf(q, WritesOf(w, t, p))
  BY <1>1 DEF Placed
<1>6. \A a, b : LastOf(a, WritesOf(w, t, p)) /\ LastOf(b, WritesOf(w, t, p)) => a = b
  <2> SUFFICES ASSUME NEW a, NEW b, LastOf(a, WritesOf(w, t, p)),
                      LastOf(b, WritesOf(w, t, p))
               PROVE  a = b
    OBVIOUS
  <2>1. a \in w.recs /\ b \in w.recs /\ a.pos <= b.pos /\ b.pos <= a.pos
    BY DEF LastOf, WritesOf, PageWrites
  <2>2. a.pos \in Nat /\ b.pos \in Nat
    BY <2>1, <1>0, RecordFields
  <2> QED
    BY <2>1, <2>2 DEF Placed
<1>7. RedoValue(w, t, p) = q.data
  <2> DEFINE c == CHOOSE a \in WritesOf(w, t, p) :
                    \A s \in WritesOf(w, t, p) : s.pos <= a.pos
  <2>1. LastOf(c, WritesOf(w, t, p))
    BY <1>5 DEF LastOf
  <2>2. c = q
    BY <2>1, <1>5, <1>6
  <2> QED
    BY <2>2 DEF RedoValue
<1>8. q.data \in Values
  BY <1>0, <1>5, RecordFields DEF LastOf, WritesOf, PageWrites
<1> QED
  BY <1>1, <1>3, <1>4, <1>5, <1>6, <1>7, <1>8

LEMMA Redone ==
  ASSUME NEW w \in Logs, WellFormed(w), NEW t, NEW p, <<t, p>> \in Redo(w)
  PROVE  /\ t \in Nat /\ p \in Pages
         /\ IsCommitted(w, t)
         /\ WritesOf(w, t, p) # {}
         /\ t \in Redoers(w, p)
         /\ RedoValue(w, t, p) \in Values
         /\ \A q : LastOf(q, WritesOf(w, t, p)) => RedoValue(w, t, p) = q.data
<1>1. Placed(w)
  BY DEF WellFormed, Placed
<1> QED
  BY <1>1, PlacedRedone

\* At most one transaction writes a page in a replay, with a definite value.
LEMMA OneRedoer ==
  ASSUME NEW w \in Logs, LogOK(w), NEW t, NEW p, <<t, p>> \in Redo(w)
  PROVE  /\ t \in Nat /\ p \in Pages
         /\ IsCommitted(w, t)
         /\ WritesOf(w, t, p) # {}
         /\ Redoers(w, p) = {t}
         /\ (CHOOSE u \in Redoers(w, p) : \A s \in Redoers(w, p) : s <= u) = t
         /\ RedoValue(w, t, p) \in Values
         /\ \A q : LastOf(q, WritesOf(w, t, p)) => RedoValue(w, t, p) = q.data
<1>1. /\ t \in Nat /\ p \in Pages /\ IsCommitted(w, t) /\ t \in Redoers(w, p)
      /\ WritesOf(w, t, p) # {} /\ RedoValue(w, t, p) \in Values
      /\ \A q : LastOf(q, WritesOf(w, t, p)) => RedoValue(w, t, p) = q.data
  BY Redone DEF LogOK
<1>2. \A u : IsCommitted(w, u) => u = t
  BY <1>1 DEF IsCommitted, StatusOf, LogOK, OneCommit, CommitRecords
<1>3. \A u : <<u, p>> \in Redo(w) => u = t
  BY <1>2 DEF Redo
<1>4. Redoers(w, p) = {t}
  BY <1>1, <1>3 DEF Redoers
<1>5. (CHOOSE u \in Redoers(w, p) : \A s \in Redoers(w, p) : s <= u) = t
  BY <1>1, <1>4
<1> QED
  BY <1>1, <1>4, <1>5

\* A replay of a well-formed log, page by page.
LEMMA RecoveredPages ==
  ASSUME NEW m \in Images, NEW w \in Logs, LogOK(w)
  PROVE  /\ Recovered(m, w) \in Images
         /\ \A x \in Redo(w) :
              /\ x[2] \in Pages
              /\ x = <<x[1], x[2]>>
              /\ Recovered(m, w)[x[2]] = RedoValue(w, x[1], x[2])
         /\ \A p \in Pages : (\A t : <<t, p>> \notin Redo(w))
                                => Recovered(m, w)[p] = m[p]
<1>1. \A x \in Redo(w) : x = <<x[1], x[2]>>
  BY DEF Redo
<1>2. \A p \in Pages : \A t : <<t, p>> \in Redo(w)
        => Recovered(m, w)[p] = RedoValue(w, t, p) /\ RedoValue(w, t, p) \in Values
  <2> SUFFICES ASSUME NEW p \in Pages, NEW t, <<t, p>> \in Redo(w)
               PROVE  /\ Recovered(m, w)[p] = RedoValue(w, t, p)
                      /\ RedoValue(w, t, p) \in Values
    OBVIOUS
  <2>1. /\ Redoers(w, p) = {t}
        /\ (CHOOSE u \in Redoers(w, p) : \A s \in Redoers(w, p) : s <= u) = t
        /\ RedoValue(w, t, p) \in Values
    BY OneRedoer
  <2> QED
    BY <2>1 DEF Recovered
<1>3. \A p \in Pages : (\A t : <<t, p>> \notin Redo(w)) => Recovered(m, w)[p] = m[p]
  <2> SUFFICES ASSUME NEW p \in Pages, \A t : <<t, p>> \notin Redo(w)
               PROVE  Recovered(m, w)[p] = m[p]
    OBVIOUS
  <2>1. Redoers(w, p) = {}
    BY DEF Redoers
  <2> QED
    BY <2>1 DEF Recovered
<1>4. \A x \in Redo(w) : x[2] \in Pages
  BY <1>1, OneRedoer
<1>5. Recovered(m, w) \in Images
  <2>1. \A p \in Pages : Recovered(m, w)[p] \in Values
    BY <1>2, <1>3 DEF Images
  <2>2. Recovered(m, w) = [p \in Pages |-> Recovered(m, w)[p]]
    BY DEF Recovered
  <2> QED
    BY <2>1, <2>2 DEF Images
<1> QED
  BY <1>1, <1>2, <1>3, <1>4, <1>5

\* Two page maps that agree where w writes nothing recover to the same map.
LEMMA RecoveredAgree ==
  ASSUME NEW m \in Images, NEW n \in Images, NEW w \in Logs, LogOK(w),
         \A p \in Pages : (\A t : <<t, p>> \notin Redo(w)) => m[p] = n[p]
  PROVE  Recovered(m, w) = Recovered(n, w)
<1>1. \A p \in Pages : Recovered(m, w)[p] = Recovered(n, w)[p]
  <2> SUFFICES ASSUME NEW p \in Pages PROVE Recovered(m, w)[p] = Recovered(n, w)[p]
    OBVIOUS
  <2>1. CASE \A t : <<t, p>> \notin Redo(w)
    BY <2>1, RecoveredPages
  <2>2. CASE \E t : <<t, p>> \in Redo(w)
    <3>1. PICK t : <<t, p>> \in Redo(w)
      BY <2>2
    <3> DEFINE x == <<t, p>>
    <3>2. x \in Redo(w) /\ x[1] = t /\ x[2] = p
      BY <3>1
    <3> HIDE DEF x
    <3>3. Recovered(m, w)[x[2]] = RedoValue(w, x[1], x[2])
      BY <3>2, RecoveredPages
    <3>4. Recovered(n, w)[x[2]] = RedoValue(w, x[1], x[2])
      BY <3>2, RecoveredPages
    <3> QED
      BY <3>2, <3>3, <3>4
  <2> QED
    BY <2>1, <2>2
<1>2. Recovered(m, w) \in Images /\ Recovered(n, w) \in Images
  BY RecoveredPages
<1> QED
  BY <1>1, <1>2 DEF Images

\* A log whose committed transaction is t, with the writes d, lays d over
\* the main file.
LEMMA RecoveredCommit ==
  ASSUME NEW m \in Images, NEW w \in Logs, LogOK(w), NEW t \in Nat,
         NEW d \in Deltas, IsCommitted(w, t), LoggedBy(w, t, d)
  PROVE  Recovered(m, w) = Overlay(m, d)
<1>1. Recovered(m, w) \in Images /\ Overlay(m, d) \in Images
  BY RecoveredPages, OverlayType
<1>2. \A p \in Pages : Recovered(m, w)[p] = Overlay(m, d)[p]
  <2> SUFFICES ASSUME NEW p \in Pages PROVE Recovered(m, w)[p] = Overlay(m, d)[p]
    OBVIOUS
  <2>1. \A u : <<u, p>> \in Redo(w) => u = t /\ WritesOf(w, t, p) # {}
    <3> SUFFICES ASSUME NEW u, <<u, p>> \in Redo(w)
                 PROVE  u = t /\ WritesOf(w, t, p) # {}
      OBVIOUS
    <3>1. IsCommitted(w, u) /\ WritesOf(w, u, p) # {}
      BY OneRedoer
    <3>2. u = t
      BY <3>1 DEF IsCommitted, StatusOf, LogOK, OneCommit, CommitRecords
    <3> QED
      BY <3>1, <3>2
  <2>2. CASE d[p] = Untouched
    <3>1. WritesOf(w, t, p) = {}
      BY <2>2 DEF LoggedBy
    <3>2. Recovered(m, w)[p] = m[p]
      BY <3>1, <2>1, RecoveredPages
    <3> QED
      BY <3>2, <2>2 DEF Overlay
  <2>3. CASE d[p] # Untouched
    <3>1. PICK q \in w.recs : LastOf(q, WritesOf(w, t, p)) /\ q.data = d[p]
      BY <2>3 DEF LoggedBy
    <3>2. q \in PageWrites(w) /\ q.txn = t /\ q.page = p
      BY <3>1 DEF LastOf, WritesOf
    <3>3. <<t, p>> \in Redo(w)
      BY <3>2 DEF Redo
    <3> DEFINE x == <<t, p>>
    <3>4. x \in Redo(w) /\ x[1] = t /\ x[2] = p
      BY <3>3
    <3>5. RedoValue(w, t, p) = q.data
      BY <3>1, <3>3, OneRedoer
    <3> HIDE DEF x
    <3>6. Recovered(m, w)[x[2]] = RedoValue(w, x[1], x[2])
      BY <3>4, RecoveredPages
    <3> QED
      BY <3>1, <3>4, <3>5, <3>6, <2>3 DEF Overlay
  <2> QED
    BY <2>2, <2>3
<1> QED
  BY <1>1, <1>2 DEF Images

\* Cutting a torn tail off the log does not change what it says.
LEMMA TornTail ==
  ASSUME NEW w \in Logs, NEW x \in Logs, x.recs = w.recs, x.end = w.end
  PROVE  /\ LogOK(w) => LogOK(x)
         /\ WellFormed(w) => WellFormed(x)
         /\ CommitRecords(x) = CommitRecords(w)
         /\ Redo(x) = Redo(w)
         /\ \A t, p : RedoValue(x, t, p) = RedoValue(w, t, p)
         /\ \A m : Recovered(m, x) = Recovered(m, w)
<1>1. /\ PageWrites(x) = PageWrites(w) /\ CommitRecords(x) = CommitRecords(w)
      /\ Redo(x) = Redo(w)
      /\ \A t, p : RedoValue(x, t, p) = RedoValue(w, t, p)
  BY SameRecords
<1>2. \A t, p : WritesOf(x, t, p) = WritesOf(w, t, p)
  BY <1>1 DEF WritesOf
<1>3. \A m : Recovered(m, x) = Recovered(m, w)
  BY SameReplay
<1>4. ASSUME WellFormed(w) PROVE WellFormed(x)
  <2>1. \A r \in PageWrites(x) :
          \E q \in x.recs : LastOf(q, WritesOf(x, r.txn, r.page))
    <3> SUFFICES ASSUME NEW r \in PageWrites(x)
                 PROVE  \E q \in x.recs : LastOf(q, WritesOf(x, r.txn, r.page))
      OBVIOUS
    <3>1. PICK q \in w.recs : LastOf(q, WritesOf(w, r.txn, r.page))
      BY <1>1, <1>4 DEF WellFormed
    <3>2. WritesOf(x, r.txn, r.page) = WritesOf(w, r.txn, r.page)
      BY <1>2
    <3> QED
      BY <3>1, <3>2
  <2> QED
    BY <2>1, <1>1, <1>4 DEF WellFormed
<1> QED
  BY <1>1, <1>3, <1>4 DEF LogOK, OneCommit

\* truncate_before(id + 1), by commit and by rollback.
LEMMA TruncateOK ==
  ASSUME NEW w \in Logs, WellFormed(w), NEW t \in Nat,
         \A r \in CommitRecords(w) : r.txn <= t
  PROVE  /\ TruncateBefore(w, t + 1) \in Logs
         /\ WellFormed(TruncateBefore(w, t + 1))
         /\ OneCommit(TruncateBefore(w, t + 1))
         /\ CommitRecords(TruncateBefore(w, t + 1)) = {}
         /\ PageWrites(TruncateBefore(w, t + 1)) \subseteq PageWrites(w)
<1> DEFINE R == {r \in w.recs : r.txn >= t + 1}
<1>1. /\ R \in SUBSET w.recs
      /\ \A r \in R, s \in w.recs : s.txn = r.txn => s \in R
  OBVIOUS
<1>2. TruncateBefore(w, t + 1) = Keep(w, R)
  BY DEF TruncateBefore
<1>3. \A r \in w.recs : r.txn \in Nat
  BY RecordFields DEF Logs
<1>4. {r \in R : r.kind = "COMMIT"} = {}
  BY <1>3 DEF CommitRecords
<1>5. {r \in R : r.kind = "PAGE_WRITE"} \subseteq PageWrites(w)
  BY DEF PageWrites
<1> HIDE DEF R
<1> QED
  BY <1>1, <1>2, <1>4, <1>5, KeepOK DEF OneCommit

\* The truncation that ends a replay leaves no page and no COMMIT record.
LEMMA TruncateReplayedOK ==
  ASSUME NEW w \in Logs, WellFormed(w)
  PROVE  /\ TruncateReplayed(w) \in Logs
         /\ WellFormed(TruncateReplayed(w))
         /\ OneCommit(TruncateReplayed(w))
         /\ CommitRecords(TruncateReplayed(w)) = {}
         /\ PageWrites(TruncateReplayed(w)) = {}
<1> DEFINE R == {r \in w.recs : \A q \in PageWrites(w) : q.txn < r.txn}
<1>1. /\ R \in SUBSET w.recs
      /\ \A r \in R, s \in w.recs : s.txn = r.txn => s \in R
  OBVIOUS
<1>2. TruncateReplayed(w) = Keep(w, R)
  BY DEF TruncateReplayed
<1>3. \A r \in w.recs : r.txn \in Nat
  BY RecordFields DEF Logs
<1>4. \A r \in R : \A q \in PageWrites(w) : q.txn # r.txn
  BY <1>3 DEF PageWrites
<1>5. {r \in R : r.kind = "COMMIT"} = {}
  BY <1>4 DEF CommitRecords, WellFormed
<1>6. {r \in R : r.kind = "PAGE_WRITE"} = {}
  BY <1>4 DEF PageWrites
<1> HIDE DEF R
<1> QED
  BY <1>1, <1>2, <1>5, <1>6, KeepOK DEF OneCommit

LEMMA EmptyLogOK ==
  /\ EmptyLog \in Logs /\ LogOK(EmptyLog)
  /\ CommitRecords(EmptyLog) = {} /\ PageWrites(EmptyLog) = {}
BY DEF EmptyLog, Logs, LogOK, WellFormed, OneCommit, CommitRecords, PageWrites
-----------------------------------------------------------------------------
(***************************************************************************)
(* What holds whatever fails and whatever is left of the log: the types,   *)
(* and that what a session holds in memory agrees with the main file.      *)
(***************************************************************************)

InMemory ==
  /\ TypeOK /\ Placed(wal)
  /\ pc = "replay" => todo \subseteq Redo(wal)
  /\ Running => /\ buffer = pending
                /\ txnId = 0 => pending = Blank /\ txnState = "none" /\ pc = "ready"
  /\ pc = "flush" => todo \subseteq {<<txnId, p>> : p \in Wrote(pending)}
  /\ Committing => /\ txnId # 0
                   /\ \A p \in Wrote(pending) :
                        \/ pc = "logged"
                        \/ pc = "flush" /\ <<txnId, p>> \in todo
                        \/ main[p] = pending[p]

\* The types of what most steps leave alone or set to a constant.
LEMMA TypesKeep ==
  ASSUME TypeOK, Next, main' \in Images, wal' \in Logs,
         legal' \subseteq Images, prior' \subseteq Images,
         todo' \subseteq Nat \X Pages
  PROVE  TypeOK'
<1> USE DEF Images, Deltas
<1>1. Blank \in Deltas /\ main[CatPage] \in Values
  BY WalStoreAssumption DEF Blank, TypeOK
<1>2. /\ pc' \in PCs /\ restarts' \in Nat
      /\ nextTxn' \in Nat \ {0} /\ txnId' \in Nat
      /\ txnState' \in {"none", "active", "rolled_back"}
      /\ pending' \in Deltas /\ buffer' \in Deltas
      /\ cat' \in Values /\ snap' \in Values
  <2>1. CASE Open \/ ReplayPage \/ ReplaySync \/ OpenFails
    BY <2>1 DEF Open, ReplayPage, ReplaySync, OpenFails, session, TypeOK, PCs, Logs
  <2>2. CASE OpenDone
    BY <1>1, <2>2 DEF OpenDone, StartSession, TypeOK, PCs
  <2>3. CASE Begin \/ BeginStatement
    BY <2>3 DEF Begin, BeginStatement, NewTransaction, TypeOK, PCs
  <2>4. CASE ChangeCatalog \/ EndStatement
    BY <2>4 DEF ChangeCatalog, EndStatement, session, TypeOK, PCs
  <2>5. CASE WritePage
    BY <2>5 DEF WritePage, TypeOK
  <2>6. CASE AppendCommit \/ FsyncWal \/ WriteMain \/ FsyncMain
    BY <2>6 DEF AppendCommit, FsyncWal, WriteMain, FsyncMain, session, TypeOK, PCs
  <2>7. CASE CommitDone
    BY <1>1, <2>7 DEF CommitDone, TypeOK, PCs
  <2>8. CASE CommitFailsEarly \/ CommitFailsLate
    BY <2>8 DEF CommitFailsEarly, CommitFailsLate, CommitRaises, TypeOK, PCs
  <2>9. CASE AppendRollback \/ RollbackFails
    BY <2>9 DEF AppendRollback, RollbackFails, session, TypeOK, PCs
  <2>10. CASE RollbackDone \/ UnwindWithoutRollback
    BY <1>1, <2>10 DEF RollbackDone, UnwindWithoutRollback, Forget, TypeOK, PCs
  <2>11. CASE Close \/ Crash
    BY <1>1, <2>11 DEF Close, Crash, EndSession, TypeOK, PCs
  <2> QED
    BY <2>1, <2>2, <2>3, <2>4, <2>5, <2>6, <2>7, <2>8, <2>9, <2>10, <2>11
       DEF Next, Work, Recovery, Execute, Commit, Rollback
<1>3. auto' \in BOOLEAN
  <2>1. auto' = auto \/ auto' = FALSE \/ auto' = TRUE
    BY DEF Next, Work, Recovery, Execute, Commit, Rollback, Open, ReplayPage,
       ReplaySync, OpenDone, OpenFails, StartSession, Begin, BeginStatement,
       ChangeCatalog, WritePage, EndStatement, AppendCommit, FsyncWal, WriteMain,
       FsyncMain, CommitDone, CommitFailsEarly, CommitFailsLate, CommitRaises,
       AppendRollback, RollbackDone, RollbackFails, UnwindWithoutRollback, Forget,
       Close, Crash, EndSession, session
  <2> QED
    BY <2>1 DEF TypeOK
<1>4. torn' \in BOOLEAN
  <2>1. torn' = torn \/ torn' = FALSE \/ torn' = wal.torn
    BY DEF Next, Work, Recovery, Execute, Commit, Rollback, Open, ReplayPage,
       ReplaySync, OpenDone, OpenFails, Begin, BeginStatement, ChangeCatalog,
       WritePage, EndStatement, AppendCommit, FsyncWal, WriteMain, FsyncMain,
       CommitDone, CommitFailsEarly, CommitFailsLate, CommitRaises, AppendRollback,
       RollbackDone, RollbackFails, UnwindWithoutRollback, Forget, Close, Crash,
       EndSession
  <2> QED
    BY <2>1 DEF TypeOK, Logs
<1>5. lapse' \in Lapses
  <2>1. \/ lapse' \in {lapse, "none", "open", "committed"}
        \/ LapseEnds
    BY DEF Next, Work, Recovery, Execute, Commit, Rollback, Open, ReplayPage,
       ReplaySync, OpenDone, OpenFails, Begin, BeginStatement, ChangeCatalog,
       WritePage, EndStatement, AppendCommit, Decides, FsyncWal, WriteMain,
       FsyncMain, CommitDone, CommitFailsEarly, CommitFailsLate, CommitRaises,
       AppendRollback, RollbackDone, RollbackFails, UnwindWithoutRollback, Forget,
       Close, Crash, EndSession, ghosts
  <2> QED
    BY <2>1 DEF TypeOK, LapseEnds, Lapses
<1> QED
  BY <1>2, <1>3, <1>4, <1>5 DEF TypeOK

LEMMA EmptyPlaced == EmptyLog \in Logs /\ Placed(EmptyLog)
BY DEF EmptyLog, Logs, Placed, PageWrites

LEMMA TruncatedPlaced ==
  ASSUME NEW w \in Logs, Placed(w), NEW t
  PROVE  /\ TruncateBefore(w, t) \in Logs /\ Placed(TruncateBefore(w, t))
         /\ TruncateReplayed(w) \in Logs /\ Placed(TruncateReplayed(w))
<1>1. ASSUME NEW R, R = {r \in w.recs : r.txn >= t}
      PROVE  Keep(w, R) \in Logs /\ Placed(Keep(w, R))
  BY <1>1, KeepPlaced
<1>2. ASSUME NEW R, R = {r \in w.recs : \A q \in PageWrites(w) : q.txn < r.txn}
      PROVE  Keep(w, R) \in Logs /\ Placed(Keep(w, R))
  BY <1>2, KeepPlaced
<1> QED
  BY <1>1, <1>2 DEF TruncateBefore, TruncateReplayed

LEMMA TornPlaced ==
  ASSUME NEW w \in Logs, Placed(w), NEW b \in BOOLEAN
  PROVE  [w EXCEPT !.torn = b] \in Logs /\ Placed([w EXCEPT !.torn = b])
<1> DEFINE x == [w EXCEPT !.torn = b]
<1>1. x \in Logs /\ x.recs = w.recs /\ x.end = w.end
  BY DEF Logs
<1> HIDE DEF x
<1>2. PageWrites(x) = PageWrites(w)
  BY <1>1, SameRecords
<1>3. \A t, p : WritesOf(x, t, p) = WritesOf(w, t, p)
  BY <1>2 DEF WritesOf
<1>4. Placed(x)
  BY <1>1, <1>2, <1>3 DEF Placed
<1> QED
  BY <1>1, <1>4 DEF x

\* The log after any step but recovery's.
LEMMA LogPlaced ==
  ASSUME InMemory, Next
  PROVE  wal' \in Logs /\ Placed(wal')
<1>1. wal \in Logs /\ Placed(wal) /\ txnId \in Nat
  BY DEF InMemory, TypeOK
<1>2. CASE wal' = wal
  BY <1>1, <1>2
<1>3. CASE \E b \in BOOLEAN : wal' = [wal EXCEPT !.torn = b]
  BY <1>1, <1>3, TornPlaced
<1>4. CASE wal' = EmptyLog
  BY <1>4, EmptyPlaced
<1>5. CASE wal' = TruncateReplayed(wal) \/ \E t : wal' = TruncateBefore(wal, t)
  BY <1>1, <1>5, TruncatedPlaced
<1>6. CASE \E n \in Record : n.pos = wal.end /\ wal' = AppendRecord(wal, n)
  BY <1>1, <1>6, AppendPlaced
<1>7. CASE WritePage
  <2>1. PICK p \in Pages, v \in Values :
          wal' = AppendRecord(wal, PageRecord(wal, txnId, p, v))
    BY <1>7 DEF WritePage
  <2>2. /\ PageRecord(wal, txnId, p, v) \in Record
        /\ PageRecord(wal, txnId, p, v).pos = wal.end
    BY <1>1 DEF PageRecord, Record, Logs
  <2> QED
    BY <1>6, <2>1, <2>2
<1>8. CASE AppendCommit \/ AppendRollback
  <2>1. PICK k \in {"COMMIT", "ROLLBACK"} :
          wal' = AppendRecord(wal, StatusRecord(wal, txnId, k))
    BY <1>8 DEF AppendCommit, AppendRollback
  <2>2. /\ StatusRecord(wal, txnId, k) \in Record
        /\ StatusRecord(wal, txnId, k).pos = wal.end
    BY <1>1 DEF StatusRecord, Record, Logs
  <2> QED
    BY <1>6, <2>1, <2>2
<1>9. CASE Recovery
  BY <1>2, <1>3, <1>5, <1>9 DEF Recovery, Open, ReplayPage, ReplaySync, OpenDone, OpenFails
<1>10. CASE Execute /\ ~WritePage
  BY <1>2, <1>10 DEF Execute, Begin, BeginStatement, ChangeCatalog, EndStatement
<1>11. CASE Commit /\ ~AppendCommit
  BY <1>2, <1>4, <1>5, <1>11 DEF Commit, FsyncWal, WriteMain, FsyncMain, CommitDone,
     CommitFailsEarly, CommitFailsLate, TruncateFailed
<1>12. CASE Rollback /\ ~AppendRollback
  BY <1>2, <1>4, <1>5, <1>12 DEF Rollback, RollbackDone, RollbackFails,
     UnwindWithoutRollback, TruncateFailed
<1>13. CASE Close \/ Crash
  BY <1>2, <1>3, <1>4, <1>13 DEF Close, Crash, LogAfterKill
<1> QED
  BY <1>7, <1>8, <1>9, <1>10, <1>11, <1>12, <1>13 DEF Next, Work

LEMMA InMemoryStart == Init => InMemory
<1> SUFFICES ASSUME Init PROVE InMemory
  OBVIOUS
<1>1. TypeOK
  <2>1. main \in Images /\ ZeroPage \in Values /\ Blank \in Deltas /\ EmptyLog \in Logs
    BY WalStoreAssumption, EmptyPlaced DEF Init, Images, Deltas, Blank
  <2>2. auto \in BOOLEAN /\ torn \in BOOLEAN
    BY DEF Init
  <2>3. lapse \in Lapses /\ pc \in PCs
    BY DEF Init, Lapses, PCs
  <2> QED
    BY <2>1, <2>2, <2>3 DEF Init, TypeOK, Images, Deltas
<1> QED
  BY <1>1, EmptyPlaced DEF Init, InMemory, Running, Committing

\* What a step of recovery or of a commit writes is a page.
LEMMA MainType ==
  ASSUME InMemory, Next
  PROVE  /\ main' \in Images /\ todo' \subseteq Nat \X Pages
         /\ legal' \subseteq Images /\ prior' \subseteq Images
<1>1. /\ main \in Images /\ wal \in Logs /\ pending \in Deltas /\ txnId \in Nat
      /\ todo \subseteq Nat \X Pages /\ legal \subseteq Images /\ prior \subseteq Images
      /\ Placed(wal)
  BY DEF InMemory, TypeOK, Images, Deltas
<1>2. CASE Open
  <2>1. Redo(wal) \subseteq Nat \X Pages
    <3> SUFFICES ASSUME NEW x \in Redo(wal) PROVE x \in Nat \X Pages
      OBVIOUS
    <3>1. x = <<x[1], x[2]>>
      BY DEF Redo
    <3> QED
      BY <1>1, <3>1, PlacedRedone
  <2> QED
    BY <1>1, <1>2, <2>1 DEF Open, ghosts
<1>3. CASE ReplayPage
  <2>1. PICK w \in todo :
          /\ main' = [main EXCEPT ![w[2]] = RedoValue(wal, w[1], w[2])]
          /\ todo' = todo \ {w}
    BY <1>3 DEF ReplayPage
  <2>2. w \in Redo(wal) /\ w = <<w[1], w[2]>>
    BY <1>1, <1>3, <2>1 DEF InMemory, ReplayPage
  <2>3. w[2] \in Pages /\ RedoValue(wal, w[1], w[2]) \in Values
    BY <1>1, <2>2, PlacedRedone
  <2> QED
    BY <1>1, <1>3, <2>1, <2>3 DEF ReplayPage, ghosts, Images
<1>4. CASE WriteMain
  <2>1. PICK w \in todo : /\ main' = [main EXCEPT ![w[2]] = pending[w[2]]]
                          /\ todo' = todo \ {w}
    BY <1>4 DEF WriteMain
  <2>2. w[2] \in Pages /\ pending[w[2]] \in Values
    BY <1>1, <1>4, <2>1 DEF InMemory, WriteMain, Wrote, Deltas
  <2> QED
    BY <1>1, <1>4, <2>1, <2>2 DEF WriteMain, ghosts, Images
<1>5. CASE AppendCommit
  BY <1>1, <1>5, OverlayType DEF AppendCommit, Decides
<1>6. CASE FsyncWal
  BY <1>1, <1>6 DEF FsyncWal, Wrote, ghosts
<1>7. CASE OpenDone
  BY <1>1, <1>7 DEF OpenDone
<1>8. CASE ReplaySync \/ OpenFails \/ Execute
  BY <1>1, <1>8 DEF ReplaySync, OpenFails, Execute, Begin, BeginStatement,
     ChangeCatalog, WritePage, EndStatement, ghosts
<1>9. CASE FsyncMain \/ CommitDone \/ CommitFailsEarly \/ CommitFailsLate
  BY <1>1, <1>9 DEF FsyncMain, CommitDone, CommitFailsEarly, CommitFailsLate,
     CommitRaises, ghosts
<1>10. CASE Rollback
  BY <1>1, <1>10 DEF Rollback, AppendRollback, RollbackDone, RollbackFails,
     UnwindWithoutRollback, Forget, ghosts
<1>11. CASE Close \/ Crash
  BY <1>1, <1>11 DEF Close, Crash, EndSession
<1> QED
  BY <1>2, <1>3, <1>4, <1>5, <1>6, <1>7, <1>8, <1>9, <1>10, <1>11
     DEF Next, Work, Recovery, Commit

LEMMA InMemoryStep ==
  ASSUME InMemory, [Next]_vars
  PROVE  InMemory'
<1>1. CASE UNCHANGED vars
  BY <1>1 DEF vars, session, ghosts, InMemory, TypeOK, Running, Committing
<1> SUFFICES ASSUME Next PROVE InMemory'
  BY <1>1
<1>2. TypeOK' /\ Placed(wal')
  BY LogPlaced, MainType, TypesKeep DEF InMemory
<1>3. CASE Open
  <2>1. wal'.recs = wal.recs
    BY <1>3 DEF Open, InMemory, TypeOK, Logs
  <2>2. Redo(wal') = Redo(wal)
    BY <2>1, SameRecords
  <2> QED
    BY <1>2, <1>3, <2>2 DEF Open, InMemory, Running, Committing
<1>4. CASE ReplayPage \/ ReplaySync \/ OpenFails
  BY <1>2, <1>4 DEF ReplayPage, ReplaySync, OpenFails, InMemory, Running, Committing
<1>5. CASE OpenDone
  BY <1>2, <1>5 DEF OpenDone, StartSession, InMemory, Running, Committing
<1>6. CASE Begin \/ BeginStatement
  BY <1>2, <1>6 DEF Begin, BeginStatement, NewTransaction, InMemory, TypeOK, Running,
     Committing
<1>7. CASE ChangeCatalog \/ EndStatement
  BY <1>2, <1>7 DEF ChangeCatalog, EndStatement, session, InMemory, Running, Committing
<1>8. CASE WritePage
  BY <1>2, <1>8 DEF WritePage, InMemory, Running, Committing
<1>9. CASE AppendCommit
  BY <1>2, <1>9 DEF AppendCommit, CommitCalled, session, InMemory, Running, Committing
<1>10. CASE FsyncWal
  BY <1>2, <1>10 DEF FsyncWal, session, InMemory, Running, Committing
<1>11. CASE WriteMain
  <2>1. PICK w \in todo : /\ main' = [main EXCEPT ![w[2]] = pending[w[2]]]
                          /\ todo' = todo \ {w}
    BY <1>11 DEF WriteMain
  <2>2. /\ pc = "flush" /\ pc' = "flush" /\ UNCHANGED <<wal, session>>
        /\ main \in Images
    BY <1>11 DEF WriteMain, InMemory, TypeOK, Images
  <2>3. PICK p \in Wrote(pending) : w = <<txnId, p>>
    BY <2>1, <2>2 DEF InMemory
  <2>4. /\ p \in Pages /\ main'[p] = pending[p]
        /\ \A q \in Pages : q # p => main'[q] = main[q]
    BY <2>1, <2>2, <2>3 DEF Images, Wrote
  <2>5. \A q \in Wrote(pending) : <<txnId, q>> \in todo' \/ main'[q] = pending[q]
    BY <2>1, <2>2, <2>3, <2>4 DEF InMemory, Committing, Wrote
  <2>6. todo' \subseteq {<<txnId, q>> : q \in Wrote(pending)}
    BY <2>1, <2>2 DEF InMemory
  <2> QED
    BY <1>2, <2>2, <2>5, <2>6 DEF InMemory, Running, Committing, session
<1>12. CASE FsyncMain
  BY <1>2, <1>12 DEF FsyncMain, session, InMemory, Running, Committing
<1>13. CASE CommitDone
  BY <1>2, <1>13 DEF CommitDone, InMemory, Running, Committing
<1>14. CASE CommitFailsEarly \/ CommitFailsLate
  <2>1. /\ pc' = "ready" /\ Running /\ txnId' = txnId /\ txnId # 0
        /\ UNCHANGED <<pending, buffer>>
    BY <1>14 DEF CommitFailsEarly, CommitFailsLate, CommitRaises, CommitCalled,
       InMemory, Running, Committing
  <2> QED
    BY <1>2, <2>1 DEF InMemory, Running, Committing
<1>15. CASE AppendRollback \/ RollbackFails
  BY <1>2, <1>15 DEF AppendRollback, RollbackFails, session, InMemory, Running, Committing
<1>16. CASE RollbackDone \/ UnwindWithoutRollback
  BY <1>2, <1>16 DEF RollbackDone, UnwindWithoutRollback, Forget, InMemory, Running,
     Committing
<1>17. CASE Close \/ Crash
  BY <1>2, <1>17 DEF Close, Crash, EndSession, InMemory, Running, Committing
<1> QED
  BY <1>3, <1>4, <1>5, <1>6, <1>7, <1>8, <1>9, <1>10, <1>11, <1>12, <1>13, <1>14,
     <1>15, <1>16, <1>17 DEF Next, Work, Recovery, Execute, Commit, Rollback

(***************************************************************************)
(* The types of the state hold in every reachable state, wherever a step   *)
(* raises.                                                                 *)
(***************************************************************************)
THEOREM TypeCorrect == Spec => []TypeOK
<1>1. ASSUME InMemory, [Next]_vars PROVE InMemory'
  BY <1>1, InMemoryStep
<1>2. InMemory => TypeOK
  BY DEF InMemory
<1> QED
  BY <1>1, <1>2, InMemoryStart, PTL DEF Spec
-----------------------------------------------------------------------------
(* The in-memory catalogue.                                                *)

\* While a transaction is undecided the snapshot is the catalogue it started
\* from, and a commit only starts with a saved catalogue.
CatalogOK ==
  /\ pc \in {"ready", "undo"} => cat = View[CatPage]
  /\ Running /\ txnId # 0 /\ ~Committing => snap = main[CatPage]
  /\ Committing => cat = View[CatPage]

LEMMA ViewWithoutWrites ==
  ASSUME InMemory, Running, txnId = 0
  PROVE  View = main
BY OverlayBlank DEF InMemory, View, TypeOK, Images

LEMMA CatalogStep ==
  ASSUME Covered, InMemory, CatalogOK, [Next]_vars
  PROVE  CatalogOK'
<1>1. main \in Images /\ CatPage \in Pages
  BY WalStoreAssumption DEF InMemory, TypeOK, Images
<1>2. CASE Recovery
  <2>1. CASE OpenDone
    BY <1>1, <2>1, OverlayBlank
       DEF OpenDone, StartSession, CatalogOK, View, Running, Committing
  <2>2. CASE ~OpenDone
    BY <1>2, <2>2 DEF Recovery, Open, ReplayPage, ReplaySync, OpenFails, CatalogOK,
       Running, Committing
  <2> QED
    BY <2>1, <2>2
<1>3. CASE Begin \/ BeginStatement
  <2>1. /\ pc = "ready" /\ pc' \in {"ready", "stmt"}
        /\ UNCHANGED <<main, buffer, cat>>
        /\ \/ txnId = 0 /\ snap' = cat
           \/ txnId # 0 /\ snap' = snap /\ txnId' = txnId
    BY <1>3 DEF Begin, BeginStatement, NewTransaction
  <2>2. txnId = 0 => cat = main[CatPage]
    BY <2>1, ViewWithoutWrites DEF CatalogOK, Running
  <2> QED
    BY <2>1, <2>2 DEF CatalogOK, View, Running, Committing
<1>4. CASE ChangeCatalog \/ WritePage
  BY <1>4 DEF ChangeCatalog, WritePage, CatalogOK, Running, Committing
<1>5. CASE EndStatement
  BY <1>5 DEF EndStatement, session, CatalogOK, View, Running, Committing
<1>6. CASE AppendCommit
  BY <1>6 DEF AppendCommit, CommitCalled, session, CatalogOK, View, Running, Committing
<1>7. CASE FsyncWal \/ FsyncMain
  BY <1>7 DEF FsyncWal, FsyncMain, session, CatalogOK, View, Running, Committing
<1>8. CASE WriteMain
  <2>1. PICK w \in todo : main' = [main EXCEPT ![w[2]] = pending[w[2]]]
    BY <1>8 DEF WriteMain
  <2>2. /\ pc = "flush" /\ pc' = "flush" /\ UNCHANGED session /\ buffer = pending
        /\ w[2] \in Wrote(pending)
    BY <1>8 DEF WriteMain, InMemory, Running
  <2>3. View' = View
    BY <1>1, <2>1, <2>2 DEF View, Overlay, Images, Wrote, session
  <2> QED
    BY <1>8, <2>2, <2>3 DEF CatalogOK, Running, Committing, session
<1>9. CASE CommitDone
  <2>1. /\ pc = "synced" /\ pc' = "ready" /\ main' = main /\ cat' = cat /\ txnId' = 0
        /\ buffer' = Blank /\ buffer = pending /\ cat = View[CatPage]
    BY <1>9 DEF CommitDone, CatalogOK, Committing, InMemory, Running
  <2>2. \A p \in Wrote(pending) : main[p] = pending[p]
    BY <2>1 DEF InMemory, Committing
  <2>3. cat = main[CatPage]
    BY <1>1, <2>1, <2>2 DEF View, Overlay, Wrote
  <2> QED
    BY <1>1, <2>1, <2>3, OverlayBlank DEF CatalogOK, View, Running, Committing
<1>10. CASE CommitFailsEarly \/ CommitFailsLate
  <2>1. CommitFailsEarly
    BY <1>10 DEF CommitFailsLate, Covered
  <2> QED
    BY <2>1 DEF CommitFailsEarly, CommitCalled, CommitRaises, CatalogOK, View, Running,
       Committing
<1>11. CASE AppendRollback
  BY <1>11 DEF AppendRollback, session, CatalogOK, View, Running, Committing
<1>12. CASE RollbackDone \/ UnwindWithoutRollback
  <2>1. Forget /\ Running /\ ~Committing /\ txnId # 0
    BY <1>12 DEF RollbackDone, UnwindWithoutRollback, Running, Committing, InMemory
  <2> QED
    BY <1>1, <2>1, OverlayBlank DEF Forget, CatalogOK, View, Running, Committing
<1>13. CASE RollbackFails
  BY <1>13 DEF RollbackFails, session, CatalogOK, View, Running, Committing
<1>14. CASE Close \/ Crash
  BY <1>14 DEF Close, Crash, EndSession, CatalogOK, Running, Committing
<1>15. CASE UNCHANGED vars
  BY <1>15 DEF vars, session, CatalogOK, View, Running, Committing
<1> QED
  BY <1>2, <1>3, <1>4, <1>5, <1>6, <1>7, <1>8, <1>9, <1>10, <1>11, <1>12, <1>13,
     <1>14, <1>15 DEF Next, Work, Execute, Commit, Rollback

(***************************************************************************)
(* Between two statements the catalogue in memory is the one a read of     *)
(* page 1 returns: restore_state undoes what rolled-back statements did.   *)
(***************************************************************************)
THEOREM CatalogCoherence ==
  ASSUME Covered
  PROVE  Spec => []CatalogCoherent
<1>1. Init => CatalogOK
  BY DEF Init, CatalogOK, Running, Committing
<1>2. ASSUME InMemory, CatalogOK, [Next]_vars PROVE InMemory' /\ CatalogOK'
  BY <1>2, CatalogStep, InMemoryStep
<1>3. CatalogOK => CatalogCoherent
  BY DEF CatalogOK, CatalogCoherent
<1> QED
  BY <1>1, <1>2, <1>3, InMemoryStart, PTL DEF Spec
-----------------------------------------------------------------------------
(* What a restart would find, phase by phase.                              *)

IInv == TypeOK /\ WalInvariant

LEMMA RestartFinds ==
  ASSUME IInv
  PROVE  /\ Recovered(main, wal) \in Images
         /\ Running /\ ~Committing => Recovered(main, wal) = main
         /\ Committing => Recovered(main, wal) = Overlay(main, pending)
         /\ pc = "synced" => Recovered(main, wal) = main
         /\ pc = "replayed" => Recovered(main, wal) = main
         /\ pc = "replay" /\ todo = {} => Recovered(main, wal) = main
<1> USE DEF IInv, WalInvariant
<1>1. main \in Images /\ wal \in Logs /\ pending \in Deltas /\ txnId \in Nat
  BY DEF TypeOK, Images, Deltas
<1>2. Recovered(main, wal) \in Images
  BY <1>1, RecoveredPages
<1>3. ASSUME Running, ~Committing PROVE Recovered(main, wal) = main
  BY <1>1, <1>3, RecoveredNoCommit
<1>4. ASSUME Committing PROVE Recovered(main, wal) = Overlay(main, pending)
  <2>1. Running
    BY <1>4 DEF Committing, Running
  <2> QED
    BY <1>1, <1>4, <2>1, RecoveredCommit DEF CommitOK, SessionOK
<1>5. ASSUME pc = "synced" PROVE Recovered(main, wal) = main
  <2>1. Committing
    BY <1>5 DEF Committing
  <2>2. \A p \in Wrote(pending) : main[p] = pending[p]
    BY <1>5, <2>1 DEF CommitOK
  <2>3. Overlay(main, pending) = main
    BY <1>1, <2>2 DEF Overlay, Wrote, Images
  <2> QED
    BY <1>4, <2>1, <2>3
<1>6. ASSUME pc = "replayed" \/ (pc = "replay" /\ todo = {})
      PROVE  Recovered(main, wal) = main
  <2>1. \A x \in Redo(wal) : main[x[2]] = RedoValue(wal, x[1], x[2])
    BY <1>6 DEF ReplayOK
  <2>2. \A p \in Pages : Recovered(main, wal)[p] = main[p]
    <3> SUFFICES ASSUME NEW p \in Pages PROVE Recovered(main, wal)[p] = main[p]
      OBVIOUS
    <3>1. CASE \A t : <<t, p>> \notin Redo(wal)
      BY <1>1, <3>1, RecoveredPages
    <3>2. CASE \E t : <<t, p>> \in Redo(wal)
      <4>1. PICK x \in Redo(wal) : x[2] = p
        BY <3>2
      <4> QED
        BY <1>1, <2>1, <4>1, RecoveredPages
    <3> QED
      BY <3>1, <3>2
  <2> QED
    BY <1>1, <1>2, <2>2 DEF Images
<1> QED
  BY <1>2, <1>3, <1>4, <1>5, <1>6
-----------------------------------------------------------------------------
(* Every step preserves the invariant.                                     *)

LEMMA InitInv == Init => IInv
<1> SUFFICES ASSUME Init PROVE IInv
  OBVIOUS
<1>1. main \in Images /\ pending \in Deltas /\ ZeroPage \in Values
  BY WalStoreAssumption DEF Init, Images, Deltas, Blank
<1>2. wal \in Logs /\ LogOK(wal) /\ CommitRecords(wal) = {}
  BY EmptyLogOK DEF Init
<1>3. TypeOK
  <2>1. /\ auto \in BOOLEAN /\ torn \in BOOLEAN
        /\ legal \subseteq Images /\ prior \subseteq Images /\ lapse \in Lapses
    BY <1>1 DEF Init, Lapses
  <2>2. /\ buffer \in Deltas /\ cat \in Values /\ snap \in Values
        /\ pc \in PCs /\ todo \subseteq Nat \X Pages
        /\ nextTxn \in Nat \ {0} /\ txnId \in Nat /\ restarts \in Nat
        /\ txnState \in {"none", "active", "rolled_back"}
    BY <1>1 DEF Init, PCs
  <2> QED
    BY <1>1, <1>2, <2>1, <2>2 DEF TypeOK, Images, Deltas
<1>4. Recovered(main, wal) = main
  BY <1>1, <1>2, RecoveredNoCommit
<1> QED
  BY <1>2, <1>3, <1>4 DEF Init, IInv, WalInvariant, Running, Committing

LEMMA OpenInv ==
  ASSUME IInv, Open
  PROVE  IInv'
<1> USE DEF IInv, WalInvariant, Open
<1>1. main \in Images /\ wal \in Logs
  BY DEF TypeOK, Images
<1>2. wal' \in Logs /\ wal'.recs = wal.recs /\ wal'.end = wal.end
  BY <1>1 DEF Logs
<1>3. /\ LogOK(wal') /\ Redo(wal') = Redo(wal)
      /\ Recovered(main, wal') = Recovered(main, wal)
  BY <1>1, <1>2, TornTail
<1>4. Redo(wal) \subseteq Nat \X Pages
  <2> SUFFICES ASSUME NEW x \in Redo(wal) PROVE x \in Nat \X Pages
    OBVIOUS
  <2>1. x = <<x[1], x[2]>>
    BY <1>1, RecoveredPages
  <2>2. x[1] \in Nat /\ x[2] \in Pages
    BY <1>1, <2>1, OneRedoer
  <2> QED
    BY <2>1, <2>2
<1>5. TypeOK'
  BY <1>1, <1>2, <1>4 DEF TypeOK, PCs, session, ghosts, Logs
<1> QED
  BY <1>3, <1>5 DEF Running, Committing, ReplayOK, session, ghosts

LEMMA ReplayPageInv ==
  ASSUME IInv, ReplayPage
  PROVE  IInv'
<1> USE DEF IInv, WalInvariant
<1>1. main \in Images /\ wal \in Logs /\ LogOK(wal)
  BY DEF TypeOK, Images
<1>2. PICK w \in todo :
        /\ main' = [main EXCEPT ![w[2]] = RedoValue(wal, w[1], w[2])]
        /\ todo' = todo \ {w}
  BY DEF ReplayPage
<1>3. /\ pc = "replay" /\ pc' = "replay" /\ wal' = wal /\ legal' = legal
      /\ UNCHANGED <<session, torn, restarts, prior, lapse>>
  BY DEF ReplayPage, ghosts
<1>4. w \in Redo(wal) /\ todo \subseteq Redo(wal)
  BY <1>3 DEF ReplayOK
<1>5. w = <<w[1], w[2]>> /\ w[2] \in Pages
  BY <1>1, <1>4, RecoveredPages
<1>6. Redoers(wal, w[2]) = {w[1]} /\ RedoValue(wal, w[1], w[2]) \in Values
  BY <1>1, <1>4, <1>5, OneRedoer
<1>7. main' \in Images
  BY <1>1, <1>2, <1>5, <1>6 DEF Images
<1>8. Recovered(main', wal) = Recovered(main, wal)
  <2>1. \A p \in Pages : (\A t : <<t, p>> \notin Redo(wal)) => main'[p] = main[p]
    BY <1>1, <1>2, <1>4, <1>5 DEF Images
  <2> QED
    BY <1>1, <1>7, <2>1, RecoveredAgree
<1>9. ASSUME NEW x \in Redo(wal)
      PROVE  x \in todo' \/ main'[x[2]] = RedoValue(wal, x[1], x[2])
  <2>1. x = <<x[1], x[2]>> /\ x[2] \in Pages
    BY <1>1, RecoveredPages
  <2>2. CASE x[2] = w[2]
    <3>1. Redoers(wal, x[2]) = {x[1]}
      BY <1>1, <2>1, OneRedoer
    <3>2. x[1] = w[1]
      BY <1>6, <2>2, <3>1
    <3> QED
      BY <1>1, <1>2, <1>5, <2>2, <3>2 DEF Images
  <2>3. CASE x[2] # w[2]
    <3>1. main'[x[2]] = main[x[2]]
      BY <1>1, <1>2, <2>1, <2>3 DEF Images
    <3>2. x \in todo \/ main[x[2]] = RedoValue(wal, x[1], x[2])
      BY <1>3 DEF ReplayOK
    <3> QED
      BY <1>2, <2>3, <3>1, <3>2
  <2> QED
    BY <2>2, <2>3
<1>10. ReplayOK'
  BY <1>2, <1>3, <1>4, <1>9 DEF ReplayOK
<1>11. TypeOK'
  BY <1>2, <1>3, <1>7 DEF TypeOK, session, Images
<1> QED
  BY <1>3, <1>8, <1>10, <1>11 DEF Running, Committing

LEMMA ReplaySyncInv ==
  ASSUME IInv, ReplaySync
  PROVE  IInv'
BY DEF IInv, WalInvariant, ReplaySync, TypeOK, PCs, session, ghosts, Running,
       Committing, ReplayOK

LEMMA OpenDoneInv ==
  ASSUME IInv, OpenDone
  PROVE  IInv'
<1> USE DEF IInv, WalInvariant
<1>1. main \in Images /\ wal \in Logs /\ LogOK(wal) /\ main' = main
  BY DEF TypeOK, Images, OpenDone
<1>2. /\ wal' \in Logs /\ LogOK(wal')
      /\ CommitRecords(wal') = {} /\ PageWrites(wal') = {}
  BY <1>1, TruncateReplayedOK DEF OpenDone, LogOK
<1>3. Recovered(main, wal) = main /\ Recovered(main', wal') = main
  BY <1>1, <1>2, RestartFinds, RecoveredNoCommit DEF OpenDone
<1>4. legal' = {main}
  BY <1>3 DEF OpenDone
<1>5. main[CatPage] \in Values /\ Blank \in Deltas
  BY <1>1, WalStoreAssumption DEF Images, Deltas, Blank
<1>6. TypeOK'
  <2>1. /\ auto' \in BOOLEAN /\ torn' \in BOOLEAN
        /\ legal' \subseteq Images /\ prior' \subseteq Images /\ lapse' \in Lapses
    BY <1>1, <1>4 DEF OpenDone, StartSession, TypeOK
  <2>2. /\ buffer' \in Deltas /\ pending' \in Deltas
        /\ cat' \in Values /\ snap' \in Values
        /\ pc' \in PCs /\ todo' \subseteq Nat \X Pages
        /\ nextTxn' \in Nat \ {0} /\ txnId' \in Nat /\ restarts' \in Nat
        /\ txnState' \in {"none", "active", "rolled_back"}
    BY <1>5 DEF OpenDone, StartSession, PCs, TypeOK
  <2> QED
    BY <1>1, <1>2, <2>1, <2>2 DEF TypeOK, Images, Deltas
<1>7. SessionOK'
  BY <1>2 DEF SessionOK, OpenDone, StartSession
<1> QED
  BY <1>2, <1>3, <1>4, <1>6, <1>7 DEF OpenDone, Running, Committing

LEMMA OpenFailsInv ==
  ASSUME IInv, OpenFails
  PROVE  IInv'
BY DEF IInv, WalInvariant, OpenFails, TypeOK, PCs, session, ghosts, Running,
       Committing

LEMMA BeginInv ==
  ASSUME IInv, Begin \/ BeginStatement
  PROVE  IInv'
<1> USE DEF IInv, WalInvariant
<1>1. /\ pc = "ready" /\ pc' \in {"ready", "stmt"}
      /\ pc' = "ready" => NewTransaction
      /\ UNCHANGED <<main, wal, pending, buffer, cat, todo, torn, restarts, ghosts>>
      /\ auto' \in BOOLEAN
  BY DEF Begin, BeginStatement, TypeOK
<1>2. wal \in Logs /\ SessionOK /\ CommitRecords(wal) = {} /\ txnId \in Nat
      /\ nextTxn \in Nat \ {0} /\ cat \in Values
  BY <1>1 DEF Running, Committing, TypeOK
<1>3. \A r \in PageWrites(wal) : r.txn \in Nat
  BY <1>2, RecordFields DEF PageWrites, Logs
<1>4. CASE NewTransaction
  <2>1. /\ txnId' = nextTxn /\ nextTxn' = nextTxn + 1 /\ txnState' = "active"
        /\ snap' = cat /\ pending = Blank /\ txnId = 0
    BY <1>2, <1>4 DEF NewTransaction, SessionOK
  <2>2. LoggedBy(wal, nextTxn, Blank)
    <3>1. \A p \in Pages : WritesOf(wal, nextTxn, p) = {}
      BY <1>2, <1>3 DEF SessionOK, WritesOf
    <3> QED
      BY <3>1 DEF LoggedBy, Blank
  <2>3. SessionOK'
    BY <1>1, <1>2, <1>3, <2>1, <2>2 DEF SessionOK
  <2>4. TypeOK'
    BY <1>1, <1>2, <2>1 DEF TypeOK, PCs, ghosts
  <2> QED
    BY <1>1, <1>2, <2>3, <2>4 DEF Running, Committing, ghosts
<1>5. CASE /\ txnId # 0 /\ pc' = "stmt"
           /\ UNCHANGED <<nextTxn, txnId, txnState, snap>>
  <2>1. SessionOK'
    BY <1>1, <1>2, <1>5 DEF SessionOK, ghosts
  <2>2. TypeOK'
    BY <1>1, <1>5 DEF TypeOK, PCs, ghosts
  <2> QED
    BY <1>1, <1>2, <2>1, <2>2 DEF Running, Committing, ghosts
<1> QED
  BY <1>1, <1>4, <1>5 DEF Begin, BeginStatement

LEMMA StatementInv ==
  ASSUME IInv, ChangeCatalog \/ EndStatement
  PROVE  IInv'
<1>1. /\ pc = "stmt" /\ pc' \in {"ready", "stmt"} /\ cat' \in Values
      /\ UNCHANGED <<main, wal, nextTxn, txnId, txnState, auto, pending, buffer,
                     snap, todo, torn, restarts, ghosts>>
  BY DEF ChangeCatalog, EndStatement, session, IInv, TypeOK
<1>2. TypeOK'
  BY <1>1 DEF IInv, TypeOK, PCs, ghosts
<1>3. SessionOK'
  BY <1>1 DEF IInv, WalInvariant, Running, SessionOK, ghosts
<1> QED
  BY <1>1, <1>2, <1>3 DEF IInv, WalInvariant, Running, Committing, ghosts

LEMMA WritePageInv ==
  ASSUME IInv, WritePage
  PROVE  IInv'
<1> USE DEF IInv, WalInvariant
<1>1. PICK p \in Pages, v \in Values :
        /\ wal' = AppendRecord(wal, PageRecord(wal, txnId, p, v))
        /\ pending' = [pending EXCEPT ![p] = v]
        /\ buffer' = [buffer EXCEPT ![p] = v]
  BY DEF WritePage
<1>2. /\ pc = "stmt" /\ pc' = "stmt" /\ txnState = "active"
      /\ UNCHANGED <<main, nextTxn, txnId, txnState, auto, cat, snap, todo, torn,
                     restarts, legal, prior, lapse>>
  BY DEF WritePage, ghosts
<1>3. /\ main \in Images /\ wal \in Logs /\ LogOK(wal) /\ pending \in Deltas
      /\ txnId \in Nat /\ nextTxn \in Nat /\ SessionOK /\ CommitRecords(wal) = {}
  BY <1>2 DEF TypeOK, Images, Deltas, Running, Committing
<1>4. /\ txnId # 0 /\ buffer = pending
      /\ lapse # "open" => LoggedBy(wal, txnId, pending)
  BY <1>2, <1>3 DEF SessionOK
<1>5. /\ wal' \in Logs /\ LogOK(wal') /\ CommitRecords(wal') = {}
      /\ PageWrites(wal') = PageWrites(wal) \cup {PageRecord(wal, txnId, p, v)}
      /\ LoggedBy(wal, txnId, pending) => LoggedBy(wal', txnId, pending')
  <2> DEFINE x == AppendRecord(wal, PageRecord(wal, txnId, p, v))
             d == [pending EXCEPT ![p] = v]
  <2> HIDE DEF IInv
  <2>1. /\ x \in Logs /\ LogOK(x) /\ CommitRecords(x) = {}
        /\ PageWrites(x) = PageWrites(wal) \cup {PageRecord(wal, txnId, p, v)}
        /\ LoggedBy(wal, txnId, pending) => LoggedBy(x, txnId, d)
    BY <1>3, <1>4, AppendPageOK DEF LogOK
  <2> QED
    BY <1>1, <2>1
<1>6. SessionOK'
  <2>1. \A r \in PageWrites(wal') : r.txn < nextTxn
    BY <1>3, <1>4, <1>5 DEF SessionOK, PageRecord
  <2> QED
    BY <1>1, <1>2, <1>3, <1>4, <1>5, <2>1 DEF SessionOK
<1>7. Recovered(main', wal') = Recovered(main, wal)
  BY <1>2, <1>3, <1>5, RecoveredNoCommit
<1>8. TypeOK'
  BY <1>1, <1>2, <1>5 DEF TypeOK
<1> QED
  BY <1>2, <1>5, <1>6, <1>7, <1>8 DEF Running, Committing

LEMMA AppendCommitInv ==
  ASSUME Covered, IInv, AppendCommit, ~Lapsed'
  PROVE  IInv' /\ Recovered(main, wal)' = Overlay(main, pending)
<1> USE DEF IInv, WalInvariant
<1>1. /\ pc \in {"ready", "stmt"} /\ pc' = "logged" /\ txnState = "active"
      /\ Wrote(pending) # {}
      /\ wal' = AppendRecord(wal, StatusRecord(wal, txnId, "COMMIT"))
      /\ legal' = {Overlay(s, pending) : s \in legal} /\ prior' = legal
      /\ lapse = "none" /\ lapse' = "none"
      /\ UNCHANGED <<main, session, todo, torn, restarts>>
  BY DEF AppendCommit, CommitCalled, Decides, Covered, Lapsed
<1>2. /\ main \in Images /\ wal \in Logs /\ LogOK(wal) /\ pending \in Deltas
      /\ txnId \in Nat /\ nextTxn \in Nat /\ SessionOK /\ CommitRecords(wal) = {}
  BY <1>1 DEF TypeOK, Images, Deltas, Running, Committing
<1>3. txnId # 0 /\ LoggedBy(wal, txnId, pending)
  BY <1>1, <1>2 DEF SessionOK
<1>4. \E q \in PageWrites(wal) : q.txn = txnId
  <2>1. PICK p \in Pages : pending[p] # Untouched
    BY <1>1 DEF Wrote
  <2>2. PICK q \in wal.recs : LastOf(q, WritesOf(wal, txnId, p))
    BY <1>3, <2>1 DEF LoggedBy
  <2> QED
    BY <2>2 DEF LastOf, WritesOf
<1>5. /\ wal' \in Logs /\ LogOK(wal') /\ PageWrites(wal') = PageWrites(wal)
      /\ LoggedBy(wal', txnId, pending) /\ IsCommitted(wal', txnId)
  BY <1>1, <1>2, <1>3, <1>4, AppendStatusOK DEF LogOK
<1>6. Recovered(main, wal') = Overlay(main, pending)
  BY <1>2, <1>5, RecoveredCommit
<1>7. legal = {main}
  BY <1>1, RestartFinds DEF Running, Committing
<1>8. Overlay(main, pending) \in Images
  BY <1>2, OverlayType
<1>9. TypeOK'
  BY <1>1, <1>2, <1>5, <1>7, <1>8 DEF TypeOK, PCs, Lapses, session, Images
<1>10. SessionOK'
  BY <1>1, <1>2, <1>3, <1>5 DEF SessionOK, session
<1>11. CommitOK'
  BY <1>1, <1>3, <1>5 DEF CommitOK, session
<1> QED
  BY <1>1, <1>5, <1>6, <1>7, <1>9, <1>10, <1>11 DEF Running, Committing, session

LEMMA FsyncWalInv ==
  ASSUME IInv, FsyncWal
  PROVE  IInv'
<1> USE DEF IInv, WalInvariant
<1>1. /\ pc = "logged" /\ pc' = "flush"
      /\ todo' = {<<txnId, p>> : p \in Wrote(pending)}
      /\ UNCHANGED <<main, wal, session, torn, restarts, legal, prior, lapse>>
  BY DEF FsyncWal, ghosts
<1>2. SessionOK /\ CommitOK
  BY <1>1 DEF Running, Committing
<1>3. CommitOK'
  BY <1>1, <1>2 DEF CommitOK, session, Wrote
<1>4. TypeOK'
  BY <1>1 DEF TypeOK, PCs, session, Wrote
<1>5. SessionOK'
  BY <1>1, <1>2 DEF SessionOK, CommitOK, session
<1> QED
  BY <1>1, <1>3, <1>4, <1>5 DEF Running, Committing

LEMMA WriteMainInv ==
  ASSUME IInv, WriteMain
  PROVE  IInv' /\ Overlay(main, pending)' = Overlay(main, pending)
<1> USE DEF IInv, WalInvariant
<1>1. PICK w \in todo : /\ main' = [main EXCEPT ![w[2]] = pending[w[2]]]
                        /\ todo' = todo \ {w}
  BY DEF WriteMain
<1>2. /\ pc = "flush" /\ pc' = "flush"
      /\ UNCHANGED <<wal, session, torn, restarts, legal, prior, lapse>>
  BY DEF WriteMain, ghosts
<1>3. /\ main \in Images /\ wal \in Logs /\ pending \in Deltas /\ txnId \in Nat
      /\ SessionOK /\ CommitOK
  BY <1>2 DEF TypeOK, Images, Deltas, Running, Committing
<1>4. PICK p \in Wrote(pending) : w = <<txnId, p>>
  BY <1>2, <1>3 DEF CommitOK
<1>5. p \in Pages /\ pending[p] \in Values /\ main' = [main EXCEPT ![p] = pending[p]]
  BY <1>1, <1>3, <1>4 DEF Wrote, Deltas
<1>6. main' \in Images
  BY <1>3, <1>5 DEF Images
<1>7. Overlay(main', pending) = Overlay(main, pending)
  BY <1>3, <1>4, <1>5 DEF Overlay, Images, Wrote
<1>8. CommitOK'
  <2>1. \A q \in Wrote(pending) : <<txnId, q>> \in todo' \/ main'[q] = pending[q]
    BY <1>1, <1>2, <1>3, <1>4, <1>5 DEF CommitOK, Images, Wrote
  <2> QED
    BY <1>1, <1>2, <1>3, <2>1 DEF CommitOK, session
<1>9. SessionOK'
  BY <1>2, <1>3 DEF SessionOK, CommitOK, session
<1>10. TypeOK'
  BY <1>1, <1>2, <1>6 DEF TypeOK, session, Images
<1>11. Recovered(main', wal') = Recovered(main, wal)
  <2>1. LogOK(wal) /\ IsCommitted(wal, txnId) /\ LoggedBy(wal, txnId, pending)
    BY <1>3 DEF CommitOK, SessionOK
  <2> QED
    BY <1>2, <1>3, <1>6, <1>7, <2>1, RecoveredCommit
<1> QED
  BY <1>2, <1>7, <1>8, <1>9, <1>10, <1>11 DEF Running, Committing, session

LEMMA FsyncMainInv ==
  ASSUME IInv, FsyncMain
  PROVE  IInv'
<1> USE DEF IInv, WalInvariant
<1>1. /\ pc = "flush" /\ pc' = "synced" /\ todo = {}
      /\ UNCHANGED <<main, wal, session, todo, torn, restarts, legal, prior, lapse>>
  BY DEF FsyncMain, ghosts
<1>2. SessionOK /\ CommitOK
  BY <1>1 DEF Running, Committing
<1>3. CommitOK'
  BY <1>1, <1>2 DEF CommitOK, session, Wrote
<1>4. TypeOK'
  BY <1>1 DEF TypeOK, PCs, session
<1>5. SessionOK'
  BY <1>1, <1>2 DEF SessionOK, CommitOK, session
<1> QED
  BY <1>1, <1>3, <1>4, <1>5 DEF Running, Committing

\* A transaction ends: the log is truncated behind it, main is as it was.
LEMMA TransactionEnds ==
  ASSUME IInv, Running, txnId # 0, Recovered(main, wal) = main,
         \A r \in CommitRecords(wal) : r.txn <= txnId,
         \/ wal' = TruncateBefore(wal, txnId + 1)
         \/ wal' = EmptyLog
         \/ wal' = wal /\ CommitRecords(wal) = {},
         main' = main, legal' = legal, pc' = "ready", nextTxn' = nextTxn,
         txnId' = 0, txnState' = "none", auto' = FALSE, pending' = Blank,
         buffer' = Blank, cat' \in Values, snap' \in Values,
         UNCHANGED <<todo, torn, restarts>>, prior' \subseteq Images, LapseEnds
  PROVE  IInv'
<1> USE DEF IInv, WalInvariant
<1>1. main \in Images /\ wal \in Logs /\ txnId \in Nat /\ SessionOK
  BY DEF TypeOK, Images
<1>2. /\ wal' \in Logs /\ LogOK(wal') /\ CommitRecords(wal') = {}
      /\ PageWrites(wal') \subseteq PageWrites(wal)
  BY <1>1, TruncateOK, EmptyLogOK DEF LogOK
<1>3. Recovered(main', wal') = main
  BY <1>1, <1>2, RecoveredNoCommit
<1>4. Blank \in Deltas
  BY DEF Blank, Deltas
<1>5. auto' \in BOOLEAN
  OBVIOUS
<1>6. TypeOK'
  BY <1>1, <1>2, <1>4, <1>5 DEF TypeOK, PCs, Lapses, LapseEnds, Images, Deltas
<1>7. SessionOK'
  BY <1>1, <1>2 DEF SessionOK
<1> QED
  BY <1>2, <1>3, <1>6, <1>7 DEF Running, Committing

LEMMA CommitDoneInv ==
  ASSUME IInv, CommitDone
  PROVE  IInv'
<1>1. pc = "synced" /\ Running /\ Committing
  BY DEF CommitDone, Running, Committing
<1>2. CommitOK /\ LogOK(wal) /\ txnId \in Nat /\ cat \in Values
  BY <1>1 DEF IInv, WalInvariant, TypeOK
<1>3. \A r \in CommitRecords(wal) : r.txn <= txnId
  <2>1. PICK r \in CommitRecords(wal) : r.txn = txnId
    BY <1>2 DEF CommitOK, IsCommitted, StatusOf, CommitRecords
  <2> QED
    BY <1>2, <2>1 DEF LogOK, OneCommit
<1>4. Recovered(main, wal) = main
  BY <1>1, RestartFinds
<1>5. /\ wal' = TruncateBefore(wal, txnId + 1)
      /\ main' = main /\ legal' = legal /\ pc' = "ready" /\ nextTxn' = nextTxn
      /\ txnId' = 0 /\ txnState' = "none" /\ auto' = FALSE /\ pending' = Blank
      /\ buffer' = Blank /\ cat' \in Values /\ snap' \in Values
      /\ UNCHANGED <<todo, torn, restarts>> /\ prior' \subseteq Images /\ LapseEnds
  BY <1>2 DEF CommitDone
<1>6. txnId # 0
  BY <1>2 DEF CommitOK
<1> QED
  BY <1>1, <1>3, <1>4, <1>5, <1>6, TransactionEnds

LEMMA CommitFailsInv ==
  ASSUME Covered, IInv, CommitFailsEarly \/ CommitFailsLate
  PROVE  IInv' /\ CommitFailsEarly
<1> USE DEF IInv, WalInvariant
<1>1. ~CommitFailsLate
  BY DEF CommitFailsLate, Covered
<1>2. /\ pc \in {"ready", "stmt"} /\ pc' = "ready" /\ txnState = "active"
      /\ txnState' = "rolled_back" /\ todo' = {}
      /\ UNCHANGED <<main, wal, nextTxn, txnId, auto, pending, buffer, cat, snap,
                     torn, restarts, legal, prior, lapse>>
  BY <1>1 DEF CommitFailsEarly, CommitCalled, CommitRaises, ghosts
<1>3. SessionOK /\ CommitRecords(wal) = {}
  BY <1>2 DEF Running, Committing
<1>4. SessionOK'
  BY <1>2, <1>3 DEF SessionOK
<1>5. TypeOK'
  BY <1>2 DEF TypeOK, PCs
<1> QED
  BY <1>1, <1>2, <1>3, <1>4, <1>5 DEF Running, Committing

LEMMA AppendRollbackInv ==
  ASSUME IInv, AppendRollback
  PROVE  IInv' /\ Recovered(main, wal)' = Recovered(main, wal)
<1> USE DEF IInv, WalInvariant
<1>1. /\ pc \in {"ready", "stmt"} /\ pc' \in {"undo", "unwind"}
      /\ txnState = "active"
      /\ wal' = AppendRecord(wal, StatusRecord(wal, txnId, "ROLLBACK"))
      /\ UNCHANGED <<main, session, todo, torn, restarts, legal, prior, lapse>>
  BY DEF AppendRollback, ghosts
<1>2. /\ main \in Images /\ wal \in Logs /\ LogOK(wal) /\ pending \in Deltas
      /\ txnId \in Nat /\ SessionOK /\ CommitRecords(wal) = {}
  BY <1>1 DEF TypeOK, Images, Deltas, Running, Committing
<1>3. txnId # 0 /\ (lapse # "open" => LoggedBy(wal, txnId, pending))
  BY <1>1, <1>2 DEF SessionOK
<1>4. /\ wal' \in Logs /\ LogOK(wal') /\ CommitRecords(wal') = {}
      /\ PageWrites(wal') = PageWrites(wal)
      /\ LoggedBy(wal, txnId, pending) => LoggedBy(wal', txnId, pending)
  BY <1>1, <1>2, <1>3, AppendStatusOK DEF LogOK
<1>5. Recovered(main', wal') = Recovered(main, wal)
  BY <1>1, <1>2, <1>4, RecoveredNoCommit
<1>6. SessionOK'
  BY <1>1, <1>2, <1>3, <1>4 DEF SessionOK, session
<1>7. TypeOK'
  BY <1>1, <1>4 DEF TypeOK, PCs, session
<1> QED
  BY <1>1, <1>4, <1>5, <1>6, <1>7 DEF Running, Committing

LEMMA ForgetInv ==
  ASSUME IInv, RollbackDone \/ UnwindWithoutRollback
  PROVE  IInv'
<1>1. /\ pc \in {"undo", "unwind", "stmt"} /\ Running /\ ~Committing
      /\ Forget
      /\ wal' \in TruncateFailed(wal, txnId + 1)
  BY DEF RollbackDone, UnwindWithoutRollback, TruncateFailed, Running, Committing
<1>2. /\ SessionOK /\ CommitRecords(wal) = {} /\ snap \in Values
      /\ prior \subseteq Images
  BY <1>1 DEF IInv, WalInvariant, TypeOK, Images
<1>3. txnId # 0
  BY <1>1, <1>2 DEF SessionOK
<1>4. Recovered(main, wal) = main
  BY <1>1, RestartFinds
<1>5. /\ main' = main /\ legal' = legal /\ pc' = "ready" /\ nextTxn' = nextTxn
      /\ txnId' = 0 /\ txnState' = "none" /\ auto' = FALSE /\ pending' = Blank
      /\ buffer' = Blank /\ cat' \in Values /\ snap' \in Values
      /\ UNCHANGED <<todo, torn, restarts>> /\ prior' \subseteq Images /\ LapseEnds
  BY <1>1, <1>2 DEF Forget
<1> QED
  BY <1>1, <1>2, <1>3, <1>4, <1>5, TransactionEnds DEF TruncateFailed

LEMMA RollbackFailsInv ==
  ASSUME IInv, RollbackFails, ~Lapsed'
  PROVE  IInv'
<1> USE DEF IInv, WalInvariant
<1>1. /\ pc = "undo" /\ pc' = "ready" /\ wal' \in TruncateFailed(wal, txnId + 1)
      /\ lapse' \in {lapse, "open"} /\ (wal' # wal => lapse' = "open")
      /\ UNCHANGED <<main, session, todo, torn, restarts, legal, prior>>
  BY DEF RollbackFails, Lapsed
<1>2. /\ main \in Images /\ wal \in Logs /\ LogOK(wal) /\ txnId \in Nat
      /\ SessionOK /\ CommitRecords(wal) = {}
  BY <1>1 DEF TypeOK, Images, Running, Committing
<1>3. /\ wal' \in Logs /\ LogOK(wal') /\ CommitRecords(wal') = {}
      /\ PageWrites(wal') \subseteq PageWrites(wal)
  <2>1. CASE wal' = wal
    BY <1>2, <2>1
  <2>2. CASE wal' = EmptyLog
    BY <2>2, EmptyLogOK
  <2>3. CASE wal' = TruncateBefore(wal, txnId + 1)
    BY <1>2, <2>3, TruncateOK DEF LogOK
  <2> QED
    BY <1>1, <2>1, <2>2, <2>3 DEF TruncateFailed
<1>4. Recovered(main', wal') = Recovered(main, wal)
  BY <1>1, <1>2, <1>3, RecoveredNoCommit
<1>5. TypeOK'
  BY <1>1, <1>3 DEF TypeOK, PCs, Lapses, session
<1>6. SessionOK'
  <2>1. \A r \in PageWrites(wal') : r.txn < nextTxn
    BY <1>2, <1>3 DEF SessionOK
  <2>2. lapse' # "open" => wal' = wal /\ lapse' = lapse
    BY <1>1
  <2> QED
    BY <1>1, <1>2, <2>1, <2>2 DEF SessionOK, session
<1> QED
  BY <1>1, <1>3, <1>4, <1>5, <1>6 DEF Running, Committing

LEMMA EndSessionInv ==
  ASSUME IInv, Close \/ Crash
  PROVE  IInv' /\ Recovered(main, wal)' = Recovered(main, wal)
<1> USE DEF IInv, WalInvariant
<1>1. main \in Images /\ wal \in Logs /\ LogOK(wal) /\ main' = main
  BY DEF TypeOK, Images, Close, Crash
<1>2. \/ wal' = wal
      \/ wal' = [wal EXCEPT !.torn = TRUE]
      \/ wal' = EmptyLog /\ (pc \in {"synced", "undo", "unwind", "replayed"})
  BY DEF Close, Crash, LogAfterKill, Rewriting
<1>3. /\ wal' \in Logs /\ LogOK(wal')
      /\ Recovered(main', wal') = Recovered(main, wal)
  <2>1. CASE wal' = wal
    BY <1>1, <2>1
  <2>2. CASE wal' = [wal EXCEPT !.torn = TRUE]
    <3>1. wal' \in Logs /\ wal'.recs = wal.recs /\ wal'.end = wal.end
      BY <1>1, <2>2 DEF Logs
    <3> QED
      BY <1>1, <3>1, TornTail
  <2>3. CASE wal' = EmptyLog /\ pc \in {"synced", "undo", "unwind", "replayed"}
    <3>1. Recovered(main, wal) = main
      BY <2>3, RestartFinds DEF Running, Committing
    <3>2. Recovered(main, EmptyLog) = main
      BY <1>1, EmptyLogOK, RecoveredNoCommit
    <3> QED
      BY <1>1, <2>3, <3>1, <3>2, EmptyLogOK
  <2> QED
    BY <1>2, <2>1, <2>2, <2>3
<1>5. main[CatPage] \in Values /\ Blank \in Deltas
  BY <1>1, WalStoreAssumption DEF Images, Deltas, Blank
<1>6. EndSession /\ legal' = legal /\ prior' \subseteq Images
  BY DEF Close, Crash, ghosts, TypeOK, Images
<1>7. TypeOK'
  <2>1. auto' \in BOOLEAN /\ torn' \in BOOLEAN /\ lapse' \in Lapses
    BY <1>6 DEF EndSession, LapseEnds, Lapses, TypeOK
  <2>2. /\ buffer' \in Deltas /\ pending' \in Deltas
        /\ cat' \in Values /\ snap' \in Values
        /\ pc' \in PCs /\ todo' \subseteq Nat \X Pages
        /\ nextTxn' \in Nat \ {0} /\ txnId' \in Nat /\ restarts' \in Nat
        /\ txnState' \in {"none", "active", "rolled_back"}
    BY <1>5, <1>6 DEF EndSession, PCs, TypeOK
  <2> QED
    BY <1>1, <1>3, <1>6, <2>1, <2>2 DEF TypeOK, Images, Deltas
<1> QED
  BY <1>3, <1>6, <1>7 DEF EndSession, Running, Committing

\* Once a transaction is committed without its records, that stays so.
LEMMA LapsedStays == Lapsed /\ [Next]_vars => Lapsed'
<1> SUFFICES ASSUME Lapsed, [Next]_vars PROVE lapse' = "committed"
  BY DEF Lapsed
<1>1. lapse = "committed" /\ lapse # "open" /\ lapse # "none"
  BY DEF Lapsed
<1> QED
  BY <1>1 DEF Next, Work, Recovery, Execute, Commit, Rollback, Open, ReplayPage,
     ReplaySync, OpenDone, OpenFails, Begin, BeginStatement, ChangeCatalog,
     WritePage, EndStatement, AppendCommit, Decides, FsyncWal, WriteMain,
     FsyncMain, CommitDone, CommitFailsEarly, CommitFailsLate, CommitRaises,
     AppendRollback, RollbackDone, RollbackFails, Lapsed, UnwindWithoutRollback,
     Forget, Close, Crash, EndSession, LapseEnds, ghosts, vars

\* A step of the protocol keeps the invariant.
LEMMA StepInv ==
  ASSUME Covered, IInv, [Next]_vars, ~Lapsed'
  PROVE  IInv'
<1>1. CASE Recovery
  BY <1>1, OpenInv, ReplayPageInv, ReplaySyncInv, OpenDoneInv, OpenFailsInv DEF Recovery
<1>2. CASE Execute
  BY <1>2, BeginInv, StatementInv, WritePageInv DEF Execute
<1>3. CASE Commit
  BY <1>3, AppendCommitInv, FsyncWalInv, WriteMainInv, FsyncMainInv,
     CommitDoneInv, CommitFailsInv DEF Commit
<1>4. CASE Rollback
  BY <1>4, AppendRollbackInv, ForgetInv, RollbackFailsInv DEF Rollback
<1>5. CASE Close \/ Crash
  BY <1>5, EndSessionInv
<1>6. CASE UNCHANGED vars
  BY <1>6 DEF vars, session, ghosts, IInv, WalInvariant, TypeOK, SessionOK,
     CommitOK, ReplayOK, Running, Committing
<1> QED
  BY <1>1, <1>2, <1>3, <1>4, <1>5, <1>6 DEF Next, Work
-----------------------------------------------------------------------------
(* The theorems.                                                           *)

(***************************************************************************)
(* The inductive invariant of the transaction and log protocol.  A         *)
(* ROLLBACK may raise with the log emptied or rewritten; the invariant     *)
(* ends only if the application then commits that transaction.             *)
(***************************************************************************)
THEOREM InductiveInvariant ==
  ASSUME Covered
  PROVE  Spec => [](Lapsed \/ IInv)
<1>1. Init => IInv
  BY InitInv
<1>2. ASSUME Lapsed \/ IInv, [Next]_vars PROVE Lapsed' \/ IInv'
  BY <1>2, LapsedStays, StepInv
<1> QED
  BY <1>1, <1>2, PTL DEF Spec

(***************************************************************************)
(* Crash atomicity: at every instant, also while a commit writes pages and *)
(* while a replay is interrupted, a replay of the log gives the outcome of *)
(* whole committed transactions, unless a transaction was committed after  *)
(* a ROLLBACK that raised had removed its records.                         *)
(***************************************************************************)
THEOREM CrashAtomicity ==
  ASSUME Covered
  PROVE  Spec => []CrashAtomic
<1>1. Lapsed \/ IInv => CrashAtomic
  BY DEF IInv, WalInvariant, CrashAtomic
<1> QED
  BY <1>1, InductiveInvariant, PTL
-----------------------------------------------------------------------------
(* Refinement of AtomicStore.                                              *)

Found == Recovered(main, wal)

Seen == IF Running THEN View ELSE Found

\* With nothing undecided, a read returns what a restart would find.
LEMMA SeenIsFound == IInv /\ ~Deciding => Seen = Found
<1> SUFFICES ASSUME IInv, ~Deciding PROVE Seen = Found
  OBVIOUS
<1>1. CASE Running /\ ~Committing
  <2>1. txnId = 0 /\ Recovered(main, wal) = main
    BY <1>1, RestartFinds
       DEF Running, Committing, Deciding, IInv, TypeOK, PCs
  <2> QED
    BY <1>1, <2>1, OverlayBlank
       DEF Seen, Found, View, IInv, WalInvariant, SessionOK, TypeOK, Images
<1>2. CASE Committing
  <2>1. Running /\ buffer = pending
    BY <1>2 DEF Running, Committing, IInv, WalInvariant, SessionOK
  <2> QED
    BY <1>2, <2>1, RestartFinds DEF Seen, Found, View
<1> QED
  BY <1>1, <1>2 DEF Seen

LEMMA SeenIsFoundNext == (IInv /\ ~Deciding => Seen = Found)'
BY SeenIsFound, PTL

\* legal is the singleton of what a restart finds, so a step that leaves
\* legal alone leaves that alone.
LEMMA FoundUnchanged ==
  ASSUME IInv, IInv', legal' = legal
  PROVE  Found' = Found
BY DEF IInv, WalInvariant, Found

\* A step of the atomic store, or none.
AbstractNext ==
  \/ /\ ~Deciding /\ Deciding' /\ Found' = Found /\ Seen' = Seen
  \/ /\ Deciding /\ Deciding'
     /\ \E p \in Pages, v \in Values : Seen' = [Seen EXCEPT ![p] = v]
     /\ Found' = Found
  \/ /\ Deciding /\ ~Deciding' /\ Found' = Seen /\ Seen' = Seen
  \/ /\ Deciding /\ ~Deciding' /\ Seen' = Found /\ Found' = Found
  \/ /\ (Deciding' <=> Deciding) /\ Found' = Found /\ Seen' = Seen

LEMMA RecoveryMaps ==
  ASSUME Covered, IInv, IInv', Recovery
  PROVE  AbstractNext
<1>1. ~Running /\ ~Deciding /\ ~Deciding'
  BY DEF Recovery, Open, ReplayPage, ReplaySync, OpenDone, OpenFails, StartSession,
     Running, Deciding
<1>2. Found' = Found
  <2>1. CASE OpenDone
    <3>1. Found = main /\ legal = {Found}
      BY <2>1, RestartFinds DEF OpenDone, Found, IInv, WalInvariant
    <3>2. legal' = legal
      BY <2>1, <3>1 DEF OpenDone
    <3> QED
      BY <3>2, FoundUnchanged
  <2>2. CASE ~OpenDone
    BY <2>2, FoundUnchanged
       DEF Recovery, Open, ReplayPage, ReplaySync, OpenFails, ghosts
  <2> QED
    BY <2>1, <2>2
<1>3. Seen = Found /\ (Seen = Found)'
  BY <1>1, SeenIsFound, SeenIsFoundNext
<1> QED
  BY <1>1, <1>2, <1>3 DEF AbstractNext

LEMMA ExecuteMaps ==
  ASSUME Covered, IInv, IInv', Execute
  PROVE  AbstractNext
<1> USE DEF IInv, WalInvariant
<1>1. Found' = Found
  BY FoundUnchanged DEF Execute, Begin, BeginStatement, ChangeCatalog, WritePage,
     EndStatement, ghosts
<1>2. Running /\ Running' /\ pc \in {"ready", "stmt"} /\ pc' \in {"ready", "stmt"}
  BY DEF Execute, Begin, BeginStatement, ChangeCatalog, WritePage, EndStatement, Running
<1>3. (Deciding <=> txnId # 0) /\ (Deciding' <=> txnId' # 0)
  BY <1>2 DEF Deciding
<1>4. CASE WritePage
  <2>1. PICK p \in Pages, v \in Values : buffer' = [buffer EXCEPT ![p] = v]
    BY <1>4 DEF WritePage
  <2>2. View' = [View EXCEPT ![p] = v]
    BY <1>4, <2>1, WalStoreAssumption DEF WritePage, View, Overlay, TypeOK
  <2>3. txnId # 0 /\ txnId' = txnId
    BY <1>2, <1>4 DEF WritePage, SessionOK
  <2> QED
    BY <1>1, <1>2, <1>3, <2>2, <2>3 DEF AbstractNext, Seen
<1>5. CASE ~WritePage
  <2>1. View' = View
    BY <1>5 DEF Execute, Begin, BeginStatement, ChangeCatalog, EndStatement, session, View
  <2>2. txnId' = txnId \/ (txnId = 0 /\ txnId' # 0)
    BY <1>5 DEF Execute, Begin, BeginStatement, NewTransaction, ChangeCatalog,
       EndStatement, session, TypeOK
  <2> QED
    BY <1>1, <1>2, <1>3, <2>1, <2>2 DEF AbstractNext, Seen
<1> QED
  BY <1>4, <1>5

LEMMA CommitMaps ==
  ASSUME Covered, IInv, IInv', ~Lapsed', Commit
  PROVE  AbstractNext
<1> USE DEF IInv, WalInvariant
<1>1. CASE AppendCommit
  <2>1. /\ pc \in {"ready", "stmt"} /\ pc' = "logged" /\ txnState = "active"
        /\ UNCHANGED <<main, session>>
    BY <1>1 DEF AppendCommit, CommitCalled
  <2>2. txnId # 0 /\ buffer = pending
    BY <2>1 DEF SessionOK, Running
  <2>3. Running /\ Running' /\ View' = View /\ Deciding /\ ~Deciding'
    BY <2>1, <2>2 DEF Running, View, Deciding, session
  <2>4. Found' = View
    BY <1>1, <2>2, AppendCommitInv DEF Found, View
  <2> QED
    BY <2>3, <2>4 DEF AbstractNext, Seen
<1>2. CASE FsyncWal \/ WriteMain \/ FsyncMain \/ CommitDone
  <2>1. ~Deciding /\ ~Deciding' /\ legal' = legal
    BY <1>2 DEF FsyncWal, WriteMain, FsyncMain, CommitDone, Deciding, ghosts
  <2> QED
    BY <2>1, FoundUnchanged, SeenIsFound, SeenIsFoundNext DEF AbstractNext
<1>3. CASE CommitFailsEarly \/ CommitFailsLate
  <2>1. CommitFailsEarly
    BY <1>3, CommitFailsInv
  <2>2. /\ pc \in {"ready", "stmt"} /\ pc' = "ready"
        /\ UNCHANGED <<main, buffer, txnId, legal>>
    BY <2>1 DEF CommitFailsEarly, CommitCalled, CommitRaises
  <2>3. Running /\ Running' /\ View' = View /\ (Deciding' <=> Deciding)
    BY <2>2 DEF Running, View, Deciding
  <2> QED
    BY <2>2, <2>3, FoundUnchanged DEF AbstractNext, Seen
<1> QED
  BY <1>1, <1>2, <1>3 DEF Commit

LEMMA RollbackMaps ==
  ASSUME Covered, IInv, IInv', Rollback
  PROVE  AbstractNext
<1> USE DEF IInv, WalInvariant
<1>1. Found' = Found
  BY FoundUnchanged DEF Rollback, AppendRollback, RollbackDone, RollbackFails,
     UnwindWithoutRollback, Forget, ghosts
<1>2. CASE AppendRollback \/ RollbackFails
  <2>1. /\ pc \in {"ready", "stmt", "undo"} /\ pc' \in {"ready", "undo", "unwind"}
        /\ UNCHANGED <<main, session>>
    BY <1>2 DEF AppendRollback, RollbackFails
  <2>2. Running /\ Running' /\ View' = View /\ (Deciding' <=> Deciding)
    BY <2>1 DEF Running, View, Deciding, session
  <2> QED
    BY <1>1, <2>2 DEF AbstractNext, Seen
<1>3. CASE RollbackDone \/ UnwindWithoutRollback
  <2>1. Forget /\ pc \in {"stmt", "undo", "unwind"}
    BY <1>3 DEF RollbackDone, UnwindWithoutRollback
  <2>2. Deciding /\ ~Deciding'
    BY <2>1 DEF Forget, Deciding, Running, SessionOK
  <2> QED
    BY <1>1, <2>2, SeenIsFoundNext DEF AbstractNext
<1> QED
  BY <1>2, <1>3 DEF Rollback

LEMMA EndSessionMaps ==
  ASSUME Covered, IInv, IInv', Close \/ Crash
  PROVE  AbstractNext
<1>1. ~Deciding'
  BY DEF Close, Crash, EndSession, Deciding
<1>2. Found' = Found
  BY EndSessionInv DEF Found
<1> QED
  BY <1>1, <1>2, SeenIsFound, SeenIsFoundNext DEF AbstractNext

(***************************************************************************)
(* The process, its log, its recovery and its crashes implement a store    *)
(* in which a commit is one step and a rollback or a crash discards        *)
(* everything the open transaction wrote.                                  *)
(***************************************************************************)
THEOREM Refinement ==
  ASSUME Covered
  PROVE  Spec => Implements
<1>1. Init => Abstract!Init
  <2> SUFFICES ASSUME Init PROVE Abstract!Init
    OBVIOUS
  <2>1. IInv /\ ~Running /\ ~Deciding
    BY InitInv DEF Init, Running, Deciding
  <2>2. Recovered(main, wal) \in [Pages -> Values]
    BY <2>1, RestartFinds DEF Images
  <2> QED
    BY <2>1, <2>2 DEF Abstract!Init, Deciding
<1>2. ASSUME Lapsed \/ IInv, (Lapsed \/ IInv)', [Next]_vars, ~Lapsed'
      PROVE  [Abstract!Next]_Abstract!vars
  <2>0. IInv /\ IInv'
    BY <1>2, LapsedStays
  <2>1. AbstractNext
    <3>1. CASE Next
      BY <1>2, <2>0, <3>1, RecoveryMaps, ExecuteMaps, CommitMaps, RollbackMaps,
         EndSessionMaps DEF Next, Work
    <3>2. CASE UNCHANGED vars
      BY <3>2 DEF vars, session, AbstractNext, Found, Seen, View, Running, Deciding
    <3> QED
      BY <1>2, <3>1, <3>2
  <2>2. (Deciding \in BOOLEAN) /\ (Deciding' \in BOOLEAN)
    BY DEF Deciding
  <2> QED
    BY <2>1, <2>2 DEF AbstractNext, Abstract!Next, Abstract!vars, Abstract!Begin,
       Abstract!Write, Abstract!Commit, Abstract!Discard, Seen, Found
<1>3. ASSUME Lapsed \/ IInv, (Lapsed \/ IInv)', [Next]_vars
      PROVE  [Lapsed' \/ Abstract!Next]_Abstract!vars
  BY <1>2, <1>3
<1> QED
  BY <1>1, <1>3, InductiveInvariant, PTL DEF Spec, Implements

(***************************************************************************)
(* Without a ROLLBACK that raises there is no lapse, so the statements     *)
(* above hold without their exception.                                     *)
(***************************************************************************)
THEOREM NoLapse ==
  ASSUME "rollback" \notin FailPoints
  PROVE  Spec => []~Lapsed
<1>1. Init => lapse = "none"
  BY DEF Init
<1>2. ASSUME lapse = "none", [Next]_vars PROVE (lapse = "none")'
  <2>1. ~RollbackFails
    BY DEF RollbackFails
  <2> QED
    BY <1>2, <2>1 DEF Next, Work, Recovery, Execute, Commit, Rollback, Open, ReplayPage,
       ReplaySync, OpenDone, OpenFails, Begin, BeginStatement, ChangeCatalog,
       WritePage, EndStatement, AppendCommit, Decides, FsyncWal, WriteMain,
       FsyncMain, CommitDone, CommitFailsEarly, CommitFailsLate, CommitRaises,
       AppendRollback, RollbackDone, UnwindWithoutRollback, Forget, Close, Crash,
       EndSession, LapseEnds, ghosts, vars
<1>3. lapse = "none" => ~Lapsed
  BY DEF Lapsed
<1> QED
  BY <1>1, <1>2, <1>3, PTL DEF Spec

(***************************************************************************)
(* When only commits raise, and only before their COMMIT record is in the  *)
(* log, the process implements the atomic store without exception.         *)
(***************************************************************************)
THEOREM ExactRefinement ==
  ASSUME Covered, "rollback" \notin FailPoints
  PROVE  Spec => Abstract!Spec
<1>1. ~Lapsed /\ (~Lapsed)' /\ [Lapsed' \/ Abstract!Next]_(Abstract!vars)
         => [Abstract!Next]_(Abstract!vars)
  OBVIOUS
<1> QED
  BY <1>1, NoLapse, Refinement, PTL DEF Implements, Abstract!Spec
-----------------------------------------------------------------------------
(***************************************************************************)
(* Any step of a commit or of a rollback may raise.  A commit that fails   *)
(* after its COMMIT record stays in the log, so a replay may redo several  *)
(* transactions, one over the other.                                       *)
(***************************************************************************)

\* The contents of page p in the page maps of S.
At(S, p) == {s[p] : s \in S}

IsTop(w, t, p) ==
  /\ <<t, p>> \in Redo(w)
  /\ \A u : <<u, p>> \in Redo(w) => u <= t

\* Of the transactions that redo a page, one is the last.
HasTop(w) == \A p \in Pages : Covers(w, p) => \E t : IsTop(w, t, p)

\* What a restart with an empty log would find.
MainLegal == \A p \in Pages : main[p] \in At(legal, p)

FoundLegal ==
  \A p \in Pages : \E s \in legal : Recovered(main, wal)[p] = s[p]

\* Ids are handed out one by one, so the open transaction has the last.
LastId == txnId # 0 => nextTxn = txnId + 1

Undecided ==
  txnState = "active" => \A r \in CommitRecords(wal) : r.txn # txnId

\* A commit under way: a page it writes has one legal content; every other
\* page, and every page not yet written, is as a failure would leave it.
HalfDone ==
  /\ CommitOK
  /\ txnState = "active"
  /\ \A p \in Pages :
       /\ main[p] \in At(legal \cup prior, p)
       /\ pending[p] = Untouched => main[p] \in At(legal, p)
       /\ pending[p] # Untouched => At(legal, p) \subseteq {pending[p]}

\* A replay goes by id, and a page it is done with has its last content.
InOrder ==
  /\ pc = "replay" =>
       /\ todo \subseteq Redo(wal)
       /\ \A x \in todo, y \in Redo(wal) : x[1] < y[1] => y \in todo
  /\ \A p \in Pages : \/ pc = "replay" /\ \E x \in todo : x[2] = p
                      \/ main[p] = Recovered(main, wal)[p]

(***************************************************************************)
(* Inductive: the log is well formed, and both what it recovers and, while *)
(* no commit is under way, what main holds are page by page legal.         *)
(***************************************************************************)
FailInvariant ==
  /\ TypeOK
  /\ WellFormed(wal) /\ HasTop(wal)
  /\ FoundLegal
  /\ Running => SessionOK /\ LastId
  /\ Running /\ ~Committing => MainLegal /\ Undecided
  /\ Committing => HalfDone
  /\ pc \in {"replay", "replayed"} => InOrder
-----------------------------------------------------------------------------
(* What a replay of several transactions gives.                            *)

\* Page by page: the last transaction that redoes it, or what main has.
LEMMA ReplayPages ==
  ASSUME NEW w \in Logs, WellFormed(w), NEW p \in Pages, NEW m
  PROVE  /\ ~Covers(w, p) => Recovered(m, w)[p] = m[p]
         /\ \A t : IsTop(w, t, p) => Recovered(m, w)[p] = RedoValue(w, t, p)
<1>1. ASSUME NEW t, IsTop(w, t, p)
      PROVE  Recovered(m, w)[p] = RedoValue(w, t, p)
  <2>1. /\ t \in Redoers(w, p) /\ t \in Nat
        /\ \A u \in Redoers(w, p) : u \in Nat /\ u <= t
    BY <1>1, Redone DEF IsTop, Redoers
  <2>2. (CHOOSE v \in Redoers(w, p) : \A u \in Redoers(w, p) : u <= v) = t
    <3> DEFINE c == CHOOSE v \in Redoers(w, p) : \A u \in Redoers(w, p) : u <= v
    <3>1. c \in Redoers(w, p) /\ \A u \in Redoers(w, p) : u <= c
      BY <2>1
    <3>2. c <= t /\ t <= c /\ c \in Nat
      BY <2>1, <3>1
    <3> HIDE DEF c
    <3>3. c = t
      BY <2>1, <3>2
    <3> QED
      BY <3>3 DEF c
  <2> QED
    BY <2>1, <2>2 DEF Recovered
<1> QED
  BY <1>1 DEF Recovered, Covers

\* A log that redoes the same contents recovers to the same pages.
LEMMA SameRedo ==
  ASSUME NEW w \in Logs, NEW x \in Logs, WellFormed(w), WellFormed(x), HasTop(w),
         Redo(x) = Redo(w),
         \A t, p : <<t, p>> \in Redo(w) => RedoValue(x, t, p) = RedoValue(w, t, p)
  PROVE  HasTop(x) /\ \A m : Recovered(m, x) = Recovered(m, w)
<1>1. \A p : Covers(x, p) <=> Covers(w, p)
  BY CoversRedo
<1>2. \A t, p : IsTop(x, t, p) <=> IsTop(w, t, p)
  BY DEF IsTop
<1>3. HasTop(x)
  BY <1>1, <1>2 DEF HasTop
<1>4. ASSUME NEW m, NEW p \in Pages PROVE Recovered(m, x)[p] = Recovered(m, w)[p]
  <2>1. CASE ~Covers(w, p)
    BY <1>1, <2>1, ReplayPages
  <2>2. CASE Covers(w, p)
    <3>1. PICK t : IsTop(w, t, p)
      BY <2>2 DEF HasTop
    <3>2. RedoValue(x, t, p) = RedoValue(w, t, p)
      BY <3>1 DEF IsTop
    <3> QED
      BY <1>2, <3>1, <3>2, ReplayPages
  <2> QED
    BY <2>1, <2>2
<1>5. \A m : /\ Recovered(m, x) = [p \in Pages |-> Recovered(m, x)[p]]
             /\ Recovered(m, w) = [p \in Pages |-> Recovered(m, w)[p]]
  BY DEF Recovered
<1>6. \A m : Recovered(m, x) = Recovered(m, w)
  BY <1>4, <1>5
<1> QED
  BY <1>3, <1>6

\* A page record or a ROLLBACK of a transaction without COMMIT record.
LEMMA AppendUndecided ==
  ASSUME NEW w \in Logs, NEW r \in Record, WellFormed(w), HasTop(w),
         AppendRecord(w, r) \in Logs, WellFormed(AppendRecord(w, r)),
         r.kind # "COMMIT", \A s \in CommitRecords(w) : s.txn # r.txn
  PROVE  LET x == AppendRecord(w, r)
         IN  HasTop(x) /\ \A m : Recovered(m, x) = Recovered(m, w)
<1> DEFINE x == AppendRecord(w, r)
<1>1. x.recs = w.recs \cup {r}
  BY DEF AppendRecord
<1>2. CommitRecords(x) = CommitRecords(w)
  BY <1>1 DEF CommitRecords
<1>3. \A u : u # r.txn => StatusOf(x, u) = StatusOf(w, u)
  BY <1>1 DEF StatusOf
<1>4. ~IsCommitted(x, r.txn) /\ ~IsCommitted(w, r.txn)
  BY <1>2 DEF IsCommitted, StatusOf, CommitRecords
<1>5. \A u : IsCommitted(x, u) <=> IsCommitted(w, u)
  BY <1>3, <1>4 DEF IsCommitted
<1>6. \A q \in PageWrites(x) : q \in PageWrites(w) \/ q.txn = r.txn
  BY <1>1 DEF PageWrites
<1>7. PageWrites(w) \subseteq PageWrites(x)
  BY <1>1 DEF PageWrites
<1>8. Redo(x) = Redo(w)
  BY <1>4, <1>5, <1>6, <1>7 DEF Redo
<1>9. \A t, p : <<t, p>> \in Redo(w) => t # r.txn
  BY <1>4 DEF Redo
<1>10. \A t, p : t # r.txn => WritesOf(x, t, p) = WritesOf(w, t, p)
  BY <1>6, <1>7 DEF WritesOf
<1>11. \A t, p : <<t, p>> \in Redo(w) => RedoValue(x, t, p) = RedoValue(w, t, p)
  BY <1>9, <1>10 DEF RedoValue
<1> HIDE DEF x
<1>12. HasTop(x) /\ \A m : Recovered(m, x) = Recovered(m, w)
  BY <1>8, <1>11, SameRedo DEF x
<1> QED
  BY <1>12 DEF x

\* The COMMIT record of the last transaction lays its writes over the rest.
LEMMA AppendDecided ==
  ASSUME NEW w \in Logs, WellFormed(w), HasTop(w), NEW t \in Nat, NEW d \in Deltas,
         LoggedBy(w, t, d), \A s \in PageWrites(w) : s.txn <= t,
         \A s \in CommitRecords(w) : s.txn # t, Wrote(d) # {}
  PROVE  LET x == AppendRecord(w, StatusRecord(w, t, "COMMIT"))
         IN  /\ x \in Logs /\ WellFormed(x) /\ HasTop(x)
             /\ IsCommitted(x, t) /\ LoggedBy(x, t, d)
             /\ PageWrites(x) = PageWrites(w)
             /\ \A m : Recovered(m, x) = Overlay(Recovered(m, w), d)
<1> DEFINE n == StatusRecord(w, t, "COMMIT")
           x == AppendRecord(w, n)
<1>1. \E q \in PageWrites(w) : q.txn = t
  <2>1. PICK p \in Pages : d[p] # Untouched
    BY DEF Wrote
  <2>2. PICK q \in w.recs : LastOf(q, WritesOf(w, t, p))
    BY <2>1 DEF LoggedBy
  <2> QED
    BY <2>2 DEF LastOf, WritesOf
<1>2. /\ x \in Logs /\ WellFormed(x) /\ PageWrites(x) = PageWrites(w)
      /\ LoggedBy(x, t, d) /\ IsCommitted(x, t)
  BY <1>1, AppendStatusOK
<1>3. x.recs = w.recs \cup {n} /\ n.txn = t
  BY DEF AppendRecord, StatusRecord
<1>4. \A u : u # t => (IsCommitted(x, u) <=> IsCommitted(w, u))
  BY <1>3 DEF IsCommitted, StatusOf
<1>5. ~IsCommitted(w, t)
  BY DEF IsCommitted, StatusOf, CommitRecords
<1>6. \A u, p : WritesOf(x, u, p) = WritesOf(w, u, p)
  BY <1>2 DEF WritesOf
<1>7. \A u, p : RedoValue(x, u, p) = RedoValue(w, u, p)
  BY <1>6 DEF RedoValue
<1>8. \A u, p : <<u, p>> \in Redo(x) <=>
                   <<u, p>> \in Redo(w) \/ (u = t /\ WritesOf(w, t, p) # {})
  BY <1>2, <1>4, <1>5 DEF Redo, WritesOf
<1> HIDE DEF x
<1>9. ASSUME NEW p \in Pages, d[p] # Untouched
      PROVE  IsTop(x, t, p) /\ \A m : Recovered(m, x)[p] = d[p]
  <2>1. PICK q \in w.recs : LastOf(q, WritesOf(w, t, p)) /\ q.data = d[p]
    BY <1>9 DEF LoggedBy
  <2>2. <<t, p>> \in Redo(x)
    BY <1>8, <2>1 DEF LastOf
  <2>3. \A u : <<u, p>> \in Redo(x) => u <= t
    BY <1>2 DEF Redo
  <2>4. IsTop(x, t, p)
    BY <2>2, <2>3 DEF IsTop
  <2>5. RedoValue(x, t, p) = d[p]
    BY <1>2, <1>6, <2>1, <2>2, Redone
  <2> QED
    BY <1>2, <2>4, <2>5, ReplayPages
<1>10. ASSUME NEW p \in Pages, d[p] = Untouched
       PROVE  /\ Covers(x, p) <=> Covers(w, p)
              /\ \A u : IsTop(x, u, p) <=> IsTop(w, u, p)
              /\ \A m : Recovered(m, x)[p] = Recovered(m, w)[p]
  <2>1. \A u : <<u, p>> \in Redo(x) <=> <<u, p>> \in Redo(w)
    BY <1>8, <1>10 DEF LoggedBy
  <2>2. Covers(x, p) <=> Covers(w, p)
    BY <2>1, CoversRedo
  <2>3. \A u : IsTop(x, u, p) <=> IsTop(w, u, p)
    BY <2>1 DEF IsTop
  <2>4. ASSUME NEW m PROVE Recovered(m, x)[p] = Recovered(m, w)[p]
    <3>1. CASE Covers(w, p)
      <4>1. PICK u : IsTop(w, u, p)
        BY <3>1 DEF HasTop
      <4> QED
        BY <1>2, <1>7, <2>3, <4>1, ReplayPages
    <3>2. CASE ~Covers(w, p)
      BY <1>2, <2>2, <3>2, ReplayPages
    <3> QED
      BY <3>1, <3>2
  <2> QED
    BY <2>2, <2>3, <2>4
<1>11. HasTop(x)
  BY <1>9, <1>10 DEF HasTop
<1>12. \A m : Recovered(m, x) = Overlay(Recovered(m, w), d)
  <2> TAKE m
  <2>1. \A p \in Pages : Recovered(m, x)[p] = Overlay(Recovered(m, w), d)[p]
    BY <1>9, <1>10 DEF Overlay
  <2>2. Recovered(m, x) = [p \in Pages |-> Recovered(m, x)[p]]
    BY DEF Recovered
  <2>3. Overlay(Recovered(m, w), d) = [p \in Pages |-> Overlay(Recovered(m, w), d)[p]]
    BY DEF Overlay
  <2> QED
    BY <2>1, <2>2, <2>3
<1>13. /\ x \in Logs /\ WellFormed(x) /\ HasTop(x)
       /\ IsCommitted(x, t) /\ LoggedBy(x, t, d)
       /\ PageWrites(x) = PageWrites(w)
       /\ \A m : Recovered(m, x) = Overlay(Recovered(m, w), d)
  BY <1>2, <1>11, <1>12
<1> QED
  BY <1>13 DEF x

\* A log without COMMIT records has nothing to order.
LEMMA NoCommitTop ==
  ASSUME NEW w, CommitRecords(w) = {}
  PROVE  HasTop(w)
BY NothingToRedo, CoversRedo DEF HasTop
-----------------------------------------------------------------------------
(* Every step preserves the invariant.                                     *)

LEMMA FailFacts ==
  ASSUME FailInvariant
  PROVE  /\ TypeOK /\ main \in Images /\ wal \in Logs /\ WellFormed(wal) /\ HasTop(wal)
         /\ legal \subseteq Images /\ prior \subseteq Images
         /\ pending \in Deltas /\ txnId \in Nat /\ nextTxn \in Nat
         /\ todo \subseteq Nat \X Pages
         /\ \A p \in Pages : Recovered(main, wal)[p] \in At(legal, p)
         /\ Redo(wal) \subseteq Nat \X Pages
<1>1. /\ TypeOK /\ main \in Images /\ wal \in Logs /\ WellFormed(wal) /\ HasTop(wal)
      /\ legal \subseteq Images /\ prior \subseteq Images
      /\ pending \in Deltas /\ txnId \in Nat /\ nextTxn \in Nat
      /\ todo \subseteq Nat \X Pages
  BY DEF FailInvariant, TypeOK, Images, Deltas
<1>2. \A p \in Pages : Recovered(main, wal)[p] \in At(legal, p)
  BY DEF FailInvariant, FoundLegal, At
<1>3. ASSUME NEW x \in Redo(wal) PROVE x \in Nat \X Pages
  <2>1. x = <<x[1], x[2]>>
    BY DEF Redo
  <2> QED
    BY <1>1, <2>1, Redone
<1> QED
  BY <1>1, <1>2, <1>3

LEMMA OpenFailInv ==
  ASSUME FailInvariant, Open
  PROVE  FailInvariant'
<1>1. /\ pc = "down" /\ pc' = "replay" /\ todo' = Redo(wal)
      /\ wal' = [wal EXCEPT !.torn = FALSE]
      /\ UNCHANGED <<main, legal, prior, lapse>>
  BY DEF Open, ghosts
<1>2. wal' \in Logs /\ wal'.recs = wal.recs /\ wal'.end = wal.end
  BY <1>1, FailFacts DEF Logs
<1>3. /\ WellFormed(wal') /\ Redo(wal') = Redo(wal)
      /\ \A t, p : RedoValue(wal', t, p) = RedoValue(wal, t, p)
  BY <1>2, FailFacts, TornTail
<1>4. HasTop(wal') /\ Recovered(main, wal') = Recovered(main, wal)
  BY <1>2, <1>3, FailFacts, SameRedo
<1>5. TypeOK'
  BY <1>1, <1>2, FailFacts, TypesKeep DEF Next, Work, Recovery
<1>6. FoundLegal'
  BY <1>1, <1>4 DEF FailInvariant, FoundLegal
<1>7. InOrder'
  <2>1. ASSUME NEW p \in Pages
        PROVE  (\E x \in Redo(wal) : x[2] = p) \/ main[p] = Recovered(main, wal)[p]
    <3>1. CASE Covers(wal, p)
      BY <3>1, CoversRedo
    <3>2. CASE ~Covers(wal, p)
      BY <3>2, FailFacts, ReplayPages
    <3> QED
      BY <3>1, <3>2
  <2> QED
    BY <1>1, <1>3, <1>4, <2>1 DEF InOrder
<1> QED
  BY <1>1, <1>3, <1>4, <1>5, <1>6, <1>7 DEF FailInvariant, Running, Committing

LEMMA ReplayPageFailInv ==
  ASSUME FailInvariant, ReplayPage
  PROVE  FailInvariant'
<1>1. PICK x \in todo :
        /\ \A u \in todo : x[1] <= u[1]
        /\ main' = [main EXCEPT ![x[2]] = RedoValue(wal, x[1], x[2])]
        /\ todo' = todo \ {x}
  BY DEF ReplayPage
<1>2. pc = "replay" /\ pc' = "replay" /\ UNCHANGED <<wal, legal, prior, lapse>>
  BY DEF ReplayPage, ghosts
<1>3. InOrder /\ todo \subseteq Redo(wal) /\ Redo(wal) \subseteq Nat \X Pages
  BY <1>2, FailFacts DEF FailInvariant, InOrder
<1>4. x = <<x[1], x[2]>> /\ x[1] \in Nat /\ x[2] \in Pages
  BY <1>3
<1>5. RedoValue(wal, x[1], x[2]) \in Values /\ Covers(wal, x[2])
  BY <1>3, <1>4, FailFacts, Redone, CoversRedo
<1>6. /\ main' \in Images /\ main'[x[2]] = RedoValue(wal, x[1], x[2])
      /\ \A p \in Pages : p # x[2] => main'[p] = main[p]
  BY <1>1, <1>4, <1>5, FailFacts DEF Images
<1>7. Recovered(main', wal) = Recovered(main, wal)
  BY <1>5, <1>6, SameReplay
<1>8. TypeOK'
  BY <1>1, <1>2, <1>6, FailFacts, TypesKeep DEF Next, Work, Recovery
<1>9. FoundLegal'
  BY <1>2, <1>7 DEF FailInvariant, FoundLegal
<1>10. \A y \in todo', z \in Redo(wal) : y[1] < z[1] => z \in todo'
  <2> SUFFICES ASSUME NEW y \in todo', NEW z \in Redo(wal), y[1] < z[1]
               PROVE  z \in todo'
    OBVIOUS
  <2>1. z \in todo
    BY <1>1, <1>2, <1>3 DEF InOrder
  <2>2. z # x
    BY <1>1, <1>3
  <2> QED
    BY <1>1, <2>1, <2>2
<1>11. ASSUME NEW p \in Pages, ~\E y \in todo' : y[2] = p
       PROVE  main'[p] = Recovered(main, wal)[p]
  <2>1. CASE p = x[2]
    <3>1. ASSUME NEW u, <<u, p>> \in Redo(wal) PROVE u <= x[1]
      <4> DEFINE z == <<u, p>>
      <4>1. z[1] = u /\ z[2] = p /\ z \in Redo(wal) /\ u \in Nat
        BY <1>3, <3>1
      <4> HIDE DEF z
      <4>2. z \in todo => z = x
        BY <1>1, <1>11, <4>1
      <4>3. x[1] < z[1] => z \in todo
        BY <1>2, <1>3, <4>1 DEF InOrder
      <4> QED
        BY <1>4, <4>1, <4>2, <4>3
    <3>2. IsTop(wal, x[1], p)
      BY <1>3, <1>4, <2>1, <3>1 DEF IsTop
    <3>3. Recovered(main, wal)[p] = RedoValue(wal, x[1], p)
      BY <3>2, FailFacts, ReplayPages
    <3> QED
      BY <1>6, <2>1, <3>3
  <2>2. CASE p # x[2]
    BY <1>1, <1>2, <1>3, <1>6, <1>11, <2>2 DEF InOrder
  <2> QED
    BY <2>1, <2>2
<1>12. InOrder'
  BY <1>1, <1>2, <1>3, <1>7, <1>10, <1>11 DEF InOrder
<1> QED
  BY <1>2, <1>8, <1>9, <1>12 DEF FailInvariant, Running, Committing

\* The replay is complete: main is what it gives.
LEMMA ReplaySyncFailInv ==
  ASSUME FailInvariant, ReplaySync \/ OpenFails
  PROVE  FailInvariant'
<1>1. /\ UNCHANGED <<main, wal, todo, legal, prior, lapse>>
      /\ \/ pc = "replay" /\ pc' = "replayed" /\ todo = {}
         \/ pc = "replayed" /\ pc' = "down"
  BY DEF ReplaySync, OpenFails, ghosts
<1>2. TypeOK'
  BY <1>1, FailFacts, TypesKeep DEF Next, Work, Recovery
<1>3. pc' = "replayed" => InOrder'
  BY <1>1 DEF FailInvariant, InOrder
<1> QED
  BY <1>1, <1>2, <1>3 DEF FailInvariant, FoundLegal, Running, Committing

LEMMA OpenDoneFailInv ==
  ASSUME FailInvariant, OpenDone
  PROVE  FailInvariant'
<1>1. /\ pc = "replayed" /\ pc' = "ready" /\ wal' = TruncateReplayed(wal)
      /\ StartSession /\ prior' = {}
      /\ legal' = (IF main \in legal THEN {main} ELSE legal)
      /\ UNCHANGED <<main, todo>>
  BY DEF OpenDone
<1>2. /\ wal' \in Logs /\ WellFormed(wal')
      /\ CommitRecords(wal') = {} /\ PageWrites(wal') = {}
  BY <1>1, FailFacts, TruncateReplayedOK
<1>3. Recovered(main', wal') = main /\ HasTop(wal')
  BY <1>1, <1>2, FailFacts, RecoveredNoCommit, NoCommitTop
<1>4. \A p \in Pages : main[p] \in At(legal, p)
  BY <1>1, FailFacts DEF FailInvariant, InOrder
<1>5. legal' \subseteq Images /\ prior' \subseteq Images
  BY <1>1, FailFacts
<1>6. TypeOK'
  BY <1>1, <1>2, <1>5, FailFacts, TypesKeep DEF Next, Work, Recovery
<1>7. MainLegal'
  BY <1>1, <1>4 DEF MainLegal, At
<1>8. FoundLegal'
  BY <1>1, <1>3, <1>7 DEF MainLegal, FoundLegal, At
<1>9. SessionOK' /\ LastId' /\ Undecided'
  BY <1>1, <1>2 DEF SessionOK, LastId, Undecided, StartSession
<1> QED
  BY <1>1, <1>2, <1>3, <1>6, <1>7, <1>8, <1>9 DEF FailInvariant, Running, Committing

LEMMA BeginFailInv ==
  ASSUME FailInvariant, Begin \/ BeginStatement
  PROVE  FailInvariant'
<1>1. /\ pc = "ready" /\ pc' \in {"ready", "stmt"}
      /\ UNCHANGED <<main, wal, pending, buffer, todo, legal, prior, lapse>>
      /\ \/ NewTransaction
         \/ /\ txnId # 0 /\ pc' = "stmt"
            /\ UNCHANGED <<nextTxn, txnId, txnState>>
  BY DEF Begin, BeginStatement, ghosts
<1>2. SessionOK /\ LastId /\ MainLegal /\ Undecided
  BY <1>1 DEF FailInvariant, Running, Committing
<1>3. TypeOK'
  BY <1>1, FailFacts, TypesKeep DEF Next, Work, Execute
<1>4. SessionOK' /\ LastId' /\ Undecided'
  <2>1. CASE NewTransaction
    <3>1. /\ txnId' = nextTxn /\ nextTxn' = nextTxn + 1 /\ txnState' = "active"
          /\ txnId = 0 /\ pending = Blank
      BY <1>2, <2>1 DEF NewTransaction, SessionOK
    <3>2. \A r \in PageWrites(wal) : r.txn \in Nat /\ r.txn < nextTxn
      BY <1>2, FailFacts, RecordFields DEF SessionOK, PageWrites, Logs
    <3>3. LoggedBy(wal, nextTxn, Blank)
      BY <3>2, FailFacts DEF LoggedBy, Blank, WritesOf
    <3>4. SessionOK' /\ LastId'
      BY <1>1, <1>2, <3>1, <3>2, <3>3, FailFacts DEF SessionOK, LastId, TypeOK
    <3>5. Undecided'
      BY <1>1, <3>1, <3>2, FailFacts DEF Undecided, WellFormed
    <3> QED
      BY <3>4, <3>5
  <2>2. CASE /\ txnId # 0 /\ pc' = "stmt"
             /\ UNCHANGED <<nextTxn, txnId, txnState>>
    BY <1>1, <1>2, <2>2 DEF SessionOK, LastId, Undecided
  <2> QED
    BY <1>1, <2>1, <2>2
<1> QED
  BY <1>1, <1>2, <1>3, <1>4
     DEF FailInvariant, FoundLegal, MainLegal, Running, Committing

\* Steps of a session that touch neither file and keep the transaction.
LEMMA StatementFailInv ==
  ASSUME FailInvariant,
         ChangeCatalog \/ EndStatement \/ CommitFailsEarly
  PROVE  FailInvariant'
<1>1. /\ pc \in {"ready", "stmt"} /\ pc' \in {"ready", "stmt"}
      /\ pc = "ready" => txnState = "active"
      /\ UNCHANGED <<main, wal, nextTxn, txnId, pending, buffer, legal, prior, lapse>>
      /\ todo' \in {todo, {}}
      /\ txnState' = txnState \/ txnState' = "rolled_back"
  BY DEF ChangeCatalog, EndStatement, CommitFailsEarly, CommitCalled, CommitRaises,
     session, ghosts
<1>2. SessionOK /\ LastId /\ MainLegal /\ Undecided
  BY <1>1 DEF FailInvariant, Running, Committing
<1>3. TypeOK'
  BY <1>1, FailFacts, TypesKeep DEF Next, Work, Execute, Commit
<1>4. SessionOK' /\ LastId' /\ Undecided'
  BY <1>1, <1>2 DEF SessionOK, LastId, Undecided
<1> QED
  BY <1>1, <1>2, <1>3, <1>4
     DEF FailInvariant, FoundLegal, MainLegal, Running, Committing

LEMMA WritePageFailInv ==
  ASSUME FailInvariant, WritePage
  PROVE  FailInvariant'
<1>1. PICK p \in Pages, v \in Values :
        /\ wal' = AppendRecord(wal, PageRecord(wal, txnId, p, v))
        /\ pending' = [pending EXCEPT ![p] = v]
        /\ buffer' = [buffer EXCEPT ![p] = v]
  BY DEF WritePage
<1>2. /\ pc = "stmt" /\ pc' = "stmt" /\ txnState = "active"
      /\ UNCHANGED <<main, nextTxn, txnId, txnState, todo, legal, prior, lapse>>
  BY DEF WritePage, ghosts
<1>3. SessionOK /\ LastId /\ MainLegal /\ Undecided
  BY <1>2 DEF FailInvariant, Running, Committing
<1>4. /\ txnId # 0 /\ buffer = pending
      /\ lapse # "open" => LoggedBy(wal, txnId, pending)
  BY <1>2, <1>3 DEF SessionOK
<1> DEFINE r == PageRecord(wal, txnId, p, v)
<1>5. r \in Record /\ r.kind = "PAGE_WRITE" /\ r.txn = txnId
  BY FailFacts DEF PageRecord, Record, Logs
<1>6. /\ wal' \in Logs /\ WellFormed(wal')
      /\ CommitRecords(wal') = CommitRecords(wal)
      /\ PageWrites(wal') = PageWrites(wal) \cup {r}
      /\ LoggedBy(wal, txnId, pending) => LoggedBy(wal', txnId, pending')
  <2> HIDE DEF r
  <2> DEFINE x == AppendRecord(wal, r)
             d == [pending EXCEPT ![p] = v]
  <2>1. /\ x \in Logs /\ WellFormed(x) /\ CommitRecords(x) = CommitRecords(wal)
        /\ PageWrites(x) = PageWrites(wal) \cup {r}
        /\ LoggedBy(wal, txnId, pending) => LoggedBy(x, txnId, d)
    BY <1>4, FailFacts, AppendPageOK DEF r
  <2> QED
    BY <1>1, <2>1 DEF r
<1> HIDE DEF r
<1>7. HasTop(wal') /\ Recovered(main, wal') = Recovered(main, wal)
  BY <1>1, <1>2, <1>3, <1>5, <1>6, FailFacts, AppendUndecided DEF Undecided, r
<1>8. TypeOK'
  BY <1>2, <1>6, FailFacts, TypesKeep DEF Next, Work, Execute
<1>9. SessionOK' /\ LastId' /\ Undecided'
  <2>1. \A q \in PageWrites(wal') : q.txn < nextTxn
    BY <1>3, <1>4, <1>5, <1>6, FailFacts DEF SessionOK
  <2> QED
    BY <1>1, <1>2, <1>3, <1>4, <1>6, <2>1 DEF SessionOK, LastId, Undecided
<1> QED
  BY <1>2, <1>3, <1>6, <1>7, <1>8, <1>9
     DEF FailInvariant, FoundLegal, MainLegal, Running, Committing

LEMMA AppendRollbackFailInv ==
  ASSUME FailInvariant, AppendRollback
  PROVE  FailInvariant'
<1>1. /\ pc \in {"ready", "stmt"} /\ pc' \in {"undo", "unwind"}
      /\ txnState = "active"
      /\ wal' = AppendRecord(wal, StatusRecord(wal, txnId, "ROLLBACK"))
      /\ UNCHANGED <<main, session, todo, legal, prior, lapse>>
  BY DEF AppendRollback, ghosts
<1>2. SessionOK /\ LastId /\ MainLegal /\ Undecided
  BY <1>1 DEF FailInvariant, Running, Committing
<1>3. txnId # 0 /\ (lapse # "open" => LoggedBy(wal, txnId, pending))
  BY <1>1, <1>2 DEF SessionOK
<1> DEFINE r == StatusRecord(wal, txnId, "ROLLBACK")
<1>4. r \in Record /\ r.kind = "ROLLBACK" /\ r.txn = txnId
  BY FailFacts DEF StatusRecord, Record, Logs
<1>5. /\ wal' \in Logs /\ WellFormed(wal')
      /\ CommitRecords(wal') = CommitRecords(wal)
      /\ PageWrites(wal') = PageWrites(wal)
      /\ LoggedBy(wal, txnId, pending) => LoggedBy(wal', txnId, pending)
  BY <1>1, <1>3, FailFacts, AppendStatusOK
<1> HIDE DEF r
<1>6. HasTop(wal') /\ Recovered(main, wal') = Recovered(main, wal)
  BY <1>1, <1>2, <1>4, <1>5, FailFacts, AppendUndecided DEF Undecided, r
<1>7. TypeOK'
  BY <1>1, <1>5, FailFacts, TypesKeep DEF Next, Work, Rollback
<1>8. SessionOK' /\ LastId' /\ Undecided'
  BY <1>1, <1>2, <1>3, <1>5 DEF SessionOK, LastId, Undecided, session
<1> QED
  BY <1>1, <1>2, <1>5, <1>6, <1>7, <1>8
     DEF FailInvariant, FoundLegal, MainLegal, Running, Committing

LEMMA AppendCommitFailInv ==
  ASSUME ~EmptyCommits, FailInvariant, AppendCommit, ~Lapsed'
  PROVE  FailInvariant'
<1>1. /\ pc \in {"ready", "stmt"} /\ pc' = "logged" /\ txnState = "active"
      /\ Wrote(pending) # {}
      /\ wal' = AppendRecord(wal, StatusRecord(wal, txnId, "COMMIT"))
      /\ legal' = {Overlay(s, pending) : s \in legal} /\ prior' = legal
      /\ lapse = "none" /\ lapse' = "none"
      /\ UNCHANGED <<main, session, todo>>
  BY DEF AppendCommit, CommitCalled, Decides, Lapsed
<1>2. SessionOK /\ LastId /\ MainLegal /\ Undecided
  BY <1>1 DEF FailInvariant, Running, Committing
<1>3. txnId # 0 /\ LoggedBy(wal, txnId, pending)
  BY <1>1, <1>2 DEF SessionOK
<1>4. \A q \in PageWrites(wal) : q.txn <= txnId
  <2>1. \A q \in PageWrites(wal) : q.txn \in Nat
    BY FailFacts, RecordFields DEF PageWrites, Logs
  <2> QED
    BY <1>2, <1>3, <2>1, FailFacts DEF SessionOK, LastId
<1>5. /\ wal' \in Logs /\ WellFormed(wal') /\ HasTop(wal')
      /\ IsCommitted(wal', txnId) /\ LoggedBy(wal', txnId, pending)
      /\ PageWrites(wal') = PageWrites(wal)
      /\ Recovered(main, wal') = Overlay(Recovered(main, wal), pending)
  BY <1>1, <1>2, <1>3, <1>4, FailFacts, AppendDecided DEF Undecided
<1>6. legal' \subseteq Images
  BY <1>1, FailFacts, OverlayType
<1>7. TypeOK'
  BY <1>1, <1>5, <1>6, FailFacts, TypesKeep DEF Next, Work, Commit
<1>8. SessionOK' /\ LastId'
  BY <1>1, <1>2, <1>3, <1>5 DEF SessionOK, LastId, session
<1>9. \A p \in Pages : Recovered(main, wal')[p] \in At(legal', p)
  <2> SUFFICES ASSUME NEW p \in Pages
               PROVE  \E s \in legal : Overlay(Recovered(main, wal), pending)[p]
                                         = Overlay(s, pending)[p]
    BY <1>1, <1>5 DEF At
  <2>1. PICK s \in legal : Recovered(main, wal)[p] = s[p]
    BY DEF FailInvariant, FoundLegal
  <2> QED
    BY <2>1 DEF Overlay
<1>10. HalfDone'
  <2>1. \A p \in Pages : main[p] \in At(legal' \cup prior', p)
    BY <1>1, <1>2 DEF MainLegal, At
  <2>2. ASSUME NEW p \in Pages, pending[p] = Untouched PROVE main[p] \in At(legal', p)
    <3>1. PICK s \in legal : main[p] = s[p]
      BY <1>2 DEF MainLegal, At
    <3>2. Overlay(s, pending)[p] = main[p]
      BY <2>2, <3>1 DEF Overlay
    <3> QED
      BY <1>1, <3>2 DEF At
  <2>3. ASSUME NEW p \in Pages, pending[p] # Untouched
        PROVE  At(legal', p) \subseteq {pending[p]}
    BY <1>1, <2>3 DEF At, Overlay
  <2>4. CommitOK'
    BY <1>1, <1>3, <1>5 DEF CommitOK, session
  <2> QED
    BY <1>1, <2>1, <2>2, <2>3, <2>4 DEF HalfDone, session
<1> QED
  BY <1>1, <1>5, <1>7, <1>8, <1>9, <1>10
     DEF FailInvariant, FoundLegal, At, Running, Committing

\* The two fsyncs of a commit.
LEMMA FsyncFailInv ==
  ASSUME FailInvariant, FsyncWal \/ FsyncMain
  PROVE  FailInvariant'
<1>1. /\ UNCHANGED <<main, wal, session, legal, prior, lapse>>
      /\ \/ /\ pc = "logged" /\ pc' = "flush"
            /\ todo' = {<<txnId, p>> : p \in Wrote(pending)}
         \/ /\ pc = "flush" /\ pc' = "synced"
            /\ todo = {} /\ todo' = todo
  BY DEF FsyncWal, FsyncMain, ghosts
<1>2. SessionOK /\ LastId /\ HalfDone
  BY <1>1 DEF FailInvariant, Running, Committing
<1>3. todo' \subseteq Nat \X Pages
  BY <1>1, FailFacts DEF Wrote
<1>4. TypeOK'
  BY <1>1, <1>3, FailFacts, TypesKeep DEF Next, Work, Commit
<1>5. SessionOK' /\ LastId'
  BY <1>1, <1>2 DEF SessionOK, LastId, HalfDone, CommitOK, session
<1>6. CommitOK'
  BY <1>1, <1>2 DEF HalfDone, CommitOK, session, Wrote
<1>7. HalfDone'
  BY <1>1, <1>2, <1>6 DEF HalfDone, session
<1> QED
  BY <1>1, <1>4, <1>5, <1>7 DEF FailInvariant, FoundLegal, Running, Committing

LEMMA WriteMainFailInv ==
  ASSUME FailInvariant, WriteMain
  PROVE  FailInvariant'
<1>1. PICK x \in todo : /\ main' = [main EXCEPT ![x[2]] = pending[x[2]]]
                        /\ todo' = todo \ {x}
  BY DEF WriteMain
<1>2. pc = "flush" /\ pc' = "flush" /\ UNCHANGED <<wal, session, legal, prior, lapse>>
  BY DEF WriteMain, ghosts
<1>3. SessionOK /\ LastId /\ HalfDone /\ CommitOK
  BY <1>2 DEF FailInvariant, Running, Committing, HalfDone
<1>4. PICK p \in Wrote(pending) : x = <<txnId, p>>
  BY <1>2, <1>3 DEF CommitOK
<1>5. /\ p \in Pages /\ pending[p] \in Values /\ pending[p] # Untouched
      /\ main' = [main EXCEPT ![p] = pending[p]]
  BY <1>1, <1>4, FailFacts DEF Wrote, Deltas
<1>6. /\ main' \in Images /\ main'[p] = pending[p]
      /\ \A q \in Pages : q # p => main'[q] = main[q]
  BY <1>5, FailFacts DEF Images
<1>7. Covers(wal, p)
  <2>1. PICK q \in wal.recs : LastOf(q, WritesOf(wal, txnId, p))
    BY <1>3, <1>5 DEF SessionOK, CommitOK, LoggedBy
  <2>2. <<txnId, p>> \in Redo(wal)
    BY <1>3, <2>1 DEF CommitOK, Redo, LastOf, WritesOf
  <2> QED
    BY <2>2, CoversRedo
<1>8. Recovered(main', wal) = Recovered(main, wal)
  BY <1>6, <1>7, SameReplay
<1>9. TypeOK'
  BY <1>1, <1>2, <1>6, FailFacts, TypesKeep DEF Next, Work, Commit
<1>10. FoundLegal'
  BY <1>2, <1>8 DEF FailInvariant, FoundLegal
<1>11. SessionOK' /\ LastId'
  BY <1>2, <1>3 DEF SessionOK, LastId, CommitOK, session
<1>12. CommitOK'
  BY <1>1, <1>2, <1>3, <1>4, <1>6 DEF CommitOK, session, Wrote
<1>13. main'[p] \in At(legal, p)
  <2>1. PICK s \in legal : Recovered(main, wal)[p] = s[p]
    BY <1>5 DEF FailInvariant, FoundLegal
  <2>2. s[p] = pending[p]
    BY <1>3, <1>5, <2>1 DEF HalfDone, At
  <2> QED
    BY <1>6, <2>1, <2>2 DEF At
<1>14. HalfDone'
  <2>1. \A q \in Pages : main'[q] \in At(legal \cup prior, q)
    BY <1>3, <1>6, <1>13 DEF HalfDone, At
  <2> QED
    BY <1>2, <1>3, <1>5, <1>6, <1>12, <2>1 DEF HalfDone, session
<1> QED
  BY <1>2, <1>9, <1>10, <1>11, <1>14 DEF FailInvariant, Running, Committing

\* The log after a truncation behind the open transaction, done or failed.
LEMMA TruncatedFailInv ==
  ASSUME FailInvariant, SessionOK, LastId, txnId # 0,
         wal' \in TruncateFailed(wal, txnId + 1)
  PROVE  /\ wal' \in Logs /\ WellFormed(wal') /\ HasTop(wal')
         /\ PageWrites(wal') \subseteq PageWrites(wal)
         /\ wal' # wal => CommitRecords(wal') = {} /\ Recovered(main, wal') = main
<1>1. \A r \in CommitRecords(wal) : r.txn <= txnId
  <2>1. \A q \in PageWrites(wal) : q.txn \in Nat
    BY FailFacts, RecordFields DEF PageWrites, Logs
  <2>2. \A q \in PageWrites(wal) : q.txn <= txnId
    BY <2>1, FailFacts DEF SessionOK, LastId
  <2> QED
    BY <2>2, FailFacts DEF WellFormed
<1>2. /\ wal' \in Logs /\ WellFormed(wal') /\ PageWrites(wal') \subseteq PageWrites(wal)
      /\ wal' # wal => CommitRecords(wal') = {}
  <2>1. CASE wal' = wal
    BY <2>1, FailFacts
  <2>2. CASE wal' = EmptyLog
    BY <2>2, EmptyLogOK DEF LogOK
  <2>3. CASE wal' = TruncateBefore(wal, txnId + 1)
    BY <1>1, <2>3, FailFacts, TruncateOK
  <2> QED
    BY <2>1, <2>2, <2>3 DEF TruncateFailed
<1>3. HasTop(wal') /\ (wal' # wal => Recovered(main, wal') = main)
  BY <1>2, FailFacts, NoCommitTop, RecoveredNoCommit
<1> QED
  BY <1>2, <1>3

\* ROLLBACK raises and the transaction stays open.
LEMMA RollbackFailsFailInv ==
  ASSUME FailInvariant, RollbackFails, ~Lapsed'
  PROVE  FailInvariant'
<1>1. /\ pc = "undo" /\ pc' = "ready" /\ wal' \in TruncateFailed(wal, txnId + 1)
      /\ lapse' \in {lapse, "open"} /\ (wal' # wal => lapse' = "open")
      /\ UNCHANGED <<main, session, todo, legal, prior>>
  BY DEF RollbackFails, Lapsed
<1>2. SessionOK /\ LastId /\ MainLegal /\ Undecided /\ txnId # 0
  BY <1>1 DEF FailInvariant, Running, Committing, SessionOK
<1>3. /\ wal' \in Logs /\ WellFormed(wal') /\ HasTop(wal')
      /\ PageWrites(wal') \subseteq PageWrites(wal)
      /\ wal' # wal => CommitRecords(wal') = {} /\ Recovered(main, wal') = main
  BY <1>1, <1>2, TruncatedFailInv
<1>4. TypeOK'
  BY <1>1, <1>3, FailFacts, TypesKeep DEF Next, Work, Rollback
<1>5. FoundLegal'
  BY <1>1, <1>2, <1>3 DEF FailInvariant, FoundLegal, MainLegal, At
<1>6. SessionOK'
  <2>1. \A r \in PageWrites(wal') : r.txn < nextTxn
    BY <1>2, <1>3 DEF SessionOK
  <2>2. lapse' # "open" => wal' = wal /\ lapse' = lapse
    BY <1>1
  <2> QED
    BY <1>1, <1>2, <2>1, <2>2 DEF SessionOK, session
<1>7. LastId' /\ Undecided' /\ MainLegal'
  BY <1>1, <1>2, <1>3 DEF LastId, Undecided, MainLegal, session
<1> QED
  BY <1>1, <1>3, <1>4, <1>5, <1>6, <1>7 DEF FailInvariant, Running, Committing

\* Transaction.commit raises after its COMMIT record: the transaction stays
\* in the log, and the pages it wrote stay in main.
LEMMA CommitFailsLateInv ==
  ASSUME FailInvariant, CommitFailsLate
  PROVE  FailInvariant'
<1>1. /\ pc \in {"logged", "flush", "synced"} /\ pc' = "ready"
      /\ txnState' = "rolled_back" /\ todo' = {}
      /\ legal' = legal \cup prior /\ prior' = {}
      /\ wal' \in TruncateFailed(wal, txnId + 1)
      /\ UNCHANGED <<main, nextTxn, txnId, pending, buffer>>
  BY DEF CommitFailsLate, CommitRaises, TruncateFailed
<1>2. SessionOK /\ LastId /\ HalfDone /\ txnId # 0
  BY <1>1 DEF FailInvariant, Running, Committing, HalfDone, CommitOK
<1>3. legal' \subseteq Images /\ prior' \subseteq Images
  BY <1>1, FailFacts
<1>4. /\ wal' \in Logs /\ WellFormed(wal') /\ HasTop(wal')
      /\ PageWrites(wal') \subseteq PageWrites(wal)
      /\ wal' # wal => CommitRecords(wal') = {} /\ Recovered(main, wal') = main
  BY <1>1, <1>2, TruncatedFailInv
<1>5. TypeOK'
  BY <1>1, <1>3, <1>4, FailFacts, TypesKeep DEF Next, Work, Commit
<1>6. MainLegal'
  BY <1>1, <1>2 DEF MainLegal, HalfDone
<1>7. FoundLegal'
  <2>1. CASE wal' = wal
    BY <1>1, <2>1 DEF FailInvariant, FoundLegal
  <2>2. CASE wal' # wal
    BY <1>1, <1>4, <1>6, <2>2 DEF FoundLegal, MainLegal, At
  <2> QED
    BY <2>1, <2>2
<1>8. SessionOK' /\ LastId' /\ Undecided'
  <2>1. \A r \in PageWrites(wal') : r.txn < nextTxn
    BY <1>2, <1>4 DEF SessionOK
  <2> QED
    BY <1>1, <1>2, <2>1 DEF SessionOK, LastId, Undecided
<1> QED
  BY <1>1, <1>4, <1>5, <1>6, <1>7, <1>8 DEF FailInvariant, Running, Committing

\* The transaction is forgotten, with or without the truncation of the log.
LEMMA ForgetFailInv ==
  ASSUME FailInvariant, CommitDone \/ RollbackDone \/ UnwindWithoutRollback
  PROVE  FailInvariant'
<1>1. /\ pc \in {"synced", "undo", "unwind", "stmt"} /\ pc' = "ready"
      /\ txnId' = 0 /\ txnState' = "none" /\ pending' = Blank /\ buffer' = Blank
      /\ prior' \in {prior, {}}
      /\ UNCHANGED <<main, nextTxn, todo, legal>>
      /\ wal' \in TruncateFailed(wal, txnId + 1)
  BY DEF CommitDone, RollbackDone, UnwindWithoutRollback, Forget, TruncateFailed
<1>2. SessionOK /\ LastId /\ txnId # 0
  BY <1>1 DEF FailInvariant, Running, SessionOK
<1>3. MainLegal
  <2>1. CASE pc # "synced"
    BY <1>1, <2>1 DEF FailInvariant, Running, Committing
  <2>2. CASE pc = "synced"
    <3>1. HalfDone /\ CommitOK
      BY <2>2 DEF FailInvariant, Committing, HalfDone
    <3>2. ASSUME NEW p \in Pages, pending[p] # Untouched PROVE main[p] \in At(legal, p)
      <4>1. main[p] = pending[p]
        BY <2>2, <3>1, <3>2 DEF CommitOK, Wrote
      <4>2. PICK s \in legal : Recovered(main, wal)[p] = s[p]
        BY DEF FailInvariant, FoundLegal
      <4>3. s[p] = pending[p]
        BY <3>1, <3>2, <4>2 DEF HalfDone, At
      <4> QED
        BY <4>1, <4>2, <4>3 DEF At
    <3> QED
      BY <3>1, <3>2 DEF HalfDone, MainLegal
  <2> QED
    BY <2>1, <2>2
<1>4. /\ wal' \in Logs /\ WellFormed(wal') /\ HasTop(wal')
      /\ PageWrites(wal') \subseteq PageWrites(wal)
      /\ wal' # wal => CommitRecords(wal') = {} /\ Recovered(main, wal') = main
  BY <1>1, <1>2, TruncatedFailInv
<1>5. FoundLegal'
  BY <1>1, <1>3, <1>4 DEF FailInvariant, FoundLegal, MainLegal, At
<1>6. TypeOK'
  BY <1>1, <1>4, FailFacts, TypesKeep DEF Next, Work, Commit, Rollback
<1>7. SessionOK' /\ LastId' /\ Undecided' /\ MainLegal'
  BY <1>1, <1>2, <1>3, <1>4 DEF SessionOK, LastId, Undecided, MainLegal
<1> QED
  BY <1>1, <1>4, <1>5, <1>6, <1>7 DEF FailInvariant, Running, Committing

LEMMA EndSessionFailInv ==
  ASSUME FailInvariant, Close \/ Crash
  PROVE  FailInvariant'
<1>1. /\ pc' = "down" /\ todo' = {} /\ prior' \in {prior, {}}
      /\ UNCHANGED <<main, legal>>
      /\ \/ wal' = wal
         \/ wal' = [wal EXCEPT !.torn = TRUE]
         \/ wal' = EmptyLog /\ pc \in {"synced", "undo", "unwind", "replayed"}
  BY DEF Close, Crash, EndSession, LogAfterKill, Rewriting, ghosts
<1>2. /\ wal' \in Logs /\ WellFormed(wal') /\ HasTop(wal')
      /\ FoundLegal'
  <2>1. CASE wal' = wal
    BY <1>1, <2>1, FailFacts DEF FailInvariant, FoundLegal
  <2>2. CASE wal' = [wal EXCEPT !.torn = TRUE]
    <3>1. wal' \in Logs /\ wal'.recs = wal.recs /\ wal'.end = wal.end
      BY <2>2, FailFacts DEF Logs
    <3>2. /\ WellFormed(wal') /\ Redo(wal') = Redo(wal)
          /\ \A t, p : RedoValue(wal', t, p) = RedoValue(wal, t, p)
      BY <3>1, FailFacts, TornTail
    <3>3. HasTop(wal') /\ Recovered(main, wal') = Recovered(main, wal)
      BY <3>1, <3>2, FailFacts, SameRedo
    <3> QED
      BY <1>1, <3>1, <3>2, <3>3 DEF FailInvariant, FoundLegal
  <2>3. CASE wal' = EmptyLog /\ pc \in {"synced", "undo", "unwind", "replayed"}
    <3>1. wal' \in Logs /\ WellFormed(wal') /\ CommitRecords(wal') = {}
      BY <2>3, EmptyLogOK DEF LogOK
    <3>2. HasTop(wal') /\ Recovered(main, wal') = main
      BY <3>1, FailFacts, NoCommitTop, RecoveredNoCommit
    <3>3. ASSUME NEW p \in Pages PROVE main[p] \in At(legal, p)
      <4>1. CASE pc \in {"undo", "unwind"}
        BY <4>1 DEF FailInvariant, Running, Committing, MainLegal
      <4>2. CASE pc = "replayed"
        BY <4>2, FailFacts DEF FailInvariant, InOrder
      <4>3. CASE pc = "synced"
        <5>1. HalfDone /\ CommitOK
          BY <4>3 DEF FailInvariant, Committing, HalfDone
        <5>2. PICK s \in legal : Recovered(main, wal)[p] = s[p]
          BY DEF FailInvariant, FoundLegal
        <5>3. pending[p] # Untouched => main[p] = pending[p] /\ s[p] = pending[p]
          BY <4>3, <5>1, <5>2 DEF HalfDone, CommitOK, Wrote, At
        <5> QED
          BY <5>1, <5>2, <5>3 DEF HalfDone, At
      <4> QED
        BY <2>3, <4>1, <4>2, <4>3
    <3> QED
      BY <1>1, <3>1, <3>2, <3>3 DEF FoundLegal, At
  <2> QED
    BY <1>1, <2>1, <2>2, <2>3
<1>3. prior' \subseteq Images
  BY <1>1, FailFacts
<1>4. TypeOK'
  BY <1>1, <1>2, <1>3, FailFacts, TypesKeep DEF Next, Work
<1> QED
  BY <1>1, <1>2, <1>4 DEF FailInvariant, Running, Committing

\* A step of the protocol, failing or not, keeps the invariant.
LEMMA FailStep ==
  ASSUME ~EmptyCommits, FailInvariant, [Next]_vars, ~Lapsed'
  PROVE  FailInvariant'
<1>1. CASE Recovery
  BY <1>1, OpenFailInv, ReplayPageFailInv, ReplaySyncFailInv, OpenDoneFailInv
     DEF Recovery
<1>2. CASE Execute
  BY <1>2, BeginFailInv, StatementFailInv, WritePageFailInv DEF Execute
<1>3. CASE Commit
  BY <1>3, AppendCommitFailInv, FsyncFailInv, WriteMainFailInv, ForgetFailInv,
     StatementFailInv, CommitFailsLateInv DEF Commit
<1>4. CASE Rollback
  BY <1>4, AppendRollbackFailInv, ForgetFailInv, RollbackFailsFailInv DEF Rollback
<1>5. CASE Close \/ Crash
  BY <1>5, EndSessionFailInv
<1>6. CASE UNCHANGED vars
  <2>1. UNCHANGED <<main, wal, pc, nextTxn, txnId, txnState, auto, pending, buffer,
                    cat, snap, todo, torn, restarts, legal, prior, lapse>>
    BY <1>6 DEF vars, session, ghosts
  <2>2. TypeOK'
    BY <2>1 DEF FailInvariant, TypeOK
  <2>3. Running => (SessionOK /\ LastId)'
    BY <2>1 DEF FailInvariant, SessionOK, LastId
  <2>4. FoundLegal' /\ WellFormed(wal') /\ HasTop(wal')
    BY <2>1 DEF FailInvariant, FoundLegal
  <2>5. Running /\ ~Committing => (MainLegal /\ Undecided)'
    BY <2>1 DEF FailInvariant, MainLegal, Undecided
  <2>6. Committing => HalfDone'
    BY <2>1 DEF FailInvariant, HalfDone, CommitOK
  <2>7. pc \in {"replay", "replayed"} => InOrder'
    BY <2>1 DEF FailInvariant, InOrder
  <2> QED
    BY <2>1, <2>2, <2>3, <2>4, <2>5, <2>6, <2>7
       DEF FailInvariant, Running, Committing
<1> QED
  BY <1>1, <1>2, <1>3, <1>4, <1>5, <1>6 DEF Next, Work

LEMMA FailStart == Init => FailInvariant
<1> SUFFICES ASSUME Init PROVE FailInvariant
  OBVIOUS
<1>1. IInv /\ CommitRecords(wal) = {} /\ pc = "down"
  BY InitInv, EmptyLogOK DEF Init
<1>2. FoundLegal
  BY <1>1 DEF IInv, WalInvariant, FoundLegal
<1> QED
  BY <1>1, <1>2, NoCommitTop
     DEF IInv, WalInvariant, LogOK, FailInvariant, Running, Committing
-----------------------------------------------------------------------------
(* The theorems.                                                           *)

(***************************************************************************)
(* The invariant of the protocol when any of its steps may raise, up to    *)
(* the exception of CrashAtomic.                                           *)
(***************************************************************************)
THEOREM FailInductive ==
  ASSUME ~EmptyCommits
  PROVE  Spec => [](Lapsed \/ FailInvariant)
<1>1. ASSUME Lapsed \/ FailInvariant, [Next]_vars PROVE Lapsed' \/ FailInvariant'
  BY <1>1, LapsedStays, FailStep
<1> QED
  BY <1>1, FailStart, PTL DEF Spec

(***************************************************************************)
(* Wherever Transaction.commit or rollback raises and whenever the process *)
(* dies, a restart finds on each page a content that one of the possible   *)
(* outcomes of the failed commits has, up to the exception of CrashAtomic. *)
(***************************************************************************)
THEOREM FailedCommitsPageLegal ==
  ASSUME ~EmptyCommits
  PROVE  Spec => []PagesLegal
<1>1. Lapsed \/ FailInvariant => PagesLegal
  BY DEF FailInvariant, FoundLegal, PagesLegal
<1> QED
  BY <1>1, FailInductive, PTL

(***************************************************************************)
(* The write-ahead rule does not depend on where a commit raises: commit   *)
(* and recovery only write page images that the log can redo.  A rollback  *)
(* that raises breaks it only through the exception of CrashAtomic.        *)
(***************************************************************************)
THEOREM WriteAheadAlways ==
  ASSUME ~EmptyCommits
  PROVE  Spec => WriteAhead
<1> DEFINE Ahead == \A p \in Pages : main'[p] # main[p] /\ ~Lapsed =>
                      \E t \in {r.txn : r \in PageWrites(wal)} :
                         <<t, p>> \in Redo(wal) /\ main'[p] = RedoValue(wal, t, p)
<1>1. ASSUME Lapsed \/ FailInvariant, [Next]_vars PROVE [Ahead]_vars
  <2> SUFFICES ASSUME Next, FailInvariant, NEW p \in Pages, main'[p] # main[p]
               PROVE  \E t \in {r.txn : r \in PageWrites(wal)} :
                         <<t, p>> \in Redo(wal) /\ main'[p] = RedoValue(wal, t, p)
    BY <1>1
  <2>1. ReplayPage \/ WriteMain
    BY DEF Next, Work, Recovery, Execute, Commit, Rollback, Open, ReplaySync,
       OpenDone, OpenFails, Begin, BeginStatement, ChangeCatalog, WritePage,
       EndStatement, AppendCommit, FsyncWal, FsyncMain, CommitDone,
       CommitFailsEarly, CommitFailsLate, CommitRaises, AppendRollback,
       RollbackDone, RollbackFails, UnwindWithoutRollback, Forget, Close, Crash
  <2>2. SUFFICES \E t : <<t, p>> \in Redo(wal) /\ main'[p] = RedoValue(wal, t, p)
    BY DEF Redo
  <2>3. CASE ReplayPage
    <3>1. PICK x \in todo :
            main' = [main EXCEPT ![x[2]] = RedoValue(wal, x[1], x[2])]
      BY <2>3 DEF ReplayPage
    <3>2. x \in Redo(wal) /\ x = <<x[1], x[2]>>
      BY <1>1, <2>3, FailFacts DEF FailInvariant, InOrder, ReplayPage
    <3>3. p = x[2] /\ main'[p] = RedoValue(wal, x[1], p)
      BY <1>1, <3>1, FailFacts DEF Images
    <3> QED
      BY <3>2, <3>3
  <2>4. CASE WriteMain
    <3>1. PICK x \in todo : main' = [main EXCEPT ![x[2]] = pending[x[2]]]
      BY <2>4 DEF WriteMain
    <3>2. pc = "flush" /\ CommitOK /\ SessionOK
      BY <1>1, <2>4 DEF FailInvariant, WriteMain, HalfDone, Committing, Running
    <3>3. x[2] \in Wrote(pending)
      BY <3>2 DEF CommitOK
    <3>4. p = x[2] /\ main'[p] = pending[p]
      BY <1>1, <3>1, FailFacts DEF Images
    <3>5. PICK q \in wal.recs :
            LastOf(q, WritesOf(wal, txnId, p)) /\ q.data = pending[p]
      BY <3>2, <3>3, <3>4 DEF SessionOK, CommitOK, LoggedBy, Wrote
    <3>6. <<txnId, p>> \in Redo(wal)
      BY <3>2, <3>5 DEF CommitOK, Redo, LastOf, WritesOf
    <3>7. RedoValue(wal, txnId, p) = pending[p]
      BY <1>1, <3>5, <3>6, FailFacts, Redone
    <3> QED
      BY <3>4, <3>6, <3>7
  <2> QED
    BY <2>1, <2>3, <2>4
<1> QED
  BY <1>1, FailInductive, PTL DEF Spec, WriteAhead
-----------------------------------------------------------------------------
(***************************************************************************)
(* Power losses.  While a session runs, the state is one that WalStore     *)
(* alone could be in, so its invariant and the lemmas about its steps      *)
(* carry over; new are the images on disk, and a recovery that starts from *)
(* torn pages.                                                             *)
(***************************************************************************)

TornImages == [Pages -> Values \cup {TornPage}]

\* A replay of w would change nothing.
Harmless(w) ==
  \A x \in Redo(w) : main[x[2]] = RedoValue(w, x[1], x[2])

FoundWhole == Recovered(main, wal) \in legal

StateOK ==
  /\ main \in TornImages
  /\ pc \in PCs /\ torn \in BOOLEAN /\ restarts \in Nat
  /\ todo \subseteq Nat \X Pages
  /\ legal \subseteq Images /\ prior \subseteq Images /\ lapse \in Lapses
  /\ walDisk \subseteq Logs /\ wal \in walDisk
  /\ \A w \in walDisk : LogOK(w)

\* Ids are handed out one by one, so the open transaction has the last.
LastTxn == Running /\ txnId # 0 => nextTxn = txnId + 1

\* An image of the log says what the log says.  Others only linger while
\* there is nothing to redo, or while a COMMIT is not yet synced, and they
\* would change nothing.
LogDiskOK ==
  \A w \in walDisk :
    \/ w.recs = wal.recs
    \/ Harmless(w) /\ (pc = "logged" \/ Redo(wal) = {})

\* The disk is behind only in pages the log can restore.
MainDiskOK ==
  \A p \in Pages :
    \/ mainDisk[p] = {main[p]}
    \/ pc \in {"flush", "replay"} /\ Covers(wal, p)

(***************************************************************************)
(* Inductive: a running session is in a state of WalStore's invariant;     *)
(* outside it, a replay of the log gives a legal page map; and no image    *)
(* that the disks may hold leads a replay elsewhere.                       *)
(***************************************************************************)
PowerInvariant ==
  /\ StateOK
  /\ FoundWhole
  /\ Running => TypeOK /\ WalInvariant
  /\ pc \in {"replay", "replayed"} => ReplayOK
  /\ pc = "logged" => main \in prior
  /\ pc # "down" => ~wal.torn
  /\ LastTxn
  /\ LogDiskOK
  /\ MainDiskOK
-----------------------------------------------------------------------------
(* Facts about the log.                                                    *)

\* A replay of a well-formed log over any contents, torn pages included.
LEMMA ReplayAt ==
  ASSUME NEW m, NEW w \in Logs, LogOK(w), NEW p \in Pages
  PROVE  /\ \A t : <<t, p>> \in Redo(w) =>
              /\ Covers(w, p)
              /\ Recovered(m, w)[p] = RedoValue(w, t, p)
              /\ RedoValue(w, t, p) \in Values
         /\ ~Covers(w, p) => Recovered(m, w)[p] = m[p]
<1>1. ASSUME NEW t, <<t, p>> \in Redo(w)
      PROVE  /\ Covers(w, p)
             /\ Recovered(m, w)[p] = RedoValue(w, t, p)
             /\ RedoValue(w, t, p) \in Values
  <2>1. /\ t \in Nat /\ Redoers(w, p) = {t}
        /\ (CHOOSE u \in Redoers(w, p) : \A s \in Redoers(w, p) : s <= u) = t
        /\ RedoValue(w, t, p) \in Values
    BY <1>1, OneRedoer
  <2> QED
    BY <1>1, <2>1 DEF Recovered, Covers
<1>2. ASSUME ~Covers(w, p) PROVE Recovered(m, w)[p] = m[p]
  <2>1. \A t : <<t, p>> \notin Redo(w)
    BY <1>1, <1>2
  <2>2. Redoers(w, p) = {}
    BY <2>1 DEF Redoers
  <2> QED
    BY <2>2 DEF Recovered
<1> QED
  BY <1>1, <1>2

\* The elements of Redo are pairs of an id and a page.
LEMMA RedoPairs ==
  ASSUME NEW w \in Logs, LogOK(w)
  PROVE  /\ Redo(w) \subseteq Nat \X Pages
         /\ \A x \in Redo(w) : x = <<x[1], x[2]>> /\ x[2] \in Pages
                               /\ Covers(w, x[2])
<1> SUFFICES ASSUME NEW x \in Redo(w)
             PROVE  /\ x \in Nat \X Pages
                    /\ x = <<x[1], x[2]>> /\ x[2] \in Pages /\ Covers(w, x[2])
  OBVIOUS
<1>1. x = <<x[1], x[2]>>
  BY DEF Redo
<1>2. x[1] \in Nat /\ x[2] \in Pages
  BY <1>1, OneRedoer
<1> QED
  BY <1>1, <1>2, CoversRedo

\* Replaying a harmless log changes nothing.
LEMMA HarmlessReplay ==
  ASSUME NEW w \in Logs, LogOK(w), main \in TornImages
  PROVE  Harmless(w) <=> Recovered(main, w) = main
<1>1. ASSUME Harmless(w) PROVE Recovered(main, w) = main
  <2>1. ASSUME NEW p \in Pages PROVE Recovered(main, w)[p] = main[p]
    <3>1. CASE Covers(w, p)
      <4>1. PICK t : <<t, p>> \in Redo(w)
        BY <3>1, CoversRedo
      <4>2. main[p] = RedoValue(w, t, p)
        BY <1>1, <4>1 DEF Harmless
      <4> QED
        BY <4>1, <4>2, ReplayAt
    <3>2. CASE ~Covers(w, p)
      BY <3>2, ReplayAt
    <3> QED
      BY <3>1, <3>2
  <2>2. Recovered(main, w) = [p \in Pages |-> Recovered(main, w)[p]]
    BY DEF Recovered
  <2> QED
    BY <2>1, <2>2 DEF TornImages
<1>2. ASSUME Recovered(main, w) = main PROVE Harmless(w)
  <2> SUFFICES ASSUME NEW x \in Redo(w)
               PROVE  main[x[2]] = RedoValue(w, x[1], x[2])
    BY DEF Harmless
  <2>1. x = <<x[1], x[2]>> /\ x[2] \in Pages
    BY RedoPairs
  <2>2. Recovered(main, w)[x[2]] = RedoValue(w, x[1], x[2])
    BY <2>1, ReplayAt
  <2> QED
    BY <1>2, <2>2
<1> QED
  BY <1>1, <1>2
-----------------------------------------------------------------------------
(* Losing the power.                                                       *)

\* What is known of the log and the disks in any state of the invariant.
LEMMA Facts ==
  ASSUME PowerInvariant
  PROVE  /\ main \in TornImages /\ wal \in Logs /\ LogOK(wal)
         /\ legal \subseteq Images /\ prior \subseteq Images
         /\ walDisk \subseteq Logs /\ wal \in walDisk
         /\ Recovered(main, wal) \in legal
         /\ LogDiskOK /\ MainDiskOK
         /\ Running => IInv
BY DEF PowerInvariant, StateOK, FoundWhole, IInv

\* Whatever image of each file the disk holds, a replay gives a legal page
\* map, or the one before a COMMIT that was not synced.
LEMMA AnyImageLegal ==
  ASSUME PowerInvariant, NEW m \in TornImages, NEW w \in walDisk,
         \A p \in Pages : m[p] \in mainDisk[p]
  PROVE  \/ Recovered(m, w) \in legal
         \/ pc = "logged" /\ Recovered(m, w) \in prior
<1>1. /\ main \in TornImages /\ wal \in Logs /\ LogOK(wal) /\ w \in Logs
      /\ LogOK(w) /\ Recovered(main, wal) \in legal
      /\ LogDiskOK /\ MainDiskOK
  BY Facts DEF PowerInvariant, StateOK
<1>2. \A p \in Pages : Covers(wal, p) \/ m[p] = main[p]
  BY <1>1 DEF MainDiskOK
<1>3. CASE w.recs = wal.recs
  <2>1. \A p \in Pages : Covers(w, p) <=> Covers(wal, p)
    BY <1>3, SameRecords, CoversRedo
  <2>2. Recovered(m, w) = Recovered(main, wal)
    BY <1>1, <1>2, <1>3, <2>1, SameReplay
  <2> QED
    BY <1>1, <2>2
<1>4. CASE Harmless(w) /\ (pc = "logged" \/ Redo(wal) = {})
  <2>1. m = main
    <3>1. \A p \in Pages : m[p] = main[p]
      BY <1>1, <1>4, CoversRedo DEF MainDiskOK
    <3> QED
      BY <1>1, <3>1 DEF TornImages
  <2>2. Recovered(m, w) = main
    BY <1>1, <1>4, <2>1, HarmlessReplay
  <2>3. CASE pc = "logged"
    BY <2>2, <2>3 DEF PowerInvariant
  <2>4. CASE Redo(wal) = {}
    <3>1. Harmless(wal)
      BY <2>4 DEF Harmless
    <3>2. Recovered(main, wal) = main
      BY <1>1, <3>1, HarmlessReplay
    <3> QED
      BY <1>1, <2>2, <3>2
  <2> QED
    BY <1>4, <2>3, <2>4
<1> QED
  BY <1>1, <1>3, <1>4 DEF LogDiskOK

LEMMA PowerFailsKeeps ==
  ASSUME PowerInvariant, PowerFails
  PROVE  PowerInvariant'
<1>1. /\ main' \in TornImages /\ wal' \in walDisk
      /\ \A p \in Pages : main'[p] \in mainDisk[p]
      /\ pc' = "down" /\ todo' = {} /\ torn' = FALSE /\ restarts' = restarts + 1
      /\ legal' = (IF pc \in {"flush", "synced"} THEN legal ELSE legal \cup prior)
      /\ prior' = {} /\ walDisk' = {wal'} /\ LapseEnds
      /\ mainDisk' = [p \in Pages |-> {main'[p]}]
  BY DEF PowerFails, EndSession, SyncedDisks, TornImages
<1>2. /\ wal' \in Logs /\ LogOK(wal')
  BY <1>1 DEF PowerInvariant, StateOK
<1>3. FoundWhole'
  BY <1>1, AnyImageLegal DEF FoundWhole
<1>4. legal' \subseteq Images /\ lapse' \in Lapses
  BY <1>1 DEF PowerInvariant, StateOK, LapseEnds, Lapses
<1>5. torn' \in BOOLEAN
  BY <1>1
<1>6. StateOK'
  BY <1>1, <1>2, <1>4, <1>5 DEF PowerInvariant, StateOK, PCs
<1>7. LogDiskOK' /\ MainDiskOK'
  BY <1>1 DEF LogDiskOK, MainDiskOK
<1> QED
  BY <1>1, <1>3, <1>6, <1>7 DEF PowerInvariant, Running, LastTxn
-----------------------------------------------------------------------------
(* Recovery.                                                               *)

\* A step that leaves the records of the log alone and does not sync it
\* adds no other image to the disk.
LEMMA LogImagesSame ==
  ASSUME wal \in Logs, wal' \in Logs, wal'.recs = wal.recs, wal'.end = wal.end,
         LogOK(wal)
  PROVE  \A w \in LogImages : w \in Logs /\ LogOK(w) /\ w.recs = wal.recs
<1> SUFFICES ASSUME NEW w \in LogImages
             PROVE  w \in Logs /\ LogOK(w) /\ w.recs = wal.recs
  OBVIOUS
<1>1. w = wal' \/ w = [wal EXCEPT !.torn = TRUE]
  BY DEF LogImages
<1>2. w \in Logs /\ w.recs = wal.recs /\ w.end = wal.end
  BY <1>1 DEF Logs
<1> QED
  BY <1>2, TornTail

LEMMA OpenKeepsPower ==
  ASSUME PowerInvariant, Open, DiskFollows
  PROVE  PowerInvariant'
<1>1. /\ pc = "down" /\ pc' = "replay" /\ todo' = Redo(wal)
      /\ torn' = wal.torn /\ wal' = [wal EXCEPT !.torn = FALSE]
      /\ UNCHANGED <<main, restarts, legal, prior, lapse>>
  BY DEF Open, ghosts
<1>2. /\ main \in TornImages /\ wal \in Logs /\ LogOK(wal)
      /\ Recovered(main, wal) \in legal /\ LogDiskOK /\ MainDiskOK
  BY Facts
<1>3. /\ wal' \in Logs /\ wal'.recs = wal.recs /\ wal'.end = wal.end
      /\ ~wal'.torn /\ torn' \in BOOLEAN
  BY <1>1, <1>2 DEF Logs
<1>4. /\ LogOK(wal') /\ Redo(wal') = Redo(wal)
      /\ Recovered(main, wal') = Recovered(main, wal)
  BY <1>2, <1>3, TornTail
<1>5. /\ walDisk' = walDisk \cup LogImages
      /\ \A p \in Pages : mainDisk'[p] = mainDisk[p]
  BY <1>1 DEF DiskFollows, WalSynced, MainSynced
<1>6. \A w \in LogImages : w \in Logs /\ LogOK(w) /\ w.recs = wal.recs
  BY <1>2, <1>3, LogImagesSame
<1>7. wal' \in LogImages
  BY DEF LogImages
<1>8. StateOK'
  BY <1>1, <1>2, <1>3, <1>5, <1>6, <1>7, RedoPairs DEF PowerInvariant, StateOK, PCs
<1>9. FoundWhole'
  BY <1>1, <1>2, <1>4 DEF FoundWhole
<1>10. ReplayOK'
  BY <1>1, <1>4 DEF ReplayOK
<1>11. LogDiskOK'
  BY <1>1, <1>2, <1>3, <1>4, <1>5, <1>6 DEF LogDiskOK, Harmless
<1>12. MainDiskOK'
  BY <1>1, <1>2, <1>4, <1>5 DEF MainDiskOK, Covers
<1> QED
  BY <1>1, <1>3, <1>8, <1>9, <1>10, <1>11, <1>12 DEF PowerInvariant, Running, LastTxn

LEMMA ReplayPageKeepsPower ==
  ASSUME PowerInvariant, ReplayPage, DiskFollows
  PROVE  PowerInvariant' /\ \A w \in walDisk : Redo(w) = Redo(wal)
<1>1. PICK x \in todo :
        /\ main' = [main EXCEPT ![x[2]] = RedoValue(wal, x[1], x[2])]
        /\ todo' = todo \ {x}
  BY DEF ReplayPage
<1>2. /\ pc = "replay" /\ pc' = "replay"
      /\ UNCHANGED <<wal, torn, restarts, legal, prior, lapse>>
  BY DEF ReplayPage, ghosts
<1>3. /\ main \in TornImages /\ wal \in Logs /\ LogOK(wal)
      /\ Recovered(main, wal) \in legal /\ LogDiskOK /\ MainDiskOK /\ ReplayOK
  BY <1>2, Facts DEF PowerInvariant
<1>4. x \in Redo(wal) /\ todo \subseteq Redo(wal)
  BY <1>2, <1>3 DEF ReplayOK
<1>5. x = <<x[1], x[2]>> /\ x[2] \in Pages /\ Covers(wal, x[2])
  BY <1>3, <1>4, RedoPairs
<1>6. Redoers(wal, x[2]) = {x[1]} /\ RedoValue(wal, x[1], x[2]) \in Values
  BY <1>3, <1>4, <1>5, OneRedoer
<1>7. /\ main' \in TornImages
      /\ main'[x[2]] = RedoValue(wal, x[1], x[2])
      /\ \A p \in Pages : p # x[2] => main'[p] = main[p]
  BY <1>1, <1>3, <1>5, <1>6 DEF TornImages
<1>8. /\ walDisk' = walDisk \cup {wal}
      /\ \A p \in Pages : main'[p] = main[p] => mainDisk'[p] = mainDisk[p]
  BY <1>2 DEF DiskFollows, WalSynced, MainSynced, LogImages
<1>9. \A w \in walDisk : w.recs = wal.recs
  BY <1>2, <1>3, <1>4 DEF LogDiskOK
<1>10. StateOK'
  BY <1>1, <1>2, <1>7, <1>8 DEF PowerInvariant, StateOK
<1>11. FoundWhole'
  <2>1. Recovered(main', wal) = Recovered(main, wal)
    BY <1>3, <1>5, <1>7, SameReplay
  <2> QED
    BY <1>2, <1>3, <2>1 DEF FoundWhole
<1>12. ReplayOK'
  <2>1. ASSUME NEW y \in Redo(wal)
        PROVE  y \in todo' \/ main'[y[2]] = RedoValue(wal, y[1], y[2])
    <3>1. y = <<y[1], y[2]>> /\ y[2] \in Pages
      BY <1>3, RedoPairs
    <3>2. CASE y[2] = x[2]
      <4>1. Redoers(wal, y[2]) = {y[1]}
        BY <1>3, <3>1, OneRedoer
      <4> QED
        BY <1>6, <1>7, <3>2, <4>1
    <3>3. CASE y[2] # x[2]
      BY <1>1, <1>2, <1>3, <1>7, <3>1, <3>3 DEF ReplayOK
    <3> QED
      BY <3>2, <3>3
  <2> QED
    BY <1>1, <1>2, <1>4, <2>1 DEF ReplayOK
<1>13. LogDiskOK'
  BY <1>2, <1>8, <1>9 DEF LogDiskOK
<1>14. MainDiskOK'
  BY <1>2, <1>3, <1>5, <1>7, <1>8 DEF MainDiskOK
<1>15. \A w \in walDisk : Redo(w) = Redo(wal)
  BY <1>9, SameRecords
<1> QED
  BY <1>2, <1>10, <1>11, <1>12, <1>13, <1>14, <1>15
     DEF PowerInvariant, Running, LastTxn

LEMMA ReplaySyncKeepsPower ==
  ASSUME PowerInvariant, ReplaySync, DiskFollows
  PROVE  PowerInvariant'
<1>1. /\ pc = "replay" /\ pc' = "replayed" /\ todo = {}
      /\ UNCHANGED <<main, wal, todo, torn, restarts, legal, prior, lapse>>
  BY DEF ReplaySync, ghosts
<1>2. /\ walDisk' = walDisk \cup {wal}
      /\ \A p \in Pages : mainDisk'[p] = {main[p]}
  BY <1>1 DEF DiskFollows, WalSynced, MainSynced, LogImages
<1>3. StateOK'
  BY <1>1, <1>2 DEF PowerInvariant, StateOK, PCs
<1>4. ReplayOK'
  BY <1>1 DEF PowerInvariant, ReplayOK
<1>5. LogDiskOK' /\ MainDiskOK'
  BY <1>1, <1>2 DEF PowerInvariant, LogDiskOK, MainDiskOK, Harmless
<1> QED
  BY <1>1, <1>3, <1>4, <1>5 DEF PowerInvariant, Running, LastTxn, FoundWhole

LEMMA OpenFailsKeepsPower ==
  ASSUME PowerInvariant, OpenFails, DiskFollows
  PROVE  PowerInvariant'
<1>1. /\ pc = "replayed" /\ pc' = "down" /\ torn' = FALSE
      /\ UNCHANGED <<main, wal, todo, restarts, legal, prior, lapse>>
  BY DEF OpenFails, ghosts
<1>2. /\ walDisk' = walDisk \cup {wal}
      /\ \A p \in Pages : mainDisk'[p] = mainDisk[p]
  BY <1>1 DEF DiskFollows, WalSynced, MainSynced, LogImages
<1>3. torn' \in BOOLEAN
  BY <1>1
<1>4. StateOK'
  BY <1>1, <1>2, <1>3 DEF PowerInvariant, StateOK, PCs
<1>5. LogDiskOK' /\ MainDiskOK'
  BY <1>1, <1>2 DEF PowerInvariant, LogDiskOK, MainDiskOK, Harmless
<1> QED
  BY <1>1, <1>4, <1>5 DEF PowerInvariant, Running, LastTxn, FoundWhole

\* An append or a rewrite of the log that leaves it without COMMIT record:
\* each image it passes through says what the log said, or nothing.
LEMMA ImagesOK ==
  ASSUME wal \in Logs, wal' \in Logs, LogOK(wal), LogOK(wal'),
         CommitRecords(wal') = {},
         wal.recs \subseteq wal'.recs \/ PageWrites(wal') = {}
  PROVE  \A w \in LogImages : /\ w \in Logs /\ LogOK(w)
                              /\ w.recs = wal.recs \/ CommitRecords(w) = {}
<1> SUFFICES ASSUME NEW w \in LogImages
             PROVE  /\ w \in Logs /\ LogOK(w)
                    /\ w.recs = wal.recs \/ CommitRecords(w) = {}
  OBVIOUS
<1>1. CASE w = wal'
  BY <1>1
<1>2. CASE w = EmptyLog
  BY <1>2, EmptyLogOK
<1>3. CASE w = [wal EXCEPT !.torn = TRUE]
  <2>1. w \in Logs /\ w.recs = wal.recs /\ w.end = wal.end
    BY <1>3 DEF Logs
  <2> QED
    BY <2>1, TornTail
<1>4. CASE PageWrites(wal') = {} /\ w \in Prefixes(wal')
  <2>1. PICK r \in wal'.recs, b \in BOOLEAN :
          w = [recs |-> {s \in wal'.recs : s.pos < r.pos}, end |-> r.pos, torn |-> b]
    BY <1>4 DEF Prefixes
  <2>2. r.pos \in Nat /\ wal'.recs \subseteq Record
    BY RecordFields DEF Logs
  <2>3. /\ w.recs = {s \in wal'.recs : s.pos < r.pos} /\ w.end = r.pos
        /\ w \in Logs
    BY <2>1, <2>2 DEF Logs
  <2>4. PageWrites(w) = {} /\ CommitRecords(w) = {}
    BY <1>4, <2>3 DEF PageWrites, CommitRecords
  <2>5. LogOK(w)
    BY <2>3, <2>4 DEF LogOK, WellFormed, OneCommit
  <2> QED
    BY <2>3, <2>4, <2>5
<1> QED
  BY <1>1, <1>2, <1>3, <1>4 DEF LogImages

\* The disk of the log after a step that leaves nothing to redo.
LEMMA QuietLog ==
  ASSUME PowerInvariant, Recovered(main, wal) = main, main' = main,
         wal' \in Logs, LogOK(wal'), CommitRecords(wal') = {},
         wal.recs \subseteq wal'.recs \/ PageWrites(wal') = {},
         walDisk' = walDisk \cup LogImages
  PROVE  /\ walDisk' \subseteq Logs /\ wal' \in walDisk'
         /\ \A w \in walDisk' : LogOK(w) /\ Harmless(w)
         /\ LogDiskOK'
<1>1. /\ main \in TornImages /\ wal \in Logs /\ LogOK(wal) /\ LogDiskOK
      /\ walDisk \subseteq Logs /\ \A w \in walDisk : LogOK(w)
  BY Facts DEF PowerInvariant, StateOK
<1>2. \A w \in LogImages : /\ w \in Logs /\ LogOK(w)
                           /\ w.recs = wal.recs \/ CommitRecords(w) = {}
  BY <1>1, ImagesOK
<1>3. wal' \in LogImages
  BY DEF LogImages
<1>4. Harmless(wal)
  BY <1>1, HarmlessReplay
<1>5. ASSUME NEW w, w.recs = wal.recs \/ CommitRecords(w) = {} PROVE Harmless(w)
  BY <1>4, <1>5, SameRecords, NothingToRedo DEF Harmless
<1>6. \A w \in walDisk' : Harmless(w)
  BY <1>1, <1>2, <1>5 DEF LogDiskOK
<1>7. Redo(wal') = {}
  BY NothingToRedo
<1>8. LogDiskOK'
  BY <1>6, <1>7 DEF LogDiskOK, Harmless
<1> QED
  BY <1>1, <1>2, <1>3, <1>6, <1>8

LEMMA OpenDoneKeepsPower ==
  ASSUME PowerInvariant, OpenDone, DiskFollows
  PROVE  PowerInvariant'
<1>1. /\ pc = "replayed" /\ pc' = "ready" /\ wal' = TruncateReplayed(wal)
      /\ StartSession /\ prior' = {}
      /\ legal' = (IF main \in legal THEN {main} ELSE legal)
      /\ UNCHANGED <<main, todo, torn, restarts, lapse>>
  BY DEF OpenDone
<1>2. /\ main \in TornImages /\ wal \in Logs /\ LogOK(wal) /\ legal \subseteq Images
      /\ Recovered(main, wal) \in legal /\ MainDiskOK /\ ReplayOK
  BY <1>1, Facts DEF PowerInvariant
<1>3. Recovered(main, wal) = main
  <2>1. Harmless(wal)
    BY <1>1, <1>2 DEF ReplayOK, Harmless
  <2> QED
    BY <1>2, <2>1, HarmlessReplay
<1>4. main \in Images /\ legal' = {main}
  BY <1>1, <1>2, <1>3
<1>5. /\ wal' \in Logs /\ LogOK(wal') /\ ~wal'.torn
      /\ CommitRecords(wal') = {} /\ PageWrites(wal') = {}
  BY <1>1, <1>2, TruncateReplayedOK DEF TruncateReplayed, Keep, LogOK
<1>6. /\ walDisk' = walDisk \cup LogImages
      /\ \A p \in Pages : mainDisk'[p] = mainDisk[p]
  BY <1>1 DEF DiskFollows, WalSynced, MainSynced
<1>7. /\ walDisk' \subseteq Logs /\ wal' \in walDisk'
      /\ \A w \in walDisk' : LogOK(w)
      /\ LogDiskOK'
  BY <1>1, <1>3, <1>5, <1>6, QuietLog
<1>8. Recovered(main', wal') = main
  BY <1>1, <1>4, <1>5, RecoveredNoCommit
<1>9. main[CatPage] \in Values /\ Blank \in Deltas
  BY <1>4, WalStoreAssumption DEF Images, Deltas, Blank
<1>10. TypeOK'
  <2>1. /\ auto' \in BOOLEAN /\ torn' \in BOOLEAN
        /\ legal' \subseteq Images /\ prior' \subseteq Images /\ lapse' \in Lapses
    BY <1>1, <1>4 DEF StartSession, PowerInvariant, StateOK
  <2>2. /\ buffer' \in Deltas /\ pending' \in Deltas
        /\ cat' \in Values /\ snap' \in Values
        /\ pc' \in PCs /\ todo' \subseteq Nat \X Pages
        /\ nextTxn' \in Nat \ {0} /\ txnId' \in Nat /\ restarts' \in Nat
        /\ txnState' \in {"none", "active", "rolled_back"}
    BY <1>1, <1>9 DEF StartSession, PCs, PowerInvariant, StateOK
  <2> QED
    BY <1>1, <1>4, <1>5, <2>1, <2>2 DEF TypeOK, Images, Deltas
<1>11. SessionOK' /\ txnId' = 0
  BY <1>1, <1>5 DEF SessionOK, StartSession
<1>12. WalInvariant'
  BY <1>1, <1>4, <1>5, <1>8, <1>11 DEF WalInvariant, Running, Committing
<1>13. StateOK'
  BY <1>1, <1>2, <1>4, <1>7 DEF PowerInvariant, StateOK, PCs
<1>14. MainDiskOK'
  BY <1>1, <1>2, <1>6 DEF MainDiskOK
<1>15. FoundWhole'
  BY <1>4, <1>8 DEF FoundWhole
<1> QED
  BY <1>1, <1>5, <1>7, <1>10, <1>11, <1>12, <1>13, <1>14, <1>15
     DEF PowerInvariant, LastTxn
-----------------------------------------------------------------------------
(* A running session.  WalStoreProofs keeps WalStore's invariant; what is  *)
(* left to show is about the disks.                                        *)

\* The parts of the invariant that follow from WalStore's.
LEMMA SessionKeeps ==
  ASSUME Covered, PowerInvariant, Running, Work, ~Lapsed',
         walDisk' \subseteq Logs, wal' \in walDisk', \A w \in walDisk' : LogOK(w),
         pc' = "logged" => main' \in prior', ~wal'.torn,
         LastTxn', LogDiskOK', MainDiskOK', pc' \notin {"replay", "replayed"}
  PROVE  PowerInvariant'
<1>1. IInv'
  BY Facts, StepInv DEF Next
<1>2. main' \in TornImages
  BY <1>1 DEF IInv, TypeOK, TornImages
<1>3. StateOK'
  BY <1>1, <1>2 DEF IInv, TypeOK, StateOK, Images
<1>4. FoundWhole'
  BY <1>1 DEF IInv, WalInvariant, FoundWhole
<1> QED
  BY <1>1, <1>3, <1>4 DEF PowerInvariant, IInv

\* Steps between transactions, inside one before its COMMIT, and the ones
\* that end it: they do not touch main and leave nothing to redo.
LEMMA QuietStepKeepsPower ==
  ASSUME Covered, PowerInvariant, Running, Work, DiskFollows, ~Lapsed',
         pc \in {"ready", "stmt", "undo", "unwind", "synced"},
         pc' \in {"down", "ready", "stmt", "undo", "unwind"},
         pc' = "down" => pc = "ready" /\ wal' = wal,
         main' = main, ~wal'.torn, LastTxn',
         wal.recs \subseteq wal'.recs \/ PageWrites(wal') = {}
  PROVE  PowerInvariant'
<1>1. IInv /\ IInv'
  BY Facts, StepInv DEF Next
<1>2. wal' \in Logs /\ LogOK(wal')
  BY <1>1 DEF IInv, TypeOK, WalInvariant
<1>3. CommitRecords(wal') = {}
  BY <1>1 DEF IInv, WalInvariant, Running, Committing
<1>4. Recovered(main, wal) = main
  BY <1>1, RestartFinds DEF Committing
<1>5. /\ walDisk' = walDisk \cup LogImages
      /\ \A p \in Pages : mainDisk'[p] = mainDisk[p]
  BY DEF DiskFollows, WalSynced, MainSynced
<1>6. /\ walDisk' \subseteq Logs /\ wal' \in walDisk'
      /\ \A w \in walDisk' : LogOK(w)
      /\ LogDiskOK'
  BY <1>2, <1>3, <1>4, <1>5, QuietLog
<1>7. MainDiskOK'
  BY <1>5, Facts DEF MainDiskOK
<1> QED
  BY <1>6, <1>7, SessionKeeps

LEMMA StatementKeepsPower ==
  ASSUME Covered, PowerInvariant, ~Lapsed', DiskFollows,
         Execute \/ CommitFailsEarly \/ Close
  PROVE  PowerInvariant'
<1>1. /\ pc \in {"ready", "stmt"} /\ pc' \in {"down", "ready", "stmt"}
      /\ pc' = "down" => pc = "ready" /\ wal' = wal
      /\ main' = main
      /\ wal.recs \subseteq wal'.recs /\ wal'.torn = wal.torn
      /\ \/ pc' = "down"
         \/ UNCHANGED <<txnId, nextTxn>>
         \/ txnId' = nextTxn /\ nextTxn' = nextTxn + 1
  <2>1. CASE Begin \/ BeginStatement \/ ChangeCatalog \/ EndStatement
    BY <2>1 DEF Begin, BeginStatement, NewTransaction, ChangeCatalog, EndStatement,
       session
  <2>2. CASE WritePage
    BY <2>2 DEF WritePage, AppendRecord
  <2>3. CASE CommitFailsEarly \/ Close
    BY <2>3 DEF CommitFailsEarly, CommitCalled, CommitRaises, Close, EndSession
  <2> QED
    BY <2>1, <2>2, <2>3 DEF Execute
<1>2. Running /\ Work
  BY <1>1 DEF Running, Work, Commit
<1>3. ~wal'.torn
  BY <1>1 DEF PowerInvariant
<1>4. LastTxn'
  BY <1>1, <1>2 DEF PowerInvariant, LastTxn, Running
<1> QED
  BY <1>1, <1>2, <1>3, <1>4, QuietStepKeepsPower

\* The end of a transaction, committed or rolled back.
LEMMA EndKeepsPower ==
  ASSUME Covered, PowerInvariant, ~Lapsed', DiskFollows,
         Rollback \/ CommitDone
  PROVE  PowerInvariant'
<1>1. /\ pc \in {"ready", "stmt", "undo", "unwind", "synced"}
      /\ pc' \in {"ready", "undo", "unwind"}
      /\ main' = main
      /\ \/ UNCHANGED <<txnId, nextTxn>>
         \/ txnId' = 0
      /\ \/ wal.recs \subseteq wal'.recs /\ wal'.torn = wal.torn
         \/ wal' = EmptyLog /\ ~wal'.torn
         \/ /\ wal' = TruncateBefore(wal, txnId + 1) /\ ~wal'.torn
            /\ pc \in {"undo", "unwind", "synced"}
  <2>1. CASE AppendRollback
    BY <2>1 DEF AppendRollback, AppendRecord, session
  <2>2. CASE RollbackDone \/ CommitDone
    BY <2>2 DEF RollbackDone, CommitDone, Forget, TruncateBefore, Keep
  <2>3. CASE RollbackFails \/ UnwindWithoutRollback
    BY <2>3 DEF RollbackFails, UnwindWithoutRollback, Forget, session, TruncateFailed,
       EmptyLog, TruncateBefore, Keep
  <2> QED
    BY <2>1, <2>2, <2>3 DEF Rollback
<1>2. Running /\ Work
  BY <1>1 DEF Running, Work, Commit
<1>3. ~wal'.torn
  BY <1>1 DEF PowerInvariant
<1>4. LastTxn'
  BY <1>1, <1>2 DEF PowerInvariant, LastTxn
<1>5. wal.recs \subseteq wal'.recs \/ PageWrites(wal') = {}
  <2> SUFFICES ASSUME wal' = TruncateBefore(wal, txnId + 1),
                      pc \in {"undo", "unwind", "synced"}
               PROVE  PageWrites(wal') = {}
    BY <1>1, EmptyLogOK
  <2>1. wal \in Logs /\ SessionOK /\ txnId \in Nat /\ nextTxn \in Nat
    BY <1>2, Facts DEF IInv, TypeOK, WalInvariant
  <2>2. nextTxn = txnId + 1
    BY <1>2, <2>1 DEF SessionOK, PowerInvariant, LastTxn
  <2>3. \A r \in PageWrites(wal) : r.txn \in Nat /\ r.txn < txnId + 1
    BY <2>1, <2>2, RecordFields DEF SessionOK, PageWrites, Logs
  <2>4. wal'.recs = {r \in wal.recs : r.txn >= txnId + 1}
    BY DEF TruncateBefore, Keep
  <2> QED
    BY <2>1, <2>3, <2>4 DEF PageWrites
<1> QED
  BY <1>1, <1>2, <1>3, <1>4, <1>5, QuietStepKeepsPower

LEMMA AppendCommitKeepsPower ==
  ASSUME Covered, PowerInvariant, ~Lapsed', AppendCommit, DiskFollows
  PROVE  PowerInvariant'
<1>1. /\ pc \in {"ready", "stmt"} /\ pc' = "logged" /\ prior' = legal
      /\ wal' = AppendRecord(wal, StatusRecord(wal, txnId, "COMMIT"))
      /\ UNCHANGED <<main, session>>
  BY DEF AppendCommit, CommitCalled, Decides, Lapsed
<1>2. Running /\ ~Committing /\ Work
  BY <1>1 DEF Running, Committing, Work, Commit
<1>3. IInv /\ IInv'
  BY <1>2, Facts, StepInv DEF Next
<1>4. /\ wal \in Logs /\ LogOK(wal) /\ wal' \in Logs /\ LogOK(wal')
      /\ CommitRecords(wal) = {} /\ legal = {Recovered(main, wal)}
  BY <1>2, <1>3 DEF IInv, TypeOK, WalInvariant
<1>5. main' \in prior'
  BY <1>1, <1>2, <1>3, <1>4, RestartFinds
<1>6. wal.recs \subseteq wal'.recs /\ ~wal'.torn
  BY <1>1, <1>2 DEF AppendRecord, PowerInvariant
<1>7. /\ walDisk' = walDisk \cup LogImages
      /\ \A p \in Pages : mainDisk'[p] = mainDisk[p]
  BY <1>1 DEF DiskFollows, WalSynced, MainSynced
<1>8. \A w \in LogImages : w \in Logs /\ LogOK(w) /\ (w = wal' \/ w.recs = wal.recs)
  <2> SUFFICES ASSUME NEW w \in LogImages, w # wal'
               PROVE  w \in Logs /\ LogOK(w) /\ w.recs = wal.recs
    BY <1>4
  <2>1. w = [wal EXCEPT !.torn = TRUE]
    BY <1>6 DEF LogImages
  <2>2. w \in Logs /\ w.recs = wal.recs /\ w.end = wal.end
    BY <1>4, <2>1 DEF Logs
  <2> QED
    BY <1>4, <2>2, TornTail
<1>9. wal' \in LogImages
  BY DEF LogImages
<1>10. /\ walDisk' \subseteq Logs /\ wal' \in walDisk'
       /\ \A w \in walDisk' : LogOK(w)
  BY <1>7, <1>8, <1>9 DEF PowerInvariant, StateOK
<1>11. LogDiskOK'
  <2>1. \A w : w.recs = wal.recs => Harmless(w)
    BY <1>4, SameRecords, NothingToRedo DEF Harmless
  <2>2. \A w \in walDisk' : w.recs = wal'.recs \/ Harmless(w)
    BY <1>7, <1>8, <2>1, Facts DEF LogDiskOK
  <2> QED
    BY <1>1, <2>2 DEF LogDiskOK, Harmless
<1>12. MainDiskOK'
  BY <1>1, <1>7, Facts DEF MainDiskOK
<1>13. LastTxn'
  BY <1>1, <1>2 DEF PowerInvariant, LastTxn, session
<1> QED
  BY <1>1, <1>2, <1>5, <1>6, <1>10, <1>11, <1>12, <1>13, SessionKeeps

\* fsync_wal leaves one image of the log on the disk.
LEMMA FsyncWalKeepsPower ==
  ASSUME Covered, PowerInvariant, ~Lapsed', FsyncWal, DiskFollows
  PROVE  PowerInvariant'
<1>1. pc = "logged" /\ pc' = "flush" /\ UNCHANGED <<main, wal, session>>
  BY DEF FsyncWal
<1>2. Running /\ Work
  BY <1>1 DEF Running, Work, Commit
<1>3. /\ walDisk' = {wal'}
      /\ \A p \in Pages : mainDisk'[p] = mainDisk[p]
  BY <1>1 DEF DiskFollows, WalSynced, MainSynced
<1>4. wal' \in Logs /\ LogOK(wal') /\ ~wal'.torn
  BY <1>1, Facts DEF PowerInvariant
<1>5. LogDiskOK' /\ MainDiskOK'
  BY <1>1, <1>3, Facts DEF LogDiskOK, MainDiskOK
<1>6. LastTxn'
  BY <1>1, <1>2 DEF PowerInvariant, LastTxn, session
<1> QED
  BY <1>1, <1>2, <1>3, <1>4, <1>5, <1>6, SessionKeeps

LEMMA WriteMainKeepsPower ==
  ASSUME Covered, PowerInvariant, ~Lapsed', WriteMain, DiskFollows
  PROVE  PowerInvariant' /\ \A w \in walDisk : Redo(w) = Redo(wal)
<1>1. PICK x \in todo : main' = [main EXCEPT ![x[2]] = pending[x[2]]]
  BY DEF WriteMain
<1>2. pc = "flush" /\ pc' = "flush" /\ UNCHANGED <<wal, session>>
  BY DEF WriteMain
<1>3. Running /\ Committing /\ Work
  BY <1>2 DEF Running, Committing, Work, Commit
<1>4. /\ CommitOK /\ SessionOK /\ main \in Images /\ wal \in Logs /\ LogOK(wal)
      /\ txnId \in Nat
  BY <1>3, Facts DEF IInv, WalInvariant, TypeOK, Images
<1>5. PICK p \in Wrote(pending) : x = <<txnId, p>>
  BY <1>2, <1>4 DEF CommitOK
<1>6. <<txnId, p>> \in Redo(wal) /\ Covers(wal, p)
  <2>1. PICK q \in wal.recs : LastOf(q, WritesOf(wal, txnId, p))
    BY <1>4, <1>5 DEF SessionOK, CommitOK, LoggedBy, Wrote
  <2>2. q \in PageWrites(wal) /\ q.txn = txnId /\ q.page = p
    BY <2>1 DEF LastOf, WritesOf
  <2>3. <<txnId, p>> \in Redo(wal)
    BY <1>4, <2>2 DEF CommitOK, Redo
  <2> QED
    BY <2>3, CoversRedo
<1>7. \A q \in Pages : q # p => main'[q] = main[q]
  BY <1>1, <1>4, <1>5 DEF Images
<1>8. /\ walDisk' = walDisk \cup {wal}
      /\ \A q \in Pages : main'[q] = main[q] => mainDisk'[q] = mainDisk[q]
  BY <1>2 DEF DiskFollows, WalSynced, MainSynced, LogImages
<1>9. \A w \in walDisk : w.recs = wal.recs
  BY <1>2, <1>6, Facts DEF LogDiskOK
<1>10. LogDiskOK'
  BY <1>2, <1>8, <1>9 DEF LogDiskOK
<1>11. MainDiskOK'
  BY <1>2, <1>6, <1>7, <1>8, Facts DEF MainDiskOK
<1>12. LastTxn'
  BY <1>2, <1>3 DEF PowerInvariant, LastTxn, session
<1>13. /\ walDisk' \subseteq Logs /\ wal' \in walDisk' /\ ~wal'.torn
       /\ \A w \in walDisk' : LogOK(w)
  BY <1>2, <1>4, <1>8, Facts DEF PowerInvariant, StateOK
<1>14. PowerInvariant'
  BY <1>2, <1>3, <1>10, <1>11, <1>12, <1>13, SessionKeeps
<1>15. \A w \in walDisk : Redo(w) = Redo(wal)
  BY <1>9, SameRecords
<1> QED
  BY <1>14, <1>15

LEMMA FsyncMainKeepsPower ==
  ASSUME Covered, PowerInvariant, ~Lapsed', FsyncMain, DiskFollows
  PROVE  PowerInvariant'
<1>1. pc = "flush" /\ pc' = "synced" /\ UNCHANGED <<main, wal, session>>
  BY DEF FsyncMain
<1>2. Running /\ Work
  BY <1>1 DEF Running, Work, Commit
<1>3. /\ walDisk' = walDisk \cup {wal}
      /\ \A p \in Pages : mainDisk'[p] = {main[p]}
  BY <1>1 DEF DiskFollows, WalSynced, MainSynced, LogImages
<1>4. /\ walDisk' \subseteq Logs /\ wal' \in walDisk' /\ ~wal'.torn
      /\ \A w \in walDisk' : LogOK(w)
  BY <1>1, <1>3, Facts DEF PowerInvariant, StateOK
<1>5. LogDiskOK' /\ MainDiskOK'
  BY <1>1, <1>3, Facts DEF LogDiskOK, MainDiskOK, Harmless
<1>6. LastTxn'
  BY <1>1, <1>2 DEF PowerInvariant, LastTxn, session
<1> QED
  BY <1>1, <1>2, <1>4, <1>5, <1>6, SessionKeeps
-----------------------------------------------------------------------------
LEMMA LapsedStaysPower == Lapsed /\ [PowerNext]_allVars => Lapsed'
<1> SUFFICES ASSUME Lapsed, [PowerNext]_allVars PROVE Lapsed'
  OBVIOUS
<1>1. CASE Work \/ UNCHANGED vars
  BY <1>1, LapsedStays DEF Next
<1>2. CASE PowerFails
  BY <1>2 DEF PowerFails, EndSession, LapseEnds, Lapsed
<1> QED
  BY <1>1, <1>2 DEF PowerNext, ProcessStep, allVars

LEMMA PowerStep ==
  ASSUME Covered, PowerInvariant, [PowerNext]_allVars, ~Lapsed'
  PROVE  PowerInvariant'
<1>1. CASE Recovery /\ DiskFollows
  BY <1>1, OpenKeepsPower, ReplayPageKeepsPower, ReplaySyncKeepsPower,
     OpenDoneKeepsPower, OpenFailsKeepsPower DEF Recovery
<1>2. CASE (Execute \/ CommitFailsEarly \/ Close) /\ DiskFollows
  BY <1>2, StatementKeepsPower
<1>3. CASE (Rollback \/ CommitDone) /\ DiskFollows
  BY <1>3, EndKeepsPower
<1>4. CASE (AppendCommit \/ FsyncWal \/ WriteMain \/ FsyncMain) /\ DiskFollows
  BY <1>4, AppendCommitKeepsPower, FsyncWalKeepsPower, WriteMainKeepsPower,
     FsyncMainKeepsPower
<1>5. ~CommitFailsLate
  BY DEF CommitFailsLate, Covered
<1>6. CASE PowerFails
  BY <1>6, PowerFailsKeeps
<1>7. CASE UNCHANGED allVars
  BY <1>7 DEF allVars, vars, session, ghosts, disks, PowerInvariant, StateOK,
     FoundWhole, Running, TypeOK, WalInvariant, SessionOK, CommitOK, Committing,
     ReplayOK, LastTxn, LogDiskOK, MainDiskOK, Harmless
<1> QED
  BY <1>1, <1>2, <1>3, <1>4, <1>5, <1>6, <1>7
     DEF PowerNext, ProcessStep, Work, Commit

LEMMA PowerStart == PowerInit => PowerInvariant
<1> SUFFICES ASSUME PowerInit PROVE PowerInvariant
  OBVIOUS
<1>1. /\ IInv /\ pc = "down" /\ walDisk = {wal}
      /\ \A p \in Pages : mainDisk[p] = {main[p]}
  BY InitInv DEF PowerInit, Init
<1>2. StateOK /\ FoundWhole
  BY <1>1 DEF IInv, TypeOK, WalInvariant, StateOK, FoundWhole, TornImages, Images
<1> QED
  BY <1>1, <1>2 DEF PowerInvariant, Running, LastTxn, LogDiskOK, MainDiskOK

(***************************************************************************)
(* The invariant of the protocol on a machine that can lose power, up to   *)
(* the exception of CrashAtomic.                                           *)
(***************************************************************************)
THEOREM PowerInductive ==
  ASSUME Covered
  PROVE  PowerSpec => [](Lapsed \/ PowerInvariant)
<1>1. ASSUME Lapsed \/ PowerInvariant, [PowerNext]_allVars
      PROVE  Lapsed' \/ PowerInvariant'
  BY <1>1, PowerStep, LapsedStaysPower
<1> QED
  BY <1>1, PowerStart, PTL DEF PowerSpec

(***************************************************************************)
(* Crash atomicity also holds when the power fails: whatever the disks     *)
(* kept of what was written since the last fsync, torn pages and a torn    *)
(* record included, a replay gives the outcome of whole transactions, up   *)
(* to the exception of CrashAtomic.                                        *)
(***************************************************************************)
THEOREM PowerLossAtomic ==
  ASSUME Covered
  PROVE  PowerSpec => []CrashAtomic
<1>1. Lapsed \/ PowerInvariant => CrashAtomic
  BY DEF PowerInvariant, FoundWhole, CrashAtomic
<1> QED
  BY <1>1, PowerInductive, PTL

(***************************************************************************)
(* No session ever reads a torn page or appends behind a torn record:      *)
(* Recovery.replay has restored the one and cut the other.  The exception  *)
(* is that of CrashAtomic: no record restores a page written after it.     *)
(***************************************************************************)
THEOREM TornPagesRepaired ==
  ASSUME Covered
  PROVE  PowerSpec => []SessionSeesWholePages
<1>1. Lapsed \/ PowerInvariant => SessionSeesWholePages
  BY DEF PowerInvariant, SessionSeesWholePages, TypeOK, Running
<1> QED
  BY <1>1, PowerInductive, PTL

(***************************************************************************)
(* The order of the two fsyncs: when commit or recovery writes a page to   *)
(* the main file, every image of the log the disk may hold redoes it, up   *)
(* to the exception of CrashAtomic.                                        *)
(***************************************************************************)
THEOREM LogFirst ==
  ASSUME Covered
  PROVE  PowerSpec => LogSyncedBeforeMain
<1>1. ASSUME Lapsed \/ PowerInvariant, [PowerNext]_allVars
      PROVE  [main' # main /\ restarts' = restarts /\ ~Lapsed =>
                 \A w \in walDisk : Redo(w) = Redo(wal)]_allVars
  <2> SUFFICES ASSUME PowerNext, PowerInvariant, ~Lapsed,
                      main' # main, restarts' = restarts
               PROVE  \A w \in walDisk : Redo(w) = Redo(wal)
    BY <1>1
  <2>1. ~PowerFails
    BY DEF PowerFails, EndSession, PowerInvariant, StateOK
  <2>2. CASE ReplayPage /\ DiskFollows
    BY <2>2, ReplayPageKeepsPower
  <2>3. CASE WriteMain /\ DiskFollows
    <3>1. ~Lapsed'
      BY <2>3 DEF WriteMain, ghosts, Lapsed
    <3> QED
      BY <2>3, <3>1, WriteMainKeepsPower
  <2>4. Work => ReplayPage \/ WriteMain
    BY DEF Work, Recovery, Execute, Commit, Rollback, Open, ReplaySync, OpenDone,
       OpenFails, Begin, BeginStatement, ChangeCatalog, WritePage, EndStatement,
       AppendCommit, FsyncWal, FsyncMain, CommitDone, CommitFailsEarly,
       CommitFailsLate, CommitRaises, AppendRollback, RollbackDone, RollbackFails,
       UnwindWithoutRollback, Forget, Close
  <2> QED
    BY <2>1, <2>2, <2>3, <2>4 DEF PowerNext, ProcessStep
<1> QED
  BY <1>1, PowerInductive, PTL DEF PowerSpec, LogSyncedBeforeMain
=============================================================================
