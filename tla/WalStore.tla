------------------------------ MODULE WalStore ------------------------------
(***************************************************************************)
(* One tinydb process on one database file: the Executor's transaction     *)
(* routing (executor.py), Transaction (transaction.py), the write-ahead    *)
(* log (wal.py), the main file behind the Pager (pager.py) and crash       *)
(* recovery (recovery.py).  Every system call that can be the last one     *)
(* before the process dies is a step of its own.                           *)
(*                                                                         *)
(* Data is abstracted to one value per page.  CatPage is page 1, the       *)
(* catalogue, which the Executor also keeps in memory (cat).  The main     *)
(* file changes here only by Transaction.commit and by recovery; what      *)
(* Pager.alloc_page does to it directly is the subject of PageAlloc.       *)
(***************************************************************************)
EXTENDS Naturals, FiniteSets

CONSTANTS
  Pages,          \* page ids of the database file
  Values,         \* contents a page can have
  ZeroPage,       \* the content of every page of a fresh file
  CatPage,        \* page 1, the catalogue
  Untouched,      \* "the transaction has not written this page"
  MaxTxn,         \* bound: transactions of one session
  MaxLog,         \* bound: page records in the log
  MaxRestarts,    \* bound: crashes and closes
  EmptyCommits,   \* the workload commits transactions that wrote no page
  FailPoints      \* the steps at which an OSError can be raised

CommitFailPoints ==
  {"append_commit", "fsync_wal", "write_main", "fsync_main", "truncate"}

ASSUME WalStoreAssumption ==
  /\ CatPage \in Pages
  /\ Untouched \notin Values
  /\ ZeroPage \in Values
  /\ {MaxTxn, MaxLog, MaxRestarts} \subseteq Nat
  /\ EmptyCommits \in BOOLEAN
  /\ FailPoints \subseteq CommitFailPoints \cup {"rollback"}

VARIABLES
  main,       \* the main file, as any process sees it
  wal,        \* the log file, as any process sees it
  pc,         \* where the process is; see PCs
  nextTxn,    \* Executor._next_txn_id
  txnId,      \* Executor._current_txn.id, 0 for None
  txnState,   \* Transaction._state, "none" when there is none
  auto,       \* the local `auto` of _exec_in_txn
  pending,    \* Transaction.pending_writes
  buffer,     \* Executor._page_buffer
  cat,        \* Executor.catalog, as the bytes it would be saved as
  snap,       \* Executor._txn_snapshot
  todo,       \* page writes a commit or a replay still has to make
  torn,       \* the replay in progress met a corrupt record
  restarts,   \* number of crashes and closes so far
  legal,      \* ghost: the page maps a restart may find
  prior,      \* ghost: legal as it was before a COMMIT not yet on disk
  lapse       \* ghost: a ROLLBACK that raised with its records gone; Lapses

session == <<nextTxn, txnId, txnState, auto, pending, buffer, cat, snap>>
ghosts  == <<legal, prior, lapse>>
vars    == <<main, wal, pc, session, todo, torn, restarts, ghosts>>

PCs == { "down",      \* no process has the file open
         "replay",    \* recovery is writing committed pages to main
         "replayed",  \* ... has synced main, has not truncated the log
         "ready",     \* between two statements
         "stmt",      \* inside a statement
         "logged",    \* commit: COMMIT appended
         "flush",     \* commit: log synced, writing pages to main
         "synced",    \* commit: main synced, log not truncated
         "undo",      \* ROLLBACK: record appended, log not truncated
         "unwind" }   \* failed statement: record appended, not truncated

Lapses == { "none",
            "open",        \* the records of the open transaction are gone
            "committed" }  \* and it was committed nevertheless

\* The application committed a transaction whose ROLLBACK had raised after
\* its records had left the log: the pages were written without a record.
Lapsed == lapse = "committed"

\* The open transaction ends otherwise.
LapseEnds == lapse' = IF lapse = "open" THEN "none" ELSE lapse

Blank == [p \in Pages |-> Untouched]

Overlay(m, d) == [p \in Pages |-> IF d[p] = Untouched THEN m[p] ELSE d[p]]

Wrote(d) == {p \in Pages : d[p] # Untouched}

-----------------------------------------------------------------------------
(* The log.  A record's place among the others is its pos; a rewrite of    *)
(* the file keeps the order, so it keeps pos.  torn: bytes that fail the   *)
(* length or CRC check follow the last record.                             *)

Record == [pos : Nat, txn : Nat, kind : {"PAGE_WRITE"},
           page : Pages, data : Values]
          \cup [pos : Nat, txn : Nat, kind : {"COMMIT", "ROLLBACK"}]

EmptyLog == [recs |-> {}, end |-> 0, torn |-> FALSE]

AppendRecord(w, r) ==
  [recs |-> w.recs \cup {r}, end |-> w.end + 1, torn |-> w.torn]

PageRecord(w, t, p, v) ==
  [pos |-> w.end, txn |-> t, kind |-> "PAGE_WRITE", page |-> p, data |-> v]

StatusRecord(w, t, k) == [pos |-> w.end, txn |-> t, kind |-> k]

Keep(w, R) ==
  [recs |-> R, end |-> IF R = {} THEN 0 ELSE w.end, torn |-> FALSE]

\* Wal.truncate_before: keeps the records of transactions >= t.
TruncateBefore(w, t) == Keep(w, {r \in w.recs : r.txn >= t})

\* The log when truncate_before(t) raised: reading it or emptying it failed;
\* or it is empty, because writing what is kept failed (_replace_buffer); or
\* it is rewritten, because the flush after it failed (wal_truncate_before).
TruncateFailed(w, t) == {w, EmptyLog, TruncateBefore(w, t)}

PageWrites(w) == {r \in w.recs : r.kind = "PAGE_WRITE"}

WritesOf(w, t, p) == {r \in PageWrites(w) : r.txn = t /\ r.page = p}

StatusOf(w, t) == {r \in w.recs : r.txn = t /\ r.kind # "PAGE_WRITE"}

\* Mutant: any status record decides the transaction.
IsCommittedByAnyStatus(w, t) == StatusOf(w, t) # {}

\* The last status record of t is a COMMIT.
IsCommitted(w, t) ==
  \E r \in StatusOf(w, t) :
     /\ r.kind = "COMMIT"
     /\ \A s \in StatusOf(w, t) : s.pos <= r.pos

\* What _apply_committed writes: the pages of committed transactions ...
Redo(w) ==
  {<<r.txn, r.page>> : r \in {q \in PageWrites(w) : IsCommitted(w, q.txn)}}

\* Mutant: the first value the transaction logged.
RedoFirstValue(w, t, p) ==
  (CHOOSE r \in WritesOf(w, t, p) :
      \A s \in WritesOf(w, t, p) : r.pos <= s.pos).data

\* ... each with the last value the transaction logged for it.
RedoValue(w, t, p) ==
  (CHOOSE r \in WritesOf(w, t, p) :
      \A s \in WritesOf(w, t, p) : s.pos <= r.pos).data

\* The truncation that ends a replay: truncate_before(1 + the largest id
\* with a page record), or truncate_before(1) when there is none.
TruncateReplayed(w) ==
  Keep(w, {r \in w.recs : \A q \in PageWrites(w) : q.txn < r.txn})

Redoers(w, p) == {t \in {r.txn : r \in PageWrites(w)} : <<t, p>> \in Redo(w)}

\* The main file after a complete replay of w.
Recovered(m, w) ==
  [p \in Pages |->
     IF Redoers(w, p) = {} THEN m[p]
     ELSE RedoValue(w, CHOOSE t \in Redoers(w, p) :
                          \A u \in Redoers(w, p) : u <= t, p)]

\* Executor._txn_read_page.
View == Overlay(main, buffer)
-----------------------------------------------------------------------------
Init ==
  /\ main = [p \in Pages |-> ZeroPage]
  /\ wal = EmptyLog
  /\ pc = "down"
  /\ nextTxn = 1 /\ txnId = 0 /\ txnState = "none" /\ auto = FALSE
  /\ pending = Blank /\ buffer = Blank
  /\ cat = ZeroPage /\ snap = ZeroPage
  /\ todo = {} /\ torn = FALSE
  /\ restarts = 0
  /\ legal = {main} /\ prior = {} /\ lapse = "none"

(* Recovery, run by Pager.__init__ before the Database object exists.      *)

\* Recovery.replay scans the log; at a corrupt record it first cuts the file
\* at that record.
Open ==
  /\ pc = "down"
  /\ pc' = "replay"
  /\ todo' = Redo(wal)
  /\ torn' = wal.torn
  /\ wal' = [wal EXCEPT !.torn = FALSE]
  /\ UNCHANGED <<main, session, restarts, ghosts>>

\* Mutant: waits for an id below every id that is left.
ReplayPageStrict ==
  /\ pc = "replay"
  /\ \E w \in todo :
       /\ \A u \in todo : w[1] < u[1]
       /\ main' = [main EXCEPT ![w[2]] = RedoValue(wal, w[1], w[2])]
       /\ todo' = todo \ {w}
  /\ UNCHANGED <<wal, pc, session, torn, restarts, ghosts>>

\* _apply_committed: transactions in the order of their ids.
ReplayPage ==
  /\ pc = "replay"
  /\ \E w \in todo :
       /\ \A u \in todo : w[1] <= u[1]
       /\ main' = [main EXCEPT ![w[2]] = RedoValue(wal, w[1], w[2])]
       /\ todo' = todo \ {w}
  /\ UNCHANGED <<wal, pc, session, torn, restarts, ghosts>>

ReplaySync ==
  /\ pc = "replay"
  /\ todo = {}
  /\ pc' = "replayed"
  /\ UNCHANGED <<main, wal, session, todo, torn, restarts, ghosts>>

\* A fresh Executor over the file: ids start at 1 again, the catalogue is
\* what page 1 holds.
StartSession ==
  /\ nextTxn' = 1 /\ txnId' = 0 /\ txnState' = "none" /\ auto' = FALSE
  /\ pending' = Blank /\ buffer' = Blank
  /\ cat' = main[CatPage] /\ snap' = main[CatPage]

\* The log is truncated and the database is open (an error here leaves the
\* log as a kill does, see Crash) ...
OpenDone ==
  /\ pc = "replayed"
  /\ ~torn
  /\ wal' = TruncateReplayed(wal)
  /\ pc' = "ready"
  /\ StartSession
  /\ legal' = IF main \in legal THEN {main} ELSE legal
  /\ prior' = {}
  /\ UNCHANGED <<main, todo, torn, restarts, lapse>>

\* ... or WalCorruption is raised again out of Pager.__init__.
OpenFails ==
  /\ pc = "replayed"
  /\ torn
  /\ pc' = "down"
  /\ torn' = FALSE
  /\ UNCHANGED <<main, wal, session, todo, restarts, ghosts>>
-----------------------------------------------------------------------------
(* Statements.  A nested BEGIN, and COMMIT or ROLLBACK without BEGIN, raise *)
(* before they change anything.                                             *)

NewTransaction ==
  /\ txnId = 0
  /\ nextTxn <= MaxTxn
  /\ txnId' = nextTxn
  /\ nextTxn' = nextTxn + 1
  /\ txnState' = "active"
  /\ snap' = cat

\* _exec_begin
Begin ==
  /\ pc = "ready"
  /\ NewTransaction
  /\ UNCHANGED <<main, wal, pc, auto, pending, buffer, cat, todo, torn,
                 restarts, ghosts>>

\* _exec_in_txn up to the call of _exec_stmt.
BeginStatement ==
  /\ pc = "ready"
  /\ pc' = "stmt"
  /\ \/ NewTransaction /\ auto' = TRUE
     \/ txnId # 0 /\ auto' = FALSE /\ UNCHANGED <<nextTxn, txnId, txnState, snap>>
  /\ UNCHANGED <<main, wal, pending, buffer, cat, todo, torn, restarts, ghosts>>

\* A handler changes the in-memory catalogue (CREATE, DROP, a new data page).
ChangeCatalog ==
  /\ pc = "stmt"
  /\ \E v \in Values : cat' = v
  /\ UNCHANGED <<main, wal, pc, nextTxn, txnId, txnState, auto, pending,
                 buffer, snap, todo, torn, restarts, ghosts>>

\* Mutant: the page buffer is not updated, so the transaction does not read
\* its own write.
WritePageUnbuffered ==
  /\ pc = "stmt"
  /\ txnState = "active"
  /\ wal.end < MaxLog
  /\ \E p \in Pages, v \in Values :
       /\ p = CatPage => v = cat
       /\ wal' = AppendRecord(wal, PageRecord(wal, txnId, p, v))
       /\ pending' = [pending EXCEPT ![p] = v]
  /\ UNCHANGED <<main, pc, nextTxn, txnId, txnState, auto, buffer, cat, snap,
                 todo, torn, restarts, ghosts>>

\* _txn_write_page: log record, pending_writes, page buffer.  Page 1 is only
\* ever written with catalog.to_bytes().
WritePage ==
  /\ pc = "stmt"
  /\ txnState = "active"
  /\ wal.end < MaxLog
  /\ \E p \in Pages, v \in Values :
       /\ p = CatPage => v = cat
       /\ wal' = AppendRecord(wal, PageRecord(wal, txnId, p, v))
       /\ pending' = [pending EXCEPT ![p] = v]
       /\ buffer' = [buffer EXCEPT ![p] = v]
  /\ UNCHANGED <<main, pc, nextTxn, txnId, txnState, auto, cat, snap, todo,
                 torn, restarts, ghosts>>

\* A statement of an explicit transaction returns: every handler that changed
\* the catalogue has saved it.
EndStatement ==
  /\ pc = "stmt"
  /\ ~auto
  /\ cat = View[CatPage]
  /\ pc' = "ready"
  /\ UNCHANGED <<main, wal, session, todo, torn, restarts, ghosts>>
-----------------------------------------------------------------------------
(* Transaction.commit, called by _exec_commit and by _exec_in_txn.         *)

CommitCalled ==
  /\ txnState = "active"
  /\ \/ pc = "ready"
     \/ pc = "stmt" /\ auto /\ cat = View[CatPage]
  /\ EmptyCommits \/ Wrote(pending) # {}
  /\ wal.end <= MaxLog

\* The COMMIT record decides; after a lapse no page map is promised.
Decides ==
  \/ /\ lapse = "none" /\ lapse' = lapse
     /\ legal' = {Overlay(s, pending) : s \in legal}
     /\ prior' = legal
  \/ /\ lapse # "none" /\ lapse' = "committed"
     /\ legal' = {} /\ prior' = {}

\* Mutant: no COMMIT record.
AppendNoCommit ==
  /\ CommitCalled
  /\ pc' = "logged"
  /\ Decides
  /\ UNCHANGED <<main, wal, session, todo, torn, restarts>>

AppendCommit ==
  /\ CommitCalled
  /\ wal' = AppendRecord(wal, StatusRecord(wal, txnId, "COMMIT"))
  /\ pc' = "logged"
  /\ Decides
  /\ UNCHANGED <<main, session, todo, torn, restarts>>

FsyncWal ==
  /\ pc = "logged"
  /\ pc' = "flush"
  /\ todo' = {<<txnId, p>> : p \in Wrote(pending)}
  /\ UNCHANGED <<main, wal, session, torn, restarts, ghosts>>

WriteMain ==
  /\ pc = "flush"
  /\ \E w \in todo : /\ main' = [main EXCEPT ![w[2]] = pending[w[2]]]
                     /\ todo' = todo \ {w}
  /\ UNCHANGED <<wal, pc, session, torn, restarts, ghosts>>

FsyncMain ==
  /\ pc = "flush"
  /\ todo = {}
  /\ pc' = "synced"
  /\ UNCHANGED <<main, wal, session, todo, torn, restarts, ghosts>>

\* truncate_before(id + 1), then the Executor forgets the transaction.
CommitDone ==
  /\ pc = "synced"
  /\ wal' = TruncateBefore(wal, txnId + 1)
  /\ pc' = "ready"
  /\ txnId' = 0 /\ txnState' = "none" /\ auto' = FALSE
  /\ pending' = Blank /\ buffer' = Blank
  /\ snap' = cat
  /\ prior' = {}
  /\ LapseEnds
  /\ UNCHANGED <<main, nextTxn, cat, todo, torn, restarts, legal>>

\* commit() catches the error, marks itself rolled back and raises; neither
\* caller cleans up after it.
CommitRaises ==
  /\ pc' = "ready"
  /\ txnState' = "rolled_back"
  /\ todo' = {}
  /\ UNCHANGED <<main, nextTxn, txnId, auto, pending, buffer, cat, snap,
                 torn, restarts, lapse>>

\* The record never reaches the log.
CommitFailsEarly ==
  /\ CommitCalled
  /\ "append_commit" \in FailPoints
  /\ CommitRaises
  /\ UNCHANGED <<wal, legal, prior>>

\* The record is in the log, or in the file object's buffer, which the next
\* flush or the close writes.
CommitFailsLate ==
  /\ \/ pc = "logged" /\ "fsync_wal" \in FailPoints /\ wal' = wal
     \/ pc = "flush" /\ todo # {} /\ "write_main" \in FailPoints /\ wal' = wal
     \/ pc = "flush" /\ todo = {} /\ "fsync_main" \in FailPoints /\ wal' = wal
     \/ /\ pc = "synced" /\ "truncate" \in FailPoints
        /\ wal' \in TruncateFailed(wal, txnId + 1)
  /\ CommitRaises
  /\ legal' = legal \cup prior
  /\ prior' = {}
-----------------------------------------------------------------------------
(* Rollback, explicit or because the statement raised.                     *)

\* Mutant: the catalogue is not restored.
ForgetKeepsCatalog ==
  /\ pc' = "ready"
  /\ txnId' = 0 /\ txnState' = "none" /\ auto' = FALSE
  /\ pending' = Blank /\ buffer' = Blank
  /\ LapseEnds
  /\ UNCHANGED <<main, nextTxn, cat, snap, todo, torn, restarts, legal, prior>>

\* The transaction is forgotten, the buffer dropped, the snapshot restored.
Forget ==
  /\ pc' = "ready"
  /\ txnId' = 0 /\ txnState' = "none" /\ auto' = FALSE
  /\ pending' = Blank /\ buffer' = Blank
  /\ cat' = snap
  /\ LapseEnds
  /\ UNCHANGED <<main, nextTxn, snap, todo, torn, restarts, legal, prior>>

\* Transaction.rollback appends its record ...
AppendRollback ==
  /\ txnState = "active"
  /\ wal.end <= MaxLog
  /\ \/ pc = "ready" /\ pc' = "undo"
     \/ pc = "stmt" /\ pc' = "unwind"
  /\ wal' = AppendRecord(wal, StatusRecord(wal, txnId, "ROLLBACK"))
  /\ UNCHANGED <<main, session, todo, torn, restarts, ghosts>>

\* ... and truncates the log.
RollbackDone ==
  /\ pc \in {"undo", "unwind"}
  /\ wal' = TruncateBefore(wal, txnId + 1)
  /\ Forget

\* ROLLBACK itself raises after its record is appended: the transaction
\* stays open and active, with its pages in memory, whatever is left of its
\* records.
RollbackFails ==
  /\ pc = "undo"
  /\ "rollback" \in FailPoints
  /\ pc' = "ready"
  /\ wal' \in TruncateFailed(wal, txnId + 1)
  /\ lapse' = IF wal' = wal \/ Lapsed THEN lapse ELSE "open"
  /\ UNCHANGED <<main, session, todo, torn, restarts, legal, prior>>

\* The clean-up of a failed statement runs whatever rollback does; rollback
\* always raises for a transaction whose commit failed.
UnwindWithoutRollback ==
  /\ \/ pc = "stmt" /\ txnState = "rolled_back" /\ wal' = wal
     \/ pc = "stmt" /\ "rollback" \in FailPoints /\ wal' = wal
     \/ /\ pc = "unwind" /\ "rollback" \in FailPoints
        /\ wal' \in TruncateFailed(wal, txnId + 1)
  /\ Forget
-----------------------------------------------------------------------------
(* The end of a process.                                                   *)

EndSession ==
  /\ pc' = "down"
  /\ nextTxn' = 1 /\ txnId' = 0 /\ txnState' = "none" /\ auto' = FALSE
  /\ pending' = Blank /\ buffer' = Blank
  /\ cat' = main[CatPage] /\ snap' = main[CatPage]
  /\ todo' = {} /\ torn' = FALSE
  /\ LapseEnds
  /\ restarts < MaxRestarts
  /\ restarts' = restarts + 1

\* Database.close leaves the log as it is, an open transaction included.
Close ==
  /\ pc = "ready"
  /\ EndSession
  /\ UNCHANGED <<main, wal, legal, prior>>

\* A record of the open transaction is being appended.
Appending == pc \in {"ready", "stmt"} /\ txnState = "active"

\* The log file is being rewritten.
Rewriting == pc \in {"synced", "undo", "unwind"} \/ (pc = "replayed" /\ ~torn)

\* The log file after a kill: append may have written a part of its record,
\* and _replace_buffer empties the file before it writes what is kept.
LogAfterKill ==
  {wal} \cup {w \in {[wal EXCEPT !.torn = TRUE]} : Appending}
        \cup {w \in {EmptyLog} : Rewriting}

Crash ==
  /\ pc # "down"
  /\ EndSession
  /\ wal' \in LogAfterKill
  /\ prior' = IF pc \in {"flush", "synced"} THEN {} ELSE prior
  /\ UNCHANGED <<main, legal>>

Recovery == Open \/ ReplayPage \/ ReplaySync \/ OpenDone \/ OpenFails
Commit   == AppendCommit \/ FsyncWal \/ WriteMain \/ FsyncMain \/ CommitDone
            \/ CommitFailsEarly \/ CommitFailsLate
Rollback == AppendRollback \/ RollbackDone \/ RollbackFails
            \/ UnwindWithoutRollback
Execute  == Begin \/ BeginStatement \/ ChangeCatalog \/ WritePage \/ EndStatement

Work == Recovery \/ Execute \/ Commit \/ Rollback \/ Close

Next == Work \/ Crash

Spec == Init /\ [][Next]_vars

\* The process keeps running unless it is killed: recovery and a commit that
\* have started go on, and the application opens the database again.
Fairness == WF_vars(Recovery)
            /\ WF_vars(FsyncWal \/ WriteMain \/ FsyncMain \/ CommitDone)

FairSpec == Spec /\ Fairness
-----------------------------------------------------------------------------
Logs == [recs : SUBSET Record, end : Nat, torn : BOOLEAN]

(***************************************************************************)
(* Types of the state: the page images, the log records, the transaction   *)
(* routing fields of Executor and Transaction.                             *)
(***************************************************************************)
TypeOK ==
  /\ main \in [Pages -> Values]
  /\ wal \in Logs
  /\ pc \in PCs
  /\ nextTxn \in Nat \ {0} /\ txnId \in Nat
  /\ txnState \in {"none", "active", "rolled_back"}
  /\ auto \in BOOLEAN /\ torn \in BOOLEAN
  /\ pending \in [Pages -> Values \cup {Untouched}]
  /\ buffer \in [Pages -> Values \cup {Untouched}]
  /\ cat \in Values /\ snap \in Values
  /\ todo \subseteq Nat \X Pages
  /\ restarts \in Nat
  /\ legal \subseteq [Pages -> Values]
  /\ prior \subseteq [Pages -> Values]
  /\ lapse \in Lapses

(***************************************************************************)
(* Crash atomicity: whenever the process dies, a replay of the log gives   *)
(* the pages as some sequence of whole, committed transactions left them,  *)
(* unless the application committed a transaction whose ROLLBACK had       *)
(* raised after it had removed its records (transaction.py keeps such a    *)
(* transaction active).                                                    *)
(***************************************************************************)
CrashAtomic == Lapsed \/ Recovered(main, wal) \in legal

(***************************************************************************)
(* What is left of atomicity when Transaction.commit fails half-way: page  *)
(* by page, a restart finds a content that one of the possible outcomes    *)
(* of the failed commits has.  No page goes back to an older content,      *)
(* with the exception of CrashAtomic.                                      *)
(***************************************************************************)
PagesLegal ==
  Lapsed \/ \A p \in Pages : \E s \in legal : Recovered(main, wal)[p] = s[p]

(***************************************************************************)
(* Between statements the in-memory catalogue is the one that a read of    *)
(* page 1 returns, also after a rollback, a failed statement or a reopen.  *)
(***************************************************************************)
CatalogCoherent == pc = "ready" => cat = View[CatPage]

(***************************************************************************)
(* Write-ahead rule: the main file only ever changes to a page image that  *)
(* a committed transaction of the log holds, with the exception of         *)
(* CrashAtomic.                                                            *)
(***************************************************************************)
WriteAhead ==
  [][\A p \in Pages : main'[p] # main[p] /\ ~Lapsed =>
        \E t \in {r.txn : r \in PageWrites(wal)} :
           <<t, p>> \in Redo(wal) /\ main'[p] = RedoValue(wal, t, p)]_vars

(***************************************************************************)
(* Refinement: seen from outside, the process and its crashes are the      *)
(* atomic store, up to the exception of CrashAtomic.  A transaction is     *)
(* decided when its COMMIT record is in the log; a restart finds what a    *)
(* replay would produce.                                                   *)
(***************************************************************************)
Deciding == txnId # 0 /\ pc \in {"ready", "stmt", "undo", "unwind"}

Running == pc \notin {"down", "replay", "replayed"}

Abstract == INSTANCE AtomicStore WITH
  store <- Recovered(main, wal),
  view  <- IF Running THEN View ELSE Recovered(main, wal),
  inTxn <- Deciding

Implements == Abstract!Init /\ [][Lapsed' \/ Abstract!Next]_(Abstract!vars)

(***************************************************************************)
(* A database that went down can be used again, however often recovery     *)
(* itself is interrupted.                                                  *)
(***************************************************************************)
ComesBack == pc = "down" ~> pc = "ready"

-----------------------------------------------------------------------------
(* The inductive invariant behind CrashAtomic and Implements.              *)

CommitRecords(w) == {r \in w.recs : r.kind = "COMMIT"}

LastOf(q, W) == q \in W /\ \A s \in W : s.pos <= q.pos

\* Places are distinct, a page has a last record per transaction, and no
\* COMMIT record stands alone.
WellFormed(w) ==
  /\ \A r \in w.recs : r.pos < w.end
  /\ \A r \in w.recs, s \in w.recs : r.pos = s.pos => r = s
  /\ \A r \in PageWrites(w) :
       \E q \in w.recs : LastOf(q, WritesOf(w, r.txn, r.page))
  /\ \A r \in CommitRecords(w) : \E q \in PageWrites(w) : q.txn = r.txn

OneCommit(w) ==
  \A r \in CommitRecords(w), s \in CommitRecords(w) : r.txn = s.txn

LogOK(w) == WellFormed(w) /\ OneCommit(w)

\* The page records of t are what the transaction holds in memory.
LoggedBy(w, t, d) ==
  \A p \in Pages :
    IF d[p] = Untouched THEN WritesOf(w, t, p) = {}
    ELSE \E q \in w.recs : LastOf(q, WritesOf(w, t, p)) /\ q.data = d[p]

SessionOK ==
  /\ buffer = pending
  /\ \A r \in PageWrites(wal) : r.txn < nextTxn
  /\ txnId = 0 => pending = Blank /\ txnState = "none" /\ pc = "ready"
  /\ txnId # 0 => /\ txnId < nextTxn
                  /\ txnState # "none"
  /\ txnState = "active" /\ lapse # "open" => LoggedBy(wal, txnId, pending)

Committing == pc \in {"logged", "flush", "synced"}

CommitOK ==
  /\ txnId # 0 /\ txnState = "active" /\ lapse # "open"
  /\ IsCommitted(wal, txnId)
  /\ pc = "flush" => todo \subseteq {<<txnId, p>> : p \in Wrote(pending)}
  /\ \A p \in Wrote(pending) :
       \/ pc = "logged"
       \/ pc = "flush" /\ <<txnId, p>> \in todo
       \/ main[p] = pending[p]

ReplayOK ==
  /\ pc = "replay" => todo \subseteq Redo(wal)
  /\ \A w \in Redo(wal) :
       \/ pc = "replay" /\ w \in todo
       \/ main[w[2]] = RedoValue(wal, w[1], w[2])

(***************************************************************************)
(* Inductive: the log has at most one committed transaction, it is the     *)
(* one being committed or replayed, its records are what that transaction  *)
(* holds, and a replay gives the one page map a restart may find.  It ends *)
(* with the first lapse.                                                   *)
(***************************************************************************)
WalInvariant ==
  /\ LogOK(wal)
  /\ Running => SessionOK
  /\ Running /\ ~Committing => CommitRecords(wal) = {}
  /\ Committing => CommitOK
  /\ pc \in {"replay", "replayed"} => ReplayOK
  /\ legal = {Recovered(main, wal)}
=============================================================================
