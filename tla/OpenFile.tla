------------------------------ MODULE OpenFile ------------------------------
(***************************************************************************)
(* Opening and closing database files from several threads and processes   *)
(* (pager.py, _filelock.py, recovery.py).  A Pager looks at the file,      *)
(* writes the header of a new one or upgrades that of an old one, maps the *)
(* file and only then takes the flock; recovery runs after that, guarded   *)
(* by a flag of the process.  A header is "v1", "v2", "v3" (schema byte 3) *)
(* or "other"; pages 2 and up are in use or on the free list.              *)
(***************************************************************************)
EXTENDS Naturals, FiniteSets

CONSTANTS
  Openers,      \* calls of Database(path)
  Files,        \* database files
  FileOf,       \* the file of each call
  ProcOf,       \* the process it is made in
  Kinds,        \* how each file may be found: its header ("none" for a file
                \* that does not exist) and its size, whether it has a log, the
                \* pages committed in the log and the pages on its free list
  MaxAllocs     \* bound: pages the session of each call allocates

Procs == {ProcOf[o] : o \in Openers}
Nobody == "nobody"

Headers == {"none", "v1", "v2", "v3", "other"}

Reserved == 2       \* page 0 and the catalogue's page

DataPages(n) == Reserved..(n - 1)

ASSUME OpenFileAssumption ==
  /\ FileOf \in [Openers -> Files]
  /\ Nobody \notin Openers
  /\ DOMAIN Kinds = Files
  /\ MaxAllocs \in [Openers -> Nat]

\* alloc_page extends the file at once, so the pages of the log are in it, and
\* a v1 file has no free list.
ASSUME KindsAssumption ==
  \A f \in Files : \A k \in Kinds[f] :
    /\ k.header \in Headers /\ k.wal \in BOOLEAN
    /\ IF k.header = "none" THEN k.size = 0 ELSE k.size \in Nat /\ k.size >= Reserved
    /\ k.free \subseteq DataPages(k.size)
    /\ k.log \subseteq DataPages(k.size) \ k.free
    /\ k.header = "v1" => k.free = {}

VARIABLES
  header,       \* the version each file's header tells
  free,         \* the free list of each file
  wal,          \* the log beside it: "none", "old" or "ours", made by a session
  size,         \* pages of each file; 0 also when there is none
  holder,       \* the call whose flock each file has, or Nobody
  pending,      \* the committed pages the file's log has to replay
  replaying,    \* _REPLAY_IN_PROGRESS of each process
  pc,           \* where each call is
  seen,         \* the size and the header each call saw when it opened the file
  nextId,       \* its _next_page_id
  allocs,       \* pages its session has allocated
  used,         \* pages of each file that are in use, with the call that was
                \* given them
  inHand,       \* pages given to a transaction that has not ended
  dropped,      \* history: those whose transaction ended without COMMIT
  raced         \* calls that have overlapped, as far as they share anything

vars == <<header, free, wal, size, holder, pending, replaying, pc, seen, nextId,
          allocs, used, inHand, dropped, raced>>

pageVars == <<used, inHand, dropped>>

headerVars == <<header, free, wal>>

At(o, place) == pc[o] = place

Goto(o, place) == pc' = [pc EXCEPT ![o] = place]

MidOpen(o) == pc[o] \in {"seen", "upgraded", "mapped", "locked", "replaying"}

Larger(a, b) == IF a >= b THEN a ELSE b

\* The size of a file once it holds the pages.
Holding(n, pages) == CHOOSE m \in {n} \cup {p + 1 : p \in pages} :
                       \A k \in {n} \cup {p + 1 : p \in pages} : k <= m

Init ==
  /\ \E found \in [Files -> UNION {Kinds[f] : f \in Files}] :
       /\ \A f \in Files : found[f] \in Kinds[f]
       /\ header = [f \in Files |-> found[f].header]
       /\ free = [f \in Files |-> found[f].free]
       /\ wal = [f \in Files |-> IF found[f].wal THEN "old" ELSE "none"]
       /\ size = [f \in Files |-> found[f].size]
       /\ pending = [f \in Files |-> found[f].log]
       /\ used = [f \in Files |-> (DataPages(found[f].size) \ found[f].free) \X {Nobody}]
  /\ inHand = [f \in Files |-> {}]
  /\ dropped = [f \in Files |-> {}]
  /\ holder = [f \in Files |-> Nobody]
  /\ replaying = [p \in Procs |-> FALSE]
  /\ pc = [o \in Openers |-> "idle"]
  /\ seen = [o \in Openers |-> <<0, "none">>]
  /\ nextId = [o \in Openers |-> Reserved]
  /\ allocs = [o \in Openers |-> 0]
  /\ raced = {}

\* A call of o that begins now meets x on its way to the same file or in the
\* same process, or meets its session on the file.
Meets(o, x) ==
  \/ MidOpen(x) /\ (FileOf[x] = FileOf[o] \/ ProcOf[x] = ProcOf[o])
  \/ At(x, "open") /\ FileOf[x] = FileOf[o]

Met(o) == {x \in Openers : Meets(o, x)}

\* os.path.exists, open(path, "a+b"), tell and the read of the header.
Look(o) ==
  /\ At(o, "idle")
  /\ seen' = [seen EXCEPT ![o] = <<size[FileOf[o]], header[FileOf[o]]>>]
  /\ Goto(o, "seen")
  /\ raced' = raced \cup Met(o) \cup {x \in {o} : Met(o) # {}}
  /\ UNCHANGED <<headerVars, size, holder, pending, replaying, nextId, allocs, pageVars>>

SawNew(o) == seen[o][1] = 0

SawHeader(o, h) == At(o, "seen") /\ ~SawNew(o) /\ seen[o][2] = h

\* SchemaMismatch for a v2 file with a log, or UnsupportedSchemaVersion.
Reject(o) ==
  /\ (SawHeader(o, "v2") /\ wal[FileOf[o]] # "none") \/ SawHeader(o, "other")
  /\ Goto(o, "rejected")
  /\ UNCHANGED <<headerVars, size, holder, pending, replaying, seen, nextId, allocs, pageVars, raced>>

\* Mutant: the new version byte stays in the buffer.
UpgradeUnwritten(o) ==
  /\ SawHeader(o, "v1") \/ (SawHeader(o, "v2") /\ wal[FileOf[o]] = "none")
  /\ Goto(o, "upgraded")
  /\ UNCHANGED <<headerVars, size, holder, pending, replaying, seen, nextId, allocs, pageVars, raced>>

\* Mutant: the free list of a v2 file is reset as well.
UpgradeResets(o) ==
  /\ SawHeader(o, "v1") \/ (SawHeader(o, "v2") /\ wal[FileOf[o]] = "none")
  /\ header' = [header EXCEPT ![FileOf[o]] = "v3"]
  /\ free' = [free EXCEPT ![FileOf[o]] = {}]
  /\ Goto(o, "upgraded")
  /\ UNCHANGED <<wal, size, holder, pending, replaying, seen, nextId, allocs, pageVars, raced>>

\* The header becomes that of a v3 file; a v1 file gets an empty free list.
Upgrade(o) ==
  LET f == FileOf[o]
  IN /\ SawHeader(o, "v1") \/ (SawHeader(o, "v2") /\ wal[f] = "none")
     /\ header' = [header EXCEPT ![f] = "v3"]
     /\ free' = [free EXCEPT ![f] = IF SawHeader(o, "v1") THEN {} ELSE @]
     /\ Goto(o, "upgraded")
     /\ UNCHANGED <<wal, size, holder, pending, replaying, seen, nextId, allocs, pageVars, raced>>

CanMap(o) == At(o, "upgraded") \/ SawHeader(o, "v3") \/ (At(o, "seen") /\ SawNew(o))

\* The header and an empty catalogue page, appended to a file seen empty.
SizeWithHeader(o) == size[FileOf[o]] + (IF SawNew(o) THEN Reserved ELSE 0)

HeaderWritten(o) ==
  header' = [header EXCEPT ![FileOf[o]] = IF SawNew(o) /\ size[FileOf[o]] = 0 THEN "v3" ELSE @]

\* _open_file returns: what it saw is gone.
Returned(o) == seen' = [seen EXCEPT ![o] = <<0, "none">>]

\* Mutant: the reseed of _next_page_id is left out.
MapWithoutReseed(o) ==
  /\ CanMap(o)
  /\ HeaderWritten(o)
  /\ size' = [size EXCEPT ![FileOf[o]] = SizeWithHeader(o)]
  /\ Returned(o)
  /\ Goto(o, "mapped")
  /\ UNCHANGED <<free, wal, holder, pending, replaying, nextId, allocs, pageVars, raced>>

\* The file is mapped and the page ids go on from its end: mmap.size() is the
\* size of the file at this moment.
Map(o) ==
  /\ CanMap(o)
  /\ HeaderWritten(o)
  /\ size' = [size EXCEPT ![FileOf[o]] = SizeWithHeader(o)]
  /\ nextId' = [nextId EXCEPT ![o] = Larger(@, SizeWithHeader(o))]
  /\ Returned(o)
  /\ Goto(o, "mapped")
  /\ UNCHANGED <<free, wal, holder, pending, replaying, allocs, pageVars, raced>>

\* try_acquire, or DatabaseLocked and the end of the call.
Lock(o) ==
  LET f == FileOf[o]
  IN /\ At(o, "mapped")
     /\ IF holder[f] = Nobody
        THEN holder' = [holder EXCEPT ![f] = o] /\ Goto(o, "locked")
        ELSE Goto(o, "refused") /\ UNCHANGED holder
     /\ UNCHANGED <<headerVars, size, pending, replaying, seen, nextId, allocs, pageVars, raced>>

\* _init_wal: nothing to replay, or a replay that the flag turns away.
Skip(o) ==
  /\ At(o, "locked")
  /\ pending[FileOf[o]] = {} \/ replaying[ProcOf[o]]
  /\ Goto(o, "open")
  /\ UNCHANGED <<headerVars, size, holder, pending, replaying, seen, nextId, allocs, pageVars, raced>>

BeginReplay(o) ==
  /\ At(o, "locked")
  /\ pending[FileOf[o]] # {}
  /\ ~replaying[ProcOf[o]]
  /\ replaying' = [replaying EXCEPT ![ProcOf[o]] = TRUE]
  /\ Goto(o, "replaying")
  /\ UNCHANGED <<headerVars, size, holder, pending, seen, nextId, allocs, pageVars, raced>>

\* _apply_committed writes the pages through a Pager of its own, past the end
\* of the file if need be, and the log is truncated.
Applied(o) ==
  LET f == FileOf[o]
  IN /\ size' = [size EXCEPT ![f] = Holding(@, pending[f])]
     /\ pending' = [pending EXCEPT ![f] = {}]

\* Mutant: the flag stays set.
EndReplayKeepsFlag(o) ==
  /\ At(o, "replaying")
  /\ Applied(o)
  /\ Goto(o, "open")
  /\ UNCHANGED <<headerVars, holder, replaying, seen, nextId, allocs, pageVars, raced>>

EndReplay(o) ==
  /\ At(o, "replaying")
  /\ Applied(o)
  /\ replaying' = [replaying EXCEPT ![ProcOf[o]] = FALSE]
  /\ Goto(o, "open")
  /\ UNCHANGED <<headerVars, holder, seen, nextId, allocs, pageVars, raced>>

\* alloc_page: a page of the free list, or the file is extended to hold one,
\* in the main file and at once: the transaction has it in hand from now on.
AllocPage(o) ==
  LET f == FileOf[o]
  IN /\ At(o, "open")
     /\ allocs[o] < MaxAllocs[o]
     /\ allocs' = [allocs EXCEPT ![o] = @ + 1]
     /\ \E pid \in IF free[f] = {} THEN {nextId[o]} ELSE free[f] :
          /\ free' = [free EXCEPT ![f] = @ \ {pid}]
          /\ size' = [size EXCEPT ![f] = Larger(@, pid + 1)]
          /\ inHand' = [inHand EXCEPT ![f] = @ \cup {<<pid, o>>}]
     /\ nextId' = [nextId EXCEPT ![o] = IF free[f] = {} THEN @ + 1 ELSE @]
     /\ UNCHANGED <<header, wal, holder, pending, replaying, pc, seen, used, dropped, raced>>

\* The pages that the transactions of the calls have in hand.
InHandOf(f, calls) == {u \in inHand[f] : u[2] \in calls}

\* COMMIT: what refers to the pages is in the file.
Commit(o) ==
  LET mine == InHandOf(FileOf[o], {o})
  IN /\ At(o, "open")
     /\ mine # {}
     /\ used' = [used EXCEPT ![FileOf[o]] = @ \cup mine]
     /\ inHand' = [inHand EXCEPT ![FileOf[o]] = @ \ mine]
     /\ UNCHANGED <<headerVars, size, holder, pending, replaying, pc, seen, nextId, allocs,
                    dropped, raced>>

\* Transactions end without COMMIT: nothing takes the pages back.
Dropped(calls) ==
  /\ inHand' = [f \in Files |-> inHand[f] \ InHandOf(f, calls)]
  /\ dropped' = [f \in Files |-> dropped[f] \cup InHandOf(f, calls)]

\* ROLLBACK, or the one after a statement that raised.
Rollback(o) ==
  /\ At(o, "open")
  /\ InHandOf(FileOf[o], {o}) # {}
  /\ Dropped({o})
  /\ UNCHANGED <<headerVars, size, holder, pending, replaying, pc, seen, nextId, allocs,
                 used, raced>>

\* free_page, in a transaction of its own that commits: a page in use goes to
\* the free list.
FreePage(o) ==
  LET f == FileOf[o]
  IN /\ At(o, "open")
     /\ InHandOf(f, {o}) = {}
     /\ \E u \in used[f] :
          /\ used' = [used EXCEPT ![f] = @ \ {u}]
          /\ free' = [free EXCEPT ![f] = @ \cup {u[1]}]
     /\ UNCHANGED <<header, wal, size, holder, pending, replaying, pc, seen, nextId, allocs,
                    inHand, dropped, raced>>

\* _get_or_open_wal: the first transaction that commits creates the log.
CreateLog(o) ==
  /\ At(o, "open")
  /\ wal[FileOf[o]] = "none"
  /\ wal' = [wal EXCEPT ![FileOf[o]] = "ours"]
  /\ UNCHANGED <<header, free, size, holder, pending, replaying, pc, seen, nextId,
                 allocs, pageVars, raced>>

\* The Pagers of the calls are gone, with their counters and transactions.
Ended(calls) ==
  /\ nextId' = [o \in Openers |-> IF o \in calls THEN Reserved ELSE nextId[o]]
  /\ allocs' = [o \in Openers |-> IF o \in calls THEN 0 ELSE allocs[o]]
  /\ Dropped(calls)

\* Mutant: a call that was refused gives up the lock of the one it met.
CloseByPath(o) ==
  /\ pc[o] \in {"open", "refused"}
  /\ holder' = [holder EXCEPT ![FileOf[o]] = Nobody]
  /\ Ended({o})
  /\ Goto(o, "closed")
  /\ UNCHANGED <<headerVars, size, pending, replaying, seen, used, raced>>

Close(o) ==
  /\ At(o, "open")
  /\ holder' = [holder EXCEPT ![FileOf[o]] = Nobody]
  /\ Ended({o})
  /\ Goto(o, "closed")
  /\ UNCHANGED <<headerVars, size, pending, replaying, seen, used, raced>>

\* The process dies with sessions open or on the way: the operating system
\* releases their locks and a log that was being replayed is as it was.
Die(p) ==
  LET mine == {o \in Openers : ProcOf[o] = p}
  IN /\ \E o \in mine : MidOpen(o) \/ At(o, "open")
     /\ pc' = [o \in Openers |-> IF o \in mine THEN "closed" ELSE pc[o]]
     /\ holder' = [f \in Files |-> IF holder[f] \in mine THEN Nobody ELSE holder[f]]
     /\ Ended(mine)
     /\ replaying' = [replaying EXCEPT ![p] = FALSE]
     /\ UNCHANGED <<headerVars, size, pending, seen, used, raced>>

Next ==
  \/ \E o \in Openers :
       \/ Look(o) \/ Reject(o) \/ Upgrade(o) \/ Map(o) \/ Lock(o) \/ Skip(o)
       \/ BeginReplay(o) \/ EndReplay(o) \/ AllocPage(o) \/ Commit(o)
       \/ Rollback(o) \/ FreePage(o) \/ CreateLog(o) \/ Close(o)
  \/ \E p \in Procs : Die(p)

Spec == Init /\ [][Next]_vars
-----------------------------------------------------------------------------
\* The files on which no two calls overlapped.
Unraced == {f \in Files : \A o \in raced : FileOf[o] # f}

\* The pages a file has given out and not taken back.
Given(f) == used[f] \cup inHand[f] \cup dropped[f]

(***************************************************************************)
(* At most one session at a time replays or writes a file, also when calls *)
(* are refused, close or die meanwhile (FileLock, LOCK_EX | LOCK_NB).      *)
(***************************************************************************)
OneSession ==
  \A o, x \in Openers :
    (/\ o # x /\ FileOf[o] = FileOf[x]
     /\ pc[o] \in {"locked", "replaying", "open"})
      => pc[x] \notin {"locked", "replaying", "open"}

(***************************************************************************)
(* No two sessions are given the same page id, and none a page that is in  *)
(* the log: a session goes on from the end of the file the earlier ones    *)
(* left, also after a crash (the reseed of _next_page_id).  It is promised *)
(* where no two calls on the file overlapped: Pager maps the file before   *)
(* it takes the lock.                                                      *)
(***************************************************************************)
FreshPages ==
  \A f \in Unraced : \A a, b \in Given(f) : a[1] = b[1] => a = b

(***************************************************************************)
(* Every page of a file is on the free list, in use, or in the hands of a  *)
(* transaction, and never both the first and another, through upgrades of  *)
(* the header, replays, sessions and deaths (_open_file sets               *)
(* free_list_head to 0 in files that never had a list).  The exception is  *)
(* what a rollback or a death before COMMIT does: the page was taken in    *)
(* the main file (pager.py:402) and nothing refers to it or gives it back. *)
(* It is promised where no two calls on the file overlapped: the upgrade   *)
(* comes before the lock.                                                  *)
(***************************************************************************)
PagesAccountedFor ==
  \A f \in Unraced : \A p \in DataPages(size[f]) :
    (p \in free[f]) # (\E u \in Given(f) : u[1] = p)

(***************************************************************************)
(* A file that a session has written a log for is never rejected by its    *)
(* header: the upgrade of a v2 file is in the file before there is a log   *)
(* that would make the next call raise SchemaMismatch.  It is promised     *)
(* where the call overlapped no other on the file.                         *)
(***************************************************************************)
StaysOpenable ==
  \A o \in Openers \ raced : At(o, "rejected") => wal[FileOf[o]] # "ours"

(***************************************************************************)
(* An open Database has replayed its log: none of its committed pages is   *)
(* still only there (_init_wal).  It is promised where the call overlapped *)
(* no other of its process: _REPLAY_IN_PROGRESS is global.                 *)
(***************************************************************************)
OpenedRecovered ==
  \A o \in Openers \ raced : At(o, "open") => pending[FileOf[o]] = {}
=============================================================================
