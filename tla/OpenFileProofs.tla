--------------------------- MODULE OpenFileProofs ---------------------------
(***************************************************************************)
(* What OpenFile promises of sessions, page ids, headers and replays,      *)
(* proved for any number of calls, processes and files, however the calls  *)
(* overlap; and what SharedDatabase promises of the threads that share one *)
(* Database, for any number of threads and calls.                          *)
(***************************************************************************)
EXTENDS OpenFile, SharedDatabase, TLAPS

Places ==
  {"idle", "seen", "upgraded", "mapped", "locked", "replaying", "open", "rejected",
   "refused", "closed"}

InSession(o) == pc[o] \in {"locked", "replaying", "open"}

Types ==
  /\ pc \in [Openers -> Places]
  /\ holder \in [Files -> Openers \cup {Nobody}]

\* A call that is in session has the lock of its file.
Held == \A o \in Openers : InSession(o) => holder[FileOf[o]] = o

LockInv == Types /\ Held

\* Steps before the lock is asked for.
Approaches(o) == Look(o) \/ Reject(o) \/ Upgrade(o) \/ Map(o)

\* Steps of a session that keep the lock.
Works(o) ==
  \/ Skip(o) \/ BeginReplay(o) \/ EndReplay(o) \/ AllocPage(o) \/ Commit(o)
  \/ Rollback(o) \/ FreePage(o) \/ CreateLog(o)

LEMMA KeepsOut ==
  ASSUME LockInv, NEW o \in Openers, Approaches(o)
  PROVE  LockInv'
  <1>1. /\ holder' = holder
        /\ \/ pc' = [pc EXCEPT ![o] = "seen"]
           \/ pc' = [pc EXCEPT ![o] = "rejected"]
           \/ pc' = [pc EXCEPT ![o] = "upgraded"]
           \/ pc' = [pc EXCEPT ![o] = "mapped"]
    BY DEF Approaches, Look, Reject, Upgrade, Map, Goto
  <1> QED  BY <1>1 DEF LockInv, Types, Held, InSession, Places

LEMMA KeepsLock ==
  ASSUME LockInv, NEW o \in Openers, Works(o)
  PROVE  LockInv'
  BY DEF Works, LockInv, Types, Held, InSession, Places, Skip, BeginReplay,
         EndReplay, Applied, AllocPage, Commit, Rollback, Dropped, FreePage, CreateLog,
         At, Goto

LEMMA TakesLock ==
  ASSUME LockInv, NEW o \in Openers, Lock(o)
  PROVE  LockInv'
  <1>1. CASE holder[FileOf[o]] = Nobody
    <2>1. \A x \in Openers : InSession(x) => FileOf[x] # FileOf[o]
      BY <1>1, OpenFileAssumption DEF LockInv, Held
    <2>2. Types'
      BY <1>1, OpenFileAssumption DEF LockInv, Types, Places, Lock, At, Goto
    <2>3. ASSUME NEW x \in Openers, InSession(x)'
          PROVE  holder'[FileOf[x]] = x
      <3>1. pc' = [pc EXCEPT ![o] = "locked"] /\ holder' = [holder EXCEPT ![FileOf[o]] = o]
        BY <1>1 DEF Lock, Goto
      <3>2. CASE x = o
        BY <3>1, <3>2, OpenFileAssumption DEF LockInv, Types
      <3>3. CASE x # o
        BY <2>1, <2>3, <3>1, <3>3, OpenFileAssumption DEF LockInv, Types, Held, InSession
      <3> QED  BY <3>2, <3>3
    <2> QED  BY <2>2, <2>3 DEF LockInv, Held
  <1>2. CASE holder[FileOf[o]] # Nobody
    BY <1>2 DEF LockInv, Types, Held, InSession, Places, Lock, At, Goto
  <1> QED  BY <1>1, <1>2

LEMMA GivesUpLock ==
  ASSUME LockInv, NEW o \in Openers, Close(o)
  PROVE  LockInv'
  <1>1. \A x \in Openers : InSession(x) /\ x # o => FileOf[x] # FileOf[o]
    BY DEF LockInv, Held, InSession, Close, At
  <1>2. Types'
    BY OpenFileAssumption DEF LockInv, Types, Places, Close, At, Goto
  <1>3. Held'
    BY <1>1, OpenFileAssumption DEF LockInv, Types, Held, InSession, Places, Close, At, Goto
  <1> QED  BY <1>2, <1>3 DEF LockInv

LEMMA DiesWithLock ==
  ASSUME LockInv, NEW p \in Procs, Die(p)
  PROVE  LockInv'
  <1>1. Types'
    BY DEF LockInv, Types, Places, Die
  <1>2. Held'
    BY OpenFileAssumption DEF LockInv, Types, Held, InSession, Places, Die
  <1> QED  BY <1>1, <1>2 DEF LockInv

LEMMA LockStep == LockInv /\ [Next]_vars => LockInv'
  <1> SUFFICES ASSUME LockInv, [Next]_vars PROVE LockInv'
    OBVIOUS
  <1>1. CASE \E o \in Openers : Approaches(o)
    BY <1>1, KeepsOut
  <1>2. CASE \E o \in Openers : Works(o)
    BY <1>2, KeepsLock
  <1>3. CASE \E o \in Openers : Lock(o)
    BY <1>3, TakesLock
  <1>4. CASE \E o \in Openers : Close(o)
    BY <1>4, GivesUpLock
  <1>5. CASE \E p \in Procs : Die(p)
    BY <1>5, DiesWithLock
  <1>6. CASE UNCHANGED vars
    BY <1>6 DEF LockInv, Types, Held, InSession, vars
  <1> QED  BY <1>1, <1>2, <1>3, <1>4, <1>5, <1>6 DEF Next, Approaches, Works

(***************************************************************************)
(* At most one session at a time replays or writes a file: the flock that  *)
(* Pager.__init__ takes before the replay and keeps to its close admits no *)
(* second one, through refusals, closes and deaths.                        *)
(***************************************************************************)
THEOREM SingleSession == Spec => []OneSession
  <1>1. Init => LockInv
    BY OpenFileAssumption DEF Init, LockInv, Types, Held, InSession, Places
  <1>2. LockInv => OneSession
    BY DEF LockInv, Held, InSession, OneSession
  <1> QED  BY <1>1, <1>2, LockStep, PTL DEF Spec
-----------------------------------------------------------------------------
(***************************************************************************)
(* What a session finds and keeps, also proved for any number of calls,    *)
(* processes and files.  Active calls on one file have raced, so a call    *)
(* that has not raced works on a file nobody else changes.                 *)
(***************************************************************************)
Active(o) == MidOpen(o) \/ At(o, "open")

StateTypes ==
  /\ header \in [Files -> Headers]
  /\ free \in [Files -> SUBSET Nat]
  /\ wal \in [Files -> {"none", "old", "ours"}]
  /\ size \in [Files -> Nat]
  /\ pending \in [Files -> SUBSET Nat]
  /\ replaying \in [Procs -> BOOLEAN]
  /\ seen \in [Openers -> Nat \X Headers]
  /\ nextId \in [Openers -> Nat]
  /\ {used, inHand, dropped} \subseteq [Files -> SUBSET (Nat \X (Openers \cup {Nobody}))]
  /\ raced \subseteq Openers

\* Calls that overlap are recorded.
Overlaps ==
  \A o, x \in Openers :
    o # x /\ ( \/ Active(o) /\ Active(x) /\ FileOf[o] = FileOf[x]
               \/ MidOpen(o) /\ MidOpen(x) /\ ProcOf[o] = ProcOf[x] )
      => o \in raced

\* The flag of a process is set while one of its calls replays.
Flagged ==
  \A p \in Procs : replaying[p] => \E x \in Openers : ProcOf[x] = p /\ At(x, "replaying")

\* What a file is, whoever works on it: its header only ever becomes v3, and
\* it does so before it is mapped.
FilesOK ==
  \A f \in Files :
    /\ size[f] = 0 <=> header[f] = "none"
    /\ size[f] # 0 => size[f] >= Reserved
    /\ pending[f] \cup free[f] \subseteq DataPages(size[f])
    /\ \A u \in Given(f) : u[1] \in DataPages(size[f])
    /\ wal[f] = "ours" => header[f] = "v3"

\* What a call has seen of its file's header may be outdated, but only so far.
SeenOK ==
  \A o \in Openers :
    LET h == header[FileOf[o]]
    IN /\ At(o, "seen") =>
            IF SawNew(o) THEN h \in {"none", "v3"}
            ELSE seen[o][2] # "none" /\ (h = seen[o][2] \/ (h = "v3" /\ seen[o][2] # "other"))
       /\ At(o, "upgraded") => ~SawNew(o)
       /\ pc[o] \in {"upgraded", "mapped", "locked", "replaying", "open"} => h = "v3"
       /\ nextId[o] >= Reserved
       /\ pc[o] \in {"idle", "seen", "upgraded"} => nextId[o] = Reserved

\* A call that has not raced knows its file.
Alone ==
  \A o \in Openers \ raced :
    LET f == FileOf[o]
    IN /\ At(o, "seen") => seen[o] = <<size[f], header[f]>>
       /\ At(o, "upgraded") => seen[o][1] = size[f]
       /\ pc[o] \in {"mapped", "locked", "replaying", "open"} => nextId[o] = size[f]
       /\ At(o, "open") => pending[f] = {}
       /\ At(o, "rejected") => header[f] = "other" \/ wal[f] = "old"

\* A page given out is in use, in hand or dropped, one of them.
Apart(f) ==
  /\ used[f] \cap inHand[f] = {}
  /\ used[f] \cap dropped[f] = {}
  /\ inHand[f] \cap dropped[f] = {}

\* The pages of a file on which no calls raced.
PagesOK ==
  \A f \in Unraced :
    /\ Apart(f)
    /\ \A u \in Given(f) : u[1] \notin free[f]
    /\ \A a, b \in Given(f) : a[1] = b[1] => a = b
    /\ \A p \in DataPages(size[f]) : p \in free[f] \/ \E u \in Given(f) : u[1] = p
    /\ header[f] = "v1" => free[f] = {}

OpenInv ==
  /\ LockInv /\ StateTypes
  /\ Overlaps /\ Flagged /\ FilesOK /\ SeenOK /\ Alone /\ PagesOK

LEMMA GivenAlone ==
  ASSUME used' = used, inHand' = inHand, dropped' = dropped
  PROVE  \A f \in Files : Given(f)' = Given(f) /\ Apart(f)' = Apart(f)
  BY DEF Given, Apart

LEMMA GivenMoves ==
  ASSUME NEW S, Dropped(S), used' = used
  PROVE  \A f \in Files : Given(f)' = Given(f) /\ (Apart(f) => Apart(f)')
  BY DEF Dropped, InHandOf, Given, Apart

LEMMA DroppedTypes ==
  ASSUME NEW S, Dropped(S), used' = used, StateTypes
  PROVE  {used', inHand', dropped'} \subseteq [Files -> SUBSET (Nat \X (Openers \cup {Nobody}))]
  BY DEF Dropped, InHandOf, StateTypes

LEMMA DataPagesGrow ==
  ASSUME NEW n \in Nat, NEW q \in Nat, q <= n
  PROVE  \A p \in DataPages(IF q < n THEN n ELSE q + 1) : p \in DataPages(n) \/ p = q
  BY DEF DataPages, Reserved

LEMMA HoldingAll ==
  ASSUME NEW n \in Nat, NEW S, S \subseteq DataPages(n)
  PROVE  Holding(n, S) = n
  <1> DEFINE sizes == {n} \cup {p + 1 : p \in S}
  <1>1. \A k \in sizes : k \in Nat /\ k <= n
    BY DEF DataPages, Reserved
  <1>2. ASSUME NEW m \in sizes, \A k \in sizes : k <= m
        PROVE  m = n
    BY <1>1, <1>2
  <1>3. n \in sizes /\ \A k \in sizes : k <= n
    BY <1>1
  <1> HIDE DEF sizes
  <1>4. (CHOOSE m \in sizes : \A k \in sizes : k <= m) = n
    BY <1>2, <1>3
  <1> QED  BY <1>4 DEF Holding, sizes

LEMMA PagesStay ==
  ASSUME PagesOK, size' = size, free' = free, header' = header, raced \subseteq raced',
         \A f \in Files : Given(f)' = Given(f) /\ Apart(f)' = Apart(f)
  PROVE  PagesOK'
  BY DEF PagesOK, Unraced

LEMMA LookKeeps ==
  ASSUME OpenInv, NEW o \in Openers, Look(o)
  PROVE  OpenInv'
  <1> USE OpenFileAssumption DEF OpenInv, LockInv, Types, StateTypes, Places, Headers, Look,
            Met, Meets, At, Goto, headerVars, pageVars, Reserved
  <1>g. \A f \in Files : Given(f)' = Given(f) /\ Apart(f)' = Apart(f)
    BY GivenAlone DEF pageVars
  <1>0. LockInv'
    BY LockStep DEF Next
  <1>1. StateTypes'
    OBVIOUS
  <1>2. Overlaps'
    BY DEF Overlaps, Active, MidOpen
  <1>3. Flagged'
    BY DEF Flagged
  <1>4. FilesOK'
    BY <1>g DEF FilesOK
  <1>5. SeenOK'
    BY <1>1 DEF SeenOK, FilesOK, SawNew
  <1>6. Alone'
    BY DEF Alone
  <1>7. PagesOK'
    <2>1. PagesOK /\ size' = size /\ free' = free /\ header' = header /\ raced \subseteq raced'
      OBVIOUS
    <2> QED  BY ONLY <1>g, <2>1, PagesStay
  <1> QED  BY <1>0, <1>1, <1>2, <1>3, <1>4, <1>5, <1>6, <1>7

LEMMA RejectKeeps ==
  ASSUME OpenInv, NEW o \in Openers, Reject(o)
  PROVE  OpenInv'
  <1> USE OpenFileAssumption DEF OpenInv, LockInv, Types, StateTypes, Places, Headers, Reject,
            SawHeader, At, Goto, headerVars, pageVars, Reserved
  <1>g. \A f \in Files : Given(f)' = Given(f) /\ Apart(f)' = Apart(f)
    BY GivenAlone DEF pageVars
  <1>0. LockInv'
    BY LockStep DEF Next
  <1>1. StateTypes'
    OBVIOUS
  <1>2. Overlaps'
    BY DEF Overlaps, Active, MidOpen
  <1>3. Flagged'
    BY DEF Flagged
  <1>4. FilesOK'
    BY <1>g DEF FilesOK
  <1>5. SeenOK'
    BY DEF SeenOK, SawNew
  <1>6. Alone'
    <2>1. header[FileOf[o]] = "other" \/ wal[FileOf[o]] = "old" \/ o \in raced
      <3>1. CASE SawHeader(o, "other")
        BY <3>1 DEF SeenOK, SawNew
      <3>2. CASE SawHeader(o, "v2") /\ wal[FileOf[o]] # "none" /\ o \notin raced
        <4>1. header[FileOf[o]] = "v2"
          BY <3>2 DEF Alone
        <4> QED  BY <3>2, <4>1 DEF FilesOK
      <3> QED  BY <3>1, <3>2
    <2> QED  BY <2>1 DEF Alone
  <1>7. PagesOK'
    <2>1. PagesOK /\ size' = size /\ free' = free /\ header' = header /\ raced \subseteq raced'
      OBVIOUS
    <2> QED  BY ONLY <1>g, <2>1, PagesStay
  <1> QED  BY <1>0, <1>1, <1>2, <1>3, <1>4, <1>5, <1>6, <1>7

LEMMA UpgradeKeeps ==
  ASSUME OpenInv, NEW o \in Openers, Upgrade(o)
  PROVE  OpenInv'
  <1> USE OpenFileAssumption DEF OpenInv, LockInv, Types, StateTypes, Places, Headers, Upgrade,
            SawHeader, At, Goto, headerVars, pageVars, Reserved
  <1>g. \A f \in Files : Given(f)' = Given(f) /\ Apart(f)' = Apart(f)
    BY GivenAlone DEF pageVars
  <1>0. LockInv'
    BY LockStep DEF Next
  <1>1. StateTypes'
    OBVIOUS
  <1>2. Overlaps'
    BY DEF Overlaps, Active, MidOpen
  <1>3. Flagged'
    BY DEF Flagged
  <1>4. FilesOK'
    <2>1. /\ size' = size /\ pending' = pending /\ wal' = wal
          /\ header' = [header EXCEPT ![FileOf[o]] = "v3"]
          /\ \A f \in Files : free'[f] \subseteq free[f]
      OBVIOUS
    <2>2. header[FileOf[o]] # "none"
      BY DEF SeenOK
    <2>3. FilesOK
      OBVIOUS
    <2>4. header \in [Files -> Headers] /\ FileOf[o] \in Files
      OBVIOUS
    <2> HIDE DEF OpenInv, Upgrade, Headers
    <2>5. \A f \in Files : /\ header'[f] = header[f] \/ header'[f] = "v3"
                           /\ header'[f] = "none" <=> header[f] = "none"
      BY <2>1, <2>2, <2>4
    <2>6. \A f \in Files : DataPages(size'[f]) = DataPages(size[f])
      BY <2>1
    <2> QED  BY <1>g, <2>1, <2>3, <2>5, <2>6 DEF FilesOK
  <1>5. SeenOK'
    BY <1>1 DEF SeenOK, FilesOK, SawNew
  <1>6. Alone'
    <2>1. \A x \in Openers \ raced : x # o /\ FileOf[x] = FileOf[o] => ~Active(x)
      BY DEF Overlaps, Active, MidOpen
    <2>2. header[FileOf[o]] # "other"
      BY DEF SeenOK, SawNew
    <2>3. ASSUME NEW x \in Openers \ raced
          PROVE  /\ At(x, "seen")' => (seen[x] = <<size[FileOf[x]], header[FileOf[x]]>>)'
                 /\ At(x, "rejected")' => (header[FileOf[x]] = "other" \/ wal[FileOf[x]] = "old")'
      BY <2>1, <2>2 DEF Alone, Active, MidOpen
    <2>4. ASSUME NEW x \in Openers \ raced, At(x, "upgraded")'
          PROVE  seen'[x][1] = size'[FileOf[x]]
      BY <2>4, <1>1 DEF Alone
    <2>5. ASSUME NEW x \in Openers \ raced
          PROVE  /\ pc'[x] \in {"mapped", "locked", "replaying", "open"} => nextId'[x] = size'[FileOf[x]]
                 /\ At(x, "open")' => pending'[FileOf[x]] = {}
      BY DEF Alone
    <2> QED  BY <2>3, <2>4, <2>5 DEF Alone
  <1>7. PagesOK'
    BY <1>g, SMTT(30) DEF PagesOK, Alone, Unraced, SeenOK, FilesOK, DataPages, SawNew
  <1> QED  BY <1>0, <1>1, <1>2, <1>3, <1>4, <1>5, <1>6, <1>7

LEMMA MapKeeps ==
  ASSUME OpenInv, NEW o \in Openers, Map(o)
  PROVE  OpenInv'
  <1> USE OpenFileAssumption DEF OpenInv, LockInv, Types, StateTypes, Places, Headers, Map,
            CanMap, SizeWithHeader, HeaderWritten, Returned, Larger, SawHeader, At, Goto,
            headerVars, pageVars, Reserved
  <1>g. \A f \in Files : Given(f)' = Given(f) /\ Apart(f)' = Apart(f)
    BY GivenAlone DEF pageVars
  <1>0. LockInv'
    BY LockStep DEF Next
  <1>1. StateTypes'
    <2>1. size[FileOf[o]] \in Nat
      OBVIOUS
    <2>2. SizeWithHeader(o) \in Nat
      BY <2>1
    <2> QED  BY <2>2
  <1>2. Overlaps'
    BY DEF Overlaps, Active, MidOpen
  <1>3. Flagged'
    BY DEF Flagged
  <1>4. FilesOK'
    BY <1>g DEF FilesOK, SeenOK, DataPages, SawNew
  <1>5. SeenOK'
    BY <1>1 DEF SeenOK, FilesOK, SawNew
  <1>6. Alone'
    BY <1>1 DEF Alone, Overlaps, Active, MidOpen, SeenOK, FilesOK, SawNew, Flagged, DataPages
  <1>7. PagesOK'
    BY <1>g, SMTT(30) DEF PagesOK, Alone, Unraced, SeenOK, FilesOK, DataPages, SawNew
  <1> QED  BY <1>0, <1>1, <1>2, <1>3, <1>4, <1>5, <1>6, <1>7

LEMMA LockKeeps ==
  ASSUME OpenInv, NEW o \in Openers, Lock(o)
  PROVE  OpenInv'
  <1> USE OpenFileAssumption DEF OpenInv, LockInv, Types, StateTypes, Places, Headers, Lock,
            At, Goto, headerVars, pageVars, Reserved
  <1>g. \A f \in Files : Given(f)' = Given(f) /\ Apart(f)' = Apart(f)
    BY GivenAlone DEF pageVars
  <1>0. LockInv'
    BY LockStep DEF Next
  <1>1. StateTypes'
    OBVIOUS
  <1>2. Overlaps'
    BY DEF Overlaps, Active, MidOpen
  <1>3. Flagged'
    BY DEF Flagged
  <1>4. FilesOK'
    BY <1>g DEF FilesOK
  <1>5. SeenOK'
    BY DEF SeenOK, SawNew
  <1>6. Alone'
    BY DEF Alone
  <1>7. PagesOK'
    <2>1. PagesOK /\ size' = size /\ free' = free /\ header' = header /\ raced \subseteq raced'
      OBVIOUS
    <2> QED  BY ONLY <1>g, <2>1, PagesStay
  <1> QED  BY <1>0, <1>1, <1>2, <1>3, <1>4, <1>5, <1>6, <1>7

LEMMA SkipKeeps ==
  ASSUME OpenInv, NEW o \in Openers, Skip(o)
  PROVE  OpenInv'
  <1> USE OpenFileAssumption DEF OpenInv, LockInv, Types, StateTypes, Places, Headers, Skip,
            At, Goto, headerVars, pageVars, Reserved
  <1>g. \A f \in Files : Given(f)' = Given(f) /\ Apart(f)' = Apart(f)
    BY GivenAlone DEF pageVars
  <1>0. LockInv'
    BY LockStep DEF Next
  <1>1. StateTypes'
    OBVIOUS
  <1>2. Overlaps'
    BY DEF Overlaps, Active, MidOpen
  <1>3. Flagged'
    BY DEF Flagged
  <1>4. FilesOK'
    BY <1>g DEF FilesOK
  <1>5. SeenOK'
    BY DEF SeenOK, SawNew
  <1>6. Alone'
    <2>1. ASSUME o \notin raced PROVE pending[FileOf[o]] = {}
      <3> SUFFICES ASSUME replaying[ProcOf[o]] PROVE FALSE
        OBVIOUS
      <3>0. Flagged /\ replaying[ProcOf[o]] /\ ProcOf[o] \in Procs
        BY DEF Procs
      <3>1. PICK x \in Openers : ProcOf[x] = ProcOf[o] /\ At(x, "replaying")
        BY ONLY <3>0 DEF Flagged
      <3>2. x # o /\ MidOpen(x) /\ MidOpen(o)
        BY <3>1 DEF MidOpen
      <3> QED  BY <2>1, <3>1, <3>2 DEF Overlaps
    <2> QED  BY <2>1 DEF Alone
  <1>7. PagesOK'
    <2>1. PagesOK /\ size' = size /\ free' = free /\ header' = header /\ raced \subseteq raced'
      OBVIOUS
    <2> QED  BY ONLY <1>g, <2>1, PagesStay
  <1> QED  BY <1>0, <1>1, <1>2, <1>3, <1>4, <1>5, <1>6, <1>7

LEMMA BeginReplayKeeps ==
  ASSUME OpenInv, NEW o \in Openers, BeginReplay(o)
  PROVE  OpenInv'
  <1> USE OpenFileAssumption DEF OpenInv, LockInv, Types, StateTypes, Places, Headers,
            BeginReplay, At, Goto, headerVars, pageVars, Reserved
  <1>g. \A f \in Files : Given(f)' = Given(f) /\ Apart(f)' = Apart(f)
    BY GivenAlone DEF pageVars
  <1>0. LockInv'
    BY LockStep DEF Next
  <1>1. StateTypes'
    OBVIOUS
  <1>2. Overlaps'
    BY DEF Overlaps, Active, MidOpen
  <1>3. Flagged'
    BY DEF Flagged
  <1>4. FilesOK'
    BY <1>g DEF FilesOK
  <1>5. SeenOK'
    BY DEF SeenOK, SawNew
  <1>6. Alone'
    BY DEF Alone
  <1>7. PagesOK'
    <2>1. PagesOK /\ size' = size /\ free' = free /\ header' = header /\ raced \subseteq raced'
      OBVIOUS
    <2> QED  BY ONLY <1>g, <2>1, PagesStay
  <1> QED  BY <1>0, <1>1, <1>2, <1>3, <1>4, <1>5, <1>6, <1>7

LEMMA EndReplayKeeps ==
  ASSUME OpenInv, NEW o \in Openers, EndReplay(o)
  PROVE  OpenInv'
  <1> USE OpenFileAssumption DEF OpenInv, LockInv, Types, StateTypes, Places, Headers,
            EndReplay, Applied, At, Goto, headerVars, pageVars, Reserved
  <1>g. \A f \in Files : Given(f)' = Given(f) /\ Apart(f)' = Apart(f)
    BY GivenAlone DEF pageVars
  <1>0. LockInv'
    BY LockStep DEF Next
  <1>a. size' = size
    <2>1. size[FileOf[o]] \in Nat /\ pending[FileOf[o]] \subseteq DataPages(size[FileOf[o]])
      BY DEF FilesOK
    <2>2. Holding(size[FileOf[o]], pending[FileOf[o]]) = size[FileOf[o]]
      BY <2>1, HoldingAll
    <2> QED  BY <2>2
  <1>1. StateTypes'
    BY <1>a
  <1>2. Overlaps'
    BY DEF Overlaps, Active, MidOpen
  <1>3. Flagged'
    BY DEF Flagged
  <1>4. FilesOK'
    BY <1>g, <1>a, <1>1 DEF FilesOK, SeenOK, DataPages, SawNew
  <1>5. SeenOK'
    BY DEF SeenOK, SawNew
  <1>6. Alone'
    <2>1. pending'[FileOf[o]] = {} /\ \A f \in Files : pending[f] = {} => pending'[f] = {}
      OBVIOUS
    <2>2. ASSUME NEW x \in Openers \ raced
          PROVE  At(x, "open")' => pending'[FileOf[x]] = {}
      BY <2>1 DEF Alone
    <2>3. ASSUME NEW x \in Openers \ raced
          PROVE  /\ At(x, "seen")' => (seen[x] = <<size[FileOf[x]], header[FileOf[x]]>>)'
                 /\ At(x, "upgraded")' => (seen[x][1] = size[FileOf[x]])'
                 /\ At(x, "rejected")' => (header[FileOf[x]] = "other" \/ wal[FileOf[x]] = "old")'
      BY <1>a DEF Alone
    <2>4. ASSUME NEW x \in Openers \ raced
          PROVE  pc'[x] \in {"mapped", "locked", "replaying", "open"} => (nextId[x] = size[FileOf[x]])'
      BY <1>a DEF Alone
    <2> QED  BY <2>2, <2>3, <2>4 DEF Alone
  <1>7. PagesOK'
    BY <1>g, <1>a, <1>1, SMTT(30) DEF PagesOK, Alone, Unraced, SeenOK, FilesOK, DataPages, SawNew
  <1> QED  BY <1>0, <1>1, <1>2, <1>3, <1>4, <1>5, <1>6, <1>7

LEMMA AllocPageKeeps ==
  ASSUME OpenInv, NEW o \in Openers, AllocPage(o)
  PROVE  OpenInv'
  <1> USE OpenFileAssumption DEF OpenInv, LockInv, Types, StateTypes, Places, Headers,
            AllocPage, Larger, At, Goto, headerVars, Reserved
  <1>0. LockInv'
    BY LockStep DEF Next
  <1> DEFINE f == FileOf[o]
  <1>a. PICK pid \in IF free[f] = {} THEN {nextId[o]} ELSE free[f] :
          /\ free' = [free EXCEPT ![f] = @ \ {pid}]
          /\ size' = [size EXCEPT ![f] = Larger(@, pid + 1)]
          /\ inHand' = [inHand EXCEPT ![f] = @ \cup {<<pid, o>>}]
    OBVIOUS
  <1>b. /\ f \in Files /\ size[f] \in Nat /\ nextId[o] \in Nat /\ pid \in Nat
        /\ pid >= Reserved
        /\ free[f] # {} => pid < size[f]
    <2>1. f \in Files /\ size[f] \in Nat /\ nextId[o] \in Nat
      OBVIOUS
    <2>2. nextId[o] >= Reserved /\ free[f] \subseteq DataPages(size[f])
      BY <2>1 DEF FilesOK, SeenOK
    <2> QED  BY <1>a, <2>1, <2>2 DEF DataPages
  <1>c. size'[f] = IF pid < size[f] THEN size[f] ELSE pid + 1
    BY <1>a, <1>b
  <1>g. /\ Given(f)' = Given(f) \cup {<<pid, o>>}
        /\ \A g \in Files \ {f} : Given(g)' = Given(g) /\ Apart(g)' = Apart(g)
        /\ Apart(f) /\ <<pid, o>> \notin Given(f) => Apart(f)'
    <2>1. /\ used' = used /\ dropped' = dropped
          /\ inHand'[f] = inHand[f] \cup {<<pid, o>>}
          /\ \A g \in Files \ {f} : inHand'[g] = inHand[g]
      BY <1>a
    <2>2. Given(f)' = Given(f) \cup {<<pid, o>>}
      BY ONLY <2>1 DEF Given
    <2>3. \A g \in Files \ {f} : Given(g)' = Given(g) /\ Apart(g)' = Apart(g)
      BY ONLY <2>1 DEF Given, Apart
    <2>4. Apart(f) /\ <<pid, o>> \notin Given(f) => Apart(f)'
      BY ONLY <2>1 DEF Given, Apart
    <2> QED  BY ONLY <2>2, <2>3, <2>4
  <1>1. StateTypes'
    BY <1>a, <1>b, <1>c
  <1>2. Overlaps'
    BY DEF Overlaps, Active, MidOpen
  <1>3. Flagged'
    BY DEF Flagged
  <1>4. FilesOK'
    BY <1>g, <1>a, <1>b, <1>c, <1>1 DEF FilesOK, SeenOK, DataPages, SawNew
  <1>5. SeenOK'
    BY DEF SeenOK, SawNew
  <1>6. Alone'
    <2>1. \A x \in Openers \ raced : x # o /\ FileOf[x] = f => ~Active(x)
      BY DEF Overlaps, Active, MidOpen
    <2>2. o \notin raced => nextId'[o] = size'[f]
      BY <1>a, <1>b, <1>c DEF Alone
    <2>3. ASSUME NEW x \in Openers \ raced,
                 pc[x] \in {"mapped", "locked", "replaying", "open"}
          PROVE  nextId'[x] = size'[FileOf[x]]
      BY <1>a, <2>1, <2>2, <2>3 DEF Alone, Active, MidOpen
    <2>4. ASSUME NEW x \in Openers \ raced, pc[x] \in {"seen", "upgraded"}
          PROVE  size'[FileOf[x]] = size[FileOf[x]]
      BY <1>a, <2>1, <2>4 DEF Active, MidOpen
    <2>5. ASSUME NEW x \in Openers \ raced
          PROVE  /\ At(x, "seen") => seen[x] = <<size'[FileOf[x]], header[FileOf[x]]>>
                 /\ At(x, "upgraded") => seen[x][1] = size'[FileOf[x]]
      BY <2>4 DEF Alone
    <2>6. pc' = pc /\ raced' = raced /\ seen' = seen /\ header' = header /\ wal' = wal /\ pending' = pending
      OBVIOUS
    <2>7. ASSUME NEW x \in Openers \ raced
          PROVE  /\ At(x, "open") => pending[FileOf[x]] = {}
                 /\ At(x, "rejected") => header[FileOf[x]] = "other" \/ wal[FileOf[x]] = "old"
      BY DEF Alone
    <2> HIDE DEF OpenInv, AllocPage
    <2> QED  BY <2>3, <2>5, <2>6, <2>7 DEF Alone
  <1>7. PagesOK'
    <2> SUFFICES ASSUME NEW g \in Unraced'
                 PROVE  /\ Apart(g)'
                        /\ \A u \in Given(g)' : u[1] \notin free'[g]
                        /\ \A a, b \in Given(g)' : a[1] = b[1] => a = b
                        /\ \A p \in DataPages(size'[g]) : p \in free'[g] \/ \E u \in Given(g)' : u[1] = p
                        /\ header'[g] = "v1" => free'[g] = {}
      BY DEF PagesOK
    <2>1. g \in Unraced
      BY DEF Unraced
    <2>2. CASE g # f
      BY <1>a, <1>g, <2>1, <2>2 DEF PagesOK, Unraced
    <2>3. CASE g = f
      <3>1. o \notin raced
        BY <2>1, <2>3 DEF Unraced
      <3>2. free[f] = {} => pid = size[f]
        BY <1>a, <3>1 DEF Alone
      <3>3. \A u \in Given(f) : u[1] # pid /\ u[1] \in DataPages(size[f])
        BY <1>a, <1>b, <2>1, <2>3, <3>2 DEF PagesOK, FilesOK, DataPages
      <3>4. Given(f)' = Given(f) \cup {<<pid, o>>} /\ free'[f] = free[f] \ {pid}
        BY <1>a, <1>b, <1>g
      <3>5. \A p \in DataPages(size'[f]) : p \in DataPages(size[f]) \/ p = pid
        <4>1. pid <= size[f]
          BY <1>b, <3>2
        <4> QED  BY <1>b, <1>c, <4>1, DataPagesGrow
      <3>6. header'[f] = header[f]
        OBVIOUS
      <3>7. \A p \in DataPages(size'[f]) : p \in free'[f] \/ \E u \in Given(f)' : u[1] = p
        <4>1. \A p \in DataPages(size[f]) : p \in free[f] \/ \E u \in Given(f) : u[1] = p
          BY <2>1, <2>3 DEF PagesOK
        <4>2. <<pid, o>>[1] = pid
          OBVIOUS
        <4> HIDE DEF OpenInv, AllocPage
        <4>3. <<pid, o>> \in Given(f)' /\ Given(f) \subseteq Given(f)'
          BY <3>4
        <4>4. ASSUME NEW p \in DataPages(size'[f]), p # pid
              PROVE  p \in free'[f] \/ \E u \in Given(f)' : u[1] = p
          BY <3>4, <3>5, <4>1, <4>3, <4>4
        <4> QED  BY <4>2, <4>3, <4>4
      <3>8. /\ \A u \in Given(f) : u[1] \notin free[f]
            /\ \A a, b \in Given(f) : a[1] = b[1] => a = b
            /\ header[f] = "v1" => free[f] = {}
            /\ Apart(f)
        <4>1. PagesOK /\ f \in Unraced
          BY <2>1, <2>3
        <4> QED  BY ONLY <4>1 DEF PagesOK
      <3>9. <<pid, o>>[1] = pid
        OBVIOUS
      <3> HIDE DEF OpenInv, AllocPage
      <3>10. \A u \in Given(f)' : u[1] \notin free'[f]
        BY <3>4, <3>8, <3>9
      <3>11. \A a, b \in Given(f)' : a[1] = b[1] => a = b
        BY <3>3, <3>4, <3>8, <3>9
      <3>12. Apart(f)'
        BY <1>g, <3>3, <3>8, <3>9
      <3> QED  BY <2>3, <3>12, <3>4, <3>6, <3>7, <3>8, <3>10, <3>11
    <2> QED  BY <2>2, <2>3
  <1> QED  BY <1>0, <1>1, <1>2, <1>3, <1>4, <1>5, <1>6, <1>7

LEMMA CommitKeeps ==
  ASSUME OpenInv, NEW o \in Openers, Commit(o)
  PROVE  OpenInv'
  <1> USE OpenFileAssumption DEF OpenInv, LockInv, Types, StateTypes, Places, Headers,
            Commit, At, Goto, headerVars, Reserved
  <1>g. \A f \in Files : Given(f)' = Given(f) /\ (Apart(f) => Apart(f)')
    BY DEF Given, Apart, InHandOf
  <1>0. LockInv'
    BY LockStep DEF Next
  <1>1. StateTypes'
    BY DEF InHandOf
  <1>2. Overlaps'
    BY DEF Overlaps, Active, MidOpen
  <1>3. Flagged'
    BY DEF Flagged
  <1>4. FilesOK'
    BY <1>g DEF FilesOK
  <1>5. SeenOK'
    BY DEF SeenOK, SawNew
  <1>6. Alone'
    BY DEF Alone
  <1>7. PagesOK'
    BY <1>g DEF PagesOK, Unraced
  <1> QED  BY <1>0, <1>1, <1>2, <1>3, <1>4, <1>5, <1>6, <1>7

LEMMA RollbackKeeps ==
  ASSUME OpenInv, NEW o \in Openers, Rollback(o)
  PROVE  OpenInv'
  <1> USE OpenFileAssumption DEF OpenInv, LockInv, Types, StateTypes, Places, Headers,
            Rollback, At, Goto, headerVars, Reserved
  <1>g. \A f \in Files : Given(f)' = Given(f) /\ (Apart(f) => Apart(f)')
    BY GivenMoves
  <1>h. {used', inHand', dropped'} \subseteq [Files -> SUBSET (Nat \X (Openers \cup {Nobody}))]
    BY DroppedTypes
  <1>0. LockInv'
    BY LockStep DEF Next
  <1>1. StateTypes'
    BY <1>h
  <1>2. Overlaps'
    BY DEF Overlaps, Active, MidOpen
  <1>3. Flagged'
    BY DEF Flagged
  <1>4. FilesOK'
    BY <1>g DEF FilesOK
  <1>5. SeenOK'
    BY DEF SeenOK, SawNew
  <1>6. Alone'
    BY DEF Alone
  <1>7. PagesOK'
    BY <1>g DEF PagesOK, Unraced
  <1> QED  BY <1>0, <1>1, <1>2, <1>3, <1>4, <1>5, <1>6, <1>7

LEMMA FreePageKeeps ==
  ASSUME OpenInv, NEW o \in Openers, FreePage(o)
  PROVE  OpenInv'
  <1> USE OpenFileAssumption DEF OpenInv, LockInv, Types, StateTypes, Places, Headers,
            FreePage, At, Goto, headerVars, Reserved
  <1> DEFINE f == FileOf[o]
  <1>a. PICK u \in used[f] : /\ used' = [used EXCEPT ![f] = @ \ {u}]
                             /\ free' = [free EXCEPT ![f] = @ \cup {u[1]}]
    OBVIOUS
  <1>g. /\ u \in Given(f)
        /\ \A x \in Files : Given(x)' \subseteq Given(x) /\ (Apart(x) => Apart(x)')
        /\ \A x \in Files \ {f} : Given(x)' = Given(x)
        /\ Apart(f) => Given(f)' = Given(f) \ {u}
    BY <1>a DEF Given, Apart
  <1>0. LockInv'
    BY LockStep DEF Next
  <1>1. StateTypes'
    OBVIOUS
  <1>2. Overlaps'
    BY DEF Overlaps, Active, MidOpen
  <1>3. Flagged'
    BY DEF Flagged
  <1>4. FilesOK'
    BY <1>a, <1>g DEF FilesOK
  <1>5. SeenOK'
    BY DEF SeenOK, SawNew
  <1>6. Alone'
    BY DEF Alone
  <1>7. PagesOK'
    <2> SUFFICES ASSUME NEW g \in Unraced'
                 PROVE  /\ Apart(g)'
                        /\ \A x \in Given(g)' : x[1] \notin free'[g]
                        /\ \A a, b \in Given(g)' : a[1] = b[1] => a = b
                        /\ \A p \in DataPages(size'[g]) : p \in free'[g] \/ \E x \in Given(g)' : x[1] = p
                        /\ header'[g] = "v1" => free'[g] = {}
      BY DEF PagesOK
    <2>1. g \in Unraced /\ g \in Files
      BY DEF Unraced
    <2>2. /\ Apart(g)
          /\ \A x \in Given(g) : x[1] \notin free[g]
          /\ \A a, b \in Given(g) : a[1] = b[1] => a = b
          /\ \A p \in DataPages(size[g]) : p \in free[g] \/ \E x \in Given(g) : x[1] = p
          /\ header[g] = "v1" => free[g] = {}
      BY <2>1 DEF PagesOK
    <2>3. size' = size /\ header' = header
      OBVIOUS
    <2>4. CASE g # f
      BY <1>a, <1>g, <2>1, <2>2, <2>3, <2>4
    <2>5. CASE g = f
      <3>1. Given(g)' = Given(g) \ {u} /\ free'[g] = free[g] \cup {u[1]} /\ Apart(g)'
        BY <1>a, <1>g, <2>1, <2>2, <2>5
      <3>2. header[g] # "v1"
        BY <2>5 DEF SeenOK
      <3> HIDE DEF OpenInv, FreePage
      <3> QED  BY <1>g, <2>2, <2>3, <2>5, <3>1, <3>2
    <2> QED  BY <2>4, <2>5
  <1> QED  BY <1>0, <1>1, <1>2, <1>3, <1>4, <1>5, <1>6, <1>7

LEMMA CreateLogKeeps ==
  ASSUME OpenInv, NEW o \in Openers, CreateLog(o)
  PROVE  OpenInv'
  <1> USE OpenFileAssumption DEF OpenInv, LockInv, Types, StateTypes, Places, Headers,
            CreateLog, At, Goto, headerVars, pageVars, Reserved
  <1>g. \A f \in Files : Given(f)' = Given(f) /\ Apart(f)' = Apart(f)
    BY GivenAlone DEF pageVars
  <1>0. LockInv'
    BY LockStep DEF Next
  <1>1. StateTypes'
    OBVIOUS
  <1>2. Overlaps'
    BY DEF Overlaps, Active, MidOpen
  <1>3. Flagged'
    BY DEF Flagged
  <1>4. FilesOK'
    BY <1>g DEF FilesOK, SeenOK, DataPages, SawNew
  <1>5. SeenOK'
    BY DEF SeenOK, SawNew
  <1>6. Alone'
    BY DEF Alone
  <1>7. PagesOK'
    <2>1. PagesOK /\ size' = size /\ free' = free /\ header' = header /\ raced \subseteq raced'
      OBVIOUS
    <2> QED  BY ONLY <1>g, <2>1, PagesStay
  <1> QED  BY <1>0, <1>1, <1>2, <1>3, <1>4, <1>5, <1>6, <1>7

LEMMA CloseKeeps ==
  ASSUME OpenInv, NEW o \in Openers, Close(o)
  PROVE  OpenInv'
  <1> USE OpenFileAssumption DEF OpenInv, LockInv, Types, StateTypes, Places, Headers, Close,
            Ended, At, Goto, headerVars, Reserved
  <1>g. \A f \in Files : Given(f)' = Given(f) /\ (Apart(f) => Apart(f)')
    BY GivenMoves
  <1>h. {used', inHand', dropped'} \subseteq [Files -> SUBSET (Nat \X (Openers \cup {Nobody}))]
    BY DroppedTypes
  <1>0. LockInv'
    BY LockStep DEF Next
  <1>1. StateTypes'
    BY <1>h
  <1>2. Overlaps'
    BY DEF Overlaps, Active, MidOpen
  <1>3. Flagged'
    BY DEF Flagged
  <1>4. FilesOK'
    BY <1>g DEF FilesOK
  <1>5. SeenOK'
    BY DEF SeenOK, SawNew
  <1>6. Alone'
    BY DEF Alone
  <1>7. PagesOK'
    BY <1>g DEF PagesOK, Unraced
  <1> QED  BY <1>0, <1>1, <1>2, <1>3, <1>4, <1>5, <1>6, <1>7

LEMMA DieKeeps ==
  ASSUME OpenInv, NEW q \in Procs, Die(q)
  PROVE  OpenInv'
  <1> USE OpenFileAssumption DEF OpenInv, LockInv, Types, StateTypes, Places, Headers, Die,
            Ended, At,
          headerVars, Reserved
  <1>m. Dropped({o \in Openers : ProcOf[o] = q}) /\ used' = used
    OBVIOUS
  <1>g. \A f \in Files : Given(f)' = Given(f) /\ (Apart(f) => Apart(f)')
    BY GivenMoves, <1>m
  <1>h. {used', inHand', dropped'} \subseteq [Files -> SUBSET (Nat \X (Openers \cup {Nobody}))]
    BY DroppedTypes, <1>m
  <1>0. LockInv'
    BY LockStep DEF Next
  <1>1. StateTypes'
    BY <1>h
  <1>2. Overlaps'
    BY DEF Overlaps, Active, MidOpen
  <1>3. Flagged'
    <2>1. ASSUME NEW p \in Procs, replaying'[p]
          PROVE  \E x \in Openers : ProcOf[x] = p /\ At(x, "replaying")'
      <3>1. p # q /\ replaying[p]
        BY <2>1
      <3>2. PICK x \in Openers : ProcOf[x] = p /\ At(x, "replaying")
        BY <3>1 DEF Flagged
      <3> QED  BY <3>1, <3>2
    <2> QED  BY <2>1 DEF Flagged
  <1>4. FilesOK'
    BY <1>g DEF FilesOK
  <1>5. SeenOK'
    BY DEF SeenOK, SawNew
  <1>6. Alone'
    BY DEF Alone
  <1>7. PagesOK'
    BY <1>g DEF PagesOK, Unraced
  <1> QED  BY <1>0, <1>1, <1>2, <1>3, <1>4, <1>5, <1>6, <1>7

LEMMA OpenInit == Init => OpenInv
  <1> SUFFICES ASSUME Init PROVE OpenInv
    OBVIOUS
  <1>1. PICK found \in [Files -> UNION {Kinds[f] : f \in Files}] :
          /\ \A f \in Files : found[f] \in Kinds[f]
          /\ header = [f \in Files |-> found[f].header]
          /\ free = [f \in Files |-> found[f].free]
          /\ wal = [f \in Files |-> IF found[f].wal THEN "old" ELSE "none"]
          /\ size = [f \in Files |-> found[f].size]
          /\ pending = [f \in Files |-> found[f].log]
          /\ used = [f \in Files |-> (DataPages(found[f].size) \ found[f].free) \X {Nobody}]
          /\ inHand = [f \in Files |-> {}] /\ dropped = [f \in Files |-> {}]
    BY DEF Init
  <1>2. ASSUME NEW f \in Files
        PROVE  /\ header[f] \in Headers /\ wal[f] \in {"none", "old"}
               /\ IF header[f] = "none" THEN size[f] = 0 ELSE size[f] \in Nat /\ size[f] >= Reserved
               /\ free[f] \subseteq DataPages(size[f])
               /\ pending[f] \subseteq DataPages(size[f])
               /\ header[f] = "v1" => free[f] = {}
               /\ used[f] = (DataPages(size[f]) \ free[f]) \X {Nobody}
               /\ Given(f) = used[f] /\ Apart(f)
    BY <1>1, KindsAssumption DEF Given, Apart
  <1>3. ASSUME NEW f \in Files
        PROVE  size[f] \in Nat /\ DataPages(size[f]) \subseteq Nat
    BY <1>2 DEF DataPages, Reserved
  <1>4. LockInv
    BY OpenFileAssumption DEF Init, LockInv, Types, Held, InSession, Places
  <1>5. StateTypes
    <2>1. /\ replaying \in [Procs -> BOOLEAN] /\ seen \in [Openers -> Nat \X Headers]
          /\ nextId \in [Openers -> Nat] /\ raced \subseteq Openers
      BY DEF Init, Headers, Reserved
    <2>2. header \in [Files -> Headers] /\ wal \in [Files -> {"none", "old", "ours"}]
      BY <1>1, <1>2
    <2>3. /\ size \in [Files -> Nat] /\ free \in [Files -> SUBSET Nat]
          /\ pending \in [Files -> SUBSET Nat]
      BY <1>1, <1>2, <1>3
    <2>4. {used, inHand, dropped} \subseteq [Files -> SUBSET (Nat \X (Openers \cup {Nobody}))]
      BY <1>1, <1>2, <1>3
    <2> QED  BY <2>1, <2>2, <2>3, <2>4 DEF StateTypes
  <1>6. Overlaps /\ Flagged
    BY DEF Init, Overlaps, Flagged, Active, MidOpen, At
  <1>7. FilesOK
    BY <1>2, <1>3 DEF FilesOK, Reserved, Headers
  <1>8. SeenOK /\ Alone
    BY DEF Init, SeenOK, Alone, At, Reserved
  <1>9. PagesOK
    <2> SUFFICES ASSUME NEW f \in Files
                 PROVE  /\ Apart(f)
                        /\ \A u \in Given(f) : u[1] \notin free[f]
                        /\ \A a, b \in Given(f) : a[1] = b[1] => a = b
                        /\ \A p \in DataPages(size[f]) : p \in free[f] \/ \E u \in Given(f) : u[1] = p
                        /\ header[f] = "v1" => free[f] = {}
      BY DEF PagesOK, Unraced
    <2>1. \A u \in Given(f) : u = <<u[1], Nobody>> /\ u[1] \in DataPages(size[f]) \ free[f]
      BY <1>2
    <2>2. \A p \in DataPages(size[f]) \ free[f] : <<p, Nobody>> \in Given(f) /\ <<p, Nobody>>[1] = p
      BY <1>2
    <2>3. \A p \in DataPages(size[f]) : p \in free[f] \/ \E u \in Given(f) : u[1] = p
      BY <2>2
    <2>4. \A a, b \in Given(f) : a[1] = b[1] => a = b
      BY <2>1
    <2>5. header[f] = "v1" => free[f] = {}
      BY <1>2
    <2> QED  BY <1>2, <2>1, <2>3, <2>4, <2>5
  <1> QED  BY <1>4, <1>5, <1>6, <1>7, <1>8, <1>9 DEF OpenInv

LEMMA OpenStep == OpenInv /\ [Next]_vars => OpenInv'
  <1> SUFFICES ASSUME OpenInv, [Next]_vars PROVE OpenInv'
    OBVIOUS
  <1>1. CASE \E o \in Openers : Look(o) \/ Reject(o) \/ Upgrade(o) \/ Map(o)
    BY <1>1, LookKeeps, RejectKeeps, UpgradeKeeps, MapKeeps
  <1>2. CASE \E o \in Openers : Lock(o) \/ Skip(o) \/ BeginReplay(o) \/ EndReplay(o)
    BY <1>2, LockKeeps, SkipKeeps, BeginReplayKeeps, EndReplayKeeps
  <1>3. CASE \E o \in Openers : AllocPage(o) \/ Commit(o) \/ Rollback(o) \/ FreePage(o)
                           \/ CreateLog(o) \/ Close(o)
    BY <1>3, AllocPageKeeps, CommitKeeps, RollbackKeeps, FreePageKeeps, CreateLogKeeps,
       CloseKeeps
  <1>4. CASE \E p \in Procs : Die(p)
    BY <1>4, DieKeeps
  <1>5. CASE UNCHANGED vars
    <2> USE <1>5 DEF vars
    <2>1. LockInv'
      BY LockStep DEF OpenInv
    <2>2. StateTypes'
      BY DEF OpenInv, StateTypes
    <2>3. Overlaps' /\ Flagged'
      BY DEF OpenInv, Overlaps, Flagged, Active, MidOpen, At
    <2>g. \A f \in Files : Given(f)' = Given(f) /\ Apart(f)' = Apart(f)
      BY GivenAlone
    <2>4. FilesOK' /\ PagesOK'
      BY <2>g DEF OpenInv, FilesOK, PagesOK, Unraced
    <2>5. SeenOK'
      BY DEF OpenInv, SeenOK, SawNew, At
    <2>6. Alone'
      BY DEF OpenInv, Alone, At
    <2> QED  BY <2>1, <2>2, <2>3, <2>4, <2>5, <2>6 DEF OpenInv
  <1> QED  BY <1>1, <1>2, <1>3, <1>4, <1>5 DEF Next

LEMMA OpenInvariant == Spec => []OpenInv
  BY OpenInit, OpenStep, PTL DEF Spec

(***************************************************************************)
(* No page id is given out twice on a file whose calls did not overlap:    *)
(* _next_page_id is the end of the file whenever a session runs, and the   *)
(* free list has no page in use (alloc_page, free_page, the reseed in      *)
(* Pager.__init__), for any calls, crashes and upgrades before.            *)
(***************************************************************************)
THEOREM PageIdsFresh == Spec => []FreshPages
  <1>1. OpenInv => FreshPages
    BY DEF OpenInv, PagesOK, FreshPages
  <1> QED  BY <1>1, OpenInvariant, PTL

(***************************************************************************)
(* On such a file every page is on the free list, in use or in hand of a   *)
(* transaction, or was in hand of one that ended without COMMIT, which is  *)
(* all that a death loses; and no page given out is on the list.  The      *)
(* upgrade of a header clears the list of v1 files only, which have none.  *)
(***************************************************************************)
THEOREM PagesAccounted == Spec => []PagesAccountedFor
  <1>1. OpenInv => PagesAccountedFor
    BY DEF OpenInv, PagesOK, PagesAccountedFor
  <1> QED  BY <1>1, OpenInvariant, PTL

(***************************************************************************)
(* A file that a session wrote a log for has a v3 header, so a call that   *)
(* met no other is not rejected for it (_open_file, _get_or_open_wal).     *)
(***************************************************************************)
THEOREM UpgradedStaysOpenable == Spec => []StaysOpenable
  <1>1. OpenInv => StaysOpenable
    BY OpenFileAssumption DEF OpenInv, Alone, FilesOK, StaysOpenable
  <1> QED  BY <1>1, OpenInvariant, PTL

(***************************************************************************)
(* A Database whose open met no other of its process has replayed its log: *)
(* _REPLAY_IN_PROGRESS turns a replay away only while another call of the  *)
(* process replays, and is never left set.                                 *)
(***************************************************************************)
THEOREM RecoveredWhenOpen == Spec => []OpenedRecovered
  <1>1. OpenInv => OpenedRecovered
    BY DEF OpenInv, Alone, OpenedRecovered
  <1> QED  BY <1>1, OpenInvariant, PTL
-----------------------------------------------------------------------------
(***************************************************************************)
(* The threads that share a Database once it is open (SharedDatabase).     *)
(***************************************************************************)
ThreadPlaces ==
  {"idle", "entered", "locked", "running", "planning", "flushing", "closing", "leaving"}

ThreadTypes ==
  /\ threads \in [Threads -> [at : ThreadPlaces, call : Methods,
     raised : BOOLEAN]]
  /\ closed \in BOOLEAN

Inside(t) == threads[t].at \notin {"idle", "entered"}

\* A thread between the entry and the exit of a call has the lock.
Mutex == \A t \in Threads : Inside(t) => lock = t

\* A Pager whose teardown has begun is marked closed; a call that has passed
\* the check meets one that is not.
MarkedClosed ==
  /\ handles # AllHandles => closed
  /\ \A t \in Threads : /\ Stands(t, "closing") => closed
                        /\ threads[t].at \in {"running", "flushing"} => ~closed

ThreadInv == ThreadTypes /\ Mutex /\ MarkedClosed

\* While no step of Pager.close has raised, a Database marked closed is torn
\* down or being torn down, and a close() about to return has met it so.
TornDown ==
  /\ \A t \in Threads :
       threads[t].at \in {"running", "planning"} => threads[t].call # "close"
  /\ ~torn =>
       /\ closed => handles = << >> \/ \E t \in Threads : Stands(t, "closing")
       /\ \A t \in Threads :
            Stands(t, "leaving") /\ threads[t].call = "close" => handles = << >>
       /\ closeReturned => handles = << >>

USE DEF Stands

LEMMA ThreadsBegin == ThreadsInit => ThreadInv
  <1> SUFFICES ASSUME ThreadsInit PROVE ThreadInv
    OBVIOUS
  <1>1. \A t \in Threads : threads[t].at = "idle"
    BY DEF ThreadsInit
  <1>2. ThreadTypes
    BY DEF ThreadsInit, ThreadTypes, ThreadPlaces, Methods
  <1> QED  BY <1>1, <1>2 DEF ThreadsInit, ThreadInv, Mutex, MarkedClosed, Inside

\* What every step does to threads: one thread moves.
LEMMA StepThreadTypes ==
  ASSUME ThreadInv, NEW t \in Threads,
         Step(t) \/ \E kind \in Methods : Call(t, kind)
  PROVE  ThreadTypes' /\ \A u \in Threads \ {t} : threads'[u] = threads[u]
  <1>1. CASE \E kind \in Methods : Call(t, kind)
    BY <1>1 DEF ThreadInv, ThreadTypes, ThreadPlaces, Call
  <1>2. CASE Statements(t) \/ Plan(t)
    BY <1>2 DEF ThreadInv, ThreadTypes, ThreadPlaces, Statements, Plan
  <1>3. CASE Flush(t)
    <2>1. PICK raised \in {FALSE, CloseFails} :
            threads' = [threads EXCEPT ![t].at = "closing", ![t].raised = raised]
      BY <1>3 DEF Flush
    <2>2. raised \in BOOLEAN
      BY SharedDatabaseAssumption, Zenon
    <2>3. closed' \in BOOLEAN
      BY <1>3 DEF Flush
    <2> QED  BY <2>1, <2>2, <2>3 DEF ThreadInv, ThreadTypes, ThreadPlaces
  <1>4. CASE Acquire(t) \/ Return(t)
    BY <1>4 DEF ThreadInv, ThreadTypes, ThreadPlaces, Acquire, Return, MoveTo
  <1>5. CASE Release(t)
    BY <1>5 DEF ThreadInv, ThreadTypes, ThreadPlaces, Release, MoveTo
  <1>6. CASE Check(t)
    <2>1. CASE closed
      BY <1>6, <2>1 DEF ThreadInv, ThreadTypes, ThreadPlaces, Check
    <2>2. CASE ~closed
      BY <1>6, <2>2 DEF ThreadInv, ThreadTypes, ThreadPlaces, Methods,
         Check, MoveTo
    <2> QED  BY <2>1, <2>2
  <1> QED  BY <1>1, <1>2, <1>3, <1>4, <1>5, <1>6 DEF Step

LEMMA StepMutex ==
  ASSUME Locking, ThreadInv, NEW t \in Threads,
         Step(t) \/ \E kind \in Methods : Call(t, kind)
  PROVE  Mutex'
  <1>1. \A u \in Threads \ {t} : threads'[u] = threads[u]
    BY StepThreadTypes
  <1>2. CASE \E kind \in Methods : Call(t, kind)
    BY <1>2 DEF ThreadInv, ThreadTypes, Mutex, Inside, Call
  <1>3. CASE Acquire(t)
    BY <1>1, <1>3, SharedDatabaseAssumption DEF ThreadInv, ThreadTypes,
       Mutex, Inside, Acquire, MoveTo
  <1>4. CASE Check(t) \/ Statements(t) \/ Plan(t) \/ Flush(t) \/ Release(t)
    <2>1. Inside(t) /\ lock' = lock
      BY <1>4 DEF Inside, Check, Statements, Plan, Flush, Release
    <2> QED  BY <1>1, <2>1 DEF ThreadInv, Mutex, Inside
  <1>5. CASE Return(t)
    <2>1. lock = t /\ ~Inside(t)'
      BY <1>5 DEF ThreadInv, ThreadTypes, Mutex, Inside, Return, MoveTo
    <2> QED  BY <1>1, <2>1 DEF ThreadInv, Mutex, Inside
  <1> QED  BY <1>2, <1>3, <1>4, <1>5 DEF Step

LEMMA StepMarked ==
  ASSUME Locking, ThreadInv, NEW t \in Threads,
         Step(t) \/ \E kind \in Methods : Call(t, kind)
  PROVE  MarkedClosed'
  <1>1. \A u \in Threads \ {t} : threads'[u] = threads[u]
    BY StepThreadTypes
  <1>2. CASE Flush(t)
    <2>1. \A u \in Threads \ {t} : ~Inside(u)
      BY <1>2 DEF ThreadInv, Mutex, Inside, Flush
    <2>2. threads'[t].at = "closing" /\ closed'
      BY <1>2 DEF ThreadInv, ThreadTypes, Flush
    <2> QED  BY <1>1, <2>1, <2>2 DEF MarkedClosed, Inside
  <1>3. CASE Release(t)
    <2>1. threads'[t].at \in {"closing", "leaving"} /\ closed' = closed /\ closed
      BY <1>3 DEF ThreadInv, ThreadTypes, MarkedClosed, Release, MoveTo
    <2> QED  BY <1>1, <2>1 DEF ThreadInv, MarkedClosed
  <1>4. CASE \/ \E kind \in Methods : Call(t, kind)
             \/ Acquire(t) \/ Check(t) \/ Statements(t)
             \/ Plan(t) \/ Return(t)
    <2>1. closed' = closed /\ handles' = handles
      BY <1>4 DEF Call, Acquire, Check, Statements, Plan, Return
    <2>2. /\ threads'[t].at # "closing"
          /\ threads'[t].at \in {"running", "flushing"} => ~closed
      BY <1>4 DEF ThreadInv, ThreadTypes, Methods, Call,
         Acquire, Check, Statements, Plan, Return, MoveTo
    <2> QED  BY <1>1, <2>1, <2>2 DEF ThreadInv, MarkedClosed
  <1> QED  BY <1>2, <1>3, <1>4 DEF Step

LEMMA ThreadsKeep ==
  ASSUME Locking, ThreadInv, [ThreadsNext]_threadVars
  PROVE  ThreadInv'
  <1>1. ASSUME NEW t \in Threads, Step(t) \/ \E kind \in Methods : Call(t, kind)
        PROVE  ThreadInv'
    BY <1>1, StepThreadTypes, StepMutex, StepMarked DEF ThreadInv
  <1>2. CASE UNCHANGED threadVars
    BY <1>2 DEF ThreadInv, ThreadTypes, Mutex, MarkedClosed, Inside, threadVars
  <1> QED  BY <1>1, <1>2 DEF ThreadsNext

(***************************************************************************)
(* No statement runs on a Pager that close has begun to tear down, whether *)
(* or not flush and the steps of Pager.close raise.                        *)
(***************************************************************************)
THEOREM NeverTorn ==
  ASSUME Locking
  PROVE  ThreadsSpec => []NoTornUse
  <1>1. ThreadInv => NoTornUse
    BY DEF ThreadInv, MarkedClosed, NoTornUse
  <1>2. Locking
    OBVIOUS
  <1>3. ASSUME ThreadInv, [ThreadsNext]_threadVars
        PROVE  ThreadInv'
    BY <1>2, <1>3, ThreadsKeep
  <1> QED  BY <1>1, <1>3, ThreadsBegin, PTL DEF ThreadsSpec
-----------------------------------------------------------------------------
LEMMA TornDownStep ==
  ASSUME Locking, ThreadInv, TornDown, [ThreadsNext]_threadVars
  PROVE  TornDown'
  <1>1. CASE UNCHANGED threadVars
    BY <1>1 DEF TornDown, threadVars
  <1>2. ASSUME NEW t \in Threads, Step(t) \/ \E kind \in Methods : Call(t, kind)
        PROVE  TornDown'
    <2>1. \A u \in Threads \ {t} : threads'[u] = threads[u]
      BY <1>2, StepThreadTypes
    <2>2. CASE Flush(t)
      <3>1. \A u \in Threads \ {t} : ~Inside(u)
        BY <2>2 DEF ThreadInv, Mutex, Inside, Flush
      <3>2. /\ threads'[t].at = "closing" /\ handles' = handles
            /\ closeReturned' = closeReturned /\ torn' = torn
        BY <2>2 DEF ThreadInv, ThreadTypes, Flush
      <3> QED  BY <2>1, <3>1, <3>2 DEF TornDown, Inside
    <2>3. CASE Release(t)
      <3>1. \A u \in Threads \ {t} : ~Inside(u)
        BY <2>3 DEF ThreadInv, Mutex, Inside, Release
      <3>2. closed' = closed /\ closeReturned' = closeReturned
        BY <2>3 DEF Release
      <3>3. CASE handles = << >>
        <4>1. threads'[t].at = "leaving" /\ handles' = << >> /\ torn' = torn
          BY <2>3, <3>3 DEF ThreadInv, ThreadTypes, Release, MoveTo
        <4> QED  BY <2>1, <3>1, <3>2, <4>1 DEF TornDown, Inside
      <3>4. CASE handles # << >> /\ torn'
        <4>1. threads'[t].at \in {"closing", "leaving"}
          BY <2>3, <3>4 DEF ThreadInv, ThreadTypes, Release, MoveTo
        <4> QED  BY <2>1, <3>4, <4>1 DEF TornDown
      <3>5. CASE handles # << >> /\ ~torn'
        <4>1. threads'[t].at = "closing" /\ ~torn
          BY <2>3, <3>5 DEF ThreadInv, ThreadTypes, Release, MoveTo
        <4>2. ~closeReturned
          BY <3>5, <4>1 DEF TornDown
        <4> QED  BY <2>1, <3>1, <3>2, <4>1, <4>2 DEF TornDown, Inside
      <3> QED  BY <3>3, <3>4, <3>5
    <2>4. CASE Check(t)
      <3>1. \A u \in Threads \ {t} : ~Inside(u)
        BY <2>4 DEF ThreadInv, Mutex, Inside, Check
      <3>2. ~torn /\ closed => handles = << >>
        BY <2>4, <3>1 DEF ThreadInv, TornDown, Inside, Check
      <3>3. /\ closed' = closed /\ handles' = handles
            /\ closeReturned' = closeReturned /\ torn' = torn
            /\ threads'[t].at = "leaving" => closed
            /\ threads'[t].at \in {"running", "planning"} =>
                 threads'[t].call # "close"
        BY <2>4 DEF ThreadInv, ThreadTypes, Methods, Check, MoveTo
      <3> QED  BY <2>1, <3>1, <3>2, <3>3 DEF TornDown, Inside
    <2>5. CASE \/ \E kind \in Methods : Call(t, kind)
               \/ Acquire(t) \/ Statements(t) \/ Plan(t)
      <3>1. /\ closed' = closed /\ handles' = handles
            /\ closeReturned' = closeReturned /\ torn' = torn
        BY <2>5 DEF Call, Acquire, Statements, Plan
      <3>2. threads[t].at # "closing"
        BY <2>5 DEF Call, Acquire, Statements, Plan
      <3>3. /\ threads'[t].at \notin {"running", "planning"}
            /\ threads'[t].at = "leaving" => threads'[t].call # "close"
        BY <2>5 DEF ThreadInv, ThreadTypes, TornDown, Call,
           Acquire, Statements, Plan, MoveTo
      <3> QED  BY <2>1, <3>1, <3>2, <3>3 DEF TornDown
    <2>6. CASE Return(t)
      BY <2>1, <2>6 DEF ThreadInv, ThreadTypes, TornDown, Return, MoveTo
    <2> QED  BY <1>2, <2>2, <2>3, <2>4, <2>5, <2>6 DEF Step
  <1> QED  BY <1>1, <1>2 DEF ThreadsNext

(***************************************************************************)
(* A close() that has returned has released every handle of the Pager,     *)
(* unless a step of Pager.close has raised: also when the flush raised, or *)
(* another thread's close() did the work.                                  *)
(***************************************************************************)
THEOREM CloseComplete ==
  ASSUME Locking
  PROVE  ThreadsSpec => []CloseReleases
  <1>1. ThreadsInit => ThreadInv /\ TornDown
    BY ThreadsBegin DEF ThreadsInit, TornDown
  <1>2. Locking
    OBVIOUS
  <1>3. ASSUME ThreadInv, TornDown, [ThreadsNext]_threadVars
        PROVE  ThreadInv' /\ TornDown'
    BY <1>2, <1>3, ThreadsKeep, TornDownStep
  <1>4. TornDown => CloseReleases
    BY DEF TornDown, CloseReleases
  <1> QED  BY <1>1, <1>3, <1>4, PTL DEF ThreadsSpec
=============================================================================
