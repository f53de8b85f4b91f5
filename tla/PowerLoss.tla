----------------------------- MODULE PowerLoss -----------------------------
(***************************************************************************)
(* WalStore on a machine that can lose power.  What a system call wrote    *)
(* stays in the operating system's cache until an fsync, and a power loss  *)
(* leaves any of the images the disk may have reached since the last one:  *)
(* for the log, which is one file written in order, one of its contents    *)
(* since then, possibly followed by a torn record; for the main file, a    *)
(* choice page by page, where a page written half is a page of garbage.    *)
(***************************************************************************)
EXTENDS WalStore

CONSTANT TornPage       \* garbage: a page that was being written

ASSUME PowerLossAssumption == TornPage \notin Values

VARIABLES walDisk,      \* images of the log the disk may hold
          mainDisk      \* for each page of main, the images it may hold

disks == <<walDisk, mainDisk>>
allVars == <<vars, disks>>

SyncedDisks(m, w) ==
  /\ walDisk' = {w}
  /\ mainDisk' = [p \in Pages |-> {m[p]}]

PowerInit ==
  /\ Init
  /\ walDisk = {wal}
  /\ mainDisk = [p \in Pages |-> {main[p]}]

\* The beginnings of a log, the last record whole or torn.
Prefixes(w) ==
  UNION {{ [recs |-> {r \in w.recs : r.pos < e}, end |-> e, torn |-> b]
           : b \in BOOLEAN } : e \in {r.pos : r \in w.recs}}

\* Images the log file passes through: an append may be torn; a rewrite
\* empties the file first (_replace_buffer).
LogImages ==
  IF wal.recs \subseteq wal'.recs
  THEN {wal'} \cup (IF wal = wal' THEN {} ELSE {[wal EXCEPT !.torn = TRUE]})
  ELSE {wal', EmptyLog} \cup Prefixes(wal')

\* Mutants: no fsync of the log; an fsync before the COMMIT record.
WalNeverSynced == FALSE
WalSyncedTooEarly == pc \in {"ready", "stmt"} /\ pc' = "logged"

\* Transaction.commit calls fsync_wal; nothing else syncs the log.
WalSynced == pc = "logged" /\ pc' = "flush"

\* Mutant: recovery does not sync the main file.
MainSyncedByCommitOnly == <<pc, pc'>> = <<"flush", "synced">>

\* Transaction.commit and _apply_committed call fsync_main.
MainSynced == <<pc, pc'>> \in {<<"flush", "synced">>, <<"replay", "replayed">>}

DiskFollows ==
  /\ walDisk' = IF WalSynced THEN {wal} ELSE walDisk \cup LogImages
  /\ mainDisk' = [p \in Pages |->
       IF MainSynced THEN {main[p]}
       ELSE IF main'[p] = main[p] THEN mainDisk[p]
       ELSE mainDisk[p] \cup {main'[p], TornPage}]

\* A process that runs ends by Close or with the power; kills are WalStore's.
ProcessStep == Work /\ DiskFollows

\* A transaction whose COMMIT record was not synced may or may not survive.
PowerFails ==
  /\ main' \in {m \in [Pages -> Values \cup {TornPage}] :
                   \A p \in Pages : m[p] \in mainDisk[p]}
  /\ wal' \in walDisk
  /\ EndSession
  /\ SyncedDisks(main', wal')
  /\ legal' = IF pc \in {"flush", "synced"} THEN legal ELSE legal \cup prior
  /\ prior' = {}

PowerNext == ProcessStep \/ PowerFails

PowerSpec == PowerInit /\ [][PowerNext]_allVars

(***************************************************************************)
(* While a session runs, every page of the main file is a whole page image *)
(* and the log can be read to its end: recovery has repaired the pages a   *)
(* power loss tore and cut the record it tore.  The exception is a page of *)
(* a transaction committed after its ROLLBACK had raised (CrashAtomic).    *)
(***************************************************************************)
SessionSeesWholePages ==
  Running /\ ~Lapsed => main \in [Pages -> Values] /\ ~wal.torn

(***************************************************************************)
(* The rule of Wal.fsync: a page goes to the main file only when the log   *)
(* that holds it is on stable storage, with the exception of CrashAtomic.  *)
(***************************************************************************)
LogSyncedBeforeMain ==
  [][main' # main /\ restarts' = restarts /\ ~Lapsed =>
        \A w \in walDisk : Redo(w) = Redo(wal)]_allVars
=============================================================================
