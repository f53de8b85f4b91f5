# tinydb in TLA+

tinydb is a small SQL database in Python (`src/src/tinydb`, 9,300 lines): one
file of 4 KB pages, a write-ahead log beside it, slotted pages for rows, B+trees
for indexes, a hand-written parser, and JOIN queries evaluated by nested loops.
This directory holds TLA+ modules for its parts, TLC runs on small instances and
proofs checked by TLAPS.

To run one check: `tlc -config wal_atomic.cfg MCWalStore`. To check the proofs:
`tlapm WalStoreProofs.tla` (and the other modules named `...Proofs`).
`PROJECT.json` lists every run, the definition a
mutant of which breaks each property, and the source lines behind each definition.

## Inventory

| Part | State | Operations | Talks to |
|---|---|---|---|
| Executor, Transaction (`executor.py`, `transaction.py`, `_executor_snapshot.py`) | current transaction, page buffer, catalogue and its snapshot, next transaction id | BEGIN, COMMIT, ROLLBACK, autocommit around each statement | Pager, Wal |
| Log (`wal.py`) | records in a sidecar file | append page, COMMIT, ROLLBACK; truncate by rewriting; fsync | Pager |
| Recovery (`recovery.py`) | a flag of the process | replay on open, cut a corrupt tail | Wal, Pager |
| Pager (`pager.py`) | file, mmap, next page id, free list in page 0 | alloc, free, read, write, fsync, open, close | FileLock, Wal |
| Slotted page (`slotted_page.py`) | directory of slots, data area | insert, update, delete, get, to and from bytes | Executor |
| Table heap and DML (`executor.py`) | page list of each table | INSERT, UPDATE, DELETE, SELECT by scan or index | slotted page, row codec, index |
| Long rows (`executor.py`) | chains of overflow pages, from the header of a data page | spill, read, free, drop | Pager, slotted page |
| Types and row codec (`type_system.py`, `row_codec.py`) | none | validate, encode, decode | Executor, indexes |
| Indexes (`index_manager.py`, `_index_pager.py`, `btree.py`) | a B+tree per indexed column, in memory | insert, delete, search, range | Pager through IndexPager |
| DROP TABLE (`_executor_drop.py`) | none | frees data, overflow and index pages | free list, catalogue |
| Catalogue (`catalog.py`, `_schema.py`) | tables and columns, page 1, or a chain of pages from it | create, drop, save, load; pack, unpack and rewrite the chain | Executor, Pager |
| Database (`database.py`) | RLock, closed flag | execute, explain_plan, close | Executor, Pager |
| File lock (`_filelock.py`) | an flock | acquire, release | Pager |
| Resolver, plan, join executor (`resolver.py`, `plan.py`, `_join_executor.py`) | none between statements | names to positions, plan nodes, rows | scans |
| Single-table grouping and sorting (`executor.py`, `_executor_sort.py`) | none | aggregates, HAVING, ORDER BY, LIMIT | scans |
| Parser, tokenizer, errors, REPL | none, or the terminal | text to AST, messages | all |

What is hard: a kill or a power loss between any two system calls; errors in the middle
of a commit; two copies of the catalogue, and of page 0, that must come together; pages
that change owner through a free list that is popped outside the transaction and pushed
inside it; rows that move under indexes; byte limits of pages, chunks and segments;
values that change on their way to bytes and back; threads and processes on one file, of
an old version perhaps; and positions of columns, groupings and sorts that are computed
by more than one set of rules. Each is under `hazards` in `PROJECT.json` with the
properties that would catch it.

What makes each part correct:

- transactions: a restart finds whole committed transactions, never a part;
  what a read returns is what a commit would store;
- log and recovery: nothing reaches the main file before the log has it, replay
  can be interrupted and repeated, the database always opens again;
- pages and tables: a slot answers with the row its owner put there; seen
  through scans a table is the bag of rows the statements describe, and seen
  through an index it is the same one;
- values: what is read is what was given, as exactly as the type promises, and
  can be written again;
- chains: a long row and a catalogue of several pages are read back whole, and
  their pages are in one chain only and come back to the free list;
- allocation: a page has one owner, and a reopen finds a table's pages;
- B+tree: search and range agree with a map; nodes fit a page;
- database and file: no statement on a torn Pager, every call returns, one
  session for each file, no page id given out twice, no page lost by an upgrade;
- queries: rows computed by position are the rows the names mean.

## Modules

`A -> B` reads "A extends B".

| Module | Models | Remarks |
|---|---|---|
| `AtomicStore` | the promise of transactions | abstract; no log, no crash |
| `WalStore` | transactions, log, main file, recovery, kills | instantiates `AtomicStore` for `Implements` |
| `PowerLoss -> WalStore` | what the disk holds after a power loss | images since the last fsync |
| `WalStoreProofs -> PowerLoss` | theorems of both, the refinement of `AtomicStore` among them | TLAPS |
| `BTree` | `btree.py` | byte sizes kept, keys are numbers with lengths; theorems in `BTreeProofs` |
| `PageLayout`, `SlottedPage -> PageLayout` | `slotted_page.py` | operators; then one page as a state machine |
| `RowCodec` | `type_system.py`, `row_codec.py` | operators; bytes of any number of bits |
| `TypedRows -> SlottedPage, RowCodec` | typed rows on one page, and the index of a unique column | its actions are those of `SlottedPage` with the values of the row |
| `PageLayoutProofs -> PageLayout` | lemmas on pages and folds, for the proofs of pages and tables | TLAPS |
| `SlottedPageProofs -> SlottedPage, PageLayoutProofs` | theorems | TLAPS |
| `Statements`, `Table -> Statements` | what rows, WHERE, SET and constraints mean; a table as a bag | abstract |
| `TableStore -> Statements, PageLayout` | DML over slotted pages with indexes | refines `Table` (`ImplementsTable`) |
| `TableStoreProofs -> TableStore, PageLayoutProofs` | theorems, the refinement among them | TLAPS |
| `PageAlloc` | free list, allocation, CREATE, DROP, reopen | page 0 in the file and in the page buffer; theorems in `PageAllocProofs` |
| `PagerPages -> PageLayout` | the pager's pages as other modules use them | shared by the next two |
| `SpilledRows -> PagerPages` | long rows and their overflow chains | INSERT, UPDATE, DELETE, DROP, failures, reopen |
| `CatalogChain -> PagerPages` | the catalogue as a chain of pages | pack, split, merge, write |
| `PageChains -> SpilledRows, CatalogChain` | both over one pager | a file is used for one of the two |
| `PageChainsProofs -> PageChains, PageLayoutProofs` | theorems on the catalogue chain and on the pages of long rows | TLAPS |
| `SharedDatabase` | threads on one `Database` | |
| `OpenFile` | opening files from threads and processes | |
| `OpenFileProofs -> OpenFile, SharedDatabase` | theorems of both | each about its own specification; TLAPS |
| `Resolver`, `JoinQuery -> Resolver` | name resolution; the plan, one node a step | positions |
| `TableSelect -> JoinQuery` | SELECT on one table, by index or by scan | the second implementation of grouping and sorting |
| `JoinSemantics -> TableSelect` | what either query means | names and row numbers, no positions |
| `MC...` | instances of the above | definitions for the `.cfg` files |

### WalStore and PowerLoss

The state is `main` (the main file), `wal` (records with a place, and a torn flag for
the tail), the fields of Executor and Transaction under names close to the code's
(`nextTxn`, `txnId`, `txnState`, `pending`, `buffer`, `cat`, `snap`), `pc`, and `todo`,
the page writes a commit or replay still has to make. Every system call after which the
process can die is one action: `AppendCommit`, `FsyncWal`, `WriteMain` (one page),
`FsyncMain`, `CommitDone` (truncation and teardown), and their counterparts in recovery.
A kill may also leave half a record in the log, or the log empty while it is being
rewritten. Errors are actions enabled by `FailPoints`; an append that raises has left no
record, or one in Python's buffer, which the next flush writes. A truncation that raises
leaves the log as it was, empty or rewritten (`TruncateFailed`: `wal.py:112-115`, and
the flush at `pager.py:349`). A page is one value; the catalogue is one of the pages.
The ghost `legal` is the set of page maps a restart may find: one, or two while a commit
is undecided. The ghost `lapse` follows one history for which nothing is promised
(`Lapsed`): a ROLLBACK raised after its records were gone from the log, the transaction
stayed active, and the application committed it all the same. In `PowerLoss` a second
copy of each file keeps the images the disk may hold; a loss picks any of them, with
torn records and torn pages. There a process ends by a close or a loss, kills are left
to `WalStore`.

### Tables and pages

A byte of a page is a pair of a row and a position in it, so overlapping slots
are visible as mixed rows. A statement is one step in `TableStore`: it holds the
lock, and `WalStore` shows that one that raises leaves nothing. `PageAlloc` keeps
only what the free list needs: page 0 is its head, another page a link or bytes.
It keeps the two copies of page 0 apart, because `alloc_page` pops in the main
file and DROP pushes in the page buffer. `Contiguous` is the condition under which
the range `root..next` of the catalogue is the table's own.

### Values

In `RowCodec` a value is a record of its Python type and its content: numbers and
times are counted in hundredths, texts are sequences of characters with one or two
bytes each. A byte has `Bits` bits and integers keep their width, so ranges, the
two's complement and the length prefix have their ends inside the instance. Python's
`round` (half to even), `int` (towards zero), `==` (1 equals 1.0) and `isinstance` (a
`datetime` is a `date`) are modelled by what they do. `TypedRows` gives each INSERT
and UPDATE one row and follows it: validation, the check of uniqueness on values,
encoding, the slot, and the index keyed by bytes. `given` keeps what the statements
gave, for `ValuesKept` to compare with what is read.

### Chains

A page of `PagerPages` keeps the fields that chains read where the code has them: the
free list and the catalogue link through the first four bytes of a page, an overflow
chain through the next four, and byte 0 is also the type. In `SpilledRows` a row longer
than a page is cut into chunks: the first into a slot, the others into overflow pages
linked from the header of the data page. A statement is one step, all of its allocations
included; one that fails keeps the pages it has popped, as the rollback does. Nothing in
the code asks whether a statement leaves a page that can be stored, or the range of a
table free of pages of others, and nothing in the model does: the ghost `strays` records
it (`Strays`), together with a reopen that takes an overflow page for a data page, and
the properties say how far they go without (`strays = {}`, or `Orderly` where only the
statements matter). `Orderly` also bounds the model: what follows a statement that left
such a page or range is not explored. `CatalogChain` has a catalogue as a sequence of
tables with columns of some length: greedy packing with its margin, the split of a table
by columns, the merge at reading, and the rewrite of the chain page by page, in one step
or cut short by `CatalogCorrupt`.

### The B+tree

Keys are numbers with a length in bytes, so that the sizes `serialize` compares
are the code's. `Insert` ends a statement or leaves the pending call of
`_insert_into_parent` in `promote`; a `ValueError` in either restores `stable`,
as the Executor's rollback does, except for the pages it has allocated. `content`
is the map the statements built. `InternalFits` is the check of the code, which leaves
out the last child pointer; the ghost `overran` tells that a statement has ended with a
node the check lets through although its bytes go past the page (`Overruns`). The
bytes of the next page, which it overwrites in the file, are not followed, so
nothing is promised from then on.

### Sessions

`SharedDatabase` follows a call through the RLock, the check of `_is_closed`, its
body, and for `close` the flush and each handle of `Pager.close`; `torn` records
that one of these raised. `OpenFile` follows `Pager.__init__`: look at the size and
the version, write the header or upgrade an old one, map and reseed, check the
version, flock, replay; with deaths in between. A file may be new, of version 1, 2
or 3 or not a database, with or without a log and a free list. `raced` records the
calls that overlapped another on the same file or in the same process. A session takes
a page from the free list, or from the end of the file, in the main file and at once
(`pager.py:402`), and uses it at its COMMIT: until then the page is `inHand`, and a
rollback, a close or a death before the COMMIT leaves it in `dropped`, on no list and used by
nobody.

### Queries

`Resolver` has the positions `resolver.py` computes and `JoinQuery` the rows
`_join_executor.py` computes with them, one plan node a step; sorting is left to
right over sequences, so stability is visible. `TableSelect` has the path of a query
without JOIN: the choice between index and scan, the tests of WHERE with the ones
that raise, grouping by values, the three ways to sort, and the SELECT list looked up
by name. `JoinSemantics` computes the same rows from the numbers of the rows that
contribute, by names, for both, and compares. What it means by ON is the
specification of joins: a comparison with a NULL matches nothing
(`openspec/changes/archive/2026-07-24-join-query/specs/sql-join-query/spec.md:89`). The
code compares as Python does, so that NULL equals NULL (`executor.py:61`, "join executor
is not, by design"), which the properties except (`NullsMeet`). In a chain that mixes
merging joins with others, the resolver counts the names of columns and the executor the
columns of the sources; `InPlace` says when both come to the column that is meant.

## Runs

With two workers every run ends within two and a half minutes. Deadlock is not
checked because every run has a bound at which it stops (calls, restarts,
rewrites, the end of a query); that a waiting thread is served is the liveness
property `CallsReturn`, and that recovery ends is `ComesBack`.

| Run | Instance | Shows |
|---|---|---|
| `wal_atomic` | 2 pages, 2 values, 2 transactions a session, 2 restarts, errors before the COMMIT record and in a rollback | until a transaction is committed whose ROLLBACK raised with its records gone, `WalStore` implements `AtomicStore`; a replay at any instant gives whole transactions; the catalogue agrees with page 1 |
| `wal_failed_commit` | the same, errors at every step | until such a COMMIT, no page reverts and nothing unlogged is in the file; the database opens again however often recovery is interrupted |
| `power_loss` | 1 transaction a session, 2 losses | every loss finds whole transactions, sessions never see a torn page, the log is on disk before the file changes |
| `btree_map` | 6 keys of 1 to 64 bytes, pages of 72 bytes, 8 pages | until a node outgrows its page, search, range and separators are right after every sequence of inserts, upserts and deletes, also when an insert raises in the middle of a split and is rolled back |
| `typed_rows` | one page of 2 slots, 2 rewrites, room for all; tables of texts, of numbers and of times, 3 or 4 columns | slots answer with their rows, values are read as given, rows can be written again, index and rows agree |
| `table_rows` | 2 pages, rows that grow and move, batches of two, WHERE on either column, reopens | the pages implement `Table`; an index that agrees with the scan goes on agreeing; no INSERT makes two rows share a key |
| `alloc_owner` | 2 growing tables, one indexed, 5 pages, rollbacks, failures, drops, reopens | a page has one owner, a reopen finds a table's pages, `_alloc_data_page` ends |
| `alloc_drop_foreign` | 2 tables whose pages alternate | DROP frees pages of the other table: a violation, see below |
| `page_chains` | 2 tables, 5 pages, 3 rows of one, two or three chunks; or catalogues of up to 3 tables of 1 to 4 columns, written over one another | catalogues, and rows up to their second chunk, are read back whole, a page is in one chain, DROP returns every page, no rewrite loses one |
| `shared_threads` | 3 threads of 2 calls, every step free to raise | no statement on a torn Pager; a close that returned released everything; every call returns |
| `open_calls` | 4 calls, 2 files, 2 processes, every kind of file, deaths, overlaps | one session a file; for calls that did not overlap fresh page ids, a replayed log, no page lost but by a transaction that ends without COMMIT, and a file that can be opened again |
| `join_queries` | 3 tables of up to 2 rows with NULL keys, chains of two joins of every kind, USING, NATURAL and ON mixed; one table of up to 3 rows with NULLs, negative numbers and texts | rows, WHERE, columns, groups, aggregates, and ORDER BY with LIMIT as meant |

Why the bounds are enough. Two transactions of one session are needed for a truncation
that drops records of an older transaction, two restarts for a replay that is itself
interrupted or a session that meets the records of the one before; two pages for a
commit that is half written. In a page of 72 bytes two entries of 20 bytes fit and a
third splits it; five keys then give a tree of depth 3 with splits at two levels and in
the middle of the leaf chain, key 2 (64 bytes) fits no page, and key 6 (51 bytes) fits
only alone, so an insert beside it raises after it has begun to split; the separators 4
(27 bytes) and 5 fill a node up to the bytes of its last child pointer. Two data pages
let a row move to a page the UPDATE has not reached. In `typed_rows` a byte has two
bits, so a row of three columns has a bitmap of two bytes, an INT of one byte ends at 1,
a text of four bytes is too long for its prefix, and hundredths fall between the values
of a DECIMAL and of a FLOAT; two slots let a row move and a value meet its equal. In
`page_chains` a page of 8 bytes takes a chunk of 3, five pages let two tables have a
long row each and one page change hands, a row of three chunks is the shortest that is
read back wrong, a long row put into the slot of another overfills its page, and the
lengths of columns (2, 4, 8 in segments of 10) put a table on, one below and one above
each limit of the packing. In `join_queries` values are multiplied by 6 so that an
average of up to three is a number. Five pages let each of two tables grow while an
index takes pages in between. Two joins are the shortest chain in which the left side of
a join is not a table, and two rows on a side let a key match twice. Three threads let
one wait for a second while a third closes. Three calls on one file let one close or die
before, and one be refused during, the session of another; the fourth, on a second file,
meets the flag of its process.

### A disagreement with the source

`alloc_drop_foreign` checks `OneOwner` when tables may grow past one another's
pages (`Interleaved = TRUE`) and finds it violated. `collect_table_data_pages`
says that it returns "every page id used by `ti`'s data chain + spill chains"
(`_executor_drop.py:118`), and returns the whole range `root..next`, so the pages
of a table created in between are freed with it, and are given to the next table.

### What the passing runs leave out, and what happens there

Some runs hold only under a condition on the workload, which is a constant of the
module or the instance, a premise of the property over a ghost variable, or part of
the model's initial state. Lifted, each lets TLC find the behaviour on the right;
those of the pages, the tables and the allocator were also seen in the program.

| Condition | Where | Without it |
|---|---|---|
| no empty transaction is committed (`EmptyCommits = FALSE`) | `wal_atomic`, `wal_failed_commit`, `power_loss`; `Covered` and `~EmptyCommits` of the proofs | replay keeps a COMMIT record that has no page records (`recovery.py:60`); ids start at 1 in each session, so it commits an unfinished transaction of a later session |
| the application does not COMMIT after a ROLLBACK that raised with its records gone (`Lapsed`) | `wal_atomic`, `wal_failed_commit`, `WalStoreProofs`; in `power_loss` no ROLLBACK raises | ROLLBACK can raise when the log has been emptied (`wal.py:112-115`) or rewritten (the flush at `pager.py:349`). The state is set only after that (`transaction.py:82`), so the transaction stays active with its pages in memory. A COMMIT then writes pages that have no record, and a kill between two of them leaves half a transaction. The trace has 12 steps: `Begin`, `BeginStatement`, `WritePage`, `EndStatement`, `AppendRollback`, `RollbackFails`, `AppendCommit`, `FsyncWal`, `WriteMain`, after the three of the opening |
| no error after the COMMIT record (`FailPoints`) | `wal_atomic`; `Covered` | a page write of a commit raises after another one succeeded, and the next transaction's truncation drops the records that could repair it (`transaction.py:64`). `truncate_before(id + 1)` drops the transaction's own COMMIT record too, which the comment at `transaction.py:60` says survives. In autocommit the error also skips the teardown, which is outside the `try` (`executor.py:747`). `wal_failed_commit` checks what still holds |
| a process ends by a power loss or a kill, not both in turn | `power_loss` | recovery syncs the main file but not the log it replays (`recovery.py:84`): a kill before the sync of the log, a replay cut short, then a loss of power leave half a transaction |
| no statement ended with an internal node longer than its page (`overran`) | `btree_map`, `BTreeProofs` | the last child pointer is outside the check of `InternalNode.serialize` (`btree.py:104`), so a node of 4,097 to 4,100 bytes is stored and overwrites the first bytes of the next page. Keys of one length L do so only when 4086 mod (6 + L) is less than 4; keys of different lengths may at any time |
| a split that raises is rolled back by the statement | `btree_map` | a split by number of keys can leave a half that does not fit (`btree.py:210`), so a legal key may be refused: the tree is right, the INSERT fails |
| the page has room for the longest row once per slot and rewrite | `typed_rows` (its page size) | `update` and slot reuse append without looking at the free space (`slotted_page.py:161`): after 38 updates of one row of about 105 bytes `to_bytes` makes 8,192 bytes, against its docstring (`slotted_page.py:81`, "exactly PAGE_SIZE bytes"), and the write raises; an insert that fits exactly overwrites its own slot. No property says that an image can always be stored |
| the UPDATE moves no row and makes no two rows share a key (`Moves`) | `IndexKept` | the row moves and the index keeps its old slot (`executor.py:1720`); UPDATE checks no uniqueness, which is documented |
| the key has one column | `table_rows`, `typed_rows` | each column of a composite key has an index of its own, with one entry a value (`executor.py:1665`): `WHERE a = 1` finds one row of two |
| the step is no reopen | `IndexKept` | indexes are not rebuilt at open (`database.py:93`): a SELECT through one returns nothing |
| the column was given no value that is padded or rounded (`loose`) | `KeysExact` | uniqueness compares the value given with the ones read (`executor.py:963`): `'a'` twice in a `CHAR(3) UNIQUE` is accepted, the lookup finds the second row only, and deleting one row takes the key of both |
| no DECIMAL rounded up to its bound | `StaysRewritable` | `_to_scaled` compares before it rounds (`type_system.py:367`): 9.96 in a `DECIMAL(2,1)` is stored as 10.0, and every later UPDATE of the row raises |
| no reopen took an overflow page for a data page (`strays`) | `RowsWhole`, `DropReturnsPages` | the reopen takes every page of `root..next` for data (`executor.py:1082`), and INSERT writes rows over the overflow page, whose type byte it does not look at. The docstring at `executor.py:1064` says "the actual data page ids". After CREATE, INSERT of a long row, another INSERT and a reopen the run is there. Old pages of the table's own index trees between the two ids are taken for data as well (`executor.py:1072`, the index pagers are new); no property speaks of them |
| the first two chunks of a row (`ReadBack`) | `RowsWhole` | the chunks of a chain are read to the end of their pages (`executor.py:1148`) and are 8 bytes shorter than that, so a row over 8,144 bytes is read back with NUL bytes in it, where `openspec/specs/storage-engine/spec.md:150` promises it whole. One INSERT shows it |
| no statement left a page that cannot be stored (`strays`) | `page_chains`, `PageChainsProofs` | the first chunk of a long row stays in the data area when the row is deleted or updated in place, and the next INSERT into the slot overfills the page |
| no statement left a page of another table, or a free one, in a range (`strays`) | `page_chains`, `PageChainsProofs` | DROP frees pages of the other table, as in the disagreement above |
| no allocation after a DROP in one transaction (`MixedTxns = FALSE`) | `alloc_owner`, `PageAllocProofs` | COMMIT writes its copy of page 0 over the one `alloc_page` changed (`executor.py:633`): a page is free and in use |
| a table grows upwards, past no page of others (`Interleaved = FALSE`) | `alloc_owner`, `PageAllocProofs` | the finding above; `_alloc_data_page` pops and pushes one page for ever (`executor.py:1105`); a table that reuses pages in descending order is lost by a reopen (`executor.py:1082`) |
| no step of `Pager.close` raised (`torn`) | `CloseReleases` | `_is_closed` is set first, so a second `close()` returns at once and the handles stay (`database.py:219`) |
| calls on the file, or in the process, did not overlap (`raced`) | `FreshPages`, `OpenedRecovered`, `PagesAccountedFor`, `StaysOpenable` | the page count is read before the flock (`pager.py:187`), so two sessions give out one page; the flag `_REPLAY_IN_PROGRESS` is global (`recovery.py:31`), so a replay of one file turns another one's away; the upgrade is written before the flock (`pager.py:149`), so it may reset the free list of a session at work, or refuse the log that session has made with `SchemaMismatch`, whose message names a `migrate_v2_to_v3` that does not exist |
| a file with a log has the length its pages need (`Init`) | `open_calls` | a growth lost with the power is replayed past the mapping (`pager.py:79`), and those pages are given out again |
| ON meets no two NULLs (`NullsMeet`) | `join_queries` | NULL equals NULL (`_COMPARE_OPS`, `executor.py:61`) and the rows are joined, where the specification of joins says "the comparison MUST not produce an INNER JOIN match" (`spec.md:89-92`). |
| the keys and operands of a mixed chain are where both rules put them (`InPlace`) | `join_queries` | after an ON join whose sides share a name, the resolver counts that name once where the rows have it twice (`resolver.py:404`) and the key of a merge behind it is looked for too far to the left; after USING or NATURAL, an ON operand behind a merged column is looked for too far to the right, because the executor counts that column too (`_join_executor.py:138`; its docstring expects that ON never names the merged key itself). A wrong column is compared, or an `IndexError` ends the query |
| WHERE names no column that was merged away (`WhereRegular`) | `join_queries` | its position in its own table is taken for one in the rows, and another column is tested (`resolver.py:253`) |
| aggregates of a join have an alias | `join_queries` | the default labels differ and the query raises (`_join_executor.py:572`) |
| grouped rows of one table are not sorted by a NULL ascending or a text descending (`SortedOtherwise`) | `OrderedThenCut` | `_neg_for_sort` leaves texts as they are, so DESC sorts them ascending, and NULL counts as 0 (`executor.py:444`, `executor.py:474`) |

Also met, and modelled as the code has it, where no property is about it: a freed
overflow chain is marked (`executor.py:1161`) and not put on the free list, which
`openspec/specs/storage-engine/spec.md:159` promises; DROP follows pages of type 2
only (`_executor_drop.py:156`), so pages outside the table's range stay lost. A
catalogue that cannot be packed raises after the old chain was freed, so only its
first segment is left. ORDER BY over a scan raises when it compares NULL. HAVING
without grouping or aggregates is ignored. A comparison of a VARCHAR with a text
raises in a scan and not in an index. A `datetime` passes the validation of DATE and
raises `TypeError` when it is encoded; a text over 65,535 bytes raises `struct.error`.
A `DECIMAL(18,0)` is read back as a float and loses digits, which the model, whose
numbers are exact, does not show.

### Fairness

`FairSpec` of `WalStore` assumes that recovery, once the file is being opened, and the
later steps of a commit go on: both are straight-line code of one process, and a kill is
a separate action, bounded by `MaxRestarts`. `SharedDatabase` assumes that a thread
inside a call goes on, and that a free RLock is taken by some waiting thread: weak
fairness of each thread's steps, which suffices because each thread makes a bounded
number of calls. Nothing assumes that a client ever calls.

## Proofs

TLAPS proves, for any values of the constants that satisfy the assumption on the
right:

| Theorem | Statement | Assumption |
|---|---|---|
| `TypeCorrect` (`WalStoreProofs`) | `Spec => []TypeOK` of `WalStore` | none |
| `InductiveInvariant` (`WalStoreProofs`) | `Spec => [](Lapsed \/ IInv)`: the invariant of the protocol holds up to the COMMIT of a transaction whose ROLLBACK raised with its records gone. The theorems of this module below speak up to that COMMIT, except `CatalogCoherence`, which does not need it, and the next two | `Covered` |
| `NoLapse`, `ExactRefinement` (`WalStoreProofs`) | when no ROLLBACK raises there is no such COMMIT, and `WalStore` implements `AtomicStore` without exception (`Spec => Abstract!Spec`) | no `"rollback"` in `FailPoints`; `Covered` for the second |
| `CrashAtomicity` | a replay after a kill at any instant yields whole transactions (`CrashAtomic`) | `Covered` |
| `CatalogCoherence` | between statements the catalogue in memory is what page 1 reads as | `Covered` |
| `Refinement` | `WalStore` implements `AtomicStore` (`Implements`) | `Covered` |
| `FailedCommitsPageLegal` (`WalStoreProofs`) | however often commits fail half way, each page of the file, and of the file after a replay, is one that a committed transaction or an undecided one wrote (`PagesLegal`) | `~EmptyCommits` |
| `WriteAheadAlways` (`WalStoreProofs`) | the main file changes only to contents that the log has (`WriteAhead`) | `~EmptyCommits` |
| `PowerLossAtomic` (`WalStoreProofs`) | whatever unsynced writes a power loss keeps, a replay yields whole transactions (`CrashAtomic`) | `Covered` |
| `TornPagesRepaired` (`WalStoreProofs`) | a session never reads a torn page (`SessionSeesWholePages`) | `Covered` |
| `LogFirst` (`WalStoreProofs`) | a page is written to the file only when every log the disk may hold redoes the same pages (`LogSyncedBeforeMain`) | `Covered` |
| `Invariance`, `SeparatorsHold` (`BTreeProofs`) | until a node has outgrown its page (`overran`): the invariant of the tree; a separator is the smallest key below its right child, and the parent of a node whose split travels up is found by key (`SeparatorsExact`) | none |
| `LookupsHold` (`BTreeProofs`) | until then, between statements search and range answer as the map the statements built (`LookupsCorrect`) | none |
| `SlotsAnswer` (`SlottedPageProofs`) | every slot answers with the row last put there | none |
| `TypeInvariance` (`TableStoreProofs`) | every page of a table keeps a row in every live slot, and every index entry is a reference | none |
| `KeysStayUnique` (`TableStoreProofs`) | no INSERT and no DELETE leaves two rows with one key (`KeysUnique`) | none |
| `IndexKeepsUp` (`TableStoreProofs`) | an index that finds the rows a scan finds goes on doing so (`IndexKept`), on `EntriesBacked`: it has a reference only for literals that some row has | `OneColumnKey` |
| `RefinesTable` (`TableStoreProofs`) | a full scan sees a bag of rows that each statement changes as it should: `TableStore` implements `Table` (`ImplementsTable`) | none |
| `PageOwners`, `ReopenFinds`, `AllocEnds` (`PageAllocProofs`) | a page between transactions has one owner and the free list ends; the range a reopen walks is the table's own; `alloc_page` hands out no page an index pager has recorded | `~MixedTxns`, `~Interleaved` |
| `CatalogPagesStay` (`PageChainsProofs`) | every page of the file is in the catalogue chain, on the free list or with others, and in one of them only, after any rewriting of the chain, also one that raises (`CatalogPagesKept`) | none |
| `ChainsStayApart` (`PageChainsProofs`) | as long as no statement has overfilled a page or mixed two ranges, a data or overflow page that a table needs is needed by no other table and is not on the free list, after any statements on long and short rows (`ChainsApart`) | `TwoChunks` |
| `DropReturns` (`PageChainsProofs`) | as long as, besides, no reopen has taken an overflow page for a data page, DROP TABLE puts every data and overflow page its table needs on the free list (`DropReturnsPages`) | `TwoChunks` |
| `NeverTorn`, `CloseComplete` (`OpenFileProofs`) | no statement on a torn Pager, however the steps fail; a close that returned released every handle unless a step of `Pager.close` raised | `Locking` |
| `SingleSession` (`OpenFileProofs`) | a file has one session at a time, for any number of calls, processes and files | none |
| `PageIdsFresh`, `PagesAccounted`, `UpgradedStaysOpenable`, `RecoveredWhenOpen` (`OpenFileProofs`) | for calls that did not overlap: no page id is given out twice, every page is free, in use, in hand of a transaction or was in hand of one that ended without COMMIT, a file with a log can be opened again, a session starts on a replayed file | none; the overlap is in the properties |

`Covered` says that no transaction that wrote nothing is committed and that no step
fails after the COMMIT record is in the log; the theorems on failed commits need the
first half only. `Locking` is the default argument of `Database`. `OneColumnKey` says
that at most one column is declared PRIMARY KEY, and `TwoChunks` that a row takes at
most one overflow page, as it must to be read back; `MixedTxns` and `Interleaved` are
the constants of the runs. None of them can be dropped: the table of conditions above
says what happens without. The named assumptions on constants (`KindsAssumption`: a file
that an `OpenFile` instance starts from has its reserved pages, its free list and the
pages of its log within its length, and a v1 file has no free list;
`PageAllocAssumption`: finitely many tables, a file with a header; `BTreeAssumption`:
keys are numbers, and what `search` answers for a key that is not there is no slot
reference; `TableStoreAssumption`: finitely many rows, a null is no literal, a row fits
a page and its UPDATE gives another such row; `CatalogChainAssumption`: lengths are
numbers, a catalogue is a sequence of entries whose columns have a length, and the empty
one can be written; `SpilledRowsAssumption`: rows and chunks have lengths, and a page
has a slot; `PagerPagesAssumption`: a file may have a page) are evaluated by TLC in the
runs.

**WalStore.** `CrashAtomic` says that applying the log to the main
file gives a map in `legal`; it is not inductive, because a step that drops
records is right only if what they hold is in the file already. `IInv` adds: the
places of records are distinct and below the end, and no COMMIT record stands
without page records (`WellFormed`); at most one transaction of the log is committed
(`OneCommit`; both are `LogOK`),
and while a session runs it is the one being committed; the page records of the open
transaction are what it holds in `pending`, which is its `buffer`, unless a ROLLBACK
took them (`SessionOK`);
while a commit writes pages, or a replay does, every page it is to write is in
`todo` or in the file already (`CommitOK`, `ReplayOK`); and a replay gives the only
member of `legal`. Lemmas about the log operators (`AppendPageOK`, `TruncateOK`,
`TornTail`, `RecoveredCommit`, ...) say what an append, a truncation or a torn
tail does to the result of a replay, and then there is one lemma for each action.
The refinement maps `store` to what a restart would find, `view` to what a read
returns and `inTxn` to an open transaction whose commit is undecided; the COMMIT
record's append is the abstract commit, every other step of the log a stutter. A lapse
that is open breaks no part of `IInv`: what the main file lacks of the records that are
gone was committed by nobody. Only its COMMIT ends what is promised; a rollback, a close or
a kill ends the lapse (`LapseEnds`).

**Failed commits.** With errors after the COMMIT record a replay may give a mixture
of transactions, and the log may hold more than one that is committed, so `OneCommit`
and most of `IInv` are gone. What is left (`FailInvariant`) is page by page: the log
is `WellFormed` and a page that it redoes has a last transaction to do it (`HasTop`);
what a replay gives, and between commits what the file has (`MainLegal`), is for each
page a content it has in some member of `legal`, so a truncation can drop any record;
a commit under way has written some pages with their only legal content and left the
others as they were (`HalfDone`); and a replay goes by id (`InOrder`), so a page it is
done with has its last content.

**Power loss.** `PowerInvariant` has the parts of `IInv` that a torn main file leaves
true (`WalInvariant` while a session runs, `ReplayOK` in a replay, `CrashAtomic`), and
adds what the two disks may hold instead: an image of the log has the records of the
log, or it redoes only what the file has already, which is the case as long as the log
redoes nothing or its COMMIT record is not synced (`LogDiskOK`); and an image of the
main file differs from the file, or is torn, only in pages that the log redoes
(`MainDiskOK`). The first is what the fsync before the page writes gives, the second is
kept because a truncation comes after the sync of the file. Whatever a loss keeps,
recovery then starts from the same result.

**SlottedPage.** `GetReturnsStored` compares a `SubSeq` of the data
area with the row's bytes; the invariant `SlotsHold` says it byte by byte, which an
append preserves because it writes past every byte a slot points to; a row that
moves is a deletion and an append to the page that leaves.

**TableStore.** Every live slot of a page holds the bytes of a row (`Readable`,
`PagesReadable`), so an INSERT or a DELETE changes the references that a scan visits
and the rows it reads there in one place. What a statement does to a list of rows or
of slots is a fold, whose value after k of them is a numbered list of states
(`FoldExists`): an invariant of those states is proved by `Induction` over k. For an
UPDATE the invariant has to say that no row is lost, met twice or changed without a
match while rows move into slots, pages and the queue: there is a bijection from
the references before the statement to the places where rows are now, slots or
positions of the queue, that keeps the row of each reference not
visited yet or not matched and gives the others the assigned row (`Tracked`). The
queue is empty again after each page (`TrackPage`), which leaves a bijection from the
old references to the new ones (`Carried`). From it `CarriedCounts` computes the
multiplicity of a row: those that kept it and, for each matched row that becomes it, the
rows there were, which is the sum in `Table`. For `IndexKept` the same run is followed
once more (`Followed`). That the index agrees with the scan is not inductive: an entry
may dangle, and a row put into the freed slot would be found by a key it has not. So
`Backed` says that an entry is for a literal that some row has, where a queued row
counts with its old values (`KeyRows`), and holds through every statement, those that
move rows included. An UPDATE that moves none (`Stayed`) leaves every
row in its slot, its slots as long as they were; at each slot the old literal is no
other row's, or two rows would have shared a key before, and the new one is not, or
they would after (`StayedUpdated`).

**BTree.** Nothing in a node says which keys may still be put below it, so `IInv` of
`BTreeProofs` says that there are spans: every node has a convex set of keys and a
level, the nodes of a level have disjoint ones, the children of a node have the parts
its separators cut out of its own, and the root has all keys (`Spans`, `NodesOK`). A
descent goes to the leaf with the key in its span, and stops because levels go down. A
separator is in a leaf, which is why it is the smallest key below its right child
(`SeparatorsStored`); the leaves follow one another in the order of their spans
(`ChainOK`); and a leaf answers for the keys of its span as the map does (`Holds`). A
split cuts a span in two. Until the parent has adopted the right half, which may take a
split of its own, the nodes above see the two halves as one (`Seen`), and `CallOK` says
what the pending call of `_insert_into_parent` has: two nodes of one level and the key
between them. `AdoptTree` and `GrowTree` end such a call, and a split of an internal
node (`SplitTree`) is followed by the next one. Meanwhile the map is the one that the
statement will have built (`Pending`), and `stable` is a tree for the map it started
from, which is what a `ValueError` goes back to. The functions of the code that call
themselves are recursive functions here, and their values are known only once it is
shown that there is such a function: the bisections by the distance of their bounds
(`BisectFinds`), the descents by level (`DescentExists`), `RangeScan` by a position
along the chain (`WalkExists`). `TodoFacts` and `WalkFacts` then compare the walk, entry
by entry, with the list of live keys. The bounds `MaxPages` and `PageSize` are
arbitrary: a node that cannot be stored makes the insert raise, wherever that happens.

**PageAlloc.** `OneOwner` speaks of the time between transactions, but a transaction
has two outcomes, so `PageInv` holds both: E is the free list of the main file, which
a rollback leaves, and F the one with the page buffer written over it, which a commit
leaves. Both lists end, E is part of F, the buffer has no page of E, the tables
of the snapshot use no page of E and those of the transaction none of F
(`GoodWith`). `alloc_page` takes a page from both, which is right only while they are
the same list (`NoDropYet`: this is where `~MixedTxns` is used); DROP adds to F pages
that were in use and no page twice (`DropFrees`). A list is a numbering of its pages
from the end (`Threads`), popped, pushed and walked by the lemmas `PopList`,
`PushList` and `WalkList`. Between tables `TablesOK` asks for disjoint ranges, not
only disjoint pages, and that no other index pager has recorded a page of the range:
without the ranges DROP could free another table's page, and without the pagers it
would spare one of its own. `Contiguous` is used in one place, to extend a range.

**PageChains.** The invariant `CatalogInv` names the chain: a sequence of distinct pages
that the links from page 1 lead through to their end (`Linked`), none of which others
have taken, and the free list is such a sequence of all other pages below the next
page id (`Split`; both are `Chained`). `WalkLinked` says that a walk visits a linked
sequence in order and then stays at 0, so the fuel of the walk, which has no
counterpart in the code, is never used up. Freeing a page puts it before the list
(`PageFreed`), an allocation takes the first or the page at the end of the file
(`PageAllocated`), and a segment's page is put behind the last one of the chain
(`LinkedAppend`). The old chain is given back page by page (`ChainGivenBack`) and the
new one written segment by segment (`ChainWritten`), and in between each page has one
place. A write that raises stops after the first of these. That the new chain has
a head to write is `SegmentsPacked`: packing gives at least one segment, unless it
raises.

For long rows the free list is again such a sequence, and `Sorted` shares out the
other pages: those of a table, which are its data pages and what the headers of these
name (`Own`), are not free and not another table's. A page a header names need not be
of any use: `_free_overflow_chain` leaves the pointer where it was, and a dropped page
keeps it on the free list. So `ChainsApart`, which speaks of the pages in use, is not
inductive, while `Sorted` has every pointer; it says besides that only data pages and
free ones have such pointers, and that pages never given out are blank. `Ranged` is about
what the catalogue says: the range of a table has its data pages, and no page that is free or
of another table. DROP frees every page in the range and what their chains lead to, so the
range must have nothing of another table (`Dropped`, `TableDropped`); a reopen takes
the range for the data pages; and a table that grows goes beyond its range, which is
where `Orderly` after the step is needed (`InsertKeeps`, `UpdateKeeps`). Each statement is
split into its writes, one lemma each (`RowPut`, `FirstChunkPut`, `ChainCleared`,
`SlotDeleted`, ...), and what DROP collects is a fold in a fold, followed page by page
(`Visited`, `Gathered`).

That DROP finds all of them needs more (`Spilled`). `collect_table_data_pages` follows a
chain only from the pages of the range it has not collected yet, and only as far as
the type byte says overflow. So no data page is an overflow page, and the pointer of a page
with a spilled slot leads to an overflow page that no other such page names. The second is the
delicate one: the header of a page has room for one chain, so a second long row in the
page would take it from the first, and nothing in `_insert_with_overflow` asks. It is
the length of a first chunk that forbids it: its bytes stay in the data area of its page for
good (`Crowded`), and a page with two of them cannot be stored, which `strays` would tell,
so at most one of its slots spills. A reopen that finds an overflow page in the range
makes it a data page, which `strays` tells too (`RangesReopened`).

**SharedDatabase.** A thread inside a call has the RLock. `NeverTorn`
needs, besides, that a Pager whose teardown has begun is marked closed and
that a call past the check of `_is_closed` meets one that is not (`MarkedClosed`);
`CloseComplete` needs that a Database marked closed is torn down or still being torn
down by the thread that has the lock (`TornDown`), unless a step of `Pager.close`
raised.

**OpenFile.** A call in session has the flock of its file (`LockInv`). The other
theorems rest on `OpenInv`, about calls that did not overlap: two calls at work on a
file, or in the middle of opening in one process, are both in `raced` (`Overlaps`); a
replay flag that is set has a call that replays (`Flagged`); what a call has seen of a
header is outdated at most by an upgrade (`SeenOK`); a call outside `raced` still knows
the size of its file, so the next page id it keeps is the file's (`Alone`); and the
pages of a file whose calls did not overlap are free or have one user (`PagesOK`).
Only together are they inductive: an upgrade is harmless because the call that
makes it knows the header, and a page id is fresh because the size was read by a call
nobody overtook. A page that is taken, used, freed or dropped stays one of `Given` or of
the free list, and its number stays its own.

Induction. The library's theorems take an operator as parameter, which the provers
cannot instantiate; `Induction` in `PageAllocProofs`, `BTreeProofs` and
`PageLayoutProofs`, and `InsertSlotIn`, take the property as a set
instead and use the well-founded minimum (`WFMin`). That is enough for recursive
functions over numbers (`Walk`, `FreeWalk`, `TxnFreeAll`) and for the folds of the community
modules over a list (`FoldExists`) or a set (`SummedIs`).

Only model-checked: liveness (`ComesBack`, `CallsReturn`), because fairness and
`ENABLED` are out of the prover's reach; `TypedRows`, whose bytes are powers of two with
a variable exponent, of which the provers do not know that they are numbers;
of `PageChains`, what is in the pages (`RowsWhole`, `CatalogReadBack`), which is
gathered from several pages byte by byte; and the queries (`JoinSemantics`),
where the meaning itself is a fold over rows and groups.

## Not modelled

- Parser and tokenizer: a grammar without state; statements are records here.
- Literals (`parse_literal`), which belong to the parser; binary fractions, NaN and
  infinities of FLOAT and DOUBLE.
- The JSON of the catalogue and the checks of column definitions.
- An alias equal to a grouped column, and `SUM(*)`.
- A kill between the steps of `write_catalog_chain`, which no statement calls.
- REPL, error texts, EXPLAIN output: input and output.
- Isolation between threads that share a transaction: `docs/MVP_LIMITATIONS.md`
  excludes it, so nothing is promised. (Its line 54, on the leaf chain after a split in the
  middle, is out of date: `btree.py:202` links the new leaf to the old neighbour.)
- UPDATE checks no uniqueness, which is documented; `Table` says so too.

## Plan

Done: the transaction core with its proofs first, then the storage of rows (pages,
tables, indexes), allocation, sessions and joins; then long rows and the catalogue
chain, SELECT on one table, the upgrade of headers, and types and row encoding. The
set of runs stays small, one for each question: a component joins an existing run
where they share an instance, and a new run replaces one it subsumes.

Proved after that: atomicity under kills, failed commits and power losses, slotted
pages, the B+tree, tables with their indexes and the refinement of `Table`, the owners of pages,
threads, files opened by calls that do not overlap, the pages of the catalogue chain, and
the pages of long rows, with their return by DROP.

Next, proofs: `RowsWhole`, for which `Spilled` has to say also what is written in the
slots and the pages behind them.
