# Casacure in TLA+

casacure (`src/`) is a Rust implementation of the casacore table system with a
Python binding: table directories read and written in place, locked between
processes with casacore's own `table.lock` protocol, queried with TaQL, plus
quanta, measures and images on top. This directory models its core: who may
touch a table when, what is in the files after every step of a flush, how the
storage managers place and find cells, what readers see meanwhile, how a table
describes itself, and what TaQL makes of it all.

Paths below are relative to `src/crates/`.

## 1. The system

### Components and their state

| Component | State | Operations | Hard because |
|---|---|---|---|
| Lock file (`casacure/src/lockfile.rs`) | kernel record locks on bytes 0 (lock) and 1 (in use); `LockFile::held`; request list and sync record in the file body; `LOCK_REGISTRY` | `attach`, `acquire`, `release_read`, `release_write`, `add_req_id`, `remove_req_id`, `is_multi_used`, `read_sync`, `write_sync` | fcntl locks belong to the process while several handles share one instance; the list is rewritten without a lock; waiters time out, fail or die |
| Table handles (`casacure/src/table.rs`) | `Table::lock_held`, `WritableTable::write_held`, mode, the rows, columns and change counters last seen | open, `lock`, `unlock`, `flush`, `Drop`, `resync` | what a handle believes, what its process holds and what is on disk are three things |
| Write buffer and flush (`casacure/src/table.rs`) | `rows`, `desc`, pending `cells`, `added_names`, `removed_cols`; `table.dat`, the managers' files, the sync record | `addrows`, `putcell`, `removerows`, `addcols`, `removecols`, keywords, `flush` (in place or a rewrite), `copy` | a flush is a sequence of file writes, each of which can fail or be the last one |
| Row growth (`casacure/src/grow.rs`) | the managers' indices and buckets, the row counts in `table.dat` | dry run, then grow per manager | growth of several files is not one step, and readers have them mapped |
| StandardStMan (`ssm.rs`), IncrementalStMan (`ism.rs`), tiled managers (`tsm.rs`) | headers, indices, buckets, string and array buckets, cubes, row maps, tiles | build, locate, patch, grow | cells of one row lie in many places, and records are shared |
| Flush gate (`casacure/src/flushgate.rs`) | one read-write lock per directory | readers decode mapped bytes under it, in-place patches exclude them | half-written cells |
| Reads and reference tables (`casacure/src/table.rs`) | the row order of a view, the snapshot it is over | `getcell`, `getcol`, `getcol_raw`, `getcolslice`, `row_order` | gathers run over sorted rows and scatter back |
| File replacement (`casacure/src/datafile.rs`) | temporary file, rename, mapped inodes | `write_atomic` | readers of the replaced inode |
| Descriptions (`aipsio.rs`, `record.rs`, `tabledesc.rs`, `columnset.rs`) | framed objects, nested records, column and manager lists | write, parse, JSON, patch of a row count | several writers of one format, old versions of it |
| TaQL (`taql.rs`) | none of its own | parse, evaluate, SELECT, UPDATE, INSERT, DELETE, ALTER, CREATE, DROP | write statements go behind the handles that are open |
| Python binding (`casacure-python/src/table.rs`) | `WRITE_REGISTRY` (one writable backing per path), per-handle read snapshot | `auto_tick`, merged reads, `removerows`, `flush_if_dirty`, `refresh_write` | snapshots go stale, flushes are implicit |

Measurement set helpers (`ms.rs`, `ms_schema.rs`, `msutil.rs`: schema data and
sequences of table operations), quanta, measures, astronomy, images and the
Python conversions keep no state of this kind.

### How they interact

* A Python handle opens a `Table` (a read snapshot) or gets the process's
  `WritableTable` from `WRITE_REGISTRY`. Both attach to the process's one
  `LockFile` of the directory through `LOCK_REGISTRY`; the last to go ends the
  registry's entry and then closes the fd, and the kernel drops every lock of the
  process with it.
* The results of `query()` and `sort()` share the snapshot of the handle they were
  asked of, and with it its lock: both live until the last of them is dropped.
* `flush` takes the write lock unless the handle holds it explicitly, compares
  its buffer with the directory, writes, publishes the row count in the sync
  record of `table.lock`, and gives the lock back: also when it failed.
* A read handle that locks permanently or automatically keeps the lock its open
  waited for, over a directory read before the wait.
* A process that cannot have a lock at once enters the request list; a read
  handle in auto mode looks at the list before each operation (`auto_tick`) and
  gives its lock up when somebody waits.
* An open takes the row count from the sync record first, and from `table.dat`
  when the record counts no rows.
* The binding answers a read of a writable table from the pending cells, then
  from the files, then with the column's default.
* A TaQL statement works on the tables on disk; afterwards the binding rebuilds
  the backings of the directories the statement touched.
* Read handles, and the reference tables over them, map the managers' files: a
  write in place shows through at once, a replaced file leaves the mapping on the old
  one.

### What makes each part correct

* Lock file and handles: a process's own record of its lock is what the kernel
  holds; nothing another handle does takes a writer's lock away; two processes
  never flush at once; the request list stays in front of the sync record;
  readers in auto mode give way; a process that works under its lock neither
  undoes another's work nor, once it has resynced, sees an older table than the last
  holder left.
* Write buffer and flush: a flush that succeeds has stored what the session
  sees; one that fails or dies between its files leaves each cell old or new and a
  table that opens; a failed flush loses nothing from the session. Three windows are
  not covered by any promise: inside one manager's growth, inside a whole rewrite,
  and, for the cells of a manager that keeps two files, between the two.
* Managers: what was put is what is read, through growth, patches, rebuilds and
  a death in any of them, by old handles and new ones.
* Flush gate and reads: no reader decodes a cell while it is patched; a read of
  many rows answers as reads of one row would.
* Descriptions: `table.dat` always reads back what was stored; between the files of
  any flush but a whole rewrite each column is bound to its own file, and the row counts
  agree once a growth or a rewrite is through.
* TaQL: a statement means what was written; selection agrees with filtering,
  sorting and cutting the row list; a statement that fails changes nothing.
* Binding: a backing never answers, or flushes, a table older than the files.

The hazards, each at its line and with the property that covers it or the
reason why none does, are in `PROJECT.json`.

## 2. Modules

| Module | What it is |
|---|---|
| `LockFile` | one `table.lock`: kernel locks, `held`, the registry's users, the request list. State and step fragments, no next-state relation |
| `TableLock` | composes `LockFile` into the operations of the handles of several processes. `Spec`, `FairSpec`, properties |
| `TableLockProofs` | the inductive invariant of `TableLock` and its theorems |
| `TableContent` | abstract: what a writable table promises the session that edits it |
| `TableStore` | the write buffer, the flush file by file, failures and crashes; implements `TableContent` |
| `TableStoreProofs` | what a table on disk is after any failure or death: the invariants of `TableStore` |
| `TableStorePromise` | `TableStore` implements `TableContent`, step by step |
| `StandardStMan`, `IncrementalStMan`, `TiledStMan` | a manager's files as a value: build, open, read, put, patch, grow as operators |
| `DataManagers` | composes the three into flushes made of single writes, with a read handle over the mappings |
| `StandardStManProofs` | what a StandardStMan's files hold through a build, a patch and a growth, write by write; its theorems |
| `DataManagersProofs` | the inductive invariant of `DataManagers`, for all three managers, and its theorem |
| `TableSync` | several processes' handles over one table, the sync record and what each believes |
| `TableSyncProofs` | the inductive invariant of `TableSync` and its theorems |
| `TableReads` | the read calls of tables and reference tables against a patch, under the flush gate |
| `TableReadsProofs` | a read followed from its call to its answer: the invariants of `TableReads` and its theorems |
| `NaturalLemmas` | induction over the naturals and arithmetic the proofs share |
| `AipsIO`, `Records`, `TableDat`, `ColumnDicts` | the stream, keyword records, `table.dat`, column dictionaries as operators; each extends the one before |
| `TableSchema` | composes them into the life of a table's description over sessions |
| `TaqlGrammar`, `TaqlPatterns`, `TaqlEval` | parser, string matching, evaluation as operators |
| `TaqlText` | how a statement is written down: what the parser is checked against |
| `Taql` | composes them into statements run beside open handles |
| `MC...` | the instances TLC checks, one per composed module |

### LockFile and TableLock

`lf[p]` pairs what the kernel has for process `p` on byte 0 with
`LockFile::held`; keeping both apart is the point, since every path through
`acquire` and the releases must move them together. `users[p]` are the owners of
the `Arc` the registry shares. When the last has left (`DetachLock`) the registry's
entry is dead, but the fd is still open: `closing` remembers it until `CloseFile`
drops the kernel's locks. An attach in between opens the file anew (`Unattached`,
`Anew`) and loses its locks to the late close. That takes a thread that opens the
table while another is closing its last handle; `Racing` are the processes that may
do it. `list` is the request list as the file holds it:
a count and slots, written by separate steps because `add_req_id` writes the
slot and then the count, and `remove_req_id` reads the list in one step and
writes it back in another. `ro` are the processes whose instance has
`read_only_fd` set, for which a write request "succeeds" without a lock: because
they may not write `table.lock` (`Lacking`), or because the write probe of
`attach` (`probing`) met the probe of another process that attached at the same
moment.

Each handle has a program counter. `Acquire` is the first try; when it is refused and
may be repeated the handle goes through `AddEntry`, `AddCount`, `Granted` or `GiveUp`,
`ReadList` and `LeaveList`. The `LockFile` mutex is held for the whole of a blocking
acquire, which is `MutexFree`: until it returns, no other operation of the process
reaches the lock. `WaitFails` is the error that leaves `acquire` through `?`, past the
removal from the list. `OpenTable`, `OpenWriter`, `LockTable`, `UnlockTable`,
`LockWriter`, `BeginFlush`, `EndFlush`, `AutoTick`, `IsMultiUsed` and `Drop` are the
functions of those names; opening begins with `Attach` and `AttachProbed`, one at a time
in a process (`RegistryFree`), and `CloseLock` is the close that follows the last
detach. `Relock` and `Reopen` are the two halves of the binding's `lock` of a read
handle, between which the mutex is free: an acquire on the shared instance, and a new
snapshot in the place of the old one, whose `Drop` is part of the step.

A result of `query()` or `sort()` has the snapshot too (`Query`, `shared`), and then
the handle parts from it without dropping it: `Drop`, `AutoTick` and `Reopen` leave
it, with the lock it recorded, to the results (`LeaveToResults`, `kept`; one earlier
snapshot of a handle at a time). `DropResult` lets the last of them go, which
releases the lock (`Dropped`, `LetGo`). `Queried` are the handles that are queried so.

The binding's `unlock` and `close` release without touching `lock_held`, the core's
`unlock` clears it: `UnlockTable` does either. `Die` is the death of a process at any
point: the kernel closes its files, the request list keeps its entry.

Left out: a directory without `table.lock` (every request succeeds), `ENOLCK`,
the sleeps between tries (a bounded wait may end after any failed try), nested
locks of subtables, and the row counts that handles adopt with the lock.

### TableContent and TableStore

`TableContent` has four variables: the session's `view`, the `stored` table a
fresh open would read, whether a flush is under way, and whether the directory is
`whole`, no file being in the middle of its growth. Edits change the view only. A
flush that succeeds makes `stored = view`; while it runs, and when it fails, `stored`
may only move `Between` the old table and the view, cell by cell; a process that dies
continues from what is stored. Three things are not promised, because the code does
not keep them:

* a cell of a column kept in two files (`Split`) may be `Lost`, read as anything at
  all, while they are written and after a flush that did not end;
* while a file grows the table does not open, and it is `Damaged` if the flush ends
  there, by an error or a death (`CutShort`);
* a whole rewrite makes `stored` `Damaged` until it returns.

A row added while removed rows are still stored may show their cells (`AddRow`).

`TableStore` has the files: the row count in `table.dat` (`header`), the one in
the sync record (`sync`), the columns `table.dat` describes (`dcols`) and the
cells in each column's files (`file`). One column stands for one data manager
with its files. The handle's buffer is `rows`, `cols`, `cells`, `added` and
`removed`, as in `WritableTable`.

A flush goes through phases. `BeginInPlace` and `BeginRewrite` are the decision
of `flush_locked`; whether the layouts concerned can be extended is left open
(`extends`). One manager's growth takes two steps: from `BeginGrow`, the first write a
reader can notice, to `Grow` the phase is "growing" and the table does not open
(`ssm_grow` and `ism_update` overwrite the index and then the header). `PatchHeader`
writes the row count, `WriteNew` the files of one new column, `SwapDat` replaces
`table.dat`. `flush_preserving` has two ways. It patches cell by cell: `PatchCell`
writes one, `TearCell` half of one that is kept in two places (`patch_ssm_column`
writes the references of all cells and then the array records they lead to),
`PatchDone` lets the column's buffer go. Or it rebuilds the column's files: a single
file by one rename (`Rebuild`), two by two renames, between which every cell is lost
(`BeginRebuild`, `EndRebuild`). `RewriteDat` and `RewriteFile` are `create_table`.
`FlushFails` is an error at any of these; `finish_write_lock` publishes the row count
then too. `Reopen` is a crash or a drop at any point. If either comes in the middle of
a growth or a rewrite (`Breaking`), `cut` is set and nothing is said of the table any
more: the code makes no attempt to recover.

The refinement mapping takes `view` to what the session reads (`Shown`: the merged
reads of the buffer, or the image that is about to be written), `stored` to what
`OpenRows` rows of the files of `dcols` hold, `flushing` to `phase # "idle"`, `whole` to
`phase # "growing"`; both tables are `Damaged` once the session was cut, and `stored`
is while a rewrite replaces files (`View`, `Stored`).

Left out: keywords and column renames, cells of a shape or type of their own, columns
that join an existing manager's files (keywords and joining columns are in
`TableSchema`), direct arrays of the legacy layout, more than one writable handle (the
lock gives exclusion, `TableLock` shows it; what a stale handle does is in `TableSync`),
and what happens after a growth or a rewrite that was cut. The single writes of a
growth, and what an open finds between them, are in `DataManagers`.

Row removal is of one row; several are removed as if one by one, which is what
`drop_rows` amounts to.

### The managers and DataManagers

A file is a function from the places the code addresses (buckets, index pieces,
array records, tiles, maps) to what is there; one unit of space stands for a
cell, a character or a number, and the sizes (`SsmRpb`, `IdxCap`, `StrCap`,
`IsmSize`, `TileBytes`) are constants. `Build` is the writer of a new file,
`OpenManager` what an open parses, `ReadCell` a lookup through the parsed header
and index into the file as it is now, and `SsmGrow`, `IsmUpdate`, `TsmGrow`,
`PutArray` give the list of writes the code makes, in its order.

`DataManagers` has one manager of any kind. `PutCell` and `AddRows` edit the
session's cells; `BeginGrow`, `BeginPatch`, `BeginRebuild` and `BeginRewrite` take
the decision of `grow_in_place`, `flush_preserving` and `create_table` and lay the
writes out in `todo`; `Write` makes the next one; `Die` ends the process at any
point; `OpenView` opens a read handle, which keeps the header, index and row count
it parsed, and the file it mapped when that is replaced. The properties compare
what the handle and a fresh open read with `cells` and `was`, the contents after
and before.

`SsmSound(f, ix, chain)` says what a whole StandardStMan file is: the buckets in `chain`
hold the pieces of the index `ix` (`ChainSound`), whose rows ascend (`IndexSound`), and each
bucket it names is there; `IsmFits(f, n)` that an IncrementalStMan file fits n buckets, and
`Apart` that a layout's columns do not overlap in a bucket of so many rows.
`LayoutsAssumption` asks this of the files a table is found with (`Layouts`), and one
thing more: that the columns of a StandardStMan's file lie at least `SsmRpb` rows apart. A
rebuild needs that (section 6).

### TableSync

`table` is `table.dat` with each column's file, `file` what the files hold (a
replaced file stays, for those who mapped it), `sync` the record of `table.lock`,
`lock` the kernel's locks. A writer's `handle` is the binding's backing: its
rows, columns, pending cells, columns added and removed, and the columns it
last saw on disk. `Open` and `Opened` are the two halves of an open, between
which the lock is waited for; `BeginFlush` and `Flush` those of a flush. `Lock` adopts
the rows of the record (`WritableTable::lock`), `Unlock` flushes and lets go, `Reopen`
replaces a stale clean backing.

A reader's open reads the directory (`OpenRead`), then the record (`SeenRecord`), and
then waits for the lock. What comes next depends on the locking mode, which is left
open: user locking gives the lock back (`OpenedRead`), permanent and auto locking keep
it, over what was read before the wait and without a resync (`KeptRead`), and
permanent locking that tries once may be refused (`RefusedRead`). `LockRead` is
`Table::lock` with `resync`, which returns at once over a lock that is held, however it
was come by; `CloseRead` is `Drop`, also of the snapshot an auto handle yields.
`held` says how a reader came by its lock: "opened", "synced", or "failed" when the
resync ended with an error and left the lock.

A flush takes up (`TakenUp`) the files of the columns `table.dat` has; a flush that is a
rewrite leaves out those the session added itself, even when another process has
meanwhile stored a column of the name. `stored` remembers what was put last in the order
of the flushes (`Promised`), `dropped` the flushes that took away rows or columns nobody
removed: both are history, read by the properties only. `Careful` are the writers that
edit, flush and unlock under their lock; the others do as they like.

### TableReads

A cell is a sequence of elements that name their row, place and version, so that no two
look the same. `RowOrder` makes a reference table, over the table or over another
reference table (the orders are composed). `Ask` begins a read: the rows are sorted into
runs (`RunEnds`), `Enter` takes the gate (once, or once a row for slices), `Visit`
decodes one cell, `Leave` scatters the values to where they were asked for.
`BeginPatch`, `PatchWrite` (half a cell) and `EndPatch` are one hold of the gate by a
flush of the same process; the patch of a StandardStMan array column is two such holds,
one for the references and one for the records. The shape a slice answers with is cut to
32 bits (`Word`) as the code cuts it. `Unset` are the cells no value was stored for:
tiled cells no cube holds, and null references of columns of a free shape. A column of
declared shape in another manager has a value in every row, as this program writes it
(`UnsetAssumption`); null references that other writers put into one are left out.

### TableDat and TableSchema

The stream is a sequence of tokens of a width and a value; reading one with another
width fails, which is how a desynchronised reader shows. `TableDat` writes and parses
header, description and column set, and has the two writers that change a row count
inside the file. `ColumnDicts` is the way of a column through Python's dictionary and
JSON. In `TableSchema` a session (`wt`) edits keywords, columns and rows; `FlushInPlace`
plans added columns beside the old ones, joining their group's manager or taking a new
sequence number, `WriteManager`, `SwapTableDat` and `DropSuperseded` carry it out file
by file; before them, or alone, a growth goes manager after manager to `table.dat` and
the sync record (`GrowManager`, `GrowDat`, `GrowSync`). `create_table` removes the files
that are not written again (`FlushWhole`), replaces `table.dat` (`WholeDat`) and then
each manager's file (`WholeFile`, `WholeEnds`). `RewriteTableDat` is the metadata
rewrite. `WriteFails`, `GrowFails`, `WholeFails`, `RewriteFails` and `SessionEnds` end a
flush in any state. `kept` is what was stored; `kept.whole` is FALSE from the first to
the last file of a whole rewrite and after one that was cut, `kept.sure` also during and
after a growth that was, and the properties say there what they do not claim.
`TableCopy` copies a table without its lock file, possibly with other managers;
`FlushPanics` is the `expect` on a row count too large for four bytes.

### TaQL

A statement is a tree. `TaqlText` writes it as tokens with no more brackets than
needed, `TaqlGrammar` parses those, and `ParsesBack` compares. `TaqlEval` evaluates
expressions (values carry their kind; a failure is `Err`, which WHERE takes for
false as the code does) and SELECT; `TaqlPatterns` has the matcher and, beside
it, what LIKE, globs and regular expressions mean. `Taql` runs a statement on
`disk` and brings the backings `back` of the directories up to date; `Put`, `AddRow`
and `Flush` are the handles' own steps, `Query` is `table.query`, whose answer is a
reference table where it can be one. Its `base` is a snapshot that maps the files of
its directory, not a copy: a write there either shows through (`Follows`, `Mapped`:
the cells of the snapshot's rows as they are now) or replaced the files, after which
the view stays with the old ones (`live` is FALSE). Which of the two a write is
depends on its values; both are tried (`ViewAfter`). `IsCareful` is what `Careful`
programs keep to. A float stands for a whole number.

## 3. Runs

| Run | Checks | Shows | States |
|---|---|---|---|
| `table_lock` | `TypeOK`, `HeldIsReal`, `WriterIsCovered`, `FlushExclusion`, `ListFits` | writers exclude each other (unless one got a read-only instance) and keep the lock they count on | 385,742 |
| `auto_yields` | `ListedIsYieldedTo` | a listed waiter is given way to, unless a query or sort result keeps the snapshot | 133,977 |
| `table_store` | `TypeOK`, `Readable`, `KeepsPromise`, `FailureKeepsWrites` | the flush, with failures and deaths between its cells and files and inside a growth, implements `TableContent`, and a failed one costs the session no put | 1,334,060 |
| `managers` | `StoredIsWritten`, `NeverAnotherValue`, `GrowthKeepsReaders`, `HandleNeverMisreads` | no reader, old or new, finds another cell's bytes in a manager's files, in the middle of any flush but a rebuild or after a death in one | 421,125 |
| `table_sync` | `CellsSurvive`, `RowsSurvive`, `LockedSeesRows` | processes that share a table by its sync record keep each other's cells and rows, and a reader that resynced under its lock has the table's rows | 869,005 |
| `reads` | `AnswersAreTheRows`, `CellsAreWhole`, `SlicesAreExact`, `ErrorsNameTheRow` | reads of many rows, of views and of slices answer what single reads would, untorn | 1,061,365 |
| `formats` | `SchemaReadsBack`, `BindingsHold`, `CountsAgree`, `KeyedTogether`, `ClonesAreAlike` | `table.dat` always reads back; it describes the files but from the first to the last file of a whole rewrite; the row counts agree but in the middle of a growth or a rewrite, or after one that was cut | 78,883 |
| `taql` | `ParsesBack`, `FailedLeavesAlone`, `EditsAreExact`, `RowsAreOrdered`, `GroupsPartition`, `PatternsAreExact`, `ViewShowsRows`, `BackingIsCurrent`, `PutsReachDisk` | statements select and change the rows they say, open handles follow, and a reference table shows its rows of the files it maps | 190,166 |
| `writers_overlap` | `WritersExclude` fails | two processes that attach at the same moment can flush at the same moment | |
| `failed_growth` | `Readable` fails | a flush that fails while growing publishes rows the files do not have | |
| `foreign_column` | `ColumnsSurvive` fails | the binding's `unlock` writes over a column another process added | |
| `torn_ism` | `CellsAreWhole` fails | a patch of an IncrementalStMan takes no gate, and a reader decodes half a cell | |

The last four contradict a comment or the documentation of the code and are
described under `findings` in `PROJECT.json`, with the lines.

### Bounds

* `table_lock`: two processes, three handles: a reader in auto mode and a
  user-locking writer share a process, against a permanent writer elsewhere.
  Sharing one instance needs two handles, excluding needs two processes; every
  death happens, and either process may end up with a read-only instance. An
  explicit `lock` tries once (`Patience`); waits are met in opens and flushes, those of
  a bounded number of tries in `auto_yields`, and the proofs cover all three. `ReqLimit` is 2 where the code has 32: the list fills
  with both processes' requests, and stays full with the entry of one that
  died. The other modes are other guards on the same steps, and the proofs
  cover them and any number of handles. `Racing` and `Queried` are empty: with
  `Racing` the properties do not hold (section 6), and results are the business of
  the next run.
* `auto_yields`: one reader and one auto writer, all the property speaks about, and
  results of the reader's `query()` that come and go, the handle being open or closed
  (`Queried`). `ReqLimit` is 1: the one waiter fills the list, and a dead one's entry
  keeps it full.
* `table_store`: columns `a` and `b` (so that one can be added, removed, added
  again under its name, and fail while the other succeeds), of which `a` is kept in two
  files and `b` in one (`Split`); the default, one other value and the lost one; two
  rows (`MaxRows`: one that is old and one that is new, or one that moves up when the
  other goes). The initial table has column `a` and any number of rows up to the
  bound, with and without a sync record.
* `Faults` names the steps whose I/O may fail. `table_store` has every
  kind but three: `grow` and `swap`, a failure before all files have grown
  or before `table.dat` is replaced by a rewrite, whose consequence is what
  `failed_growth` shows, and `latepatch`, a failure after new columns were
  stored. What goes wrong with each is in section 6. Crashes are unrestricted:
  they happen between any two steps, so also inside a growth, in a half-written cell
  and between the two files of a rebuild.
* `managers`: one manager at a time. A StandardStMan with a column of each
  layout (fixed, string, array, shaped array), two rows to a bucket and five
  numbers to an index bucket, so that buckets fill, the index runs over into
  a second piece and strings into a second bucket with four rows; an IncrementalStMan of two
  columns whose bucket splits at the third row; a TiledShapeStMan whose tiles
  split a cell, with packed elements. The files at the start are the
  program's own and those of other writers: a shared array record, a bucket
  fuller than this program would make it, a row that no cube holds. Up to four
  rows and three edits.
* `table_sync`: two writers, one careful, one that adds and removes columns, and
  a reader; two columns, one patched in place and one rebuilt; two rows, two
  values, nine operations. A stale handle needs an open, another's open, edit
  and flush, and an edit and flush of its own: seven; the two more let a
  reader come in between. The reader's locking mode is open: each of its opens gives
  its lock back, keeps it or is refused one.
* `reads`: four rows of six columns: scalars, arrays of a declared and a free
  shape, Bool, in each manager, some cells never stored; two reference tables, the
  second over the first or over the table, from lists with gaps, repetitions
  and a descending order; ranges that end at, cross and start behind the last
  row; slices inside, outside, reversed, stepping over, and beyond `Word`.
  `ByteBits` is 4 and `Word` 8 where the code has 8 and 2^32. Two patches
  (`MaxPatches`) of two rows each in a column of a StandardStMan, a packed Bool one or
  one with an unset cell, half a cell at a time, so that a read can come in between
  them as it can between the two holds of one StandardStMan patch.
* `formats`: tables of up to four columns, three rows, three operations after the table
  is made or found (a flush's steps do not count); found tables are a big-endian one
  whose header was never updated and one in the newest format. `WordMax` is 2: four
  bytes hold no more, so that the third row meets the limit.
* `taql`: two directories, a table of three columns and three rows with ties, statements
  of every kind with and without `$1`, up to four steps; the parser and the patterns are
  also given `Probes`, statements that are parsed and evaluated and followed by nothing.
  `Careful` is TRUE (`IsCareful`): a program does not name by path a directory with
  writes pending, does not run an ALTER of several operations or a DROP on open tables,
  does not INSERT into tables with array columns and does not CREATE over a table.
  Section 6 says what happens otherwise.
* Every mutant under `mutants` is a slip of one definition (a dropped guard, a
  missing reset, a swapped order) that breaks the property in the same run:
  the bounds let each property fail.
* Deadlock is checked in `reads`; elsewhere every process may have died, a
  rewrite was cut, or the bounded number of operations is used up.

### Fairness

`FairSpec` asks that an operation under way goes on where it does not wait for
anyone: list writes, the end of a flush, the return from an acquire (threads
run, and `finish_write_lock` is reached on every path), and the close of the fd once
an instance has no owner left (`FairClose`: the thread that dropped the last `Arc` is
in the middle of dropping it). It does not ask that a lock is ever granted, that a
user ever unlocks, locks or closes, or that a result is ever dropped: as long as one
is alive `ListedIsYieldedTo` promises nothing. `AutoTick` is
strongly fair for the handles in auto mode: the binding calls it at the start of
every operation of a read handle but `lock` and `unlock`, so this is the
assumption that the handle is being read from now and then, also by a user who
locks and unlocks in between (which disables the action for a while, and makes
weak fairness too little). A handle nobody reads from does not yield, in the code
either. The waiter's side is `WaiterStaysListed`, which does not
hold (section 6): together the two would make every waiter seen. No other run has a
liveness property: a session may stop after any step.

## 4. Proofs

TLC checks the invariants on the instances of section 3, TLAPS proves them for
every value of the constants, and for runs of any length. Each proof module has
one lemma per action, an invariant made of named parts, and theorems that follow
from it. What a hypothesis excludes is always reproduced by a run or described in
section 6: none of them could be dropped.

### The lock

`TableLockProofs` proves, for any processes, handles, modes and list size:

| Theorem | States |
|---|---|
| `TypeCorrect` | `Spec => []TypeOK` |
| `HeldIsAlwaysReal` | `Spec => []HeldIsReal` |
| `WriterIsAlwaysCovered` | `Spec => []WriterIsCovered` |
| `FlushesExclude` | `Spec => []FlushExclusion` |
| `ListAlwaysFits` | `Spec => []ListFits` |

Assumptions: `LockFileAssumption` and `TableLockAssumption` type the constants;
`OneWriterAssumption` says that a process has one writable backing per table,
which is what `WRITE_REGISTRY` of the binding guarantees (two `WritableTable`s of
one process, possible from Rust, share `held` without a count and could take
each other's lock away).

None of the properties is inductive. The invariant `IInv` adds:

* `UsersOpen`: the registry's owners are the handles that are open or whose results still
  have a snapshot, so that the last of them cannot leave under a handle that counts on
  a lock;
* `Orphaned`: an instance without owners believes in no lock, and outside `Racing` nobody
  attaches before its fd is closed and the kernel's locks with it;
* `OneInMutex` and `Uncovered`: one handle per process is inside `acquire`, and
  what it asks for was not covered when it began: nobody of the process can have
  changed `held` since;
* `KernelTracked`: `held` lags behind the kernel only from a granted wait to its
  return;
* `IdleHold` and `JobFits`: which handles can believe in a lock, that only
  writers flush, asking for the write lock, and only read handles re-open;
* `WriterHolds`: the writer's process has its write lock in `held`, which is
  why another handle's `release_read` leaves it alone, and an upgrade or a
  downgrade is `Covered`;
* `Exclusive`: fcntl's rule as an invariant, from which `FlushExclusion` follows;
* `ListBounded`: counts read earlier by a process that has not written yet fit
  too, without which a late `AddCount` could overflow the list.

`InitInvariant` and `NextInvariant` establish it, with one lemma per action
(`SucceedKeeps`, `RefuseKeeps` and `AcquireKeeps` serve the operations that
acquire, `NewInstanceKeeps` and `JoinKeeps` those that attach, `ReleaseKeeps`
those that release). The exclusion theorems speak of processes outside `ro`:
`writers_overlap` shows that this cannot be weakened to processes that may write
the lock file; and, as `HeldIsReal` and `WriterIsCovered` do, of processes outside
`Racing`: `LocksOutliveClose` (section 6) is false.

### The flush

`TableStoreProofs` and `TableStorePromise` prove, for any columns, values and
number of rows:

| Theorem | States | Where |
|---|---|---|
| `TypeCorrect` | `Spec => []TypeOK` | always |
| `AlwaysReadable` | `Spec => []Readable` | growing files and replacing `table.dat` do not fail |
| `PromiseIsKept` | `Spec => KeepsPromise`, the refinement of `TableContent` | `Trusted` |
| `RowsAreAddedBlank` | `Spec => NewRowsAreDefault` | always |
| `FailuresKeepWrites` | `Spec => FailureKeepsWrites` | always |

`Trusted` says that `grow`, `swap` and `latepatch` are not among the `Faults`: a flush
does not fail before all files have grown, before a rewrite replaces `table.dat`, or
after new columns were stored. Deaths of the process are not restricted: they come
inside a growth, after half a cell and between two files too. `failed_growth` shows
what happens with `grow`; section 6 tells of the others.

Each theorem says where it stops. `Readable` claims nothing inside one manager's
growth or a rewrite, and nothing once one was cut short: there the table does not
open, or opens as a mixture. `FailureKeepsWrites` speaks of failures between the
growths of managers, while new columns are written and among the patches, in the last
case only where no columns were added, and lets the cells that were not put be lost
in the column whose two files were being replaced; `NewRowsAreDefault` speaks of rows
added behind every row of the disk, and is checked by the proof alone.
`TypeCorrect` has no hypothesis: it contains that no cell stays pending for a row or a
column that is gone, whatever was removed or failed before.

The argument has four layers.

* `BufferInv` is what every failure leaves true: a rewrite's image has all columns
  with all rows (`InSwap`), once `table.dat` is replaced the files are the
  image's, as far as they have been replaced (`InRewrite`), and the only other image is
  that of one column between its two files, whose cells are still pending (`InRebuild`).
* `RowsInv` says how far a flush in place is: while it grows, the files done have the
  buffer's rows and `table.dat` does not count them yet (`InGrow`); after that the count may
  reach them (`HeaderFits`) and every file but those of new columns still to be
  written has them (`InNew`, `InPatch`). `Readable` follows at every step because each
  phase writes the files before the count.
* `WritesInv` says what is in the cells, whatever failed: rows a growth has
  added hold defaults until the count takes them in (`Grown`), so that a death or a
  failure between two managers loses nothing and shows nothing; and the image of a column
  between its two files has what is pending (`RebuildTrue`). `FailuresKeepWrites` needs
  no more, which is why it holds whatever fails.
* `PromiseInv` survives the failures `Trusted` leaves. The columns of `table.dat` and of
  the session stay together (`ColumnsTrue`), a flush in place has removed none
  (`NothingRemoved`); the rows added are still blank while new columns are written
  (`StillBlank`), whose files hold what the session sees (`NewAreMerged`); and a patch under
  way has, in rows nobody can see yet, the default, the buffer's value, or, in a column
  of two files, nothing known (`PatchesTrue`). `InitStep` and `NextStep` map every step of
  `Next` to a step of `TableContent` or to a stutter.

### Several processes

`TableSyncProofs` proves, for any writers, readers, columns and rows:

| Theorem | States |
|---|---|
| `CellsAlwaysSurvive` | `Spec => []CellsSurvive` |
| `RowsAlwaysSurvive` | `Spec => []RowsSurvive` |
| `LockedAlwaysSeesRows` | `Spec => []LockedSeesRows` |
| `FilesOnlyGrow` | `Spec => [][FilesGrow]_vars`: no step takes away a file or rows of one |

`TableSyncAssumption` types the constants: the first table's columns are a sequence of
columns, and `None` is nobody's name. The inductive invariant `IInv` adds to the properties:

* `RecordFollows`: the sync record has the table's rows and number of columns;
* `FilesFit`: each column of `table.dat` has a file of its own, of the table's rows:
  what a rebuild or a rewrite gives a fresh name to, nobody else's column refers to;
* `PutsPending`: what a backing remembers it put is what it still has pending, so that a
  flush of a stale backing writes over what others stored only where it was told to;
* `HolderKnows`: the backing that believes it holds the lock does, and counted the
  table's rows when it took it; a careful writer flushes only while it holds it. From
  this follows that its flush takes no rows away (`RowsSurvive`);
* `ReaderKnows`: a reader that holds its lock stands in the way of every flush, and if
  it resynced under it ("synced") has the table's row count; the files it has mapped
  keep the rows of its snapshot even when it holds no lock, because files are only grown
  or replaced.

The proof of `CellsSurvive` corrected the property: as first stated it was false in runs
longer than the bound of `table_sync`. A stale writer's `unlock` brings a removed column
back, and the in-place flush of another, which had added a column of that name itself,
then takes up that file. `Promised` now says whose cells count there, as the code
decides it.

### Reads

`TableReadsProofs` proves, for any table, reference tables over reference tables,
requests and flushes:

| Theorem | States | Where |
|---|---|---|
| `ReadsHold` | `Spec => []ReadsInv` | always |
| `ErrorsName` | `Spec => []ErrorsNameTheRow` | always |
| `AnswersAre` | `Spec => []AnswersAreTheRows` | `Gated` |
| `AnswersAreWhole` | `Spec => []CellsAreWhole` | `Gated` |

`Gated` says that flushes patch no IncrementalStMan column: their patches take no gate, and
`torn_ism` shows a read that is answered half a cell. `TableReadsAssumption` types the
constants; `UnsetAssumption` is described in section 2.

* `ViewsFit`: the rows a reference table keeps are those its list names of the handle
  it was made from. `RowsAreComposed` follows the lists down to the table
  by induction over the views, and `ResolvedIsAsked` concludes that a request's i-th row
  is the row of the table its caller means.
* `ReadFits`, with `TodoFits`: what a read visits are the rows asked for, each once and with
  its place. It rests on two lemmas about the gather: `SourceOrdersFit`, that the
  sorted pairs are a permutation of the list, whichever way equal rows
  are ordered; and `GatherIsOrder`, that reading a run from its first row on
  gives each pair its own row (`RunIsConsecutive`, by induction along a run).
* `CellsFit`, `PatchFits` and `GatesExclude`: a cell is as some flush or none left it,
  unless it is the one a flush is in the middle of, and that flush, where it takes a
  gate, excludes every read that has it.
* `GotFits` and `AnswerTrue` (`GatedInv`): what a read was given so far are the cells as
  they are now, since it has kept the gate; the answer is the content of the rows
  asked for, all at the moment the read ends. `SeenIsContent` covers the three ways of
  reading; for packed Bool, `BitsAreData` shows that the bits taken out of the bytes
  around them are the cell's, for any number of elements and bits to a byte.
* `AnswerFits`: a refused row is the first that is not there.

### The managers

`DataManagersProofs` and `StandardStManProofs` prove, for any columns, cells, sizes of
buckets, index pieces and tiles, and any number of rows and edits:

| Theorem | States |
|---|---|
| `ReadersAreKept` | `Spec => []GrowthKeepsReaders`, for each kind of manager |
| `GrowthCutOff` | a growth of a StandardStMan cut off after any write: an open finds the old index, the new one or none, a handle from before loses no cell, and all writes make whole files |
| `IndexReadsBack` | `read_index` finds the index that was written, over however many buckets |
| `BuildIsSound` | a rebuild writes whole files |

They assume what types the constants (`StandardStManAssumption`,
`IncrementalStManAssumption`, `TiledStManAssumption`, `DataManagersAssumption`) and
`LayoutsAssumption` about the files at the start. `GrowthCutOff` and the next two are
about the operators alone and say what they need: whole files, a handle opened on them,
rows to add.

`GrowthKeepsReaders` is not inductive: that a write spares a handle depends on where the
writes before it have put things. The invariant is `Inv == Shape /\ SsmInv /\ IsmInv /\
TsmInv`.

* `Shape`: what a flush has still to write is of the manager's kind, a handle's file
  and header are what an open can give, and the cells have a value for each row.
* `SsmInv`: between growths the files are whole, and a handle finds each row it knows in
  the bucket where an open would find it (`Follows`). During a growth (`Growing`) there
  is one `g` that says what it does from beginning to end, and the files are `Along` it:
  the topped up and fresh data buckets are written, the pieces of the index up to some
  number, the header last. Buckets of old rows keep their cells, string buckets stay,
  array records are only added: that is why the handle's old index still leads to every
  cell (`RowsStay`).
* `IsmInv`: there is a number of buckets to come such that every slot leads to one of
  them, and a write in `todo` that replaces a bucket which handles know leaves it
  readable for the rows they look up there (`SparesReaders`, `UpdateFits`).
* `TsmInv`: the property itself. Whether a handle finds a cell goes by the header and
  row map it keeps, whatever a growth does to the tiles (`TsmReadsOn`); what
  stands there is `HandleNeverMisreads`.

The lemmas underneath: the index, cut into pieces and joined along the chain, parses to
itself; streams that differ in one place are cut into pieces of which one differs
(`OnePieceDiffers`), so that an index overwritten half way is the old or the new one
unless its length changed; and if it did, the header's old length cuts it short
(`CutShort`), and the open fails as section 6 tells.

Induction is done without the theorems of the library that take an operator:
`NaturalLemmas` shows that a set of naturals that is not empty has a least element, and
from it that a set which has 0 and hands on from each k to k + 1 has all up to n
(`UpTo`). A recursive function is first shown to exist, by the same lemma, and then
unfolded (`SizeIsNatural`, `RowsAreComposed`).

## 5. What is only model-checked

* Liveness (`ListedIsYieldedTo`): TLAPS has no rule for it here.
* `SlicesAreExact`: that the strides of `Indices` list the selected coordinates in
  row-major order needs an induction over dimensions whose steps multiply variables,
  which the arithmetic of the provers does not find.
* `StoredIsWritten`, `NeverAnotherValue` and `HandleNeverMisreads` of `DataManagers`: that
  what is read is the very value put. The invariant proved follows where each
  cell is, not what it holds; these need the content of each cell through three
  encodings, patches and shared array records besides.
* `Records`, `TableSchema` and the TaQL modules, whose operators are recursive (nested
  records, column lists, expression trees): TLAPS cannot take modules that contain
  such operators.

## 6. Disagreements seen while modelling

Besides the four of the runs, the models reproduce the following, each found by
TLC with the named property or by reading the code for the model. The named properties
stand in the modules, marked as found not to hold. No passing run relies on their
absence except where its bounds say so.

Locking:

* `WaiterStaysListed` (`lockfile.rs:658`): two processes that add themselves to the
  request list at once overwrite each other, and one waits unseen, though
  auto-locking holders release only for a listed waiter.
* `LockGivesLock` (binding, `table.rs:2354`): `lock()` of a read handle in auto mode
  returns without the lock: the snapshot it replaces gives it back.
* `LocksOutliveClose` (`lockfile.rs:802`, with `Racing`): "the fd (and its locks) live until
  the last referencing handle drops", but the last `Arc` and its fd do not go under the
  registry's mutex. A thread that opens the table in between gets a second fd,
  and the late close of the first takes its locks. The binding lets threads in
  (`lib.rs:260`).
* `AlwaysYieldedTo` (binding, `table.rs:1325`): `auto_tick` replaces the handle's snapshot
  (`table.rs:1361`), but a `query()` or `sort()` result shares it (`table.rs:1736`), so that
  its read lock stays as long as the result lives, whoever is listed.
* `InUseIsMarked` (`lockfile.rs:366`): `ismultiused` drops the process's own in-use
  mark, so that others no longer see it.
* `LockedSeesCells` (`table.rs:1653`): `resync` goes by the table-change counter and
  the row count; a flush that rebuilds files of a column moves neither, and a
  locked reader keeps the old cells. The counter is not moved by a whole rewrite
  either.
* `OpenedSeesRows` (`table.rs:1321`): permanent and auto opens read the directory and the
  record before they wait for the lock, and keep it (`table.rs:1337`-1369) without
  looking again: such a reader holds the lock over rows older than it.
* A `lock()` over a lock that is held returns without a resync (`table.rs:1560`): after
  one whose resync failed, and left the lock held, the next says that all is well.
* The binding's `unlock()` without a lock flushes all the same, although its doc
  says nothing is done (`table.rs:2387`); with a stale row count that rewrites the
  table shorter. Reopening a stale clean backing while it holds its lock gives
  the lock away.

Flushing:

* `NewRowsAreDefault` without `rows >= OpenRows` (`table.rs:3057`): rows added after a
  removal in the same session read the removed rows' values.
* `FailureKeepsWrites` without its restriction to phases. A flush that fails among the
  patches after new columns were stored (`table.rs:3718`, `latepatch`) leaves them in
  `added_names` with their cells released; they then read, and may be rewritten,
  as defaults. One that fails in the middle of a growth leaves a table that does not
  open, and with it no cell that was not pending. One that fails before a rewrite replaces
  `table.dat` (`swap`) publishes the buffer's row count over the old files, and where rows
  were removed and others added, the removed rows' cells show again.
* `AlwaysReadable` in the three windows: see `OpenIsWhole` and `AlwaysBound` below.
* A NoLocking flush that is refused still publishes the session's row count. Two tiled
  columns of one explicit group make every flush fail.
* `apply_dminfo` leaves earlier records applied when a later one fails; a
  conversion that changes a tile shape only is not carried out. `addcols` does not
  check for an existing column of the name, nor RENAME COLUMN.

Managers and reads:

* `OpenIsWhole` of `DataManagers`: a StandardStMan that grows writes its index pieces
  before its header, and an open in between fails, also after a death there; comment at
  `table.rs:1226`. IncrementalStMan growth overwrites the old index before the header.
  `TableStore` has this window as its phase "growing". A rebuild renames `table.f{n}`
  and then `table.f{n}i` (a tiled header and then its tiles) outside the gate
  (`table.rs:4415`), which `TableStore` has as `BeginRebuild` and `EndRebuild`: a handle
  opened between them pairs an old and a new file, which `HandleNeverMisreads` leaves
  out.
* A rebuild of a StandardStMan's files computes a layout of its own and discards it
  (`_spec`, `table.rs:4421`): the buckets have the rows this program puts in one, while
  `table.dat` keeps the column offsets of the old files. Where another program's files
  had fewer rows to a bucket, columns overlap after that and other values are read.
  `NeverAnotherValue` and `StoredIsWritten` fail as soon as `Layouts` has such a file;
  `LayoutsAssumption` excludes it.
* `PatchIsWhole`: an array cell put behind the end of an old handle's mapping reads as
  an error there until it is re-opened; an undefined array cell becomes defined by a
  rebuild (`ssm.rs:765`). A StandardStMan patch writes buckets and array records under
  two acquisitions of the gate.
* Tiled columns: a requested tile shape is forgotten when a variable-shape
  column that was made without rows first grows; rebuilds are always
  little-endian; cells of packed Bool split by tiles are written with offsets in
  whole elements (`tsm.rs:1826`).
* `CornersAreRefused` (`table.rs:2736`): a slice corner of 2^32 or more is not refused. It
  is cut to 32 bits and then compared, and the extent is cut too (`table.rs:2745`): with
  a step of one the call silently answers what is left of it, with a longer step it
  may panic. `SlicesAreExact` speaks of corners within 32 bits.
* An unset tiled cell of a column without a declared shape is reported as a row out of
  range; a ranged slice takes the gate row by row.

Descriptions:

* `AlwaysBound` (`table.rs:508`): a whole rewrite that dies or fails after `create_table`
  replaced `table.dat` leaves columns bound to files that are missing, or to the old
  ones of another column; no recovery is attempted.
* `CopiesAreConsistent`: `patch_copy_nrow` leaves the column set's count as it was, though
  its comment (`table.rs:116`) says the copy is self-consistent; no reader of this
  program looks at it. A table grown past four-byte
  counts panics at its next metadata rewrite. `rewrite_table_dat` takes no gate.
* Columns of one group whose name was suffixed automatically are split when
  others join; a group called `G_1` can meet a suffixed `G`.
* Through JSON, array keywords become records of shape and array, and whole Doubles
  integers. Columns of variable shape make every flush rewrite `table.dat`.

TaQL:

* `OrderedByKeys` (`taql.rs:4297`): keys behind a descending one that ties are
  ignored, though `taql.rs:9` and 4276 promise a sort by several keys.
* `CreatedIsNew` (`table.rs:3007`): CREATE TABLE over an existing table keeps the old
  cells of columns of the same name and type.
* After a failed ALTER or DROP TABLE the backings stay stale (binding,
  `table.rs:3805`); ALTER TABLE `$1` with several operations loses the earlier ones;
  a statement that names a directory by path drops what open handles had not flushed;
  relative paths are not found in the registry.
* SELECT UNIQUE is ignored with GROUPBY, HAVING without it; tokens after the
  end of UPDATE, DELETE, INSERT, COUNT, ALTER and CALC are ignored; SELECT INTO
  takes a column's type from its first value.
* Groups and alternatives in regular expressions do not backtrack, and a
  repeated part that matches nothing loops for ever.
* UPDATE and INSERT of tables with array columns fail, INSERT after having
  added its rows.

## 7. Not modelled

Measures, astronomy, quanta and images: floating point, and no order of steps.
Measurement set schemas: data. Python conversions: no state. In the modelled
parts: byte codecs of the element types, byte order, complex and date values,
TaQL's numeric functions, coordinate columns of hypercubes, locks of subtables,
a missing `table.lock`, files of other users' permissions other than the lock
file's.

## 8. Plan

Done: `LockFile` and `TableLock`, `TableContent` and `TableStore`, `TableSync`,
`TableReads`, the managers, the descriptions and TaQL with their runs; the proofs
about the lock, the flush and its refinement, several processes, reads, and what a growth
leaves readable.

Left, in this order:

1. `StoredIsWritten` for a StandardStMan: `SsmInv` says where every cell is, so what is
   missing is its value through `Along`.
2. `SlicesAreExact` for one and two dimensions, where the strides are explicit.
3. A description whose records are not nested, so that `SchemaReadsBack` can be stated
   without recursive operators.
