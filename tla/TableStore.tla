----------------------------- MODULE TableStore -----------------------------
(***************************************************************************)
(* A WritableTable and the files of its table directory                    *)
(* (crates/casacure/src/table.rs), with the write lock held throughout a   *)
(* flush as TableLock shows.                                               *)
(*                                                                         *)
(* Edits are buffered: rows added are only counted, cells put are pending, *)
(* the row removal of the binding and of TaQL first makes every row        *)
(* pending.  A flush compares the buffer with the directory and either     *)
(* works in place (grow every file, patch the row count, write the files   *)
(* of new columns, swap table.dat, patch the pending cells) or rewrites    *)
(* the table whole from an image it builds first.  It may fail, or die     *)
(* with the process, between any two of its writes that a reader can tell  *)
(* apart: file by file, cell by cell, in the middle of a manager's growth  *)
(* and between the two files of a manager that keeps two.                  *)
(*                                                                         *)
(* One column stands for one data manager with its files.                  *)
(***************************************************************************)
EXTENDS Naturals, Sequences, FiniteSets

CONSTANTS
  Col,      \* the columns a table may have
  Val,      \* the cell values told apart
  Default,  \* the value of a cell nobody wrote
  Lost,     \* the value of a cell of which nothing is known any more
  Split,    \* the columns whose manager keeps cells in two files
  Damaged,  \* stands for a table in the middle of a rewrite
  FirstCols,\* the columns of the table at first
  MaxRows,  \* bound on the rows of the table
  Faults    \* the kinds of step whose I/O may fail

FaultKinds == {"grow", "header", "new", "patch", "latepatch", "swap", "rewrite"}

ASSUME TableStoreAssumption ==
  /\ {Default, Lost} \subseteq Val /\ Default # Lost
  /\ Split \subseteq Col
  /\ FirstCols \subseteq Col
  /\ MaxRows \in Nat
  /\ Faults \subseteq FaultKinds
  /\ Damaged \notin [rows : Nat, cell : UNION {[C -> Seq(Val)] : C \in SUBSET Col}]

VARIABLES
  header,  \* the row count in table.dat
  sync,    \* the row count in table.lock's sync record, 0 for none
  dcols,   \* the columns table.dat describes
  file,    \* file[c]: the cells in the files of column c
  rows,    \* WritableTable::rows
  cols,    \* the columns of WritableTable::desc
  cells,   \* cells[c]: the pending cells of column c, by row
  added,   \* WritableTable::added_names
  removed, \* WritableTable::removed_cols
  phase,   \* where the flush is
  left,    \* the columns this phase of the flush has still to do
  image,   \* the cells a rewrite, or a column's rebuild, is going to write
  cut      \* a rewrite, or a manager's growth, was cut short: nothing is
           \* said of this table any more

disk   == <<header, sync, dcols, file>>
memory == <<rows, cols, cells, added, removed>>
vars   == <<disk, memory, phase, left, image, cut>>

Phases  == {"idle", "grow", "growing", "new", "patch", "swap", "rewrite"}
Known   == Val \ {Lost}
NoCells == [i \in {} |-> Default]
NoImage == [c \in {} |-> <<>>]

Init ==
  /\ header \in 0..MaxRows
  /\ sync \in {0, header}
  /\ dcols = FirstCols
  /\ \E first \in [FirstCols -> [1..header -> Known]] :
       file = [c \in Col |-> IF c \in FirstCols THEN first[c] ELSE <<>>]
  /\ rows = header
  /\ cols = dcols
  /\ cells = [c \in Col |-> NoCells]
  /\ added = {}
  /\ removed = FALSE
  /\ phase = "idle"
  /\ left = {}
  /\ image = NoImage
  /\ cut = FALSE

-----------------------------------------------------------------------------
(* Reading.                                                                *)

(* The rows an open counts: the sync record first, then table.dat.         *)
OpenRows == IF sync # 0 THEN sync ELSE header

(* Faulty variant: a column is found on disk by its name alone.            *)
OnDiskByName(c) == c \in dcols

(* Column c has cells on disk that are this session's column c, and not    *)
(* one of that name it has removed.                                        *)
OnDisk(c) == c \in dcols /\ (c \notin added \/ phase = "patch")

DiskRows == IF phase \in {"new", "patch"} THEN rows ELSE OpenRows

(* A cell as a merged read and a rewrite resolve it: pending, else on      *)
(* disk, else the default.                                                 *)
Merged(c, i) ==
  IF i \in DOMAIN cells[c] THEN cells[c][i]
  ELSE IF OnDisk(c) /\ i <= DiskRows /\ i <= Len(file[c]) THEN file[c][i]
  ELSE Default

MergedCol(c) == [i \in 1..rows |-> Merged(c, i)]

(* A cell as the session has it: while its column is replaced, what is     *)
(* about to be written.                                                    *)
Shown(c, i) == IF c \in DOMAIN image THEN image[c][i] ELSE Merged(c, i)

-----------------------------------------------------------------------------
(* The session's calls.                                                    *)

Editing == phase = "idle" /\ ~cut /\ UNCHANGED <<disk, phase, left, image, cut>>

AddRow ==
  /\ Editing
  /\ rows < MaxRows
  /\ rows' = rows + 1
  /\ UNCHANGED <<cols, cells, added, removed>>

PutCell(c, i, v) ==
  /\ Editing
  /\ c \in cols
  /\ cells' = [cells EXCEPT ![c] = [k \in DOMAIN @ \cup {i} |-> IF k = i THEN v ELSE @[k]]]
  /\ UNCHANGED <<rows, cols, added, removed>>

(* Faulty variant: the pending cells are not renumbered.                   *)
RemoveRowUnnumbered(r) ==
  /\ Editing
  /\ cols # {}
  /\ rows' = rows - 1
  /\ UNCHANGED <<cols, cells, added, removed>>

(* removerows and DELETE: every row becomes pending, then drop_rows        *)
(* renumbers.  Several rows go as if one by one.                           *)
RemoveRow(r) ==
  /\ Editing
  /\ cols # {}
  /\ rows' = rows - 1
  /\ cells' = [c \in Col |->
       IF c \in cols
         THEN [i \in 1..rows - 1 |-> Merged(c, IF i < r THEN i ELSE i + 1)]
         ELSE cells[c]]
  /\ UNCHANGED <<cols, added, removed>>

AddCol(c) ==
  /\ Editing
  /\ c \notin cols
  /\ cols' = cols \cup {c}
  /\ added' = added \cup {c}
  /\ UNCHANGED <<rows, cells, removed>>

(* The name stays in added_names.                                          *)
RemoveCol(c) ==
  /\ Editing
  /\ c \in cols
  /\ cols' = cols \ {c}
  /\ cells' = [cells EXCEPT ![c] = NoCells]
  /\ removed' = TRUE
  /\ UNCHANGED <<rows, added>>

-----------------------------------------------------------------------------
(* flush_locked.                                                           *)

NewCols == cols \ dcols

(* Every layout concerned can grow in place: each manager's dry run also   *)
(* wants its file to hold exactly the rows of the table on disk.           *)
CanGrow == \A c \in dcols : Len(file[c]) = OpenRows

(* `extends` stands for the layouts: whether the managers on disk can grow *)
(* and the new columns can be written beside them.                         *)
InPlace(extends) ==
  /\ ~removed
  /\ cols = dcols \/ extends
  /\ OpenRows = rows \/ (OpenRows < rows /\ extends /\ CanGrow)

AfterGrow == IF cols = dcols THEN "patch" ELSE "new"

BeginInPlace ==
  /\ phase = "idle" /\ ~cut
  /\ \E extends \in BOOLEAN : InPlace(extends)
  /\ phase' = IF OpenRows < rows THEN "grow" ELSE AfterGrow
  /\ left' = IF OpenRows < rows THEN dcols ELSE NewCols
  /\ UNCHANGED <<disk, memory, image, cut>>

(* materialize_all builds the image before create_table touches a file.    *)
BeginRewrite ==
  /\ phase = "idle" /\ ~cut
  /\ \E extends \in BOOLEAN : ~InPlace(extends)
  /\ phase' = "swap"
  /\ image' = [c \in cols |-> MergedCol(c)]
  /\ UNCHANGED <<disk, memory, left, cut>>

(* ssm_grow and ism_update: new buckets go behind the old ones, where      *)
(* nobody looks, then the index is overwritten, then the file's header.    *)
(* Between the last two the file, and with it the table, does not open.    *)
BeginGrow ==
  /\ phase = "grow" /\ left # {}
  /\ phase' = "growing"
  /\ UNCHANGED <<disk, memory, left, image, cut>>

(* grow_in_place: one manager's files have the new rows, as defaults.      *)
Grow(c) ==
  /\ phase = "growing" /\ c \in left
  /\ file' = [file EXCEPT ![c] = [i \in 1..rows |-> IF i <= Len(@) THEN @[i] ELSE Default]]
  /\ left' = left \ {c}
  /\ phase' = "grow"
  /\ UNCHANGED <<header, sync, dcols, memory, image, cut>>

(* Faulty variant: the row count goes first.                               *)
PatchHeaderEarly ==
  /\ phase = "grow"
  /\ header' = rows
  /\ phase' = IF left = {} THEN AfterGrow ELSE phase
  /\ left' = IF left = {} THEN NewCols ELSE left
  /\ UNCHANGED <<sync, dcols, file, memory, image, cut>>

PatchHeader ==
  /\ phase = "grow" /\ left = {}
  /\ header' = rows
  /\ phase' = AfterGrow
  /\ left' = NewCols
  /\ UNCHANGED <<sync, dcols, file, memory, image, cut>>

(* write_new_managers: the files of one new column, which no reader of the *)
(* old table.dat looks at.                                                 *)
WriteNew(c) ==
  /\ phase = "new" /\ c \in left
  /\ file' = [file EXCEPT ![c] = MergedCol(c)]
  /\ left' = left \ {c}
  /\ UNCHANGED <<header, sync, dcols, memory, phase, image, cut>>

(* table.dat goes last; only then are the new columns' cells let go.       *)
SwapDat ==
  /\ phase = "new" /\ left = {}
  /\ header' = rows
  /\ dcols' = cols
  /\ cells' = [c \in Col |-> IF c \in NewCols THEN NoCells ELSE cells[c]]
  /\ phase' = "patch"
  /\ UNCHANGED <<sync, file, rows, cols, added, removed, left, image, cut>>

(* flush_preserving can write column c: its file has every row.            *)
Patchable(c) == phase = "patch" /\ DOMAIN cells[c] # {} /\ Len(file[c]) >= rows

(* No column is between the two files of its rebuild.                      *)
Patching(c) == Patchable(c) /\ image = NoImage

(* Of a cell kept in two files the first is written: patch_ssm_column      *)
(* writes the references of all cells, and then the records they lead to.  *)
TearCell(c, i) ==
  /\ Patching(c) /\ c \in Split
  /\ i \in DOMAIN cells[c]
  /\ file[c][i] # Lost
  /\ file' = [file EXCEPT ![c][i] = Lost]
  /\ UNCHANGED <<header, sync, dcols, memory, phase, left, image, cut>>

(* One pending cell is patched into the file.                              *)
PatchCell(c, i) ==
  /\ Patching(c)
  /\ i \in DOMAIN cells[c]
  /\ file[c][i] # cells[c][i]
  /\ file' = [file EXCEPT ![c][i] = cells[c][i]]
  /\ UNCHANGED <<header, sync, dcols, memory, phase, left, image, cut>>

PatchDone(c) ==
  /\ Patching(c)
  /\ \A i \in DOMAIN cells[c] : file[c][i] = cells[c][i]
  /\ cells' = [cells EXCEPT ![c] = NoCells]
  /\ UNCHANGED <<disk, rows, cols, added, removed, phase, left, image, cut>>

(* Or the column's file is rebuilt from disk and buffer and replaced.      *)
Rebuild(c) ==
  /\ Patching(c) /\ c \notin Split
  /\ file' = [file EXCEPT ![c] = MergedCol(c)]
  /\ cells' = [cells EXCEPT ![c] = NoCells]
  /\ UNCHANGED <<header, sync, dcols, rows, cols, added, removed, phase, left, image, cut>>

(* Two files are replaced one after the other: in between the first, new,  *)
(* leads into the second, still the old one.                               *)
BeginRebuild(c) ==
  /\ Patching(c) /\ c \in Split
  /\ image' = [d \in {c} |-> MergedCol(c)]
  /\ file' = [file EXCEPT ![c] = [i \in 1..rows |-> Lost]]
  /\ UNCHANGED <<header, sync, dcols, memory, phase, left, cut>>

EndRebuild(c) ==
  /\ phase = "patch" /\ c \in DOMAIN image
  /\ file' = [file EXCEPT ![c] = image[c]]
  /\ cells' = [cells EXCEPT ![c] = NoCells]
  /\ image' = NoImage
  /\ UNCHANGED <<header, sync, dcols, rows, cols, added, removed, phase, left, cut>>

(* create_table: stale files go, table.dat is replaced, then each file.    *)
RewriteDat ==
  /\ phase = "swap"
  /\ header' = rows
  /\ dcols' = cols
  /\ file' = [c \in Col |-> IF c \in cols THEN file[c] ELSE <<>>]
  /\ phase' = "rewrite"
  /\ left' = cols
  /\ UNCHANGED <<sync, memory, image, cut>>

RewriteFile(c) ==
  /\ phase = "rewrite" /\ c \in left
  /\ file' = [file EXCEPT ![c] = image[c]]
  /\ left' = left \ {c}
  /\ UNCHANGED <<header, sync, dcols, memory, phase, image, cut>>

(* The flush succeeded; finish_write_lock stores the row count.            *)
EndFlush ==
  /\ \/ phase = "patch" /\ \A c \in cols : cells[c] = NoCells
     \/ phase = "rewrite" /\ left = {}
  /\ sync' = rows
  /\ cells' = [c \in Col |-> NoCells]
  /\ added' = {}
  /\ removed' = FALSE
  /\ phase' = "idle"
  /\ image' = NoImage
  /\ UNCHANGED <<header, dcols, file, rows, cols, left, cut>>

MayFail ==
  \/ phase = "growing" /\ "grow" \in Faults
  \/ phase = "grow" /\ (IF left # {} THEN "grow" ELSE "header") \in Faults
  \/ /\ phase = "patch"
     /\ \E c \in cols :
          /\ DOMAIN cells[c] # {}
          /\ ~Patchable(c) \/ (IF added = {} THEN "patch" ELSE "latepatch") \in Faults
  \/ phase \in {"new", "swap", "rewrite"} /\ phase \in Faults

(* finish_write_lock runs on an error too, and publishes the row count of  *)
(* the buffer.                                                             *)
Published == rows

(* Faulty variant: the cells taken are gone with the files.                *)
HandBackNothing(taken) ==
  /\ cells' = [c \in Col |-> IF c \in taken THEN NoCells ELSE cells[c]]
  /\ file' = [c \in Col |-> IF c \in taken THEN <<>> ELSE file[c]]

(* add_columns_in_place hands the cells it took back, as written for every *)
(* row, and removes the files it wrote.                                    *)
HandBack(taken) ==
  /\ cells' = [c \in Col |->
       IF c \in taken /\ cells[c] # NoCells THEN MergedCol(c) ELSE cells[c]]
  /\ file' = [c \in Col |-> IF c \in taken THEN <<>> ELSE file[c]]

(* The phases no one may be interrupted in.                                *)
Breaking == phase \in {"growing", "rewrite"}

FlushFails ==
  /\ MayFail
  /\ sync' = Published
  /\ phase' = "idle"
  /\ left' = {}
  /\ image' = NoImage
  /\ cut' = Breaking
  /\ IF phase = "new"
       THEN \E current \in SUBSET left :
              /\ Cardinality(current) <= 1
              /\ HandBack(NewCols \ (left \ current))
       ELSE UNCHANGED <<file, cells>>
  /\ UNCHANGED <<header, dcols, rows, cols, added, removed>>

(* The process dies, or drops the handle, and the table is opened anew.    *)
Reopen ==
  /\ ~cut
  /\ rows' = OpenRows
  /\ cols' = dcols
  /\ cells' = [c \in Col |-> NoCells]
  /\ added' = {}
  /\ removed' = FALSE
  /\ phase' = "idle"
  /\ left' = {}
  /\ image' = NoImage
  /\ cut' = Breaking
  /\ UNCHANGED disk

Next ==
  \/ AddRow
  \/ \E c \in Col, i \in 1..rows, v \in Known : PutCell(c, i, v)
  \/ \E r \in 1..rows : RemoveRow(r)
  \/ \E c \in Col : AddCol(c) \/ RemoveCol(c)
  \/ BeginInPlace \/ BeginGrow \/ PatchHeader \/ SwapDat
  \/ \E c \in Col : Grow(c) \/ WriteNew(c)
  \/ \E c \in Col : PatchDone(c) \/ Rebuild(c) \/ BeginRebuild(c) \/ EndRebuild(c)
  \/ \E c \in Col, i \in 1..rows : TearCell(c, i) \/ PatchCell(c, i)
  \/ BeginRewrite \/ RewriteDat \/ \E c \in Col : RewriteFile(c)
  \/ EndFlush \/ FlushFails
  \/ Reopen

Spec == Init /\ [][Next]_vars

-----------------------------------------------------------------------------
TypeOK ==
  /\ header \in 0..MaxRows /\ sync \in 0..MaxRows /\ rows \in 0..MaxRows
  /\ dcols \subseteq Col /\ cols \subseteq Col /\ added \subseteq Col
  /\ file \in [Col -> Seq(Val)] /\ \A c \in Col : Len(file[c]) <= MaxRows
  /\ DOMAIN cells = Col
  /\ \A c \in Col : DOMAIN cells[c] \subseteq 1..rows /\ cells[c] \in [DOMAIN cells[c] -> Val]
  /\ removed \in BOOLEAN /\ cut \in BOOLEAN
  /\ phase \in Phases
  /\ left \subseteq Col
  /\ DOMAIN image \subseteq Col /\ image \in [DOMAIN image -> Seq(Val)]

(* Unless a rewrite or the growth of one manager is under way or was cut   *)
(* short, whoever opens the table finds in every column's files the rows   *)
(* the table claims to have: between the growths of two managers, before   *)
(* and after the row count, between any two cells or files of the patches, *)
(* after a crash there, and after a flush that failed.  (A crash inside a  *)
(* manager's growth leaves a table that does not open, one inside a        *)
(* rewrite a mixture: these two are not claimed.)                          *)
Readable ==
  ~Breaking /\ ~cut => \A c \in dcols : Len(file[c]) >= OpenRows

(* addrows behind every row of the disk appends a row of defaults.  (Where *)
(* rows were removed since the last flush this is found not to hold: the   *)
(* new row shows the cells the disk still has under its number.)           *)
NewRowsAreDefault ==
  [][AddRow /\ rows >= OpenRows =>
       \A c \in cols : MergedCol(c)' = Append(MergedCol(c), Default)]_vars

(* Wherever a flush fails, and whatever failed before it, the session      *)
(* still has every cell it put since the last flush, and every other cell  *)
(* but in the column whose two files were being replaced.  (This is found  *)
(* not to hold of a failure inside a manager's growth or a rewrite, nor of *)
(* one that meets the patches after new columns were stored.)              *)
FailureKeepsWrites ==
  [][FlushFails /\ (phase \in {"grow", "new"} \/ (phase = "patch" /\ added = {})) =>
       \A c \in cols, i \in 1..rows :
         \/ Shown(c, i)' = Shown(c, i)
         \/ c \in DOMAIN image /\ i \notin DOMAIN cells[c]]_vars

-----------------------------------------------------------------------------
(* The promise, kept: every step of the handle is one TableContent allows. *)

(* The table as the session has edited it.                                 *)
View ==
  IF cut THEN Damaged
  ELSE [rows |-> rows, cell |-> [c \in cols |-> [i \in 1..rows |-> Shown(c, i)]]]

(* The table whoever opens the directory now reads.                        *)
Stored ==
  IF cut \/ phase = "rewrite" THEN Damaged
  ELSE [rows |-> OpenRows,
        cell |-> [c \in dcols |-> SubSeq(file[c], 1, OpenRows)]]

Promise == INSTANCE TableContent WITH
  view <- View, stored <- Stored, flushing <- phase # "idle",
  whole <- phase # "growing"

KeepsPromise == Promise!Spec
=============================================================================
