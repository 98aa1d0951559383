------------------------- MODULE TableStorePromise --------------------------
(***************************************************************************)
(* TableStore keeps the promise TableContent states: every step of a       *)
(* WritableTable and of its flushes is a step TableContent allows, or      *)
(* leaves both the session's view and the stored table alone.              *)
(*                                                                         *)
(* WritesInv and PromiseInv add to the invariants of TableStoreProofs what *)
(* the cells are: rows a growth has added hold defaults until the header   *)
(* counts them, the image of a column to be rebuilt has what is pending,   *)
(* the files of new columns hold what the session sees in them, and a      *)
(* patch under way leaves every cell old, new, default or lost.  WritesInv *)
(* survives every failure, PromiseInv those Trusted leaves.                *)
(***************************************************************************)
EXTENDS TableStoreProofs

(* The rows a growth adds hold defaults.                                   *)
Grown ==
  phase \in {"grow", "growing"} =>
    \A c \in dcols, i \in 1..rows :
      OpenRows < i /\ i <= Len(file[c]) => file[c][i] = Default

(* While a column's two files are replaced nothing is known of its cells   *)
(* on disk, and its image has what is pending.                             *)
RebuildTrue ==
  phase = "patch" =>
    \A c \in DOMAIN image :
      /\ \A i \in 1..rows : file[c][i] = Lost
      /\ \A i \in DOMAIN cells[c] : image[c][i] = cells[c][i]

WritesInv == Grown /\ RebuildTrue

(* Until columns are removed, table.dat describes only columns the session *)
(* has, and none of those it added.                                        *)
ColumnsTrue ==
  phase \in {"idle", "grow", "growing", "new"} /\ ~cut /\ ~removed =>
    dcols \subseteq cols /\ added \cap dcols = {}

(* A flush in place has only columns and rows to add (flush_locked).       *)
NothingRemoved == phase \in {"grow", "growing", "new", "patch"} => ~removed

(* The rows added still hold defaults while new columns are written.       *)
StillBlank ==
  phase = "new" =>
    \A c \in dcols, i \in 1..rows :
      OpenRows < i /\ i <= Len(file[c]) => file[c][i] = Default

(* A new column's file holds what the session sees in it.                  *)
NewAreMerged ==
  phase = "new" => \A c \in NewCols \ left : file[c] = MergedCol(c)

(* While cells are patched, those in rows that nobody can see yet are      *)
(* either the default or already the buffer's, or lost.                    *)
PatchesTrue ==
  phase = "patch" =>
    /\ dcols = cols
    /\ \A c \in cols : \A i \in DOMAIN cells[c] :
         OpenRows < i => \/ file[c][i] \in {Default, cells[c][i]}
                         \/ c \in Split /\ file[c][i] = Lost

PromiseInv == ColumnsTrue /\ NothingRemoved /\ StillBlank /\ NewAreMerged /\ PatchesTrue

(* The table stays what is promised where these three kinds of I/O, after  *)
(* which the code is known to break it, do not fail.                       *)
Trusted == "grow" \notin Faults /\ "swap" \notin Faults /\ "latepatch" \notin Faults

-----------------------------------------------------------------------------
(* WritesInv is kept.                                                      *)

LEMMA OutsideKeepsWrites ==
  ASSUME phase' \notin {"grow", "growing", "patch"}
  PROVE  WritesInv'
BY DEF WritesInv, Grown, RebuildTrue

LEMMA NoImageKeepsWrites ==
  ASSUME phase' \notin {"grow", "growing"}, image' = NoImage
  PROVE  WritesInv'
<1>1. DOMAIN image' = {}
  BY DEF NoImage
<1>. QED
  BY <1>1 DEF WritesInv, Grown, RebuildTrue

LEMMA BeginInPlaceKeepsWrites ==
  ASSUME BufferInv, WritesInv, BeginInPlace PROVE WritesInv'
<1>1. /\ phase = "idle"
      /\ phase' = IF OpenRows < rows THEN "grow" ELSE AfterGrow
      /\ UNCHANGED <<header, sync, dcols, file, rows, image>>
  BY DEF BeginInPlace, disk, memory
<1>2. image' = NoImage
  BY <1>1 DEF BufferInv, InRebuild
<1>3. CASE phase' = "grow"
  <2>1. OpenRows < rows
    BY <1>1, <1>3 DEF AfterGrow
  <2>2. OpenRows \in Nat /\ OpenRows' = OpenRows /\ rows \in Nat
    BY <1>1, ConstantsFit DEF BufferInv, TypeOK, OpenRows
  <2>3. \A c \in dcols : Len(file[c]) = OpenRows
    BY <2>1, <2>2 DEF BeginInPlace, InPlace, CanGrow
  <2>4. Grown'
    BY <1>1, <2>2, <2>3 DEF Grown
  <2>. QED
    BY <1>3, <2>4 DEF WritesInv, RebuildTrue
<1>4. CASE phase' # "grow"
  BY <1>1, <1>2, <1>4, NoImageKeepsWrites DEF AfterGrow
<1>. QED
  BY <1>3, <1>4

LEMMA GrowKeepsWrites ==
  ASSUME BufferInv, WritesInv, NEW c \in Col, Grow(c) PROVE WritesInv'
<1>. DEFINE grown == [i \in 1..rows |-> IF i <= Len(file[c]) THEN file[c][i] ELSE Default]
<1>1. /\ phase = "growing" /\ phase' = "grow" /\ c \in left
      /\ file' = [file EXCEPT ![c] = grown]
      /\ UNCHANGED <<header, sync, dcols, rows>>
  BY DEF Grow, memory
<1>2. \A d \in Col : file'[d] = IF d = c THEN grown ELSE file[d]
  BY <1>1 DEF BufferInv, TypeOK
<1>3. OpenRows' = OpenRows /\ dcols \subseteq Col
  BY <1>1 DEF OpenRows, BufferInv, TypeOK
<1>4. Grown'
  <2>. SUFFICES ASSUME NEW d \in dcols, NEW i \in 1..rows,
                       OpenRows < i, i <= Len(file'[d])
                PROVE  file'[d][i] = Default
    BY <1>1, <1>3 DEF Grown
  <2>1. CASE d = c
    <3>1. file'[d][i] = IF i <= Len(file[c]) THEN file[c][i] ELSE Default
      BY <1>2, <1>3, <2>1
    <3>. QED
      BY <1>1, <2>1, <3>1 DEF WritesInv, Grown
  <2>2. CASE d # c
    BY <1>1, <1>2, <1>3, <2>2 DEF WritesInv, Grown
  <2>. QED
    BY <2>1, <2>2
<1>. QED
  BY <1>1, <1>4 DEF WritesInv, RebuildTrue

LEMMA BeginRebuildKeepsWrites ==
  ASSUME BufferInv, NEW c \in Col, BeginRebuild(c) PROVE WritesInv'
<1>1. /\ phase = "patch" /\ phase' = "patch"
      /\ image' = [d \in {c} |-> MergedCol(c)]
      /\ file' = [file EXCEPT ![c] = [i \in 1..rows |-> Lost]]
      /\ UNCHANGED <<rows, cells>>
  BY DEF BeginRebuild, Patching, Patchable, memory
<1>2. /\ file'[c] = [i \in 1..rows |-> Lost]
      /\ DOMAIN cells[c] \subseteq 1..rows
      /\ DOMAIN image' = {c} /\ image'[c] = MergedCol(c)
  BY <1>1 DEF BufferInv, TypeOK
<1>3. \A i \in DOMAIN cells[c] : MergedCol(c)[i] = cells[c][i]
  <2>1. \A i \in DOMAIN cells[c] : i \in 1..rows /\ Merged(c, i) = cells[c][i]
    BY <1>2 DEF Merged
  <2>. QED
    BY <2>1 DEF MergedCol
<1>4. RebuildTrue'
  BY <1>1, <1>2, <1>3 DEF RebuildTrue
<1>. QED
  BY <1>1, <1>4 DEF WritesInv, Grown

LEMMA NextKeepsWrites ==
  ASSUME BufferInv, WritesInv, [Next]_vars PROVE WritesInv'
<1>1. ASSUME UNCHANGED <<header, sync, dcols, file, rows, cells, image>>, UNCHANGED phase
      PROVE  WritesInv'
  <2>1. OpenRows' = OpenRows
    BY <1>1 DEF OpenRows
  <2>. QED
    BY <1>1, <2>1 DEF WritesInv, Grown, RebuildTrue
<1>2. CASE UNCHANGED vars
  BY <1>1, <1>2 DEF vars, disk, memory
<1>3. ASSUME \/ AddRow
             \/ \E c \in Col, i \in 1..rows, v \in Known : PutCell(c, i, v)
             \/ \E r \in 1..rows : RemoveRow(r)
             \/ \E c \in Col : AddCol(c) \/ RemoveCol(c)
      PROVE  WritesInv'
  <2>1. phase' = "idle"
    BY <1>3 DEF AddRow, PutCell, RemoveRow, AddCol, RemoveCol, Editing
  <2>. QED
    BY <2>1, OutsideKeepsWrites
<1>4. ASSUME \/ BeginRewrite \/ RewriteDat \/ EndFlush \/ FlushFails \/ Reopen
             \/ \E c \in Col : RewriteFile(c) \/ WriteNew(c)
      PROVE  WritesInv'
  <2>1. phase' \in {"swap", "rewrite", "idle", "new"}
    BY <1>4 DEF BeginRewrite, RewriteDat, EndFlush, FlushFails, Reopen, RewriteFile, WriteNew
  <2>. QED
    BY <2>1, OutsideKeepsWrites
<1>5. ASSUME BeginGrow PROVE WritesInv'
  <2>1. /\ phase = "grow" /\ phase' = "growing"
        /\ UNCHANGED <<header, sync, dcols, file, rows>>
    BY <1>5 DEF BeginGrow, disk, memory
  <2>2. OpenRows' = OpenRows
    BY <2>1 DEF OpenRows
  <2>. QED
    BY <2>1, <2>2 DEF WritesInv, Grown, RebuildTrue
<1>6. ASSUME PatchHeader \/ SwapDat PROVE WritesInv'
  <2>1. phase \in {"grow", "new"} /\ phase' \in {"new", "patch"} /\ image' = image
    BY <1>6 DEF PatchHeader, SwapDat, AfterGrow
  <2>2. image = NoImage
    BY <2>1 DEF BufferInv, InRebuild
  <2>. QED
    BY <2>1, <2>2, NoImageKeepsWrites
<1>7. ASSUME NEW c \in Col,
             \/ PatchDone(c) \/ Rebuild(c) \/ EndRebuild(c)
             \/ \E i \in 1..rows : TearCell(c, i) \/ PatchCell(c, i)
      PROVE  WritesInv'
  <2>1. phase' = "patch" /\ image' = NoImage
    BY <1>7 DEF PatchDone, Rebuild, EndRebuild, TearCell, PatchCell, Patching, Patchable
  <2>. QED
    BY <2>1, NoImageKeepsWrites
<1>8. CASE Next
  BY <1>3, <1>4, <1>5, <1>6, <1>7, <1>8, BeginInPlaceKeepsWrites, GrowKeepsWrites,
     BeginRebuildKeepsWrites DEF Next
<1>. QED
  BY <1>2, <1>8

LEMMA WritesInvHolds == Spec => [](BufferInv /\ WritesInv)
<1>1. Init => WritesInv
  BY DEF Init, WritesInv, Grown, RebuildTrue
<1>2. BufferInv /\ WritesInv /\ [Next]_vars => WritesInv'
  BY NextKeepsWrites
<1>. QED
  BY <1>1, <1>2, BufferInvHolds, PTL DEF Spec

-----------------------------------------------------------------------------
(* PromiseInv is kept.                                                     *)

LEMMA InitPromise == Init => PromiseInv
BY DEF Init, PromiseInv, ColumnsTrue, NothingRemoved, StillBlank, NewAreMerged, PatchesTrue

(* Between flushes only the names of the columns are at stake.             *)
LEMMA IdleKeepsPromise ==
  ASSUME phase' = "idle",
         ~cut' /\ ~removed' => dcols' \subseteq cols' /\ added' \cap dcols' = {}
  PROVE  PromiseInv'
BY DEF PromiseInv, ColumnsTrue, NothingRemoved, StillBlank, NewAreMerged, PatchesTrue

(* During a rewrite nothing is.                                            *)
LEMMA RewriteKeepsPromise ==
  ASSUME phase' \in {"swap", "rewrite"}
  PROVE  PromiseInv'
BY DEF PromiseInv, ColumnsTrue, NothingRemoved, StillBlank, NewAreMerged, PatchesTrue

LEMMA EditingKeepsPromise ==
  ASSUME BufferInv, RowsInv, PromiseInv,
         \/ AddRow
         \/ \E c \in Col, i \in 1..rows, v \in Known : PutCell(c, i, v)
         \/ \E r \in 1..rows : RemoveRow(r)
         \/ \E c \in Col : AddCol(c) \/ RemoveCol(c)
  PROVE  PromiseInv'
<1>1. Editing
  BY DEF AddRow, PutCell, RemoveRow, AddCol, RemoveCol
<1>2. phase = "idle" /\ ~cut /\ UNCHANGED <<phase, dcols, cut>>
  BY <1>1 DEF Editing, disk
<1>3. ~removed => dcols \subseteq cols /\ added \cap dcols = {}
  BY <1>2 DEF PromiseInv, ColumnsTrue
<1>4. CASE UNCHANGED <<cols, added, removed>>
  BY <1>2, <1>3, <1>4, IdleKeepsPromise
<1>5. ASSUME NEW c \in Col, AddCol(c) PROVE PromiseInv'
  <2>1. c \notin cols /\ cols' = cols \cup {c} /\ added' = added \cup {c} /\ removed' = removed
    BY <1>5 DEF AddCol
  <2>. QED
    BY <1>2, <1>3, <2>1, IdleKeepsPromise
<1>6. ASSUME NEW c \in Col, RemoveCol(c) PROVE PromiseInv'
  <2>1. removed' = TRUE
    BY <1>6 DEF RemoveCol
  <2>. QED
    BY <1>2, <2>1, IdleKeepsPromise
<1>. QED
  BY <1>4, <1>5, <1>6 DEF AddRow, PutCell, RemoveRow

LEMMA BeginInPlaceKeepsPromise ==
  ASSUME BufferInv, RowsInv, PromiseInv, BeginInPlace PROVE PromiseInv'
<1>1. /\ phase = "idle" /\ ~cut /\ ~removed
      /\ phase' = IF OpenRows < rows THEN "grow" ELSE AfterGrow
      /\ left' = IF OpenRows < rows THEN dcols ELSE NewCols
      /\ UNCHANGED <<header, sync, dcols, file, rows, cols, cells, added, removed, image, cut>>
  BY DEF BeginInPlace, InPlace, disk, memory
<1>2. OpenRows = rows \/ (OpenRows < rows /\ \A c \in dcols : Len(file[c]) = OpenRows)
  BY DEF BeginInPlace, InPlace, CanGrow
<1>3. rows \in Nat /\ OpenRows \in Nat /\ OpenRows' = OpenRows /\ NewCols' = NewCols
  BY <1>1, ConstantsFit DEF BufferInv, TypeOK, OpenRows, NewCols
<1>4. /\ phase' \in {"grow", "new", "patch"}
      /\ phase' # "grow" => OpenRows = rows /\ left' = NewCols
      /\ phase' = "grow" => \A c \in dcols : Len(file[c]) = OpenRows
      /\ phase' = "patch" => cols = dcols
  BY <1>1, <1>2, <1>3 DEF AfterGrow
<1>5. ColumnsTrue' /\ NothingRemoved'
  BY <1>1, <1>4 DEF PromiseInv, ColumnsTrue, NothingRemoved
<1>6. StillBlank'
  BY <1>1, <1>3, <1>4 DEF StillBlank
<1>7. NewAreMerged'
  BY <1>3, <1>4 DEF NewAreMerged
<1>8. PatchesTrue'
  <2>1. \A c \in cols : \A i \in DOMAIN cells[c] : i <= rows
    BY <1>3 DEF BufferInv, TypeOK
  <2>. QED
    BY <1>1, <1>3, <1>4, <2>1 DEF PatchesTrue, BufferInv, TypeOK
<1>. QED
  BY <1>5, <1>6, <1>7, <1>8 DEF PromiseInv

LEMMA GrowKeepsPromise ==
  ASSUME PromiseInv, BeginGrow \/ \E c \in Col : Grow(c) PROVE PromiseInv'
<1>1. /\ phase \in {"grow", "growing"} /\ phase' \in {"grow", "growing"}
      /\ UNCHANGED <<dcols, cols, added, removed, cut>>
  BY DEF BeginGrow, Grow, disk, memory
<1>. QED
  BY <1>1 DEF PromiseInv, ColumnsTrue, NothingRemoved, StillBlank, NewAreMerged, PatchesTrue

LEMMA PatchHeaderKeepsPromise ==
  ASSUME BufferInv, RowsInv, WritesInv, PromiseInv, PatchHeader PROVE PromiseInv'
<1>1. /\ phase = "grow" /\ left = {} /\ header' = rows
      /\ phase' = AfterGrow /\ left' = NewCols
      /\ UNCHANGED <<sync, dcols, file, rows, cols, cells, added, removed, image, cut>>
  BY DEF PatchHeader, memory
<1>2. phase' \in {"new", "patch"} /\ (phase' = "patch" => cols = dcols)
  BY <1>1 DEF AfterGrow
<1>3. rows \in Nat /\ OpenRows \in Nat /\ OpenRows < rows
  BY <1>1, ConstantsFit DEF BufferInv, RowsInv, InGrow, TypeOK, OpenRows
<1>4. OpenRows' \in {OpenRows, rows} /\ NewCols' = NewCols
  BY <1>1 DEF OpenRows, NewCols
<1>5. \A c \in dcols : Len(file[c]) >= rows
  BY <1>1 DEF RowsInv, InGrow
<1>6. \A c \in dcols, i \in 1..rows : OpenRows' < i => file[c][i] = Default
  <2>. SUFFICES ASSUME NEW c \in dcols, NEW i \in 1..rows, OpenRows' < i
                PROVE  file[c][i] = Default
    OBVIOUS
  <2>1. OpenRows < i /\ i <= Len(file[c])
    BY <1>3, <1>4, <1>5 DEF BufferInv, TypeOK
  <2>. QED
    BY <1>1, <2>1 DEF WritesInv, Grown
<1>7. ColumnsTrue' /\ NothingRemoved'
  BY <1>1, <1>2 DEF PromiseInv, ColumnsTrue, NothingRemoved
<1>8. StillBlank' /\ NewAreMerged'
  BY <1>1, <1>4, <1>6 DEF StillBlank, NewAreMerged
<1>9. PatchesTrue'
  <2>1. \A c \in cols : DOMAIN cells[c] \subseteq 1..rows
    BY DEF BufferInv, TypeOK
  <2>. QED
    BY <1>1, <1>2, <1>6, <2>1 DEF PatchesTrue
<1>. QED
  BY <1>7, <1>8, <1>9 DEF PromiseInv

(* A column that is not on disk reads the same whatever its files hold.    *)
LEMMA NewColIsPending ==
  ASSUME NEW c, c \notin dcols, UNCHANGED <<dcols, cells, rows>>
  PROVE  MergedCol(c)' = MergedCol(c)
<1>1. ~OnDisk(c) /\ ~OnDisk(c)'
  BY DEF OnDisk
<1>2. \A i : Merged(c, i)' = Merged(c, i)
  BY <1>1 DEF Merged
<1>. QED
  BY <1>2 DEF MergedCol

LEMMA WriteNewKeepsPromise ==
  ASSUME BufferInv, RowsInv, PromiseInv, NEW c \in Col, WriteNew(c) PROVE PromiseInv'
<1>1. /\ phase = "new" /\ c \in left
      /\ file' = [file EXCEPT ![c] = MergedCol(c)]
      /\ left' = left \ {c}
      /\ UNCHANGED <<header, sync, dcols, rows, cols, cells, added, removed, phase, image, cut>>
  BY DEF WriteNew, memory
<1>2. \A d \in Col : file'[d] = IF d = c THEN MergedCol(c) ELSE file[d]
  BY <1>1 DEF BufferInv, TypeOK
<1>3. /\ left \subseteq cols \ dcols /\ dcols \subseteq Col /\ cols \subseteq Col
      /\ OpenRows' = OpenRows /\ NewCols' = NewCols
  BY <1>1 DEF BufferInv, RowsInv, InNew, TypeOK, NewCols, OpenRows
<1>4. StillBlank'
  BY <1>1, <1>2, <1>3 DEF PromiseInv, StillBlank
<1>5. NewAreMerged'
  <2>. SUFFICES ASSUME NEW d \in NewCols, d \notin left'
                PROVE  file'[d] = MergedCol(d)'
    BY <1>3 DEF NewAreMerged
  <2>1. d \in Col /\ d \notin dcols
    BY <1>3 DEF NewCols
  <2>2. MergedCol(d)' = MergedCol(d)
    BY <1>1, <2>1, NewColIsPending
  <2>3. d # c => file[d] = MergedCol(d)
    BY <1>1 DEF PromiseInv, NewAreMerged
  <2>. QED
    BY <1>2, <2>1, <2>2, <2>3
<1>6. ColumnsTrue' /\ NothingRemoved' /\ PatchesTrue'
  BY <1>1 DEF PromiseInv, ColumnsTrue, NothingRemoved, PatchesTrue
<1>. QED
  BY <1>4, <1>5, <1>6 DEF PromiseInv

LEMMA SwapDatKeepsPromise ==
  ASSUME BufferInv, RowsInv, PromiseInv, SwapDat PROVE PromiseInv'
<1>1. /\ phase = "new" /\ left = {}
      /\ header' = rows /\ dcols' = cols /\ phase' = "patch"
      /\ cells' = [c \in Col |-> IF c \in NewCols THEN NoCells ELSE cells[c]]
      /\ UNCHANGED <<sync, file, rows, cols, added, removed, left, image, cut>>
  BY DEF SwapDat
<1>2. OpenRows' = OpenRows
  BY <1>1 DEF RowsInv, InNew, HeaderFits, OpenRows
<1>3. /\ rows \in Nat /\ OpenRows \in Nat
      /\ \A c \in Col : DOMAIN cells[c] \subseteq 1..rows
      /\ cols \subseteq Col
  BY ConstantsFit DEF BufferInv, TypeOK, OpenRows
<1>4. PatchesTrue'
  <2>. SUFFICES ASSUME NEW c \in cols, NEW i \in DOMAIN cells'[c], OpenRows < i
                PROVE  file[c][i] = Default
    BY <1>1, <1>2 DEF PatchesTrue
  <2>1. c \in dcols /\ i \in DOMAIN cells[c]
    <3>1. c \in Col /\ DOMAIN NoCells = {}
      BY <1>3 DEF NoCells
    <3>2. cells'[c] = IF c \in NewCols THEN NoCells ELSE cells[c]
      BY <1>1, <3>1
    <3>. QED
      BY <3>1, <3>2 DEF NewCols
  <2>2. i \in 1..rows /\ rows <= Len(file[c]) /\ Len(file[c]) \in Nat
    <3>1. c \in Col
      BY <1>3
    <3>2. i \in 1..rows
      BY <1>3, <2>1, <3>1
    <3>3. rows <= Len(file[c])
      BY <1>1, <2>1 DEF RowsInv, InNew
    <3>4. file[c] \in Seq(Val)
      BY <3>1 DEF BufferInv, TypeOK
    <3>. QED
      BY <3>2, <3>3, <3>4
  <2>3. i <= Len(file[c])
    BY <1>3, <2>2
  <2>. QED
    BY <1>1, <2>1, <2>2, <2>3 DEF PromiseInv, StillBlank
<1>5. ColumnsTrue' /\ NothingRemoved' /\ StillBlank' /\ NewAreMerged'
  BY <1>1 DEF PromiseInv, ColumnsTrue, NothingRemoved, StillBlank, NewAreMerged
<1>. QED
  BY <1>4, <1>5 DEF PromiseInv

(* Cells of one column are patched, torn or replaced: where something is   *)
(* pending still, with what is pending or lost.                            *)
LEMMA PatchingKeepsPromise ==
  ASSUME BufferInv, RowsInv, PromiseInv, NEW c \in Col,
         phase = "patch",
         UNCHANGED <<header, sync, dcols, rows, cols, added, removed, phase, cut>>,
         \A d \in Col : d # c => file'[d] = file[d] /\ cells'[d] = cells[d],
         \A i \in DOMAIN cells'[c] :
           /\ i \in DOMAIN cells[c] /\ cells'[c][i] = cells[c][i]
           /\ \/ file'[c][i] \in {file[c][i], cells[c][i]}
              \/ c \in Split /\ file'[c][i] = Lost
  PROVE  PromiseInv'
<1>1. OpenRows' = OpenRows /\ cols \subseteq Col /\ dcols = cols
  BY DEF OpenRows, BufferInv, TypeOK, PromiseInv, PatchesTrue
<1>2. PatchesTrue'
  <2>. SUFFICES ASSUME NEW d \in cols, NEW i \in DOMAIN cells'[d], OpenRows < i
                PROVE  \/ file'[d][i] \in {Default, cells'[d][i]}
                       \/ d \in Split /\ file'[d][i] = Lost
    BY <1>1 DEF PatchesTrue
  <2>1. \A k \in DOMAIN cells[d] :
          OpenRows < k => \/ file[d][k] \in {Default, cells[d][k]}
                          \/ d \in Split /\ file[d][k] = Lost
    BY DEF PromiseInv, PatchesTrue
  <2>2. CASE d = c
    BY <2>1, <2>2
  <2>3. CASE d # c
    BY <1>1, <2>1, <2>3
  <2>. QED
    BY <2>2, <2>3
<1>3. ColumnsTrue' /\ NothingRemoved' /\ StillBlank' /\ NewAreMerged'
  BY DEF PromiseInv, ColumnsTrue, NothingRemoved, StillBlank, NewAreMerged
<1>. QED
  BY <1>2, <1>3 DEF PromiseInv

LEMMA CellKeepsPromise ==
  ASSUME BufferInv, RowsInv, PromiseInv, NEW c \in Col, NEW i \in 1..rows,
         TearCell(c, i) \/ PatchCell(c, i)
  PROVE  PromiseInv'
<1>1. PICK v : /\ v = cells[c][i] \/ (c \in Split /\ v = Lost)
               /\ file' = [file EXCEPT ![c] = [@ EXCEPT ![i] = v]]
  BY DEF TearCell, PatchCell
<1>2. /\ phase = "patch" /\ Len(file[c]) >= rows
      /\ UNCHANGED <<header, sync, dcols, rows, cols, cells, added, removed, phase, cut>>
  BY DEF TearCell, PatchCell, Patching, Patchable, memory
<1>3. file'[c] = [file[c] EXCEPT ![i] = v] /\ \A d \in Col : d # c => file'[d] = file[d]
  BY <1>1 DEF BufferInv, TypeOK
<1>4. \A k \in DOMAIN cells[c] : file'[c][k] = IF k = i THEN v ELSE file[c][k]
  <2>1. \A k \in DOMAIN cells[c] : k \in DOMAIN file[c]
    BY <1>2 DEF BufferInv, TypeOK
  <2>. QED
    BY <1>3, <2>1
<1>. QED
  BY <1>1, <1>2, <1>3, <1>4, PatchingKeepsPromise

LEMMA BeginRebuildKeepsPromise ==
  ASSUME BufferInv, RowsInv, PromiseInv, NEW c \in Col, BeginRebuild(c)
  PROVE  PromiseInv'
<1>1. /\ phase = "patch" /\ c \in Split
      /\ file' = [file EXCEPT ![c] = [i \in 1..rows |-> Lost]]
      /\ UNCHANGED <<header, sync, dcols, rows, cols, cells, added, removed, phase, cut>>
  BY DEF BeginRebuild, Patching, Patchable, memory
<1>2. /\ file'[c] = [i \in 1..rows |-> Lost]
      /\ \A d \in Col : d # c => file'[d] = file[d]
      /\ DOMAIN cells[c] \subseteq 1..rows
  BY <1>1 DEF BufferInv, TypeOK
<1>3. \A i \in DOMAIN cells[c] : file'[c][i] = Lost
  BY <1>2
<1>. QED
  BY <1>1, <1>2, <1>3, PatchingKeepsPromise

(* Letting go of a column's pending cells takes its obligations along.     *)
LEMMA PatchedKeepsPromise ==
  ASSUME BufferInv, RowsInv, PromiseInv, NEW c \in Col,
         PatchDone(c) \/ Rebuild(c) \/ EndRebuild(c)
  PROVE  PromiseInv'
<1>1. /\ phase = "patch"
      /\ cells' = [cells EXCEPT ![c] = NoCells]
      /\ UNCHANGED <<header, sync, dcols, rows, cols, added, removed, phase, cut>>
  BY DEF PatchDone, Rebuild, EndRebuild, Patching, Patchable, disk
<1>2. /\ cells'[c] = NoCells /\ DOMAIN NoCells = {}
      /\ \A d \in Col : d # c => cells'[d] = cells[d]
  BY <1>1 DEF BufferInv, TypeOK, NoCells
<1>3. \A d \in Col : d # c => file'[d] = file[d]
  BY DEF PatchDone, Rebuild, EndRebuild, disk, BufferInv, TypeOK
<1>. QED
  BY <1>1, <1>2, <1>3, PatchingKeepsPromise

LEMMA EndFlushKeepsPromise ==
  ASSUME BufferInv, RowsInv, PromiseInv, EndFlush PROVE PromiseInv'
<1>1. /\ phase \in {"patch", "rewrite"} /\ phase' = "idle"
      /\ added' = {} /\ UNCHANGED <<dcols, cols>>
  BY DEF EndFlush
<1>2. dcols = cols
  BY <1>1 DEF PromiseInv, PatchesTrue, BufferInv, InRewrite
<1>. QED
  BY <1>1, <1>2, IdleKeepsPromise

(* A flush fails while patching only before new columns are stored.        *)
LEMMA FailsBeforeNew ==
  ASSUME BufferInv, RowsInv, PromiseInv, Trusted, MayFail, phase = "patch"
  PROVE  added = {}
<1>1. PICK c \in cols :
        \/ ~Patchable(c) /\ DOMAIN cells[c] # {}
        \/ (IF added = {} THEN "patch" ELSE "latepatch") \in Faults
  BY DEF MayFail
<1>2. DOMAIN cells[c] # {} => Patchable(c)
  BY DEF Patchable, RowsInv, InPatch, PromiseInv, PatchesTrue
<1>. QED
  BY <1>1, <1>2 DEF Trusted

LEMMA FlushFailsKeepsPromise ==
  ASSUME BufferInv, RowsInv, PromiseInv, Trusted, FlushFails PROVE PromiseInv'
<1>1. /\ MayFail /\ phase' = "idle" /\ cut' = Breaking
      /\ UNCHANGED <<dcols, cols, added, removed>>
  BY DEF FlushFails
<1>2. phase \in {"grow", "new", "patch", "rewrite"}
  BY <1>1 DEF MayFail, Trusted
<1>3. CASE phase = "rewrite"
  BY <1>1, <1>3, IdleKeepsPromise DEF Breaking
<1>4. CASE phase = "patch"
  <2>1. added = {} /\ dcols = cols
    BY <1>1, <1>4, FailsBeforeNew DEF PromiseInv, PatchesTrue
  <2>. QED
    BY <1>1, <2>1, IdleKeepsPromise
<1>5. CASE phase \in {"grow", "new"}
  <2>1. ~cut
    BY <1>5 DEF BufferInv, CutEnds
  <2>2. ~removed => dcols \subseteq cols /\ added \cap dcols = {}
    BY <1>5, <2>1 DEF PromiseInv, ColumnsTrue
  <2>. QED
    BY <1>1, <2>2, IdleKeepsPromise
<1>. QED
  BY <1>2, <1>3, <1>4, <1>5

LEMMA NextKeepsPromise ==
  ASSUME BufferInv, RowsInv, WritesInv, PromiseInv, Trusted, [Next]_vars
  PROVE  PromiseInv'
<1>1. CASE UNCHANGED vars
  <2>1. UNCHANGED <<header, sync, dcols, file, rows, cols, cells, added, removed,
                    phase, left, image, cut>>
    BY <1>1 DEF vars, disk, memory
  <2>2. UNCHANGED <<OpenRows, NewCols>> /\ \A c : MergedCol(c)' = MergedCol(c)
    BY <2>1 DEF OpenRows, NewCols, MergedCol, Merged, OnDisk, DiskRows
  <2>. QED
    BY <2>1, <2>2
       DEF PromiseInv, ColumnsTrue, NothingRemoved, StillBlank, NewAreMerged, PatchesTrue
<1>2. ASSUME BeginRewrite \/ RewriteDat \/ \E c \in Col : RewriteFile(c)
      PROVE  PromiseInv'
  <2>1. phase' \in {"swap", "rewrite"}
    BY <1>2 DEF BeginRewrite, RewriteDat, RewriteFile
  <2>. QED
    BY <2>1, RewriteKeepsPromise
<1>3. ASSUME Reopen PROVE PromiseInv'
  <2>1. phase' = "idle" /\ cols' = dcols /\ dcols' = dcols /\ added' = {}
    BY <1>3 DEF Reopen, disk
  <2>. QED
    BY <2>1, IdleKeepsPromise
<1>4. CASE Next
  BY <1>2, <1>3, <1>4, EditingKeepsPromise, BeginInPlaceKeepsPromise,
     PatchHeaderKeepsPromise, SwapDatKeepsPromise, GrowKeepsPromise,
     WriteNewKeepsPromise, PatchedKeepsPromise, CellKeepsPromise,
     BeginRebuildKeepsPromise, EndFlushKeepsPromise, FlushFailsKeepsPromise
     DEF Next
<1>. QED
  BY <1>1, <1>4

LEMMA PromiseInvHolds ==
  ASSUME Trusted PROVE Spec => [](BufferInv /\ RowsInv /\ WritesInv /\ PromiseInv)
<1>1. Init => PromiseInv
  BY InitPromise
<1>2. BufferInv /\ RowsInv /\ WritesInv /\ PromiseInv /\ [Next]_vars => PromiseInv'
  BY NextKeepsPromise
<1>3. Spec => []RowsInv
  BY RowsInvHolds DEF Trusted
<1>. QED
  BY <1>1, <1>2, <1>3, WritesInvHolds, PTL DEF Spec

-----------------------------------------------------------------------------
(* The view and the stored table, cell by cell.                            *)

ViewCells   == [c \in cols |-> [i \in 1..rows |-> Shown(c, i)]]
StoredCells == [c \in dcols |-> [i \in 1..OpenRows |-> file[c][i]]]

ViewFits ==
  BufferInv /\ ~cut =>
    View = [rows |-> rows, cell |-> ViewCells] /\ View # Damaged

StoredFits ==
  BufferInv /\ RowsInv /\ ~cut /\ phase # "rewrite" =>
    Stored = [rows |-> OpenRows, cell |-> StoredCells] /\ Stored # Damaged

(* Without an image the session sees what a merged read gives.             *)
LEMMA PlainShown ==
  ASSUME image = NoImage, image' = NoImage
  PROVE  \A c, i : Shown(c, i) = Merged(c, i) /\ Shown(c, i)' = Merged(c, i)'
<1>1. DOMAIN image = {} /\ DOMAIN image' = {}
  BY DEF NoImage
<1>. QED
  BY <1>1 DEF Shown

LEMMA ViewIs == ViewFits
<1>. SUFFICES ASSUME BufferInv, ~cut
              PROVE  View = [rows |-> rows, cell |-> ViewCells] /\ View # Damaged
  BY DEF ViewFits
<1>1. rows \in Nat /\ cols \subseteq Col
  BY ConstantsFit DEF BufferInv, TypeOK
<1>2. \A c \in DOMAIN image : image[c] \in Seq(Val) /\ Len(image[c]) = rows
  <2>1. \A c \in DOMAIN image : image[c] \in Seq(Val)
    BY DEF BufferInv, TypeOK
  <2>2. CASE phase \in {"swap", "rewrite"}
    BY <2>1, <2>2 DEF BufferInv, InSwap
  <2>3. CASE phase \notin {"swap", "rewrite"} /\ image # NoImage
    BY <2>1, <2>3 DEF BufferInv, InRebuild
  <2>4. CASE image = NoImage
    BY <2>4 DEF NoImage
  <2>. QED
    BY <2>2, <2>3, <2>4
<1>3. \A c \in cols, i \in 1..rows : Shown(c, i) \in Val
  <2>. SUFFICES ASSUME NEW c \in cols, NEW i \in 1..rows PROVE Shown(c, i) \in Val
    OBVIOUS
  <2>1. CASE c \in DOMAIN image
    BY <1>2, <2>1 DEF Shown
  <2>2. CASE c \notin DOMAIN image
    BY <1>1, <2>2, MergedCells DEF BufferInv, Shown
  <2>. QED
    BY <2>1, <2>2
<1>4. \A c \in cols : [i \in 1..rows |-> Shown(c, i)] \in Seq(Val)
  BY <1>1, <1>3
<1>5. View = [rows |-> rows, cell |-> ViewCells] /\ ViewCells \in [cols -> Seq(Val)]
  BY <1>4 DEF View, ViewCells
<1>. HIDE DEF ViewCells
<1>6. View # Damaged
  BY <1>1, <1>5, TableStoreAssumption
<1>. QED
  BY <1>5, <1>6

LEMMA StoredIs == StoredFits
<1>. SUFFICES ASSUME BufferInv, RowsInv, ~cut, phase # "rewrite"
              PROVE  Stored = [rows |-> OpenRows, cell |-> StoredCells] /\ Stored # Damaged
  BY DEF StoredFits
<1>1. OpenRows \in Nat /\ dcols \subseteq Col
  BY ConstantsFit DEF BufferInv, TypeOK, OpenRows
<1>. DEFINE table == [c \in dcols |-> SubSeq(file[c], 1, OpenRows)]
<1>2. \A c \in dcols : file[c] \in Seq(Val) /\ Len(file[c]) >= OpenRows
  BY DEF BufferInv, RowsInv, Readable, Breaking, InGrow, TypeOK
<1>3. \A c \in dcols : SubSeq(file[c], 1, OpenRows) = [i \in 1..OpenRows |-> file[c][i]]
  BY <1>1, <1>2
<1>4. \A c \in dcols : SubSeq(file[c], 1, OpenRows) \in Seq(Val)
  BY <1>1, <1>2
<1>5. Stored = [rows |-> OpenRows, cell |-> table]
  BY DEF Stored
<1>6. table \in [dcols -> Seq(Val)] /\ table = StoredCells
  BY <1>3, <1>4 DEF StoredCells
<1>. HIDE DEF table
<1>7. Stored # Damaged
  BY <1>1, <1>5, <1>6, TableStoreAssumption
<1>. QED
  BY <1>5, <1>6, <1>7

(* The same after a step.                                                  *)
LEMMA ViewIsNext == ViewFits'
BY ViewIs, PTL

LEMMA StoredIsNext == StoredFits'
BY StoredIs, PTL

(* Two states show the session the same table if its cells are the same.   *)
LEMMA SameView ==
  ASSUME BufferInv, BufferInv', ~cut, ~cut', rows' = rows, cols' = cols,
         \A c \in cols, i \in 1..rows : Shown(c, i)' = Shown(c, i)
  PROVE  View' = View
<1>1. ViewCells' = ViewCells
  BY DEF ViewCells
<1>. QED
  BY <1>1, ViewIs, ViewIsNext DEF ViewFits

(* And so for the directory.                                               *)
LEMMA SameStored ==
  ASSUME BufferInv, BufferInv', RowsInv, RowsInv', ~cut, ~cut',
         phase # "rewrite", phase' # "rewrite",
         OpenRows' = OpenRows, dcols' = dcols,
         \A c \in dcols, i \in 1..OpenRows : file'[c][i] = file[c][i]
  PROVE  Stored' = Stored
<1>1. StoredCells' = StoredCells
  BY DEF StoredCells
<1>. QED
  BY <1>1, StoredIs, StoredIsNext DEF StoredFits

(* When the stored table moves towards the view and no cell goes wrong.    *)
LEMMA BetweenThem ==
  ASSUME BufferInv, BufferInv', RowsInv, RowsInv', ~cut, ~cut',
         phase # "rewrite", phase' # "rewrite",
         OpenRows' \in {OpenRows, rows}, dcols' \in {dcols, cols},
         \A c \in dcols', i \in 1..OpenRows' :
           \/ c \in dcols /\ i <= OpenRows /\ file'[c][i] = file[c][i]
           \/ c \in cols /\ i <= rows /\ file'[c][i] = Shown(c, i)
           \/ i > OpenRows /\ file'[c][i] = Default
           \/ c \in Split /\ file'[c][i] = Lost
  PROVE  /\ Stored # Damaged /\ Stored' # Damaged
         /\ Promise!Between(Stored, View, Stored')
<1>1. /\ Stored = [rows |-> OpenRows, cell |-> StoredCells] /\ Stored # Damaged
      /\ Stored' = [rows |-> OpenRows', cell |-> StoredCells'] /\ Stored' # Damaged
      /\ View = [rows |-> rows, cell |-> ViewCells]
  BY StoredIs, StoredIsNext, ViewIs DEF StoredFits, ViewFits
<1>2. /\ DOMAIN StoredCells = dcols /\ DOMAIN ViewCells = cols /\ DOMAIN StoredCells' = dcols'
      /\ rows \in Nat /\ OpenRows \in Nat /\ OpenRows' \in Nat
  BY ConstantsFit DEF StoredCells, ViewCells, BufferInv, TypeOK, OpenRows
<1>3. ASSUME NEW c \in dcols', NEW i \in 1..OpenRows'
      PROVE  \/ c \in dcols /\ i <= OpenRows /\ StoredCells'[c][i] = StoredCells[c][i]
             \/ c \in cols /\ i <= rows /\ StoredCells'[c][i] = ViewCells[c][i]
             \/ i > OpenRows /\ StoredCells'[c][i] = Default
             \/ c \in Split /\ StoredCells'[c][i] = Lost
  <2>1. StoredCells'[c][i] = file'[c][i]
    BY DEF StoredCells
  <2>2. c \in dcols /\ i <= OpenRows => StoredCells[c][i] = file[c][i]
    BY <1>2 DEF StoredCells
  <2>3. c \in cols /\ i <= rows => ViewCells[c][i] = Shown(c, i)
    BY <1>2 DEF ViewCells
  <2>. QED
    BY <2>1, <2>2, <2>3
<1>. HIDE DEF Shown
<1>4. Promise!Between(Stored, View, Stored')
  BY <1>1, <1>2, <1>3 DEF Promise!Between
<1>. QED
  BY <1>1, <1>4

-----------------------------------------------------------------------------
(* The session's calls are those of the promise.                           *)

LEMMA EditLeavesStored ==
  ASSUME BufferInv, Editing
  PROVE  /\ phase = "idle" /\ phase' = "idle" /\ ~cut /\ ~cut' /\ Stored' = Stored
         /\ \A c, i : Shown(c, i) = Merged(c, i) /\ Shown(c, i)' = Merged(c, i)'
<1>1. /\ phase = "idle" /\ ~cut
      /\ UNCHANGED <<header, sync, dcols, file, phase, image, cut>>
  BY DEF Editing, disk
<1>2. image = NoImage
  BY <1>1 DEF BufferInv, InRebuild
<1>3. Stored' = Stored
  BY <1>1 DEF Stored, OpenRows
<1>. QED
  BY <1>1, <1>2, <1>3, PlainShown

LEMMA AddRowStep ==
  ASSUME BufferInv, BufferInv', RowsInv, AddRow
  PROVE  Promise!AddRow
<1>. DEFINE n == rows + 1
            old == {c \in cols : OnDisk(c) /\ n <= OpenRows}
<1>1. /\ Editing /\ rows' = n
      /\ UNCHANGED <<cols, cells, added, removed>>
  BY DEF AddRow
<1>2. /\ phase = "idle" /\ phase' = "idle" /\ ~cut /\ ~cut' /\ Stored' = Stored
      /\ \A c, i : Shown(c, i) = Merged(c, i) /\ Shown(c, i)' = Merged(c, i)'
      /\ UNCHANGED <<header, sync, dcols, file>>
  BY <1>1, EditLeavesStored DEF Editing, disk
<1>3. /\ rows \in Nat /\ OpenRows \in Nat /\ cols \subseteq Col
      /\ \A c \in dcols : Len(file[c]) >= OpenRows /\ Len(file[c]) \in Nat
  BY <1>2, ConstantsFit DEF BufferInv, RowsInv, Readable, Breaking, TypeOK, OpenRows
<1>4. OpenRows' = OpenRows /\ \A c : OnDisk(c)' = OnDisk(c) /\ (OnDisk(c) => c \in dcols)
  BY <1>1, <1>2 DEF OpenRows, OnDisk
<1>5. ASSUME NEW c \in cols, NEW i \in 1..n
      PROVE  Shown(c, i)' = IF i < n THEN Shown(c, i)
                            ELSE IF c \in old THEN file[c][n] ELSE Default
  <2>1. DOMAIN cells[c] \subseteq 1..rows
    BY <1>3 DEF BufferInv, TypeOK
  <2>2. Merged(c, i)' = Merged(c, i)
    BY <1>1, <1>2, <1>4 DEF Merged, DiskRows
  <2>3. i = n => Merged(c, i) = IF c \in old THEN file[c][n] ELSE Default
    <3>. SUFFICES ASSUME i = n PROVE Merged(c, n) = IF c \in old THEN file[c][n] ELSE Default
      OBVIOUS
    <3>1. n \notin DOMAIN cells[c] /\ DiskRows = OpenRows
      BY <1>2, <1>3, <2>1 DEF DiskRows
    <3>2. CASE c \in old
      <4>1. OnDisk(c) /\ n <= OpenRows /\ n <= Len(file[c])
        BY <1>3, <1>4, <3>2
      <4>. QED
        BY <3>1, <3>2, <4>1 DEF Merged
    <3>3. CASE c \notin old
      BY <3>1, <3>3 DEF Merged
    <3>. QED
      BY <3>2, <3>3
  <2>4. i < n \/ i = n
    BY <1>3
  <2>. HIDE DEF old
  <2>. QED
    BY <1>2, <1>3, <2>2, <2>3, <2>4
<1>6. /\ View = [rows |-> rows, cell |-> ViewCells] /\ View # Damaged
      /\ View' = [rows |-> n, cell |-> ViewCells']
      /\ Stored = [rows |-> OpenRows, cell |-> StoredCells]
  BY <1>1, <1>2, ViewIs, ViewIsNext, StoredIs DEF ViewFits, StoredFits
<1>7. DOMAIN ViewCells = cols /\ DOMAIN StoredCells = dcols
  BY DEF ViewCells, StoredCells
<1>8. old \subseteq cols \cap dcols /\ \A c \in old : n <= OpenRows /\ StoredCells[c][n] = file[c][n]
  BY <1>3, <1>4 DEF StoredCells
<1>. HIDE DEF old
<1>9. ViewCells' = [c \in cols |-> [i \in 1..n |->
                     IF i < n THEN ViewCells[c][i]
                     ELSE IF c \in old THEN StoredCells[c][n] ELSE Default]]
  <2>1. ViewCells' = [c \in cols |-> [i \in 1..n |-> Shown(c, i)']]
    BY <1>1 DEF ViewCells
  <2>2. \A c \in cols, i \in 1..rows : ViewCells[c][i] = Shown(c, i)
    BY DEF ViewCells
  <2>3. \A i \in 1..n : i < n => i \in 1..rows
    BY <1>3
  <2>4. \A c \in cols : [i \in 1..n |-> Shown(c, i)']
          = [i \in 1..n |-> IF i < n THEN ViewCells[c][i]
                            ELSE IF c \in old THEN StoredCells[c][n] ELSE Default]
    BY <1>5, <1>8, <2>2, <2>3
  <2>. QED
    BY <2>1, <2>4
<1>. HIDE DEF ViewCells, StoredCells
<1>10. old \in SUBSET {c \in Promise!Cols \cap DOMAIN Stored.cell : View.rows + 1 <= Stored.rows}
  BY <1>6, <1>7, <1>8 DEF Promise!Cols
<1>11. View' = Promise!TableOf(View.rows + 1, Promise!Cols,
                 LAMBDA c, i : IF i < View.rows + 1 THEN View.cell[c][i]
                               ELSE IF c \in old THEN Stored.cell[c][View.rows + 1]
                               ELSE Default)
  BY <1>6, <1>7, <1>9 DEF Promise!Cols, Promise!TableOf
<1>. QED
  BY <1>2, <1>6, <1>10, <1>11 DEF Promise!AddRow, Promise!Editing

LEMMA PutCellStep ==
  ASSUME BufferInv, BufferInv', RowsInv,
         NEW c \in Col, NEW i \in 1..rows, NEW v \in Known, PutCell(c, i, v)
  PROVE  Promise!Put
<1>1. /\ Editing /\ c \in cols
      /\ cells' = [cells EXCEPT ![c] = [k \in DOMAIN @ \cup {i} |-> IF k = i THEN v ELSE @[k]]]
      /\ UNCHANGED <<rows, cols, added, removed>>
  BY DEF PutCell
<1>2. /\ phase = "idle" /\ phase' = "idle" /\ ~cut /\ ~cut' /\ Stored' = Stored
      /\ \A d, k : Shown(d, k) = Merged(d, k) /\ Shown(d, k)' = Merged(d, k)'
      /\ UNCHANGED <<header, sync, dcols, file>>
  BY <1>1, EditLeavesStored DEF Editing, disk
<1>3. /\ OpenRows' = OpenRows /\ \A d : OnDisk(d)' = OnDisk(d)
      /\ cols \subseteq Col
  BY <1>1, <1>2 DEF OpenRows, OnDisk, BufferInv, TypeOK
<1>4. cells'[c] = [k \in DOMAIN cells[c] \cup {i} |-> IF k = i THEN v ELSE cells[c][k]]
  BY <1>1 DEF BufferInv, TypeOK
<1>5. \A d \in Col : d # c => cells'[d] = cells[d]
  BY <1>1 DEF BufferInv, TypeOK
<1>6. ASSUME NEW d \in cols, NEW k \in 1..rows
      PROVE  Shown(d, k)' = IF d = c /\ k = i THEN v ELSE Shown(d, k)
  <2>1. CASE d = c
    <3>1. Merged(c, k)' = IF k = i THEN v ELSE Merged(c, k)
      BY <1>1, <1>2, <1>3, <1>4 DEF Merged, DiskRows
    <3>. QED
      BY <1>2, <2>1, <3>1
  <2>2. CASE d # c
    <3>1. Merged(d, k)' = Merged(d, k)
      BY <1>1, <1>2, <1>3, <1>5, <2>2 DEF Merged, DiskRows
    <3>. QED
      BY <1>2, <2>2, <3>1
  <2>. QED
    BY <2>1, <2>2
<1>7. /\ View = [rows |-> rows, cell |-> ViewCells] /\ View # Damaged
      /\ View' = [rows |-> rows, cell |-> ViewCells']
  BY <1>1, <1>2, ViewIs, ViewIsNext DEF ViewFits
<1>8. ViewCells' = [ViewCells EXCEPT ![c][i] = v]
  <2>1. /\ ViewCells' = [d \in cols |-> [k \in 1..rows |-> Shown(d, k)']]
        /\ ViewCells = [d \in cols |-> [k \in 1..rows |-> Shown(d, k)]]
    BY <1>1 DEF ViewCells
  <2>2. \A d \in cols : d # c => [k \in 1..rows |-> Shown(d, k)'] = [k \in 1..rows |-> Shown(d, k)]
    BY <1>6
  <2>3. [k \in 1..rows |-> Shown(c, k)'] = [[k \in 1..rows |-> Shown(c, k)] EXCEPT ![i] = v]
    BY <1>1, <1>6
  <2>4. ViewCells' = [ViewCells EXCEPT ![c] = [ViewCells[c] EXCEPT ![i] = v]]
    <3>1. ViewCells[c] = [k \in 1..rows |-> Shown(c, k)]
      BY <1>1, <2>1
    <3>. QED
      BY <1>1, <2>1, <2>2, <2>3, <3>1
  <2>. QED
    BY <2>4
<1>9. DOMAIN ViewCells = cols
  BY DEF ViewCells
<1>. HIDE DEF ViewCells
<1>10. View' = [View EXCEPT !.cell[c][i] = v]
  BY <1>7, <1>8
<1>11. c \in Promise!Cols /\ i \in 1..View.rows
  BY <1>1, <1>7, <1>9 DEF Promise!Cols
<1>. QED
  BY <1>2, <1>7, <1>10, <1>11 DEF Promise!Put, Promise!Editing, Known

LEMMA RemoveRowStep ==
  ASSUME BufferInv, BufferInv', RowsInv, NEW r \in 1..rows, RemoveRow(r)
  PROVE  Promise!RemoveRow
<1>. DEFINE Old(i) == IF i < r THEN i ELSE i + 1
<1>1. /\ Editing /\ rows' = rows - 1
      /\ cells' = [c \in Col |->
           IF c \in cols THEN [i \in 1..rows - 1 |-> Merged(c, Old(i))] ELSE cells[c]]
      /\ UNCHANGED <<cols, added, removed>>
  BY DEF RemoveRow
<1>2. /\ phase = "idle" /\ phase' = "idle" /\ ~cut /\ ~cut' /\ Stored' = Stored
      /\ \A c, i : Shown(c, i) = Merged(c, i) /\ Shown(c, i)' = Merged(c, i)'
  BY <1>1, EditLeavesStored
<1>3. rows \in Nat /\ cols \subseteq Col /\ \A i \in 1..rows - 1 : Old(i) \in 1..rows
  BY ConstantsFit DEF BufferInv, TypeOK
<1>4. ASSUME NEW c \in cols, NEW i \in 1..rows - 1
      PROVE  Shown(c, i)' = Shown(c, Old(i))
  <2>1. cells'[c] = [k \in 1..rows - 1 |-> Merged(c, Old(k))]
    BY <1>1, <1>3
  <2>2. Merged(c, i)' = Merged(c, Old(i))
    <3>1. i \in DOMAIN cells'[c] /\ cells'[c][i] = Merged(c, Old(i))
      BY <2>1
    <3>. HIDE DEF Old
    <3>2. Merged(c, i)' = cells'[c][i]
      BY <3>1 DEF Merged
    <3>. QED
      BY <3>1, <3>2
  <2>. QED
    BY <1>2, <2>2
<1>5. /\ View = [rows |-> rows, cell |-> ViewCells] /\ View # Damaged
      /\ View' = [rows |-> rows - 1, cell |-> ViewCells']
  BY <1>1, <1>2, ViewIs, ViewIsNext DEF ViewFits
<1>6. ViewCells' = [c \in DOMAIN ViewCells |-> [i \in 1..rows - 1 |-> ViewCells[c][Old(i)]]]
  <2>1. ViewCells' = [c \in cols |-> [i \in 1..rows - 1 |-> Shown(c, i)']]
    BY <1>1 DEF ViewCells
  <2>2. DOMAIN ViewCells = cols /\ \A c \in cols, i \in 1..rows : ViewCells[c][i] = Shown(c, i)
    BY DEF ViewCells
  <2>3. \A c \in cols : [i \in 1..rows - 1 |-> Shown(c, i)']
                        = [i \in 1..rows - 1 |-> ViewCells[c][Old(i)]]
    BY <1>3, <1>4, <2>2
  <2>. QED
    BY <2>1, <2>2, <2>3
<1>. HIDE DEF ViewCells
<1>7. r \in 1..View.rows
  BY <1>5
<1>. QED
  BY <1>2, <1>5, <1>6, <1>7 DEF Promise!RemoveRow, Promise!Editing, Promise!TableOf, Promise!Cols

LEMMA AddColStep ==
  ASSUME BufferInv, BufferInv', RowsInv, NEW c \in Col, AddCol(c)
  PROVE  Promise!AddCol
<1>1. /\ Editing /\ c \notin cols /\ cols' = cols \cup {c} /\ added' = added \cup {c}
      /\ UNCHANGED <<rows, cells, removed>>
  BY DEF AddCol
<1>2. /\ phase = "idle" /\ phase' = "idle" /\ ~cut /\ ~cut' /\ Stored' = Stored
      /\ \A d, k : Shown(d, k) = Merged(d, k) /\ Shown(d, k)' = Merged(d, k)'
      /\ UNCHANGED <<header, sync, dcols, file>>
  BY <1>1, EditLeavesStored DEF Editing, disk
<1>3. OpenRows' = OpenRows /\ (\A d : d # c => OnDisk(d)' = OnDisk(d)) /\ ~OnDisk(c)'
  BY <1>1, <1>2 DEF OpenRows, OnDisk
<1>4. cells[c] = NoCells /\ DOMAIN NoCells = {}
  BY <1>1 DEF BufferInv, PendingFits, NoCells
<1>5. ASSUME NEW d \in cols', NEW i \in 1..rows
      PROVE  Shown(d, i)' = IF d = c THEN Default ELSE Shown(d, i)
  <2>1. d = c => Merged(d, i)' = Default
    BY <1>1, <1>3, <1>4 DEF Merged
  <2>2. d # c => Merged(d, i)' = Merged(d, i)
    BY <1>1, <1>2, <1>3 DEF Merged, DiskRows
  <2>. QED
    BY <1>2, <2>1, <2>2
<1>6. /\ View = [rows |-> rows, cell |-> ViewCells] /\ View # Damaged
      /\ View' = [rows |-> rows, cell |-> ViewCells']
  BY <1>1, <1>2, ViewIs, ViewIsNext DEF ViewFits
<1>7. DOMAIN ViewCells = cols
  BY DEF ViewCells
<1>8. ViewCells' = [d \in DOMAIN ViewCells \cup {c} |-> [i \in 1..rows |->
                     IF d = c THEN Default ELSE ViewCells[d][i]]]
  <2>1. ViewCells' = [d \in cols \cup {c} |-> [i \in 1..rows |-> Shown(d, i)']]
    BY <1>1 DEF ViewCells
  <2>2. \A d \in cols, i \in 1..rows : ViewCells[d][i] = Shown(d, i)
    BY DEF ViewCells
  <2>3. \A d \in cols \cup {c} : \A i \in 1..rows :
          Shown(d, i)' = IF d = c THEN Default ELSE ViewCells[d][i]
    BY <1>1, <1>5, <2>2
  <2>4. \A d \in cols \cup {c} :
          [i \in 1..rows |-> Shown(d, i)']
            = [i \in 1..rows |-> IF d = c THEN Default ELSE ViewCells[d][i]]
    BY <2>3
  <2>. QED
    BY <1>7, <2>1, <2>4
<1>. HIDE DEF ViewCells
<1>9. c \in Col \ Promise!Cols
  BY <1>1, <1>6, <1>7 DEF Promise!Cols
<1>. QED
  BY <1>2, <1>6, <1>8, <1>9 DEF Promise!AddCol, Promise!Editing, Promise!TableOf, Promise!Cols

LEMMA RemoveColStep ==
  ASSUME BufferInv, BufferInv', RowsInv, NEW c \in Col, RemoveCol(c)
  PROVE  Promise!RemoveCol
<1>1. /\ Editing /\ c \in cols /\ cols' = cols \ {c}
      /\ cells' = [cells EXCEPT ![c] = NoCells]
      /\ UNCHANGED <<rows, added>>
  BY DEF RemoveCol
<1>2. /\ phase = "idle" /\ phase' = "idle" /\ ~cut /\ ~cut' /\ Stored' = Stored
      /\ \A d, k : Shown(d, k) = Merged(d, k) /\ Shown(d, k)' = Merged(d, k)'
      /\ UNCHANGED <<header, sync, dcols, file>>
  BY <1>1, EditLeavesStored DEF Editing, disk
<1>3. /\ OpenRows' = OpenRows /\ \A d : OnDisk(d)' = OnDisk(d)
      /\ \A d \in cols' : d # c /\ cells'[d] = cells[d]
  BY <1>1, <1>2 DEF OpenRows, OnDisk, BufferInv, TypeOK
<1>4. \A d \in cols', i \in 1..rows : Shown(d, i)' = Shown(d, i)
  <2>. SUFFICES ASSUME NEW d \in cols', NEW i \in 1..rows PROVE Shown(d, i)' = Shown(d, i)
    OBVIOUS
  <2>1. Merged(d, i)' = Merged(d, i)
    BY <1>1, <1>2, <1>3 DEF Merged, DiskRows
  <2>. QED
    BY <1>2, <2>1
<1>5. /\ View = [rows |-> rows, cell |-> ViewCells] /\ View # Damaged
      /\ View' = [rows |-> rows, cell |-> ViewCells']
  BY <1>1, <1>2, ViewIs, ViewIsNext DEF ViewFits
<1>6. DOMAIN ViewCells = cols
  BY DEF ViewCells
<1>7. ViewCells' = [d \in DOMAIN ViewCells \ {c} |-> [i \in 1..rows |-> ViewCells[d][i]]]
  <2>1. ViewCells' = [d \in cols \ {c} |-> [i \in 1..rows |-> Shown(d, i)']]
    BY <1>1 DEF ViewCells
  <2>2. \A d \in cols, i \in 1..rows : ViewCells[d][i] = Shown(d, i)
    BY DEF ViewCells
  <2>3. \A d \in cols \ {c} : [i \in 1..rows |-> Shown(d, i)'] = [i \in 1..rows |-> ViewCells[d][i]]
    BY <1>1, <1>4, <2>2
  <2>. QED
    BY <1>6, <2>1, <2>3
<1>. HIDE DEF ViewCells
<1>8. c \in Promise!Cols
  BY <1>1, <1>5, <1>6 DEF Promise!Cols
<1>9. View' = [rows |-> View.rows,
               cell |-> [d \in Promise!Cols \ {c} |-> [i \in 1..View.rows |-> View.cell[d][i]]]]
  BY <1>5, <1>7 DEF Promise!Cols
<1>. QED
  BY <1>2, <1>5, <1>8, <1>9 DEF Promise!RemoveCol, Promise!Editing, Promise!TableOf

-----------------------------------------------------------------------------
(* The steps of a flush.                                                   *)

(* A step inside a flush that is no more than progress towards the view.   *)
LEMMA FlushStep ==
  ASSUME phase # "idle", phase' \notin {"idle", "growing"}, View' = View,
         Stored # Damaged, Stored' # Damaged, Promise!Between(Stored, View, Stored')
  PROVE  Promise!Progress
BY DEF Promise!Progress

LEMMA BeginInPlaceStep ==
  ASSUME BufferInv, BufferInv', RowsInv, RowsInv', PromiseInv, BeginInPlace
  PROVE  Promise!BeginFlush
<1>1. /\ phase = "idle" /\ ~cut /\ ~cut' /\ ~removed
      /\ phase' = IF OpenRows < rows THEN "grow" ELSE AfterGrow
      /\ UNCHANGED <<header, sync, dcols, file, rows, cols, cells, added, removed, image>>
  BY DEF BeginInPlace, InPlace, disk, memory
<1>2. /\ phase' \in {"grow", "new", "patch"}
      /\ phase' # "grow" => OpenRows = rows
      /\ image = NoImage /\ image' = NoImage
  BY <1>1 DEF AfterGrow, BeginInPlace, InPlace, BufferInv, InRebuild
<1>3. OpenRows' = OpenRows /\ added \cap dcols = {}
  BY <1>1 DEF OpenRows, PromiseInv, ColumnsTrue
<1>4. \A c, i : Merged(c, i)' = Merged(c, i)
  <2>1. DiskRows' = DiskRows /\ \A c : OnDisk(c)' = OnDisk(c)
    BY <1>1, <1>2, <1>3 DEF DiskRows, OnDisk
  <2>. QED
    BY <1>1, <2>1 DEF Merged
<1>5. View' = View
  <2>1. \A c \in cols, i \in 1..rows : Shown(c, i)' = Shown(c, i)
    BY <1>2, <1>4, PlainShown
  <2>. QED
    BY <1>1, <2>1, SameView
<1>6. Stored' = Stored
  BY <1>1, <1>2, <1>3 DEF Stored
<1>7. View # Damaged
  BY <1>1, ViewIs DEF ViewFits
<1>. QED
  BY <1>1, <1>2, <1>5, <1>6, <1>7 DEF Promise!BeginFlush

LEMMA BeginRewriteStep ==
  ASSUME BufferInv, BufferInv', BeginRewrite PROVE Promise!BeginFlush
<1>1. /\ phase = "idle" /\ ~cut /\ ~cut' /\ phase' = "swap"
      /\ image' = [c \in cols |-> MergedCol(c)]
      /\ UNCHANGED <<header, sync, dcols, file, rows, cols, cut>>
  BY DEF BeginRewrite, disk, memory
<1>2. View' = View
  <2>1. DOMAIN image = {} /\ DOMAIN image' = cols
    BY <1>1 DEF BufferInv, InRebuild, NoImage
  <2>2. \A c \in cols, i \in 1..rows : Shown(c, i)' = Shown(c, i)
    BY <1>1, <2>1 DEF Shown, MergedCol
  <2>. QED
    BY <1>1, <2>2, SameView
<1>3. Stored' = Stored
  BY <1>1 DEF Stored, OpenRows
<1>4. View # Damaged
  BY <1>1, ViewIs DEF ViewFits
<1>. QED
  BY <1>1, <1>2, <1>3, <1>4 DEF Promise!BeginFlush

LEMMA BeginGrowStep ==
  ASSUME BufferInv, BufferInv', RowsInv, RowsInv', BeginGrow
  PROVE  Promise!Grow
<1>1. /\ phase = "grow" /\ phase' = "growing"
      /\ UNCHANGED <<header, sync, dcols, file, rows, cols, cells, added, image, cut>>
  BY DEF BeginGrow, disk, memory
<1>2. ~cut /\ OpenRows < rows /\ image = NoImage /\ image' = NoImage
  BY <1>1 DEF BufferInv, CutEnds, InRebuild, RowsInv, InGrow
<1>3. \A c, i : Merged(c, i)' = Merged(c, i)
  <2>1. OpenRows' = OpenRows
    BY <1>1 DEF OpenRows
  <2>2. DiskRows' = DiskRows /\ \A c : OnDisk(c)' = (c \in dcols /\ c \notin added)
    BY <1>1, <2>1 DEF DiskRows, OnDisk
  <2>3. \A c : OnDisk(c) = (c \in dcols /\ c \notin added)
    BY <1>1 DEF OnDisk
  <2>. QED
    BY <1>1, <2>2, <2>3 DEF Merged
<1>4. \A c \in cols, i \in 1..rows : Shown(c, i)' = Shown(c, i)
  BY <1>2, <1>3, PlainShown
<1>5. View' = View
  BY <1>1, <1>2, <1>4, SameView
<1>6. Stored' = Stored
  BY <1>1 DEF Stored, OpenRows
<1>7. Stored # Damaged /\ Stored.rows = OpenRows /\ View.rows = rows
  BY <1>1, <1>2, StoredIs, ViewIs DEF StoredFits, ViewFits
<1>. QED
  BY <1>1, <1>2, <1>5, <1>6, <1>7 DEF Promise!Grow

LEMMA GrowStep ==
  ASSUME BufferInv, BufferInv', RowsInv, RowsInv', NEW c \in Col, Grow(c)
  PROVE  Promise!Progress
<1>. DEFINE grown == [i \in 1..rows |-> IF i <= Len(file[c]) THEN file[c][i] ELSE Default]
<1>1. /\ phase = "growing" /\ phase' = "grow" /\ c \in left
      /\ file' = [file EXCEPT ![c] = grown]
      /\ UNCHANGED <<header, sync, dcols, rows, cols, cells, added, removed, image, cut>>
  BY DEF Grow, memory
<1>2. /\ OpenRows < rows /\ OpenRows \in Nat /\ rows \in Nat
      /\ \A d \in dcols : d \in Col /\ file[d] \in Seq(Val) /\ Len(file[d]) >= OpenRows
      /\ ~cut
      /\ image = NoImage /\ image' = NoImage
  BY <1>1, ConstantsFit
     DEF BufferInv, RowsInv, InGrow, CutEnds, InRebuild, TypeOK, OpenRows
<1>3. \A d \in Col : file'[d] = IF d = c THEN grown ELSE file[d]
  BY <1>1 DEF BufferInv, TypeOK
<1>4. ASSUME NEW d \in dcols, NEW i \in 1..OpenRows
      PROVE  i <= Len(file'[d]) /\ i <= Len(file[d]) /\ file'[d][i] = file[d][i]
  <2>1. i <= Len(file[d]) /\ i \in 1..rows
    BY <1>2
  <2>2. grown[i] = (IF i <= Len(file[c]) THEN file[c][i] ELSE Default) /\ Len(grown) = rows
    BY <1>2, <2>1
  <2>. HIDE DEF grown
  <2>. QED
    BY <1>2, <1>3, <2>1, <2>2
<1>. HIDE DEF grown
<1>5. /\ OpenRows' = OpenRows /\ DiskRows = OpenRows /\ DiskRows' = OpenRows
      /\ \A d : OnDisk(d)' = OnDisk(d)
  BY <1>1 DEF OpenRows, DiskRows, OnDisk
<1>6. ASSUME NEW d \in cols, NEW i \in 1..rows
      PROVE  Shown(d, i)' = Shown(d, i)
  <2>1. OnDisk(d) => d \in dcols
    BY DEF OnDisk
  <2>2. Merged(d, i)' = Merged(d, i)
    BY <1>1, <1>4, <1>5, <2>1, <1>2 DEF Merged
  <2>. QED
    BY <1>2, <2>2, PlainShown
<1>7. View' = View
  BY <1>1, <1>2, <1>6, SameView
<1>8. /\ Stored # Damaged /\ Stored' # Damaged
      /\ Promise!Between(Stored, View, Stored')
  <2>1. \A d \in dcols', i \in 1..OpenRows' :
          d \in dcols /\ i <= OpenRows /\ file'[d][i] = file[d][i]
    BY <1>1, <1>2, <1>4, <1>5
  <2>. QED
    BY <1>1, <1>2, <1>5, <2>1, BetweenThem
<1>. QED
  BY <1>1, <1>7, <1>8, FlushStep

LEMMA PatchHeaderStep ==
  ASSUME BufferInv, BufferInv', RowsInv, RowsInv', WritesInv, PromiseInv, PatchHeader
  PROVE  Promise!Progress
<1>1. /\ phase = "grow" /\ left = {} /\ header' = rows /\ phase' \in {"new", "patch"}
      /\ UNCHANGED <<sync, dcols, file, rows, cols, cells, added, removed, image, cut>>
  BY DEF PatchHeader, AfterGrow, memory
<1>2. /\ OpenRows < rows /\ OpenRows \in Nat /\ rows \in Nat /\ ~cut
      /\ added \cap dcols = {}
      /\ \A c \in dcols : c \in Col /\ Len(file[c]) >= rows /\ Len(file[c]) \in Nat
      /\ image = NoImage /\ image' = NoImage
  <2>1. ~cut /\ ~removed /\ image = NoImage
    BY <1>1 DEF BufferInv, CutEnds, InRebuild, PromiseInv, NothingRemoved
  <2>2. \A c \in dcols : c \in Col /\ Len(file[c]) >= rows /\ Len(file[c]) \in Nat
    BY <1>1 DEF BufferInv, RowsInv, InGrow, TypeOK
  <2>. QED
    BY <1>1, <2>1, <2>2, ConstantsFit
       DEF BufferInv, RowsInv, InGrow, TypeOK, OpenRows, PromiseInv, ColumnsTrue
<1>3. \A c \in dcols, i \in 1..rows : OpenRows < i => file[c][i] = Default
  BY <1>1, <1>2 DEF WritesInv, Grown
<1>4. /\ OpenRows' \in {OpenRows, rows}
      /\ DiskRows = OpenRows /\ DiskRows' = rows
      /\ \A c : OnDisk(c)' = OnDisk(c)
  BY <1>1, <1>2 DEF OpenRows, DiskRows, OnDisk
<1>5. ASSUME NEW c \in cols, NEW i \in 1..rows
      PROVE  Shown(c, i)' = Shown(c, i)
  <2>1. OnDisk(c) => c \in dcols
    BY DEF OnDisk
  <2>2. Merged(c, i)' = Merged(c, i)
    BY <1>1, <1>2, <1>3, <1>4, <2>1 DEF Merged
  <2>. QED
    BY <1>2, <2>2, PlainShown
<1>6. View' = View
  BY <1>1, <1>2, <1>5, SameView
<1>7. ASSUME NEW c \in dcols', NEW i \in 1..OpenRows'
      PROVE  \/ c \in dcols /\ i <= OpenRows /\ file'[c][i] = file[c][i]
             \/ i > OpenRows /\ file'[c][i] = Default
  BY <1>1, <1>2, <1>3, <1>4
<1>8. /\ Stored # Damaged /\ Stored' # Damaged
      /\ Promise!Between(Stored, View, Stored')
  BY <1>1, <1>2, <1>4, <1>7, BetweenThem
<1>. QED
  BY <1>1, <1>6, <1>8, FlushStep

LEMMA WriteNewStep ==
  ASSUME BufferInv, BufferInv', RowsInv, RowsInv', NEW c \in Col, WriteNew(c)
  PROVE  UNCHANGED Promise!vars
<1>1. /\ phase = "new" /\ phase' = "new" /\ c \in left
      /\ file' = [file EXCEPT ![c] = MergedCol(c)]
      /\ UNCHANGED <<header, sync, dcols, rows, cols, cells, added, removed, image, cut>>
  BY DEF WriteNew, memory
<1>2. /\ c \notin dcols /\ dcols \subseteq Col /\ ~cut
      /\ image = NoImage /\ image' = NoImage
  BY <1>1 DEF BufferInv, RowsInv, InNew, InRebuild, NewCols, CutEnds, TypeOK
<1>3. \A d \in dcols : file'[d] = file[d]
  BY <1>1, <1>2 DEF BufferInv, TypeOK
<1>4. /\ OpenRows' = OpenRows /\ DiskRows' = DiskRows
      /\ \A d : OnDisk(d)' = OnDisk(d) /\ (OnDisk(d) => d \in dcols)
  BY <1>1 DEF OpenRows, DiskRows, OnDisk
<1>5. \A d \in cols, i \in 1..rows : Shown(d, i)' = Shown(d, i)
  <2>1. \A d, i : Merged(d, i)' = Merged(d, i)
    BY <1>1, <1>3, <1>4 DEF Merged
  <2>. QED
    BY <1>2, <2>1, PlainShown
<1>6. View' = View
  BY <1>1, <1>2, <1>5, SameView
<1>7. Stored' = Stored
  BY <1>1, <1>2, <1>3, <1>4, SameStored
<1>. QED
  BY <1>1, <1>6, <1>7 DEF Promise!vars

LEMMA SwapDatStep ==
  ASSUME BufferInv, BufferInv', RowsInv, RowsInv', PromiseInv, SwapDat
  PROVE  Promise!Progress
<1>1. /\ phase = "new" /\ left = {} /\ phase' = "patch"
      /\ header' = rows /\ dcols' = cols
      /\ cells' = [c \in Col |-> IF c \in NewCols THEN NoCells ELSE cells[c]]
      /\ UNCHANGED <<sync, file, rows, cols, added, removed, image, cut>>
  BY DEF SwapDat
<1>2. /\ ~cut /\ ~removed
      /\ dcols \subseteq cols /\ added \cap dcols = {} /\ cols \subseteq Col
      /\ OpenRows <= rows /\ OpenRows \in Nat /\ rows \in Nat
  <2>1. ~cut /\ ~removed
    BY <1>1 DEF BufferInv, CutEnds, PromiseInv, NothingRemoved
  <2>2. dcols \subseteq cols /\ added \cap dcols = {}
    BY <1>1, <2>1 DEF PromiseInv, ColumnsTrue
  <2>3. OpenRows <= rows /\ OpenRows \in Nat /\ rows \in Nat /\ cols \subseteq Col
    BY <1>1, ConstantsFit DEF BufferInv, RowsInv, InNew, HeaderFits, TypeOK, OpenRows
  <2>. QED
    BY <2>1, <2>2, <2>3
<1>3. OpenRows' = OpenRows
  BY <1>1 DEF RowsInv, InNew, HeaderFits, OpenRows
<1>4. \A c \in NewCols : file[c] = MergedCol(c)
  BY <1>1 DEF PromiseInv, NewAreMerged
<1>5. ASSUME NEW c \in NewCols, NEW i \in 1..rows
      PROVE  file[c][i] = Merged(c, i) /\ i <= Len(file[c])
  <2>1. c \in Col
    BY <1>2 DEF NewCols
  <2>2. Len(MergedCol(c)) = rows /\ MergedCol(c)[i] = Merged(c, i)
    BY <2>1, MergedCells DEF BufferInv
  <2>. QED
    BY <1>2, <1>4, <2>2
<1>6. /\ DiskRows = rows /\ DiskRows' = rows /\ DOMAIN NoCells = {}
      /\ \A c, i : Shown(c, i) = Merged(c, i) /\ Shown(c, i)' = Merged(c, i)'
  <2>1. image = NoImage
    BY <1>1 DEF BufferInv, InRebuild
  <2>. QED
    BY <1>1, <2>1, PlainShown DEF DiskRows, NoCells
<1>7. ASSUME NEW c \in cols, NEW i \in 1..rows
      PROVE  Shown(c, i)' = Shown(c, i)
  <2>1. OnDisk(c)' /\ c \in Col
    BY <1>1, <1>2 DEF OnDisk
  <2>2. CASE c \in NewCols
    <3>1. cells'[c] = NoCells
      BY <1>1, <2>1, <2>2
    <3>2. Merged(c, i)' = file[c][i]
      BY <1>1, <1>5, <1>6, <2>1, <2>2, <3>1 DEF Merged
    <3>. QED
      BY <1>5, <1>6, <2>2, <3>2
  <2>3. CASE c \notin NewCols
    <3>1. cells'[c] = cells[c] /\ OnDisk(c)
      BY <1>1, <1>2, <2>1, <2>3 DEF NewCols, OnDisk
    <3>2. Merged(c, i)' = Merged(c, i)
      BY <1>1, <1>6, <2>1, <3>1 DEF Merged
    <3>. QED
      BY <1>6, <3>2
  <2>. QED
    BY <2>2, <2>3
<1>8. View' = View
  BY <1>1, <1>2, <1>7, SameView
<1>9. ASSUME NEW c \in dcols', NEW i \in 1..OpenRows'
      PROVE  \/ c \in dcols /\ i <= OpenRows /\ file'[c][i] = file[c][i]
             \/ c \in cols /\ i <= rows /\ file'[c][i] = Shown(c, i)
  <2>1. i \in 1..rows /\ i <= OpenRows
    BY <1>2, <1>3
  <2>2. CASE c \in dcols
    BY <1>1, <2>1, <2>2
  <2>3. CASE c \notin dcols
    <3>1. file[c][i] = Merged(c, i)
      BY <1>1, <1>5, <2>1, <2>3 DEF NewCols
    <3>. QED
      BY <1>1, <1>6, <2>1, <3>1
  <2>. QED
    BY <2>2, <2>3
<1>10. /\ Stored # Damaged /\ Stored' # Damaged
       /\ Promise!Between(Stored, View, Stored')
  BY <1>1, <1>2, <1>3, <1>9, BetweenThem
<1>. QED
  BY <1>1, <1>8, <1>10, FlushStep

(* Patching: the cells of column c are written with what the session sees  *)
(* in them, or not, or lost, and the session goes on seeing it.            *)
LEMMA PatchingStep ==
  ASSUME BufferInv, BufferInv', RowsInv, RowsInv', PromiseInv, NEW c \in Col,
         phase = "patch",
         UNCHANGED <<header, sync, dcols, rows, cols, added, removed, phase, cut>>,
         DOMAIN image \subseteq {c}, DOMAIN image' \subseteq {c},
         \A d \in Col : d # c => file'[d] = file[d] /\ cells'[d] = cells[d],
         \A i \in 1..rows :
           /\ Shown(c, i)' = Shown(c, i)
           /\ \/ file'[c][i] \in {file[c][i], Shown(c, i)}
              \/ c \in Split /\ file'[c][i] = Lost
  PROVE  Promise!Progress
<1>1. /\ ~cut /\ dcols = cols /\ cols \subseteq Col
      /\ OpenRows <= rows /\ OpenRows \in Nat /\ rows \in Nat
  BY ConstantsFit DEF BufferInv, RowsInv, CutEnds, InPatch, HeaderFits, TypeOK, OpenRows,
     PromiseInv, PatchesTrue
<1>2. /\ OpenRows' = OpenRows /\ DiskRows' = DiskRows /\ \A d : OnDisk(d)' = OnDisk(d)
  BY DEF OpenRows, DiskRows, OnDisk
<1>3. ASSUME NEW d \in cols, NEW i \in 1..rows
      PROVE  /\ Shown(d, i)' = Shown(d, i)
             /\ \/ file'[d][i] \in {file[d][i], Shown(d, i)}
                \/ d \in Split /\ file'[d][i] = Lost
  <2>1. CASE d = c
    BY <2>1
  <2>2. CASE d # c
    <3>1. Merged(d, i)' = Merged(d, i)
      BY <1>1, <1>2, <2>2 DEF Merged
    <3>2. Shown(d, i)' = Shown(d, i)
      BY <2>2, <3>1 DEF Shown
    <3>. QED
      BY <1>1, <2>2, <3>2
  <2>. QED
    BY <2>1, <2>2
<1>4. View' = View
  BY <1>1, <1>3, SameView
<1>5. ASSUME NEW d \in dcols', NEW i \in 1..OpenRows'
      PROVE  \/ d \in dcols /\ i <= OpenRows /\ file'[d][i] = file[d][i]
             \/ d \in cols /\ i <= rows /\ file'[d][i] = Shown(d, i)
             \/ d \in Split /\ file'[d][i] = Lost
  <2>1. d \in dcols /\ d \in cols /\ i \in 1..rows /\ i <= OpenRows
    BY <1>1, <1>2
  <2>. QED
    BY <1>3, <2>1
<1>6. /\ Stored # Damaged /\ Stored' # Damaged
      /\ Promise!Between(Stored, View, Stored')
  BY <1>1, <1>2, <1>5, BetweenThem
<1>. QED
  BY <1>4, <1>6, FlushStep

LEMMA CellStep ==
  ASSUME BufferInv, BufferInv', RowsInv, RowsInv', PromiseInv,
         NEW c \in Col, NEW i \in 1..rows, TearCell(c, i) \/ PatchCell(c, i)
  PROVE  Promise!Progress
<1>1. PICK v : /\ v = cells[c][i] \/ (c \in Split /\ v = Lost)
               /\ file' = [file EXCEPT ![c] = [@ EXCEPT ![i] = v]]
  BY DEF TearCell, PatchCell
<1>2. /\ phase = "patch" /\ i \in DOMAIN cells[c] /\ Len(file[c]) >= rows
      /\ image = NoImage /\ image' = NoImage /\ DOMAIN NoImage = {}
      /\ UNCHANGED <<header, sync, dcols, rows, cols, cells, added, removed, phase, cut>>
  BY DEF TearCell, PatchCell, Patching, Patchable, memory, NoImage
<1>3. /\ file'[c] = [file[c] EXCEPT ![i] = v] /\ file[c] \in Seq(Val)
      /\ \A d \in Col : d # c => file'[d] = file[d]
  BY <1>1 DEF BufferInv, TypeOK
<1>4. Len(file'[c]) = Len(file[c])
  <2>1. i \in 1..Len(file[c]) /\ v \in Val
    BY <1>1, <1>2, ConstantsFit DEF BufferInv, TypeOK
  <2>. QED
    BY <1>3, <2>1, ExceptSeq
<1>5. \A k \in 1..rows : file'[c][k] = IF k = i THEN v ELSE file[c][k]
  <2>1. \A k \in 1..rows : k \in DOMAIN file[c]
    BY <1>2 DEF BufferInv, TypeOK
  <2>. QED
    BY <1>3, <2>1
<1>6. DiskRows' = DiskRows /\ OnDisk(c)' = OnDisk(c)
  BY <1>2 DEF OpenRows, DiskRows, OnDisk
<1>7. ASSUME NEW k \in 1..rows
      PROVE  /\ Shown(c, k)' = Shown(c, k)
             /\ \/ file'[c][k] \in {file[c][k], Shown(c, k)}
                \/ c \in Split /\ file'[c][k] = Lost
  <2>1. Merged(c, i) = cells[c][i]
    BY <1>2 DEF Merged
  <2>2. Merged(c, k)' = Merged(c, k)
    BY <1>2, <1>4, <1>5, <1>6 DEF Merged
  <2>3. Shown(c, k) = Merged(c, k) /\ Shown(c, k)' = Merged(c, k)'
    BY <1>2, PlainShown
  <2>. QED
    BY <1>1, <1>5, <2>1, <2>2, <2>3
<1>. QED
  BY <1>2, <1>3, <1>7, PatchingStep

LEMMA PatchedStep ==
  ASSUME BufferInv, BufferInv', RowsInv, RowsInv', PromiseInv,
         NEW c \in Col, PatchDone(c) \/ Rebuild(c) \/ EndRebuild(c)
  PROVE  Promise!Progress
<1>1. /\ phase = "patch" /\ cells[c] # NoCells /\ Len(file[c]) >= rows
      /\ DOMAIN image \subseteq {c} /\ image' = NoImage /\ DOMAIN NoImage = {}
      /\ cells' = [cells EXCEPT ![c] = NoCells]
      /\ UNCHANGED <<header, sync, dcols, rows, cols, added, removed, phase, cut>>
  <2>1. CASE PatchDone(c) \/ Rebuild(c)
    BY <2>1 DEF PatchDone, Rebuild, Patching, Patchable, disk, NoImage, NoCells
  <2>2. CASE EndRebuild(c)
    <3>1. phase = "patch" /\ image # NoImage /\ c \in DOMAIN image
      BY <2>2 DEF EndRebuild, NoImage
    <3>2. DOMAIN image = {c} /\ cells[c] # NoCells
      BY <3>1 DEF BufferInv, InRebuild
    <3>3. c \in dcols
      BY <3>1, <3>2 DEF BufferInv, PendingFits, PromiseInv, PatchesTrue
    <3>4. Len(file[c]) >= rows
      BY <3>1, <3>3 DEF RowsInv, InPatch
    <3>. QED
      BY <2>2, <3>1, <3>2, <3>4 DEF EndRebuild, NoImage
  <2>. QED
    BY <2>1, <2>2
<1>2. /\ \A d \in Col : d # c => file'[d] = file[d] /\ cells'[d] = cells[d]
      /\ cells'[c] = NoCells
  BY <1>1 DEF PatchDone, Rebuild, EndRebuild, disk, BufferInv, TypeOK
<1>3. /\ rows \in Nat /\ file[c] \in Seq(Val) /\ c \in cols /\ dcols = cols
      /\ \A i \in DOMAIN cells[c] : i \in 1..rows
      /\ DOMAIN NoCells = {}
  BY <1>1, ConstantsFit DEF BufferInv, TypeOK, PendingFits, NoCells, PromiseInv, PatchesTrue
<1>4. /\ DiskRows = rows /\ DiskRows' = rows /\ OnDisk(c) /\ OnDisk(c)'
  BY <1>1, <1>3 DEF DiskRows, OnDisk
<1>5. ASSUME NEW i \in 1..rows
      PROVE  file'[c][i] = Shown(c, i) /\ i <= Len(file'[c])
  <2>1. CASE PatchDone(c)
    <3>1. /\ file' = file /\ \A k \in DOMAIN cells[c] : file[c][k] = cells[c][k]
          /\ image = NoImage
      BY <2>1 DEF PatchDone, Patching, disk
    <3>2. file[c][i] = Merged(c, i)
      BY <1>1, <1>3, <1>4, <3>1 DEF Merged
    <3>. QED
      BY <1>1, <1>3, <3>1, <3>2, PlainShown
  <2>2. CASE Rebuild(c)
    <3>1. file'[c] = MergedCol(c) /\ image = NoImage
      BY <2>2 DEF Rebuild, Patching, BufferInv, TypeOK
    <3>2. Len(MergedCol(c)) = rows /\ MergedCol(c)[i] = Merged(c, i)
      BY MergedCells DEF BufferInv
    <3>. QED
      BY <1>1, <1>3, <3>1, <3>2, PlainShown
  <2>3. CASE EndRebuild(c)
    <3>1. file'[c] = image[c] /\ c \in DOMAIN image
      BY <2>3 DEF EndRebuild, BufferInv, TypeOK
    <3>2. Len(image[c]) = rows
      <4>1. image # NoImage
        BY <1>1, <3>1
      <4>. QED
        BY <1>1, <3>1, <4>1 DEF BufferInv, InRebuild
    <3>. QED
      BY <1>3, <3>1, <3>2 DEF Shown
  <2>. QED
    BY <2>1, <2>2, <2>3
<1>6. ASSUME NEW i \in 1..rows
      PROVE  Shown(c, i)' = file'[c][i]
  <2>1. Merged(c, i)' = file'[c][i]
    BY <1>2, <1>3, <1>4, <1>5 DEF Merged
  <2>. QED
    BY <1>1, <2>1 DEF Shown
<1>7. DOMAIN image' \subseteq {c}
  BY <1>1
<1>. QED
  BY <1>1, <1>2, <1>5, <1>6, <1>7, PatchingStep

LEMMA BeginRebuildStep ==
  ASSUME BufferInv, BufferInv', RowsInv, RowsInv', PromiseInv,
         NEW c \in Col, BeginRebuild(c)
  PROVE  Promise!Progress
<1>1. /\ phase = "patch" /\ c \in Split
      /\ DOMAIN image = {} /\ image' = [d \in {c} |-> MergedCol(c)]
      /\ file' = [file EXCEPT ![c] = [i \in 1..rows |-> Lost]]
      /\ UNCHANGED <<header, sync, dcols, rows, cols, cells, added, removed, phase, cut>>
  BY DEF BeginRebuild, Patching, Patchable, memory, NoImage
<1>2. /\ file'[c] = [i \in 1..rows |-> Lost]
      /\ \A d \in Col : d # c => file'[d] = file[d]
      /\ DOMAIN image' = {c} /\ image'[c] = MergedCol(c)
  BY <1>1 DEF BufferInv, TypeOK
<1>3. \A i \in 1..rows : file'[c][i] = Lost /\ Shown(c, i)' = Shown(c, i)
  BY <1>1, <1>2 DEF Shown, MergedCol
<1>. QED
  BY <1>1, <1>2, <1>3, PatchingStep

LEMMA RewriteDatStep ==
  ASSUME BufferInv, RewriteDat PROVE Promise!Rewrite
<1>1. /\ phase = "swap" /\ phase' = "rewrite" /\ DOMAIN image = cols
      /\ UNCHANGED <<rows, cols, image, cut>>
  BY DEF RewriteDat, memory, BufferInv, InSwap
<1>2. \A c \in cols, i \in 1..rows : Shown(c, i)' = Shown(c, i)
  BY <1>1 DEF Shown
<1>3. View' = View /\ Stored' = Damaged
  BY <1>1, <1>2 DEF View, Stored
<1>. QED
  BY <1>1, <1>3 DEF Promise!Rewrite

LEMMA RewriteFileStep ==
  ASSUME BufferInv, NEW c \in Col, RewriteFile(c) PROVE UNCHANGED Promise!vars
<1>1. /\ phase = "rewrite" /\ phase' = "rewrite" /\ DOMAIN image = cols
      /\ UNCHANGED <<rows, cols, image, cut>>
  BY DEF RewriteFile, memory, BufferInv, InSwap
<1>2. \A d \in cols, i \in 1..rows : Shown(d, i)' = Shown(d, i)
  BY <1>1 DEF Shown
<1>3. View' = View /\ Stored' = Stored
  BY <1>1, <1>2 DEF View, Stored
<1>. QED
  BY <1>1, <1>3 DEF Promise!vars

(* With nothing pending and every file of the table's rows, the directory  *)
(* shows what the session sees.                                            *)
LEMMA EndFlushStep ==
  ASSUME BufferInv, BufferInv', RowsInv, RowsInv', PromiseInv, EndFlush
  PROVE  Promise!Succeed
<1>1. /\ phase \in {"patch", "rewrite"} /\ phase' = "idle"
      /\ phase = "patch" => \A c \in cols : cells[c] = NoCells
      /\ phase = "rewrite" => left = {}
      /\ sync' = rows /\ added' = {}
      /\ cells' = [c \in Col |-> NoCells] /\ image' = NoImage
      /\ UNCHANGED <<header, dcols, file, rows, cols, cut>>
  BY DEF EndFlush
<1>2. /\ ~cut /\ dcols = cols /\ cols \subseteq Col
      /\ DOMAIN NoCells = {} /\ DOMAIN NoImage = {}
  BY <1>1 DEF BufferInv, CutEnds, TypeOK, InRewrite, PromiseInv, PatchesTrue, NoCells, NoImage
<1>3. rows \in Nat /\ (rows = 0 => header = 0)
  <2>1. rows \in Nat /\ header \in Nat /\ sync \in Nat
    BY ConstantsFit DEF BufferInv, TypeOK
  <2>2. CASE phase = "patch"
    BY <2>1, <2>2 DEF RowsInv, InPatch, HeaderFits, OpenRows
  <2>3. CASE phase = "rewrite"
    BY <2>1, <2>3 DEF BufferInv, InRewrite
  <2>. QED
    BY <1>1, <2>1, <2>2, <2>3
<1>4. OpenRows' = rows /\ DiskRows' = rows /\ \A c \in cols : OnDisk(c)'
  BY <1>1, <1>2, <1>3 DEF OpenRows, DiskRows, OnDisk
<1>5. ASSUME NEW c \in cols, NEW i \in 1..rows
      PROVE  i <= Len(file[c]) /\ Shown(c, i) = file[c][i]
  <2>1. CASE phase = "patch"
    <3>1. Len(file[c]) >= rows /\ file[c] \in Seq(Val)
      BY <1>2, <2>1 DEF RowsInv, InPatch, BufferInv, TypeOK
    <3>2. DiskRows = rows /\ OnDisk(c) /\ cells[c] = NoCells
      BY <1>1, <1>2, <2>1 DEF DiskRows, OnDisk
    <3>3. image = NoImage
      BY <1>1, <1>2, <2>1 DEF BufferInv, InRebuild, PendingFits
    <3>4. Merged(c, i) = file[c][i]
      BY <1>2, <1>3, <3>1, <3>2 DEF Merged
    <3>. QED
      BY <1>3, <1>2, <3>1, <3>3, <3>4 DEF Shown
  <2>2. CASE phase = "rewrite"
    <3>1. DOMAIN image = cols /\ Len(image[c]) = rows /\ file[c] = image[c]
      BY <1>1, <2>2 DEF BufferInv, InRewrite, InSwap
    <3>. QED
      BY <1>3, <3>1 DEF Shown
  <2>. QED
    BY <1>1, <2>1, <2>2
<1>6. ASSUME NEW c \in cols, NEW i \in 1..rows
      PROVE  Shown(c, i)' = Shown(c, i)
  <2>1. cells'[c] = NoCells
    BY <1>1, <1>2
  <2>2. Merged(c, i)' = file[c][i]
    BY <1>1, <1>2, <1>4, <1>5, <2>1 DEF Merged
  <2>3. Shown(c, i)' = file[c][i]
    BY <1>1, <1>2, <2>2 DEF Shown
  <2>. QED
    BY <1>5, <2>3
<1>7. View' = View
  BY <1>1, <1>2, <1>6, SameView
<1>8. StoredCells' = ViewCells
  BY <1>1, <1>2, <1>4, <1>5 DEF StoredCells, ViewCells
<1>9. Stored' = View
  BY <1>1, <1>2, <1>4, <1>8, ViewIs, StoredIsNext DEF ViewFits, StoredFits
<1>. QED
  BY <1>1, <1>7, <1>9 DEF Promise!Succeed

(* The cells handed back are the cells the session had, whatever failed.   *)
LEMMA HandedBack ==
  ASSUME BufferInv, WritesInv, FlushFails,
         phase \in {"grow", "new"} \/ (phase = "patch" /\ added = {}),
         NEW c \in cols, NEW i \in 1..rows
  PROVE  Merged(c, i)' = Merged(c, i)
<1>1. /\ phase \in {"grow", "new", "patch"} /\ phase' = "idle"
      /\ sync' = rows /\ UNCHANGED <<header, dcols, rows, cols, added>>
  BY DEF FlushFails, Published
<1>2. /\ rows \in Nat /\ OpenRows \in Nat /\ c \in Col
      /\ \A d \in dcols : d \in Col /\ Len(file[d]) \in Nat
  BY ConstantsFit DEF BufferInv, TypeOK, OpenRows
<1>3. OpenRows' = rows /\ DiskRows' = rows
  BY <1>1, <1>2 DEF OpenRows, DiskRows
<1>4. OnDisk(c)' = OnDisk(c) /\ (OnDisk(c) => c \in dcols)
  BY <1>1 DEF OnDisk
<1>5. \A d \in dcols : file'[d] = file[d]
  BY <1>2 DEF FlushFails, HandBack, NewCols, BufferInv, TypeOK
<1>6. CASE cells'[c] = cells[c]
  <2>1. CASE phase = "grow"
    <3>1. DiskRows = OpenRows
      BY <2>1 DEF DiskRows
    <3>2. c \in dcols /\ i <= Len(file[c]) /\ ~(i <= OpenRows) => file[c][i] = Default
      BY <1>2, <2>1 DEF WritesInv, Grown
    <3>. QED
      BY <1>1, <1>3, <1>4, <1>5, <1>6, <3>1, <3>2 DEF Merged
  <2>2. CASE phase \in {"new", "patch"}
    <3>1. DiskRows = rows
      BY <2>2 DEF DiskRows
    <3>. QED
      BY <1>1, <1>3, <1>4, <1>5, <1>6, <3>1 DEF Merged
  <2>. QED
    BY <1>1, <2>1, <2>2
<1>7. CASE cells'[c] # cells[c]
  <2>1. cells'[c] = MergedCol(c)
    BY <1>2, <1>7 DEF FlushFails, HandBack
  <2>2. i \in DOMAIN cells'[c] /\ cells'[c][i] = Merged(c, i)
    BY <2>1 DEF MergedCol
  <2>. QED
    BY <2>2 DEF Merged
<1>. QED
  BY <1>6, <1>7

(* What was pending the session has still, image or not.                   *)
LEMMA ImageHasPending ==
  ASSUME BufferInv, WritesInv, phase \in {"grow", "new", "patch"},
         NEW c \in cols, NEW i \in 1..rows,
         c \in DOMAIN image => i \in DOMAIN cells[c]
  PROVE  Shown(c, i) = Merged(c, i)
<1>1. CASE c \notin DOMAIN image
  BY <1>1 DEF Shown
<1>2. CASE c \in DOMAIN image
  <2>1. phase = "patch"
    BY <1>2 DEF BufferInv, InRebuild, NoImage
  <2>2. image[c][i] = cells[c][i]
    BY <1>2, <2>1 DEF WritesInv, RebuildTrue
  <2>. QED
    BY <1>2, <2>2 DEF Shown, Merged
<1>. QED
  BY <1>1, <1>2

(* A flush that fails where failures are trusted, not in a rewrite.        *)
LEMMA FailureFacts ==
  ASSUME BufferInv, RowsInv, PromiseInv, Trusted, FlushFails, phase # "rewrite"
  PROVE  /\ phase \in {"grow", "new", "patch"} /\ phase' = "idle"
         /\ phase = "patch" => added = {}
         /\ ~cut /\ ~cut' /\ image' = NoImage
         /\ OpenRows <= rows /\ OpenRows' = rows
         /\ UNCHANGED <<dcols, rows, cols, added, removed>>
         /\ \A c \in dcols : Len(file[c]) >= rows /\ file'[c] = file[c]
<1>1. /\ MayFail /\ sync' = rows /\ phase' = "idle"
      /\ cut' = Breaking /\ image' = NoImage
      /\ UNCHANGED <<header, dcols, rows, cols, added, removed>>
  BY DEF FlushFails, Published
<1>2. phase \in {"grow", "new", "patch"} /\ (phase = "grow" => left = {})
  BY <1>1 DEF MayFail, Trusted
<1>3. ~cut /\ ~cut'
  BY <1>1, <1>2 DEF BufferInv, CutEnds, Breaking
<1>4. rows \in Nat /\ header \in Nat /\ sync \in Nat
  BY ConstantsFit DEF BufferInv, TypeOK
<1>5. OpenRows <= rows /\ OpenRows' = rows
  <2>1. rows = 0 => header = 0
    BY <1>2, <1>4 DEF RowsInv, InGrow, InNew, InPatch, HeaderFits, OpenRows
  <2>2. OpenRows <= rows
    BY <1>2, <1>4 DEF RowsInv, InGrow, InNew, InPatch, HeaderFits, OpenRows
  <2>. QED
    BY <1>1, <2>1, <2>2 DEF OpenRows
<1>6. ASSUME NEW c \in dcols
      PROVE  Len(file[c]) >= rows /\ file'[c] = file[c]
  <2>1. Len(file[c]) >= rows
    <3>1. CASE phase = "grow"
      BY <1>2, <3>1 DEF RowsInv, InGrow
    <3>2. CASE phase = "new"
      BY <3>2 DEF RowsInv, InNew, NewCols
    <3>3. CASE phase = "patch"
      BY <3>3 DEF RowsInv, InPatch
    <3>. QED
      BY <1>2, <3>1, <3>2, <3>3
  <2>2. file'[c] = file[c]
    BY DEF FlushFails, HandBack, NewCols, BufferInv, TypeOK
  <2>. QED
    BY <2>1, <2>2
<1>7. phase = "patch" => added = {}
  BY <1>1, FailsBeforeNew
<1>. QED
  BY <1>1, <1>2, <1>3, <1>5, <1>6, <1>7

(* A flush that fails while one column's two files are replaced loses of   *)
(* that column what was not pending, and nothing else.                     *)
LEMMA LoseStep ==
  ASSUME BufferInv, BufferInv', RowsInv, RowsInv', WritesInv, PromiseInv, Trusted,
         FlushFails, phase # "rewrite", image # NoImage
  PROVE  Promise!Lose
<1>1. /\ phase = "patch" /\ phase' = "idle" /\ added = {} /\ image' = NoImage
      /\ ~cut /\ ~cut' /\ OpenRows' = rows
      /\ UNCHANGED <<dcols, rows, cols>>
      /\ \A d \in dcols : Len(file[d]) >= rows /\ file'[d] = file[d]
  BY FailureFacts DEF BufferInv, InRebuild
<1>2. PICK c \in Split \cap Col : DOMAIN image = {c} /\ cells[c] # NoCells
  BY <1>1 DEF BufferInv, InRebuild
<1>3. /\ c \in cols /\ c \in dcols /\ rows \in Nat /\ Len(file[c]) \in Nat
      /\ DOMAIN NoImage = {}
      /\ \A i \in 1..rows : file[c][i] = Lost
  BY <1>1, <1>2, ConstantsFit
     DEF BufferInv, PendingFits, PromiseInv, PatchesTrue, WritesInv, RebuildTrue, TypeOK, NoImage
<1>. DEFINE gone == {i \in 1..rows : i \notin DOMAIN cells[c]}
<1>4. ASSUME NEW d \in cols, NEW i \in 1..rows
      PROVE  Shown(d, i)' = IF d = c /\ i \in gone THEN Lost ELSE Shown(d, i)
  <2>1. Shown(d, i)' = Merged(d, i)
    BY <1>1, <1>3, HandedBack DEF Shown
  <2>2. CASE d = c /\ i \in gone
    <3>1. OnDisk(c) /\ DiskRows = rows /\ i <= Len(file[c])
      BY <1>1, <1>3 DEF OnDisk, DiskRows
    <3>2. Merged(c, i) = Lost
      BY <1>3, <2>2, <3>1 DEF Merged
    <3>. QED
      BY <2>1, <2>2, <3>2
  <2>3. CASE ~(d = c /\ i \in gone)
    BY <1>1, <1>2, <2>1, <2>3, ImageHasPending
  <2>. QED
    BY <2>2, <2>3
<1>5. /\ View = [rows |-> rows, cell |-> ViewCells]
      /\ View' = [rows |-> rows, cell |-> ViewCells']
      /\ Stored' = [rows |-> rows, cell |-> StoredCells']
  BY <1>1, ViewIs, ViewIsNext, StoredIsNext DEF ViewFits, StoredFits
<1>6. gone \in SUBSET (1..rows)
  OBVIOUS
<1>. HIDE DEF gone
<1>7. /\ DOMAIN ViewCells = cols /\ DOMAIN StoredCells' = dcols
      /\ \A i \in 1..rows : StoredCells'[c][i] = Lost
  BY <1>1, <1>3 DEF ViewCells, StoredCells
<1>8. ViewCells' = [ViewCells EXCEPT ![c] =
                     [i \in 1..rows |-> IF i \in gone THEN Lost ELSE @[i]]]
  <2>1. /\ ViewCells' = [d \in cols |-> [i \in 1..rows |-> Shown(d, i)']]
        /\ ViewCells = [d \in cols |-> [i \in 1..rows |-> Shown(d, i)]]
    BY <1>1 DEF ViewCells
  <2>2. \A d \in cols : d # c =>
          [i \in 1..rows |-> Shown(d, i)'] = [i \in 1..rows |-> Shown(d, i)]
    BY <1>4
  <2>3. [i \in 1..rows |-> Shown(c, i)']
          = [i \in 1..rows |-> IF i \in gone THEN Lost ELSE ViewCells[c][i]]
    BY <1>3, <1>4, <2>1
  <2>. HIDE DEF Shown
  <2>. QED
    BY <1>3, <2>1, <2>2, <2>3
<1>. HIDE DEF ViewCells, StoredCells
<1>9. View' = [View EXCEPT !.cell[c] =
                [i \in 1..View.rows |-> IF i \in gone THEN Lost ELSE @[i]]]
  <2>. DEFINE new == [i \in 1..rows |-> IF i \in gone THEN Lost ELSE ViewCells[c][i]]
  <2>1. View.rows = rows /\ View.cell = ViewCells
    BY <1>5
  <2>2. ViewCells' = [ViewCells EXCEPT ![c] = new]
    BY <1>8
  <2>3. [i \in 1..View.rows |-> IF i \in gone THEN Lost ELSE View.cell[c][i]] = new
    BY <2>1
  <2>. HIDE DEF new
  <2>4. View' = [View EXCEPT !.cell = [ViewCells EXCEPT ![c] = new]]
    BY <1>5, <2>2
  <2>5. View' = [View EXCEPT !.cell[c] = new]
    BY <2>1, <2>4
  <2>. QED
    BY <2>3, <2>5
<1>10. c \in Promise!Cols \cap Split /\ c \in DOMAIN Stored'.cell /\ gone \in SUBSET (1..View.rows)
  BY <1>2, <1>3, <1>5, <1>6, <1>7 DEF Promise!Cols
<1>11. \A i \in gone : i <= Stored'.rows /\ Stored'.cell[c][i] = Lost
  BY <1>3, <1>5, <1>6, <1>7
<1>. QED
  BY <1>9, <1>10, <1>11 DEF Promise!Lose

LEMMA FlushFailsStep ==
  ASSUME BufferInv, BufferInv', RowsInv, RowsInv', WritesInv, PromiseInv, Trusted, FlushFails
  PROVE  Promise!Fail
<1>1. CASE phase = "rewrite"
  <2>1. phase' = "idle" /\ cut' = TRUE
    BY <1>1 DEF FlushFails, Breaking
  <2>2. View' = Damaged /\ Stored' = Damaged /\ Stored = Damaged
    BY <1>1, <2>1 DEF View, Stored
  <2>. QED
    BY <1>1, <2>1, <2>2 DEF Promise!Fail
<1>2. CASE phase # "rewrite"
  <2>1. /\ phase \in {"grow", "new", "patch"} /\ phase' = "idle"
        /\ phase = "patch" => added = {}
        /\ ~cut /\ ~cut' /\ image' = NoImage
        /\ OpenRows <= rows /\ OpenRows' = rows
        /\ UNCHANGED <<dcols, rows, cols>>
        /\ \A c \in dcols : Len(file[c]) >= rows /\ file'[c] = file[c]
    BY <1>2, FailureFacts
  <2>2. View' = View \/ Promise!Lose
    <3>1. CASE image = NoImage
      <4>1. \A c \in cols, i \in 1..rows : Shown(c, i)' = Shown(c, i)
        BY <2>1, <3>1, HandedBack, PlainShown
      <4>. QED
        BY <2>1, <4>1, SameView
    <3>2. CASE image # NoImage
      BY <1>2, <3>2, LoseStep
    <3>. QED
      BY <3>1, <3>2
  <2>3. rows \in Nat /\ OpenRows \in Nat /\ dcols \subseteq Col
    BY ConstantsFit DEF BufferInv, TypeOK, OpenRows
  <2>4. ASSUME NEW c \in dcols', NEW i \in 1..OpenRows'
        PROVE  \/ c \in dcols /\ i <= OpenRows /\ file'[c][i] = file[c][i]
               \/ c \in cols /\ i <= rows /\ file'[c][i] = Shown(c, i)
               \/ i > OpenRows /\ file'[c][i] = Default
               \/ c \in Split /\ file'[c][i] = Lost
    <3>1. c \in dcols /\ c \in Col /\ i \in 1..rows /\ file'[c] = file[c] /\ i <= Len(file[c])
      BY <2>1, <2>3 DEF BufferInv, TypeOK
    <3>2. CASE i <= OpenRows
      BY <3>1, <3>2
    <3>3. CASE i > OpenRows /\ phase \in {"grow", "new"}
      BY <2>3, <3>1, <3>3 DEF WritesInv, Grown, PromiseInv, StillBlank
    <3>4. CASE i > OpenRows /\ phase = "patch"
      <4>1. added = {} /\ c \in cols
        BY <2>1, <3>1, <3>4 DEF PromiseInv, PatchesTrue
      <4>2. CASE i \in DOMAIN cells[c]
        <5>1. \/ file[c][i] \in {Default, cells[c][i]}
              \/ c \in Split /\ file[c][i] = Lost
          BY <2>3, <3>1, <3>4, <4>1, <4>2 DEF PromiseInv, PatchesTrue
        <5>2. Shown(c, i) = cells[c][i]
          <6>1. Shown(c, i) = Merged(c, i)
            BY <2>1, <3>1, <4>1, <4>2, ImageHasPending
          <6>. QED
            BY <4>2, <6>1 DEF Merged
        <5>. QED
          BY <2>3, <3>1, <3>4, <4>1, <5>1, <5>2
      <4>3. CASE i \notin DOMAIN cells[c] /\ c \notin DOMAIN image
        <5>1. OnDisk(c) /\ DiskRows = rows
          BY <3>1, <3>4 DEF OnDisk, DiskRows
        <5>2. Merged(c, i) = file[c][i]
          BY <2>3, <3>1, <4>3, <5>1 DEF Merged
        <5>. QED
          BY <2>3, <3>1, <4>1, <4>3, <5>2 DEF Shown
      <4>4. CASE c \in DOMAIN image
        <5>1. c \in Split
          BY <3>4, <4>4 DEF BufferInv, InRebuild, NoImage
        <5>. QED
          BY <3>1, <3>4, <4>4, <5>1 DEF WritesInv, RebuildTrue
      <4>. QED
        BY <4>2, <4>3, <4>4
    <3>. QED
      BY <2>1, <2>3, <3>1, <3>2, <3>3, <3>4
  <2>5. /\ Stored # Damaged /\ Stored' # Damaged
        /\ Promise!Between(Stored, View, Stored')
    BY <1>2, <2>1, <2>4, BetweenThem
  <2>. QED
    BY <2>1, <2>2, <2>5 DEF Promise!Fail
<1>. QED
  BY <1>1, <1>2

LEMMA ReopenStep ==
  ASSUME BufferInv, BufferInv', RowsInv, RowsInv', Reopen
  PROVE  Promise!Reopen \/ Promise!CutShort
<1>1. /\ ~cut /\ rows' = OpenRows /\ cols' = dcols /\ added' = {}
      /\ cells' = [c \in Col |-> NoCells] /\ image' = NoImage
      /\ phase' = "idle" /\ cut' = Breaking
      /\ UNCHANGED <<header, sync, dcols, file>>
  BY DEF Reopen, disk
<1>2. CASE phase = "rewrite"
  <2>1. View' = Damaged /\ Stored' = Damaged /\ Stored = Damaged
    BY <1>1, <1>2 DEF View, Stored, Breaking
  <2>. QED
    BY <1>1, <1>2, <2>1 DEF Promise!Reopen
<1>3. CASE phase = "growing"
  <2>1. View' = Damaged /\ Stored' = Damaged
    BY <1>1, <1>3 DEF View, Stored, Breaking
  <2>. QED
    BY <1>1, <1>3, <2>1 DEF Promise!CutShort
<1>4. CASE phase \notin {"rewrite", "growing"}
  <2>1. OpenRows' = OpenRows /\ ~cut' /\ DiskRows' = OpenRows
    BY <1>1, <1>4 DEF OpenRows, DiskRows, Breaking
  <2>2. /\ OpenRows \in Nat /\ DOMAIN NoCells = {} /\ DOMAIN NoImage = {}
        /\ \A c \in dcols : c \in Col /\ Len(file[c]) >= OpenRows /\ Len(file[c]) \in Nat
    BY <1>1, <1>4, ConstantsFit
       DEF BufferInv, RowsInv, Readable, Breaking, TypeOK, OpenRows, NoCells, NoImage
  <2>3. ASSUME NEW c \in dcols, NEW i \in 1..OpenRows
        PROVE  Shown(c, i)' = file[c][i]
    <3>1. cells'[c] = NoCells /\ OnDisk(c)'
      BY <1>1, <2>2 DEF OnDisk
    <3>2. Merged(c, i)' = file[c][i]
      BY <1>1, <2>1, <2>2, <3>1 DEF Merged
    <3>. QED
      BY <1>1, <2>2, <3>2 DEF Shown
  <2>4. Stored' = Stored
    BY <1>1, <1>4, <2>1, SameStored
  <2>5. ViewCells' = StoredCells
    BY <1>1, <2>3 DEF ViewCells, StoredCells
  <2>6. View' = Stored
    BY <1>1, <1>4, <2>1, <2>5, StoredIs, ViewIsNext DEF StoredFits, ViewFits
  <2>. QED
    BY <1>1, <1>4, <2>4, <2>6 DEF Promise!Reopen
<1>. QED
  BY <1>2, <1>3, <1>4

-----------------------------------------------------------------------------
(* The theorems.                                                           *)

LEMMA InitStep == Init => Promise!Init
<1>. SUFFICES ASSUME Init PROVE Promise!Init
  OBVIOUS
<1>1. BufferInv /\ RowsInv
  BY InitInv
<1>2. /\ phase = "idle" /\ ~cut /\ rows = header /\ cols = dcols
      /\ OpenRows = header /\ added = {}
      /\ cells = [c \in Col |-> NoCells] /\ DOMAIN image = {}
  BY DEF Init, OpenRows, NoImage
<1>3. /\ cols \subseteq Col /\ rows \in Nat /\ DOMAIN NoCells = {}
      /\ \A c \in dcols : Len(file[c]) >= rows /\ file[c] \in Seq(Val)
  BY <1>1, <1>2, ConstantsFit DEF BufferInv, RowsInv, Readable, Breaking, TypeOK, NoCells
<1>4. ASSUME NEW c \in cols, NEW i \in 1..rows
      PROVE  Shown(c, i) = file[c][i] /\ file[c][i] \in Val
  <2>1. OnDisk(c) /\ DiskRows = rows /\ cells[c] = NoCells
    BY <1>2, <1>3 DEF OnDisk, DiskRows
  <2>2. i <= Len(file[c]) /\ file[c][i] \in Val
    BY <1>2, <1>3
  <2>3. Merged(c, i) = file[c][i]
    BY <1>2, <1>3, <2>1, <2>2 DEF Merged
  <2>. QED
    BY <1>2, <2>2, <2>3 DEF Shown
<1>5. ViewCells = StoredCells
  BY <1>2, <1>4 DEF ViewCells, StoredCells
<1>6. /\ View = [rows |-> rows, cell |-> ViewCells]
      /\ Stored = [rows |-> rows, cell |-> ViewCells]
  BY <1>1, <1>2, <1>5, ViewIs, StoredIs DEF ViewFits, StoredFits
<1>7. DOMAIN ViewCells = cols /\ \A c \in cols : ViewCells[c] \in [1..rows -> Val]
  BY <1>4 DEF ViewCells
<1>. HIDE DEF ViewCells
<1>8. Promise!IsTable(View)
  BY <1>3, <1>6, <1>7 DEF Promise!IsTable
<1>. QED
  BY <1>2, <1>6, <1>8 DEF Promise!Init

(* Every step of the handle is a step the promise allows.                  *)
LEMMA NextStep ==
  ASSUME BufferInv, BufferInv', RowsInv, RowsInv', WritesInv, PromiseInv, Trusted, [Next]_vars
  PROVE  [Promise!Next]_Promise!vars
<1>1. CASE UNCHANGED vars
  <2>1. UNCHANGED <<header, sync, dcols, file, rows, cols, cells, added, removed,
                    phase, left, image, cut>>
    BY <1>1 DEF vars, disk, memory
  <2>2. \A c, i : Shown(c, i)' = Shown(c, i)
    BY <2>1 DEF Shown, Merged, OnDisk, DiskRows, OpenRows
  <2>3. View' = View /\ Stored' = Stored
    BY <2>1, <2>2 DEF View, Stored, OpenRows
  <2>. QED
    BY <2>1, <2>3 DEF Promise!vars
<1>2. CASE Next
  BY <1>2, AddRowStep, PutCellStep, RemoveRowStep, AddColStep, RemoveColStep,
     BeginInPlaceStep, BeginRewriteStep, BeginGrowStep, GrowStep, PatchHeaderStep,
     WriteNewStep, SwapDatStep, CellStep, PatchedStep, BeginRebuildStep,
     RewriteDatStep, RewriteFileStep, EndFlushStep, FlushFailsStep, ReopenStep
     DEF Next, Promise!Next
<1>. QED
  BY <1>1, <1>2

(* A writable table promises what TableContent states, for any columns,    *)
(* values and number of rows: a session sees its own edits and no others,  *)
(* a flush that returns has stored them all, and one that fails or dies    *)
(* leaves every cell old, new or, in a row the table did not have, the     *)
(* default; but a death while a manager grows or a rewrite runs damages    *)
(* the table, and one while a cell or a column kept in two files is half   *)
(* written loses it (flush_locked, grow_in_place, flush_preserving).       *)
(* Every death is covered.  Of the errors, those of Trusted are not: in a  *)
(* growth, before a rewrite replaces table.dat, or patching after new      *)
(* columns were stored, where the promise is broken by what                *)
(* finish_write_lock publishes or by cells the session let go of.          *)
THEOREM PromiseIsKept ==
  ASSUME Trusted PROVE Spec => KeepsPromise
<1>1. Init => Promise!Init
  BY InitStep
<1>2. BufferInv /\ BufferInv' /\ RowsInv /\ RowsInv' /\ WritesInv /\ PromiseInv /\ [Next]_vars
        => [Promise!Next]_Promise!vars
  BY NextStep
<1>3. Spec => [](BufferInv /\ RowsInv /\ WritesInv /\ PromiseInv)
  BY PromiseInvHolds
<1>. QED
  BY <1>1, <1>2, <1>3, PTL DEF Spec, KeepsPromise, Promise!Spec

(* addrows behind every row of the disk appends a row of defaults to every *)
(* column, whatever the files have beyond the rows of the table and        *)
(* whatever has failed before.                                             *)
THEOREM RowsAreAddedBlank == Spec => NewRowsAreDefault
<1>1. ASSUME BufferInv, AddRow, rows >= OpenRows, NEW c \in cols
      PROVE  MergedCol(c)' = Append(MergedCol(c), Default)
  <2>1. /\ phase = "idle" /\ rows' = rows + 1
        /\ UNCHANGED <<header, sync, dcols, file, phase, cols, cells, added>>
    BY <1>1 DEF AddRow, Editing, disk
  <2>2. /\ rows \in Nat /\ OpenRows \in Nat /\ c \in Col
        /\ DOMAIN cells[c] \subseteq 1..rows
    BY <1>1, ConstantsFit DEF BufferInv, TypeOK, OpenRows
  <2>3. \A i \in 1..rows + 1 : Merged(c, i)' = Merged(c, i)
    BY <2>1 DEF Merged, OnDisk, DiskRows, OpenRows
  <2>4. Merged(c, rows + 1) = Default
    BY <1>1, <2>1, <2>2 DEF Merged, DiskRows
  <2>5. MergedCol(c)' = [i \in 1..rows + 1 |-> IF i <= rows THEN Merged(c, i) ELSE Default]
    BY <2>1, <2>2, <2>3, <2>4 DEF MergedCol
  <2>6. MergedCol(c) = [i \in 1..rows |-> Merged(c, i)]
    BY DEF MergedCol
  <2>. QED
    BY <2>2, <2>5, <2>6
<1>2. BufferInv =>
        [AddRow /\ rows >= OpenRows =>
           \A c \in cols : MergedCol(c)' = Append(MergedCol(c), Default)]_vars
  BY <1>1
<1>3. Spec => []BufferInv
  BY BufferInvHolds
<1>. QED
  BY <1>2, <1>3, PTL DEF NewRowsAreDefault

(* A flush that fails leaves the session every cell it put and every other *)
(* it had, written already or still pending, but in a column whose two     *)
(* files were being replaced; whatever failed before (flush_locked,        *)
(* add_columns_in_place, flush_preserving).  Failures inside a manager's   *)
(* growth, of a rewrite, or of a patch behind stored new columns are those *)
(* it does not speak of.                                                   *)
THEOREM FailuresKeepWrites == Spec => FailureKeepsWrites
<1>1. ASSUME BufferInv, WritesInv, FlushFails,
             phase \in {"grow", "new"} \/ (phase = "patch" /\ added = {}),
             NEW c \in cols, NEW i \in 1..rows,
             c \in DOMAIN image => i \in DOMAIN cells[c]
      PROVE  Shown(c, i)' = Shown(c, i)
  <2>1. DOMAIN image' = {}
    BY <1>1 DEF FlushFails, NoImage
  <2>2. Shown(c, i)' = Merged(c, i)
    BY <1>1, <2>1, HandedBack DEF Shown
  <2>3. Shown(c, i) = Merged(c, i)
    BY <1>1, ImageHasPending
  <2>. QED
    BY <2>2, <2>3
<1>2. BufferInv /\ WritesInv =>
        [FlushFails /\ (phase \in {"grow", "new"} \/ (phase = "patch" /\ added = {})) =>
           \A c \in cols, i \in 1..rows :
             \/ Shown(c, i)' = Shown(c, i)
             \/ c \in DOMAIN image /\ i \notin DOMAIN cells[c]]_vars
  BY <1>1
<1>3. Spec => [](BufferInv /\ WritesInv)
  BY WritesInvHolds
<1>. QED
  BY <1>2, <1>3, PTL DEF FailureKeepsWrites
=============================================================================
