-------------------------- MODULE TableStoreProofs --------------------------
(***************************************************************************)
(* What TableStore says of a WritableTable and its directory, proved for   *)
(* every table, number of rows and set of columns.                         *)
(*                                                                         *)
(* BufferInv is what every failure leaves true: the type, and that a       *)
(* rewrite puts the image it built in the place of the files. RowsInv adds *)
(* to Readable where each phase of a flush in place stands: which files    *)
(* have the new rows already, and that the row count table.dat gets is the *)
(* buffer's.                                                               *)
(***************************************************************************)
EXTENDS TableStore, SequenceTheorems, TLAPS

(* Only columns the session has can have cells pending.                    *)
PendingFits == \A c \in Col \ cols : cells[c] = NoCells

(* The files that have been grown have the buffer's rows, before table.dat *)
(* says so.                                                                *)
InGrow ==
  phase \in {"grow", "growing"} =>
    /\ left \subseteq dcols
    /\ OpenRows < rows
    /\ \A c \in dcols : Len(file[c]) >= OpenRows
    /\ \A c \in dcols \ left : Len(file[c]) >= rows

(* The count in table.dat is the buffer's by now if nothing else gives it. *)
HeaderFits == OpenRows <= rows /\ (sync = 0 => header = rows)

(* All files but those of the new columns still to write have the rows.    *)
InNew ==
  phase = "new" =>
    /\ left \subseteq NewCols
    /\ HeaderFits
    /\ \A c \in (dcols \cup cols) \ left : Len(file[c]) >= rows

(* Every file has the rows before a cell is patched.                       *)
InPatch ==
  phase = "patch" =>
    /\ HeaderFits
    /\ \A c \in dcols : Len(file[c]) >= rows

(* A rewrite's image has every column with every row.                      *)
InSwap ==
  phase \in {"swap", "rewrite"} =>
    DOMAIN image = cols /\ \A c \in cols : Len(image[c]) = rows

(* There is no other image but that of one column of two files while it is *)
(* rebuilt, and its cells stay pending until it is.                        *)
InRebuild ==
  /\ phase \notin {"patch", "swap", "rewrite"} => image = NoImage
  /\ phase = "patch" /\ image # NoImage =>
       \E c \in Split \cap Col :
         DOMAIN image = {c} /\ Len(image[c]) = rows /\ cells[c] # NoCells

(* table.dat is the image's already; the files are, as far as they are     *)
(* replaced.                                                               *)
InRewrite ==
  phase = "rewrite" =>
    /\ dcols = cols /\ header = rows
    /\ left \subseteq cols
    /\ \A c \in cols \ left : file[c] = image[c]

(* A rewrite or a growth that died ended its session.                      *)
CutEnds == cut => phase = "idle"

BufferInv == TypeOK /\ PendingFits /\ InSwap /\ InRebuild /\ InRewrite /\ CutEnds

RowsInv == Readable /\ InGrow /\ InNew /\ InPatch


-----------------------------------------------------------------------------
(* Reading.                                                                *)

LEMMA ConstantsFit ==
  {Default, Lost} \subseteq Val /\ Default # Lost /\ FirstCols \subseteq Col /\ MaxRows \in Nat
  BY TableStoreAssumption

(* A column as a merged read resolves it has a value for every row.        *)
LEMMA MergedCells ==
  ASSUME TypeOK, NEW c \in Col
  PROVE  /\ OpenRows \in 0..MaxRows
         /\ \A i \in 1..rows : Merged(c, i) \in Val
         /\ MergedCol(c) \in Seq(Val)
         /\ Len(MergedCol(c)) = rows
         /\ \A i \in 1..rows : MergedCol(c)[i] = Merged(c, i)
<1>1. rows \in Nat /\ OpenRows \in 0..MaxRows
  BY ConstantsFit DEF TypeOK, OpenRows
<1>2. Default \in Val /\ DiskRows \in Nat
  BY <1>1, ConstantsFit DEF DiskRows
<1>3. ASSUME NEW i \in 1..rows
      PROVE  Merged(c, i) \in Val
  <2>1. i \in DOMAIN cells[c] => cells[c][i] \in Val
    BY DEF TypeOK
  <2>2. i <= Len(file[c]) => file[c][i] \in Val
    BY DEF TypeOK
  <2>. QED
    BY <1>2, <2>1, <2>2 DEF Merged
<1>4. MergedCol(c) \in [1..rows -> Val]
  BY <1>3 DEF MergedCol
<1>. QED
  BY <1>1, <1>3, <1>4 DEF MergedCol

-----------------------------------------------------------------------------
(* The inductive invariant holds at first.                                 *)

LEMMA InitInv == Init => BufferInv /\ RowsInv
<1>. SUFFICES ASSUME Init PROVE BufferInv /\ RowsInv
  OBVIOUS
<1>. USE ConstantsFit
<1>1. PICK first \in [FirstCols -> [1..header -> Known]] :
        file = [c \in Col |-> IF c \in FirstCols THEN first[c] ELSE <<>>]
  BY DEF Init
<1>2. header \in 0..MaxRows /\ sync \in {0, header} /\ OpenRows = header
  BY DEF Init, OpenRows
<1>3. ASSUME NEW c \in Col
      PROVE  /\ file[c] \in Seq(Val) /\ Len(file[c]) <= MaxRows
             /\ c \in dcols => Len(file[c]) = header
  <2>1. CASE c \in FirstCols
    <3>1. first[c] \in [1..header -> Val]
      BY <2>1 DEF Known
    <3>2. file[c] = first[c]
      BY <1>1, <2>1
    <3>. QED
      BY <1>2, <3>1, <3>2
  <2>2. CASE c \notin FirstCols
    <3>1. file[c] = <<>>
      BY <1>1, <2>2
    <3>. QED
      BY <1>2, <2>2, <3>1 DEF Init
  <2>. QED
    BY <2>1, <2>2
<1>4. file \in [Col -> Seq(Val)]
  BY <1>1, <1>3
<1>5. TypeOK
  <2>1. /\ DOMAIN cells = Col
        /\ \A c \in Col :
             DOMAIN cells[c] \subseteq 1..rows /\ cells[c] \in [DOMAIN cells[c] -> Val]
    BY DEF Init, NoCells
  <2>2. DOMAIN image \subseteq Col /\ image \in [DOMAIN image -> Seq(Val)]
    BY DEF Init, NoImage
  <2>3. dcols \subseteq Col /\ phase \in Phases /\ rows \in 0..MaxRows /\ sync \in 0..MaxRows
    BY <1>2 DEF Init, Phases
  <2>. QED
    BY <1>2, <1>3, <1>4, <2>1, <2>2, <2>3 DEF TypeOK, Init
<1>6. Readable
  BY <1>2, <1>3 DEF Readable, Breaking, Init
<1>7. PendingFits /\ InGrow /\ InNew /\ InPatch /\ InSwap /\ InRebuild /\ InRewrite /\ CutEnds
  BY DEF Init, PendingFits, InGrow, InNew, InPatch, InSwap, InRebuild, InRewrite, CutEnds
<1>. QED
  BY <1>5, <1>6, <1>7 DEF BufferInv, RowsInv

-----------------------------------------------------------------------------
(* Every call of the session keeps it.                                     *)

(* A call leaves the files and the flush alone: what is left to show of    *)
(* the state after it is about the buffer.                                 *)
LEMMA EditingKeeps ==
  ASSUME BufferInv, Editing,
         rows' \in 0..MaxRows, cols' \subseteq Col, added' \subseteq Col,
         removed' \in BOOLEAN,
         DOMAIN cells' = Col,
         \A c \in Col :
           DOMAIN cells'[c] \subseteq 1..rows' /\ cells'[c] \in [DOMAIN cells'[c] -> Val],
         \A c \in Col \ cols' : cells'[c] = NoCells
  PROVE BufferInv' /\ (RowsInv => RowsInv')
<1>1. /\ UNCHANGED <<header, sync, dcols, file, phase, left, image, cut>>
      /\ phase = "idle" /\ ~cut
  BY DEF Editing, disk
<1>2. TypeOK'
  BY <1>1 DEF BufferInv, TypeOK
<1>3. RowsInv => Readable'
  BY <1>1 DEF RowsInv, Readable, Breaking, OpenRows
<1>4. PendingFits'
  BY <1>1 DEF PendingFits, NoCells
<1>5. (InGrow /\ InNew /\ InPatch /\ InSwap /\ InRewrite /\ CutEnds)'
  BY <1>1 DEF InGrow, InNew, InPatch, InSwap, InRewrite, CutEnds
<1>6. InRebuild'
  BY <1>1 DEF BufferInv, InRebuild, NoImage
<1>. QED
  BY <1>2, <1>3, <1>4, <1>5, <1>6 DEF BufferInv, RowsInv

LEMMA AddRowKeeps ==
  ASSUME BufferInv, AddRow
  PROVE  BufferInv' /\ (RowsInv => RowsInv')
<1>1. /\ Editing /\ rows < MaxRows /\ rows' = rows + 1
      /\ UNCHANGED <<cols, cells, added, removed>>
  BY DEF AddRow
<1>2. rows' \in 0..MaxRows /\ 1..rows \subseteq 1..rows'
  BY <1>1, ConstantsFit DEF BufferInv, TypeOK
<1>3. \A c \in Col :
        DOMAIN cells'[c] \subseteq 1..rows' /\ cells'[c] \in [DOMAIN cells'[c] -> Val]
  BY <1>1, <1>2 DEF BufferInv, TypeOK
<1>. QED
  BY <1>1, <1>2, <1>3, EditingKeeps DEF BufferInv, TypeOK, PendingFits

LEMMA PutCellKeeps ==
  ASSUME BufferInv, NEW c \in Col, NEW i \in 1..rows, NEW v \in Known, PutCell(c, i, v)
  PROVE BufferInv' /\ (RowsInv => RowsInv')
<1>. DEFINE new == [k \in DOMAIN cells[c] \cup {i} |-> IF k = i THEN v ELSE cells[c][k]]
<1>1. /\ Editing /\ c \in cols
      /\ cells' = [cells EXCEPT ![c] = new]
      /\ UNCHANGED <<rows, cols, added, removed>>
  BY DEF PutCell
<1>2. DOMAIN new \subseteq 1..rows /\ new \in [DOMAIN new -> Val]
  BY DEF BufferInv, TypeOK, Known
<1>. HIDE DEF new
<1>3. DOMAIN cells' = Col
  BY <1>1 DEF BufferInv, TypeOK
<1>4. \A d \in Col : cells'[d] = IF d = c THEN new ELSE cells[d]
  BY <1>1 DEF BufferInv, TypeOK
<1>5. \A d \in Col :
        DOMAIN cells'[d] \subseteq 1..rows' /\ cells'[d] \in [DOMAIN cells'[d] -> Val]
  BY <1>1, <1>2, <1>4 DEF BufferInv, TypeOK
<1>. QED
  BY <1>1, <1>3, <1>4, <1>5, EditingKeeps DEF BufferInv, TypeOK, PendingFits

LEMMA RemoveRowKeeps ==
  ASSUME BufferInv, NEW r \in 1..rows, RemoveRow(r)
  PROVE  BufferInv' /\ (RowsInv => RowsInv')
<1>. DEFINE new(c) == [i \in 1..rows - 1 |-> Merged(c, IF i < r THEN i ELSE i + 1)]
<1>1. /\ Editing /\ rows' = rows - 1
      /\ cells' = [c \in Col |-> IF c \in cols THEN new(c) ELSE cells[c]]
      /\ UNCHANGED <<cols, added, removed>>
  BY DEF RemoveRow
<1>2. rows' \in 0..MaxRows
  BY <1>1, ConstantsFit DEF BufferInv, TypeOK
<1>3. ASSUME NEW c \in Col
      PROVE  new(c) \in [1..rows' -> Val]
  <2>1. ASSUME NEW i \in 1..rows - 1
        PROVE  (IF i < r THEN i ELSE i + 1) \in 1..rows
    BY DEF BufferInv, TypeOK
  <2>2. \A i \in 1..rows : Merged(c, i) \in Val
    BY MergedCells DEF BufferInv
  <2>. QED
    BY <1>1, <2>1, <2>2
<1>. HIDE DEF new
<1>4. \A c \in Col :
        DOMAIN cells'[c] \subseteq 1..rows' /\ cells'[c] \in [DOMAIN cells'[c] -> Val]
  <2>. SUFFICES ASSUME NEW c \in Col
                PROVE  DOMAIN cells'[c] \subseteq 1..rows' /\ cells'[c] \in [DOMAIN cells'[c] -> Val]
    OBVIOUS
  <2>1. CASE c \in cols
    <3>1. cells'[c] = new(c)
      BY <1>1, <2>1
    <3>. QED
      BY <1>3, <3>1
  <2>2. CASE c \notin cols
    <3>1. cells'[c] = NoCells
      BY <1>1, <2>2 DEF BufferInv, PendingFits
    <3>. QED
      BY <3>1 DEF NoCells
  <2>. QED
    BY <2>1, <2>2
<1>5. DOMAIN cells' = Col /\ \A c \in Col \ cols' : cells'[c] = NoCells
  BY <1>1 DEF BufferInv, PendingFits
<1>. QED
  BY <1>1, <1>2, <1>4, <1>5, EditingKeeps DEF BufferInv, TypeOK

LEMMA AddColKeeps ==
  ASSUME BufferInv, NEW c \in Col, AddCol(c)
  PROVE  BufferInv' /\ (RowsInv => RowsInv')
<1>1. /\ Editing /\ cols' = cols \cup {c} /\ added' = added \cup {c}
      /\ UNCHANGED <<rows, cells, removed>>
  BY DEF AddCol
<1>. QED
  BY <1>1, EditingKeeps DEF BufferInv, TypeOK, PendingFits

LEMMA RemoveColKeeps ==
  ASSUME BufferInv, NEW c \in Col, RemoveCol(c)
  PROVE  BufferInv' /\ (RowsInv => RowsInv')
<1>1. /\ Editing /\ cols' = cols \ {c} /\ removed' = TRUE
      /\ cells' = [cells EXCEPT ![c] = NoCells]
      /\ UNCHANGED <<rows, added>>
  BY DEF RemoveCol
<1>2. DOMAIN cells' = Col /\ \A d \in Col : cells'[d] = IF d = c THEN NoCells ELSE cells[d]
  BY <1>1 DEF BufferInv, TypeOK
<1>3. DOMAIN NoCells = {} /\ NoCells \in [{} -> Val]
  BY DEF NoCells
<1>4. \A d \in Col :
        DOMAIN cells'[d] \subseteq 1..rows' /\ cells'[d] \in [DOMAIN cells'[d] -> Val]
  BY <1>1, <1>2, <1>3 DEF BufferInv, TypeOK
<1>. QED
  BY <1>1, <1>2, <1>4, EditingKeeps DEF BufferInv, TypeOK, PendingFits

-----------------------------------------------------------------------------
(* Every step of a flush keeps it.                                         *)

LEMMA BeginInPlaceKeeps ==
  ASSUME BufferInv, BeginInPlace
  PROVE  BufferInv' /\ (RowsInv => RowsInv')
<1>1. /\ phase = "idle" /\ ~cut
      /\ phase' = IF OpenRows < rows THEN "grow" ELSE AfterGrow
      /\ left' = IF OpenRows < rows THEN dcols ELSE NewCols
      /\ UNCHANGED <<header, sync, dcols, file, rows, cols, cells, added, removed, image, cut>>
  BY DEF BeginInPlace, disk, memory
<1>2. /\ cols = dcols \/ AfterGrow = "new"
      /\ OpenRows = rows \/ (OpenRows < rows /\ \A c \in dcols : Len(file[c]) = OpenRows)
  BY DEF BeginInPlace, InPlace, CanGrow, AfterGrow
<1>3. rows \in Nat /\ OpenRows \in Nat
  BY ConstantsFit DEF BufferInv, TypeOK, OpenRows
<1>4. UNCHANGED <<OpenRows, NewCols>>
  BY <1>1 DEF OpenRows, NewCols
<1>5. RowsInv => \A c \in dcols : Len(file[c]) >= OpenRows
  BY <1>1 DEF RowsInv, Readable, Breaking
<1>6. phase' \in {"grow", "new", "patch"} /\ (phase' = "grow" <=> OpenRows < rows)
  BY <1>1 DEF AfterGrow
<1>7. TypeOK'
  BY <1>1, <1>6 DEF BufferInv, TypeOK, Phases, NewCols
<1>8. RowsInv => Readable'
  BY <1>1, <1>4, <1>5 DEF Readable, Breaking
<1>9. PendingFits' /\ InSwap' /\ InRebuild' /\ InRewrite' /\ CutEnds'
  BY <1>1, <1>6 DEF BufferInv, PendingFits, NoCells, InSwap, InRebuild, InRewrite, CutEnds
<1>10. RowsInv => InGrow'
  BY <1>1, <1>4, <1>5, <1>6 DEF InGrow
<1>11. RowsInv /\ phase' # "grow" => HeaderFits' /\ \A c \in dcols : Len(file[c]) >= rows
  BY <1>1, <1>2, <1>3, <1>5, <1>6 DEF HeaderFits, OpenRows
<1>12. phase' = "new" => left' = NewCols
  BY <1>1, <1>6
<1>13. RowsInv => InNew' /\ InPatch'
  BY <1>1, <1>4, <1>11, <1>12 DEF InNew, InPatch, NewCols
<1>. QED
  BY <1>7, <1>8, <1>9, <1>10, <1>13 DEF BufferInv, RowsInv

LEMMA BeginRewriteKeeps ==
  ASSUME BufferInv, BeginRewrite
  PROVE  BufferInv' /\ (RowsInv => RowsInv')
<1>1. /\ phase = "idle" /\ ~cut /\ phase' = "swap"
      /\ image' = [c \in cols |-> MergedCol(c)]
      /\ UNCHANGED <<header, sync, dcols, file, rows, cols, cells, added, removed, left, cut>>
  BY DEF BeginRewrite, disk, memory
<1>2. \A c \in cols : c \in Col
  BY DEF BufferInv, TypeOK
<1>3. \A c \in cols : MergedCol(c) \in Seq(Val) /\ Len(MergedCol(c)) = rows
  BY <1>2, MergedCells DEF BufferInv
<1>4. /\ DOMAIN image' = cols
      /\ image' \in [cols -> Seq(Val)]
      /\ \A c \in cols : Len(image'[c]) = rows
  BY <1>1, <1>3
<1>5. TypeOK'
  BY <1>1, <1>4 DEF BufferInv, TypeOK, Phases
<1>6. RowsInv => Readable'
  BY <1>1 DEF RowsInv, Readable, Breaking, OpenRows
<1>7. PendingFits'
  BY <1>1 DEF BufferInv, PendingFits, NoCells
<1>8. (InGrow /\ InNew /\ InPatch /\ InSwap /\ InRebuild /\ InRewrite /\ CutEnds)'
  BY <1>1, <1>4 DEF InGrow, InNew, InPatch, InSwap, InRebuild, InRewrite, CutEnds
<1>. QED
  BY <1>5, <1>6, <1>7, <1>8 DEF BufferInv, RowsInv

LEMMA BeginGrowKeeps ==
  ASSUME BufferInv, BeginGrow
  PROVE  BufferInv' /\ (RowsInv => RowsInv')
<1>1. /\ phase = "grow" /\ phase' = "growing"
      /\ UNCHANGED <<header, sync, dcols, file, rows, cols, cells, added, removed,
                     left, image, cut>>
  BY DEF BeginGrow, disk, memory
<1>2. TypeOK'
  BY <1>1 DEF BufferInv, TypeOK, Phases
<1>3. PendingFits' /\ InNew' /\ InPatch' /\ InSwap' /\ InRebuild' /\ InRewrite' /\ CutEnds'
  BY <1>1 DEF BufferInv, PendingFits, NoCells, InNew, InPatch, InSwap, InRebuild, NoImage,
              InRewrite, CutEnds
<1>4. RowsInv => Readable' /\ InGrow'
  BY <1>1 DEF RowsInv, Readable, Breaking, InGrow, OpenRows
<1>. QED
  BY <1>2, <1>3, <1>4 DEF BufferInv, RowsInv

LEMMA GrowKeeps ==
  ASSUME BufferInv, NEW c \in Col, Grow(c)
  PROVE  BufferInv' /\ (RowsInv => RowsInv')
<1>. DEFINE grown == [i \in 1..rows |-> IF i <= Len(file[c]) THEN file[c][i] ELSE Default]
<1>1. /\ phase = "growing" /\ c \in left /\ phase' = "grow"
      /\ file' = [file EXCEPT ![c] = grown]
      /\ left' = left \ {c}
      /\ UNCHANGED <<header, sync, dcols, rows, cols, cells, added, removed, image, cut>>
  BY DEF Grow, memory
<1>2. rows \in Nat /\ rows <= MaxRows /\ OpenRows \in Nat
  BY <1>1, ConstantsFit DEF BufferInv, TypeOK, OpenRows
<1>3. grown \in [1..rows -> Val]
  BY <1>2, ConstantsFit DEF BufferInv, TypeOK
<1>4. grown \in Seq(Val) /\ Len(grown) = rows
  BY <1>2, <1>3
<1>. HIDE DEF grown
<1>5. \A d \in Col : file'[d] = IF d = c THEN grown ELSE file[d]
  BY <1>1 DEF BufferInv, TypeOK
<1>6. file' \in [Col -> Seq(Val)] /\ \A d \in Col : Len(file'[d]) <= MaxRows
  BY <1>1, <1>2, <1>4, <1>5 DEF BufferInv, TypeOK
<1>7. TypeOK'
  BY <1>1, <1>6 DEF BufferInv, TypeOK, Phases
<1>8. dcols \subseteq Col /\ OpenRows' = OpenRows
  BY <1>1 DEF BufferInv, TypeOK, OpenRows
<1>9. PendingFits' /\ InNew' /\ InPatch' /\ InSwap' /\ InRebuild' /\ InRewrite' /\ CutEnds'
  BY <1>1 DEF BufferInv, PendingFits, NoCells, InNew, InPatch, InSwap, InRebuild, InRewrite, CutEnds
<1>10. ASSUME RowsInv PROVE Readable' /\ InGrow'
  <2>1. left \subseteq dcols /\ OpenRows < rows
    BY <1>1, <1>10 DEF RowsInv, InGrow
  <2>2. Readable'
    BY <1>1, <1>2, <1>4, <1>5, <1>8, <1>10, <2>1 DEF RowsInv, InGrow, Readable, Breaking
  <2>3. InGrow'
    BY <1>1, <1>2, <1>4, <1>5, <1>8, <1>10, <2>1 DEF RowsInv, InGrow
  <2>. QED
    BY <2>2, <2>3
<1>. QED
  BY <1>7, <1>9, <1>10 DEF BufferInv, RowsInv

LEMMA PatchHeaderKeeps ==
  ASSUME BufferInv, PatchHeader
  PROVE  BufferInv' /\ (RowsInv => RowsInv')
<1>1. /\ phase = "grow" /\ left = {} /\ header' = rows
      /\ phase' = AfterGrow /\ left' = NewCols
      /\ UNCHANGED <<sync, dcols, file, rows, cols, cells, added, removed, image, cut>>
  BY DEF PatchHeader, memory
<1>2. phase' \in {"new", "patch"} /\ (phase' = "patch" => cols = dcols)
  BY <1>1 DEF AfterGrow
<1>3. rows \in 0..MaxRows /\ sync \in Nat /\ header \in Nat
  BY <1>1, ConstantsFit DEF BufferInv, TypeOK
<1>4. TypeOK'
  BY <1>1, <1>2, <1>3 DEF BufferInv, TypeOK, Phases, NewCols
<1>5. PendingFits' /\ InGrow' /\ InSwap' /\ InRebuild' /\ InRewrite' /\ CutEnds'
  BY <1>1, <1>2 DEF BufferInv, PendingFits, NoCells, InGrow, InSwap, InRebuild, InRewrite, CutEnds
<1>6. ASSUME RowsInv PROVE Readable' /\ InNew' /\ InPatch'
  <2>1. OpenRows < rows /\ \A c \in dcols : Len(file[c]) >= rows
    BY <1>1, <1>6 DEF RowsInv, InGrow
  <2>2. HeaderFits' /\ OpenRows' <= rows /\ OpenRows' \in Nat
    BY <1>1, <1>3, <2>1 DEF HeaderFits, OpenRows
  <2>3. Readable'
    BY <1>1, <1>3, <1>4, <2>1, <2>2 DEF Readable, Breaking, TypeOK
  <2>4. InNew' /\ InPatch'
    BY <1>1, <2>1, <2>2 DEF InNew, InPatch, NewCols
  <2>. QED
    BY <2>3, <2>4
<1>. QED
  BY <1>4, <1>5, <1>6 DEF BufferInv, RowsInv

LEMMA WriteNewKeeps ==
  ASSUME BufferInv, NEW c \in Col, WriteNew(c)
  PROVE  BufferInv' /\ (RowsInv => RowsInv')
<1>1. /\ phase = "new" /\ c \in left
      /\ file' = [file EXCEPT ![c] = MergedCol(c)]
      /\ left' = left \ {c}
      /\ UNCHANGED <<header, sync, dcols, rows, cols, cells, added, removed, phase, image, cut>>
  BY DEF WriteNew, memory
<1>2. MergedCol(c) \in Seq(Val) /\ Len(MergedCol(c)) = rows /\ rows \in 0..MaxRows
  BY MergedCells DEF BufferInv, TypeOK
<1>3. \A d \in Col : file'[d] = IF d = c THEN MergedCol(c) ELSE file[d]
  BY <1>1 DEF BufferInv, TypeOK
<1>4. file' \in [Col -> Seq(Val)] /\ \A d \in Col : Len(file'[d]) <= MaxRows
  BY <1>1, <1>2, <1>3, ConstantsFit DEF BufferInv, TypeOK
<1>5. TypeOK'
  BY <1>1, <1>4 DEF BufferInv, TypeOK
<1>6. PendingFits' /\ InGrow' /\ InPatch' /\ InSwap' /\ InRebuild' /\ InRewrite' /\ CutEnds'
  BY <1>1 DEF BufferInv, PendingFits, NoCells, InGrow, InPatch, InSwap, InRebuild, InRewrite, CutEnds
<1>7. ASSUME RowsInv PROVE Readable' /\ InNew'
  <2>1. left \subseteq cols \ dcols /\ dcols \subseteq Col /\ cols \subseteq Col
    BY <1>1, <1>7 DEF BufferInv, RowsInv, InNew, TypeOK, NewCols
  <2>2. Readable'
    BY <1>1, <1>3, <1>7, <2>1 DEF RowsInv, Readable, Breaking, OpenRows
  <2>3. HeaderFits' /\ left' \subseteq NewCols'
    BY <1>1, <1>7, <2>1 DEF RowsInv, InNew, HeaderFits, OpenRows, NewCols
  <2>4. \A d \in (dcols \cup cols) \ left : Len(file[d]) >= rows
    BY <1>1, <1>7 DEF RowsInv, InNew
  <2>5. InNew'
    BY <1>1, <1>2, <1>3, <2>1, <2>3, <2>4 DEF InNew
  <2>. QED
    BY <2>2, <2>5
<1>. QED
  BY <1>5, <1>6, <1>7 DEF BufferInv, RowsInv

LEMMA SwapDatKeeps ==
  ASSUME BufferInv, SwapDat
  PROVE  BufferInv' /\ (RowsInv => RowsInv')
<1>1. /\ phase = "new" /\ left = {}
      /\ header' = rows /\ dcols' = cols /\ phase' = "patch"
      /\ cells' = [c \in Col |-> IF c \in NewCols THEN NoCells ELSE cells[c]]
      /\ UNCHANGED <<sync, file, rows, cols, added, removed, left, image, cut>>
  BY DEF SwapDat
<1>2. rows \in 0..MaxRows /\ sync \in Nat
  BY <1>1, ConstantsFit DEF BufferInv, TypeOK
<1>3. DOMAIN NoCells = {} /\ NoCells \in [{} -> Val]
  BY DEF NoCells
<1>4. /\ DOMAIN cells' = Col
      /\ \A c \in Col :
           DOMAIN cells'[c] \subseteq 1..rows' /\ cells'[c] \in [DOMAIN cells'[c] -> Val]
  BY <1>1, <1>3 DEF BufferInv, TypeOK
<1>5. TypeOK'
  BY <1>1, <1>2, <1>4 DEF BufferInv, TypeOK, Phases
<1>6. PendingFits'
  BY <1>1, <1>3 DEF BufferInv, PendingFits, NoCells
<1>7. InGrow' /\ InNew' /\ InSwap' /\ InRebuild' /\ InRewrite' /\ CutEnds'
  BY <1>1 DEF BufferInv, InGrow, InNew, InSwap, InRebuild, InRewrite, CutEnds
<1>8. ASSUME RowsInv PROVE Readable' /\ InPatch'
  <2>1. HeaderFits /\ \A c \in cols : Len(file[c]) >= rows
    BY <1>1, <1>8 DEF RowsInv, InNew
  <2>2. HeaderFits' /\ OpenRows' <= rows /\ OpenRows' \in Nat
    BY <1>1, <1>2, <2>1 DEF HeaderFits, OpenRows
  <2>3. Readable'
    BY <1>1, <1>2, <1>5, <2>1, <2>2 DEF Readable, Breaking, TypeOK
  <2>4. InPatch'
    BY <1>1, <2>1, <2>2 DEF InPatch
  <2>. QED
    BY <2>3, <2>4
<1>. QED
  BY <1>5, <1>6, <1>7, <1>8 DEF BufferInv, RowsInv

(* Patching: one file gets other cells, and not fewer than the table has   *)
(* rows, and the pending cells of that column may be let go.  Of its image *)
(* there remains nothing, if it had one.                                   *)
LEMMA PatchingKeeps ==
  ASSUME BufferInv, NEW c \in Col, phase = "patch",
         NEW new \in Seq(Val), rows <= Len(new), Len(new) <= MaxRows,
         file' = [file EXCEPT ![c] = new],
         \/ cells' = cells
         \/ cells' = [cells EXCEPT ![c] = NoCells],
         image' = NoImage,
         UNCHANGED <<header, sync, dcols, rows, cols, added, removed, phase, left, cut>>
  PROVE BufferInv' /\ (RowsInv => RowsInv')
<1>1. DOMAIN NoCells = {} /\ NoCells \in [{} -> Val]
  BY DEF NoCells
<1>2. DOMAIN cells' = Col /\ \A d \in Col : cells'[d] \in {cells[d], NoCells}
  BY DEF BufferInv, TypeOK
<1>3. \A d \in Col :
        DOMAIN cells'[d] \subseteq 1..rows' /\ cells'[d] \in [DOMAIN cells'[d] -> Val]
  BY <1>1, <1>2 DEF BufferInv, TypeOK
<1>4. \A d \in Col : file'[d] = IF d = c THEN new ELSE file[d]
  BY DEF BufferInv, TypeOK
<1>5. file' \in [Col -> Seq(Val)] /\ \A d \in Col : Len(file'[d]) <= MaxRows
  BY <1>4 DEF BufferInv, TypeOK
<1>6. TypeOK'
  <2>1. DOMAIN image' \subseteq Col /\ image' \in [DOMAIN image' -> Seq(Val)]
    BY DEF NoImage
  <2>. QED
    BY <1>2, <1>3, <1>5, <2>1 DEF BufferInv, TypeOK
<1>7. PendingFits'
  BY <1>2 DEF BufferInv, PendingFits, NoCells
<1>8. InGrow' /\ InNew' /\ InSwap' /\ InRebuild' /\ InRewrite' /\ CutEnds'
  BY DEF BufferInv, InGrow, InNew, InSwap, InRebuild, InRewrite, CutEnds
<1>9. rows \in Nat /\ OpenRows \in Nat
  BY ConstantsFit DEF BufferInv, TypeOK, OpenRows
<1>10. ASSUME RowsInv PROVE Readable' /\ InPatch'
  <2>1. \A d \in Col : Len(file'[d]) \in Nat
    BY <1>5
  <2>2. dcols \subseteq Col
    BY DEF BufferInv, TypeOK
  <2>3. \A d \in dcols : Len(file'[d]) >= rows
    BY <1>4, <1>10, <2>2 DEF RowsInv, InPatch
  <2>4. HeaderFits' /\ OpenRows' = OpenRows /\ OpenRows <= rows
    BY <1>10 DEF RowsInv, InPatch, HeaderFits, OpenRows
  <2>. QED
    BY <1>9, <2>1, <2>2, <2>3, <2>4 DEF Readable, Breaking, InPatch
<1>. QED
  BY <1>6, <1>7, <1>8, <1>10 DEF BufferInv, RowsInv

LEMMA TearCellKeeps ==
  ASSUME BufferInv, NEW c \in Col, NEW i \in 1..rows, TearCell(c, i)
  PROVE  BufferInv' /\ (RowsInv => RowsInv')
<1>. DEFINE new == [file[c] EXCEPT ![i] = Lost]
<1>1. /\ phase = "patch" /\ i \in DOMAIN cells[c] /\ Len(file[c]) >= rows
      /\ file' = [file EXCEPT ![c] = new]
      /\ image' = NoImage
      /\ UNCHANGED <<header, sync, dcols, rows, cols, cells, added, removed, phase, left, cut>>
  BY DEF TearCell, Patching, Patchable, memory
<1>2. /\ file[c] \in Seq(Val) /\ Len(file[c]) <= MaxRows
  BY <1>1 DEF BufferInv, TypeOK
<1>3. new \in Seq(Val) /\ Len(new) = Len(file[c])
  <2>1. i \in 1..Len(file[c]) /\ Lost \in Val
    BY <1>1, <1>2, ConstantsFit DEF BufferInv, TypeOK
  <2>. QED
    BY <1>2, <2>1, ExceptSeq
<1>. HIDE DEF new
<1>4. rows <= Len(new) /\ Len(new) <= MaxRows
  BY <1>1, <1>2, <1>3
<1>. QED
  BY <1>1, <1>3, <1>4, PatchingKeeps

LEMMA PatchCellKeeps ==
  ASSUME BufferInv, NEW c \in Col, NEW i \in 1..rows, PatchCell(c, i)
  PROVE  BufferInv' /\ (RowsInv => RowsInv')
<1>. DEFINE new == [file[c] EXCEPT ![i] = cells[c][i]]
<1>1. /\ phase = "patch" /\ i \in DOMAIN cells[c] /\ Len(file[c]) >= rows
      /\ file' = [file EXCEPT ![c] = new]
      /\ image' = NoImage
      /\ UNCHANGED <<header, sync, dcols, rows, cols, cells, added, removed, phase, left, cut>>
  BY DEF PatchCell, Patching, Patchable, memory
<1>2. /\ file[c] \in Seq(Val) /\ Len(file[c]) <= MaxRows /\ cells[c][i] \in Val
  BY <1>1 DEF BufferInv, TypeOK
<1>3. new \in Seq(Val) /\ Len(new) = Len(file[c])
  <2>1. i \in 1..Len(file[c])
    BY <1>1, <1>2 DEF BufferInv, TypeOK
  <2>. QED
    BY <1>2, <2>1, ExceptSeq
<1>. HIDE DEF new
<1>4. rows <= Len(new) /\ Len(new) <= MaxRows
  BY <1>1, <1>2, <1>3
<1>. QED
  BY <1>1, <1>3, <1>4, PatchingKeeps

LEMMA PatchDoneKeeps ==
  ASSUME BufferInv, NEW c \in Col, PatchDone(c)
  PROVE  BufferInv' /\ (RowsInv => RowsInv')
<1>1. /\ phase = "patch" /\ Len(file[c]) >= rows
      /\ cells' = [cells EXCEPT ![c] = NoCells]
      /\ image' = NoImage
      /\ UNCHANGED <<header, sync, dcols, file, rows, cols, added, removed, phase, left, cut>>
  BY DEF PatchDone, Patching, Patchable, disk
<1>2. /\ file[c] \in Seq(Val) /\ Len(file[c]) <= MaxRows
      /\ file' = [file EXCEPT ![c] = file[c]]
  BY <1>1 DEF BufferInv, TypeOK
<1>. QED
  BY <1>1, <1>2, PatchingKeeps

LEMMA RebuildKeeps ==
  ASSUME BufferInv, NEW c \in Col, Rebuild(c)
  PROVE  BufferInv' /\ (RowsInv => RowsInv')
<1>1. /\ phase = "patch"
      /\ file' = [file EXCEPT ![c] = MergedCol(c)]
      /\ cells' = [cells EXCEPT ![c] = NoCells]
      /\ image' = NoImage
      /\ UNCHANGED <<header, sync, dcols, rows, cols, added, removed, phase, left, cut>>
  BY DEF Rebuild, Patching, Patchable
<1>2. MergedCol(c) \in Seq(Val) /\ Len(MergedCol(c)) = rows /\ rows \in 0..MaxRows
  BY MergedCells DEF BufferInv, TypeOK
<1>3. rows <= rows /\ rows <= MaxRows
  BY <1>2, ConstantsFit
<1>. QED
  BY <1>1, <1>2, <1>3, PatchingKeeps

(* Of two files the first is replaced, or both are.                        *)
LEMMA BeginRebuildKeeps ==
  ASSUME BufferInv, NEW c \in Col, BeginRebuild(c)
  PROVE  BufferInv' /\ (RowsInv => RowsInv')
<1>. DEFINE new == [i \in 1..rows |-> Lost]
            taken == [d \in {c} |-> MergedCol(c)]
<1>1. /\ phase = "patch" /\ c \in Split /\ DOMAIN cells[c] # {} /\ image = NoImage
      /\ file' = [file EXCEPT ![c] = new]
      /\ image' = taken
      /\ UNCHANGED <<header, sync, dcols, rows, cols, cells, added, removed, phase, left, cut>>
  BY DEF BeginRebuild, Patching, Patchable, memory
<1>2. MergedCol(c) \in Seq(Val) /\ Len(MergedCol(c)) = rows /\ rows \in 0..MaxRows
  BY MergedCells DEF BufferInv, TypeOK
<1>3. new \in Seq(Val) /\ Len(new) = rows
  <2>1. rows \in Nat /\ new \in [1..rows -> Val]
    BY <1>2, ConstantsFit
  <2>. QED
    BY <2>1
<1>4. DOMAIN taken = {c} /\ taken \in [{c} -> Seq(Val)] /\ Len(taken[c]) = rows
  BY <1>2
<1>. HIDE DEF new, taken
<1>5. \A d \in Col : file'[d] = IF d = c THEN new ELSE file[d]
  BY <1>1 DEF BufferInv, TypeOK
<1>6. file' \in [Col -> Seq(Val)] /\ \A d \in Col : Len(file'[d]) <= MaxRows
  BY <1>1, <1>2, <1>3, <1>5, ConstantsFit DEF BufferInv, TypeOK
<1>7. TypeOK'
  BY <1>1, <1>4, <1>6 DEF BufferInv, TypeOK
<1>8. InRebuild'
  <2>1. cells[c] # NoCells
    BY <1>1 DEF NoCells
  <2>. QED
    BY <1>1, <1>4, <2>1 DEF InRebuild
<1>9. PendingFits' /\ InGrow' /\ InNew' /\ InSwap' /\ InRewrite' /\ CutEnds'
  BY <1>1 DEF BufferInv, PendingFits, NoCells, InGrow, InNew, InSwap, InRewrite, CutEnds
<1>10. ASSUME RowsInv PROVE Readable' /\ InPatch'
  <2>1. dcols \subseteq Col /\ rows \in Nat /\ OpenRows \in Nat
    BY <1>2, ConstantsFit DEF BufferInv, TypeOK, OpenRows
  <2>2. \A d \in dcols : Len(file'[d]) \in Nat /\ Len(file'[d]) >= rows
    BY <1>1, <1>3, <1>5, <1>6, <1>10, <2>1 DEF RowsInv, InPatch
  <2>3. HeaderFits' /\ OpenRows' = OpenRows /\ OpenRows <= rows
    BY <1>1, <1>10 DEF RowsInv, InPatch, HeaderFits, OpenRows
  <2>. QED
    BY <1>1, <2>1, <2>2, <2>3 DEF Readable, Breaking, InPatch
<1>. QED
  BY <1>7, <1>8, <1>9, <1>10 DEF BufferInv, RowsInv

LEMMA EndRebuildKeeps ==
  ASSUME BufferInv, NEW c \in Col, EndRebuild(c)
  PROVE  BufferInv' /\ (RowsInv => RowsInv')
<1>1. /\ phase = "patch" /\ c \in DOMAIN image /\ image # NoImage
      /\ file' = [file EXCEPT ![c] = image[c]]
      /\ cells' = [cells EXCEPT ![c] = NoCells]
      /\ image' = NoImage
      /\ UNCHANGED <<header, sync, dcols, rows, cols, added, removed, phase, left, cut>>
  BY DEF EndRebuild, NoImage
<1>2. Len(image[c]) = rows /\ image[c] \in Seq(Val) /\ rows \in 0..MaxRows
  BY <1>1 DEF BufferInv, InRebuild, TypeOK
<1>3. rows <= rows /\ rows <= MaxRows
  BY <1>2, ConstantsFit
<1>. QED
  BY <1>1, <1>2, <1>3, PatchingKeeps

LEMMA RewriteDatKeeps ==
  ASSUME BufferInv, RewriteDat
  PROVE  BufferInv' /\ (RowsInv => RowsInv')
<1>1. /\ phase = "swap" /\ phase' = "rewrite"
      /\ header' = rows /\ dcols' = cols /\ left' = cols
      /\ file' = [c \in Col |-> IF c \in cols THEN file[c] ELSE <<>>]
      /\ UNCHANGED <<sync, rows, cols, cells, added, removed, image, cut>>
  BY DEF RewriteDat, memory
<1>2. \A c \in Col : file'[c] \in Seq(Val) /\ Len(file'[c]) <= MaxRows
  <2>. SUFFICES ASSUME NEW c \in Col
                PROVE  file'[c] \in Seq(Val) /\ Len(file'[c]) <= MaxRows
    OBVIOUS
  <2>1. CASE c \in cols
    BY <1>1, <2>1 DEF BufferInv, TypeOK
  <2>2. CASE c \notin cols
    <3>1. file'[c] = <<>>
      BY <1>1, <2>2
    <3>. QED
      BY <3>1, ConstantsFit
  <2>. QED
    BY <2>1, <2>2
<1>3. file' \in [Col -> Seq(Val)]
  BY <1>1, <1>2
<1>4. TypeOK'
  BY <1>1, <1>2, <1>3 DEF BufferInv, TypeOK, Phases
<1>5. InSwap' /\ InRebuild' /\ InRewrite'
  BY <1>1 DEF BufferInv, InSwap, InRebuild, InRewrite
<1>6. PendingFits' /\ Readable' /\ InGrow' /\ InNew' /\ InPatch' /\ CutEnds'
  BY <1>1 DEF BufferInv, PendingFits, NoCells, Readable, Breaking, InGrow, InNew, InPatch, CutEnds
<1>. QED
  BY <1>4, <1>5, <1>6 DEF BufferInv, RowsInv

LEMMA RewriteFileKeeps ==
  ASSUME BufferInv, NEW c \in Col, RewriteFile(c)
  PROVE  BufferInv' /\ (RowsInv => RowsInv')
<1>1. /\ phase = "rewrite" /\ c \in left
      /\ file' = [file EXCEPT ![c] = image[c]]
      /\ left' = left \ {c}
      /\ UNCHANGED <<header, sync, dcols, rows, cols, cells, added, removed, phase, image, cut>>
  BY DEF RewriteFile, memory
<1>2. left \subseteq cols /\ DOMAIN image = cols /\ Len(image[c]) = rows
  BY <1>1 DEF BufferInv, InSwap, InRebuild, InRewrite
<1>3. image[c] \in Seq(Val) /\ rows <= MaxRows
  BY <1>1, <1>2, ConstantsFit DEF BufferInv, TypeOK
<1>4. \A d \in Col : file'[d] = IF d = c THEN image[c] ELSE file[d]
  BY <1>1 DEF BufferInv, TypeOK
<1>5. file' \in [Col -> Seq(Val)] /\ \A d \in Col : Len(file'[d]) <= MaxRows
  BY <1>1, <1>2, <1>3, <1>4 DEF BufferInv, TypeOK
<1>6. TypeOK'
  BY <1>1, <1>5 DEF BufferInv, TypeOK
<1>7. InSwap' /\ InRebuild' /\ InRewrite'
  BY <1>1, <1>2, <1>4 DEF BufferInv, InSwap, InRebuild, InRewrite, TypeOK
<1>8. PendingFits' /\ Readable' /\ InGrow' /\ InNew' /\ InPatch' /\ CutEnds'
  BY <1>1 DEF BufferInv, PendingFits, NoCells, Readable, Breaking, InGrow, InNew, InPatch, CutEnds
<1>. QED
  BY <1>6, <1>7, <1>8 DEF BufferInv, RowsInv

LEMMA EndFlushKeeps ==
  ASSUME BufferInv, EndFlush
  PROVE  BufferInv' /\ (RowsInv => RowsInv')
<1>1. /\ phase \in {"patch", "rewrite"} /\ (phase = "rewrite" => left = {})
      /\ sync' = rows /\ phase' = "idle" /\ image' = NoImage
      /\ cells' = [c \in Col |-> NoCells]
      /\ added' = {} /\ removed' = FALSE
      /\ UNCHANGED <<header, dcols, file, rows, cols, left, cut>>
  BY DEF EndFlush
<1>2. rows \in Nat /\ header \in Nat /\ sync \in Nat
  BY ConstantsFit DEF BufferInv, TypeOK
<1>3. TypeOK'
  <2>1. DOMAIN cells' = Col /\ \A c \in Col :
          DOMAIN cells'[c] \subseteq 1..rows' /\ cells'[c] \in [DOMAIN cells'[c] -> Val]
    BY <1>1 DEF NoCells
  <2>2. DOMAIN image' \subseteq Col /\ image' \in [DOMAIN image' -> Seq(Val)]
    BY <1>1 DEF NoImage
  <2>. QED
    BY <1>1, <2>1, <2>2 DEF BufferInv, TypeOK, Phases
<1>4. (PendingFits /\ InGrow /\ InNew /\ InPatch /\ InSwap /\ InRebuild /\ InRewrite /\ CutEnds)'
  BY <1>1 DEF PendingFits, NoCells, InGrow, InNew, InPatch, InSwap, InRebuild, InRewrite, CutEnds
<1>5. ASSUME RowsInv PROVE Readable'
  <2>1. CASE phase = "patch"
    <3>1. \A c \in dcols : Len(file[c]) >= rows
      BY <1>5, <2>1 DEF RowsInv, InPatch
    <3>2. OpenRows' = rows
      BY <1>1, <1>2, <1>5, <2>1 DEF RowsInv, InPatch, HeaderFits, OpenRows
    <3>. QED
      BY <1>1, <3>1, <3>2 DEF Readable, Breaking
  <2>2. CASE phase = "rewrite"
    <3>1. header = rows /\ dcols = cols /\ \A c \in cols : Len(file[c]) = rows
      BY <1>1, <2>2 DEF BufferInv, InSwap, InRebuild, InRewrite
    <3>. QED
      BY <1>1, <1>2, <3>1 DEF Readable, Breaking, OpenRows
  <2>. QED
    BY <1>1, <2>1, <2>2
<1>. QED
  BY <1>3, <1>4, <1>5 DEF BufferInv, RowsInv

(* A flush that fails.  Where it fails between the growths of two files,   *)
(* or at replacing table.dat, it leaves what Readable excludes.            *)
LEMMA FlushFailsKeeps ==
  ASSUME BufferInv, FlushFails
  PROVE  /\ BufferInv'
         /\ "grow" \notin Faults /\ "swap" \notin Faults /\ RowsInv => RowsInv'
<1>1. /\ MayFail
      /\ sync' = rows /\ phase' = "idle" /\ left' = {} /\ image' = NoImage
      /\ cut' = Breaking
      /\ UNCHANGED <<header, dcols, rows, cols, added, removed>>
  BY DEF FlushFails, Published
<1>2. /\ phase \in {"grow", "growing", "patch", "new", "rewrite"} \/ "swap" \in Faults
      /\ phase = "grow" => left = {} \/ "grow" \in Faults
  BY <1>1 DEF MayFail
<1>3. rows \in 0..MaxRows /\ header \in Nat /\ sync \in Nat
  BY ConstantsFit DEF BufferInv, TypeOK
<1>4. \/ UNCHANGED <<file, cells>>
      \/ /\ phase = "new"
         /\ \E taken \in SUBSET NewCols : HandBack(taken)
  BY DEF FlushFails
<1>5. /\ \A c \in Col : file'[c] \in {file[c], <<>>}
      /\ \A c \in dcols : file'[c] = file[c]
      /\ file' \in [Col -> Seq(Val)]
  <2>1. CASE UNCHANGED <<file, cells>>
    BY <2>1 DEF BufferInv, TypeOK
  <2>2. ASSUME NEW taken \in SUBSET NewCols, HandBack(taken)
        PROVE  <1>5
    <3>1. file' = [c \in Col |-> IF c \in taken THEN <<>> ELSE file[c]]
      BY <2>2 DEF HandBack
    <3>2. \A c \in dcols : c \in Col /\ c \notin taken
      BY DEF BufferInv, TypeOK, NewCols
    <3>3. \A c \in Col : file'[c] \in Seq(Val)
      <4>. SUFFICES ASSUME NEW c \in Col PROVE file'[c] \in Seq(Val)
        OBVIOUS
      <4>1. CASE c \in taken
        BY <3>1, <4>1
      <4>2. CASE c \notin taken
        BY <3>1, <4>2 DEF BufferInv, TypeOK
      <4>. QED
        BY <4>1, <4>2
    <3>. QED
      BY <3>1, <3>2, <3>3
  <2>. QED
    BY <1>4, <2>1, <2>2
<1>6. /\ DOMAIN cells' = Col
      /\ \A c \in Col :
           DOMAIN cells'[c] \subseteq 1..rows /\ cells'[c] \in [DOMAIN cells'[c] -> Val]
      /\ \A c \in Col \ cols : cells'[c] = NoCells
  <2>1. CASE UNCHANGED <<file, cells>>
    BY <2>1 DEF BufferInv, TypeOK, PendingFits
  <2>2. ASSUME NEW taken \in SUBSET NewCols, HandBack(taken)
        PROVE  <1>6
    <3>1. cells' = [c \in Col |->
            IF c \in taken /\ cells[c] # NoCells THEN MergedCol(c) ELSE cells[c]]
      BY <2>2 DEF HandBack
    <3>2. \A c \in Col : MergedCol(c) \in [1..rows -> Val]
      <4>. SUFFICES ASSUME NEW c \in Col PROVE MergedCol(c) \in [1..rows -> Val]
        OBVIOUS
      <4>1. \A i \in 1..rows : Merged(c, i) \in Val
        BY MergedCells DEF BufferInv
      <4>. QED
        BY <4>1 DEF MergedCol
    <3>3. \A c \in Col \ cols : c \notin taken
      BY DEF NewCols
    <3>4. \A c \in Col : cells'[c] \in {cells[c], MergedCol(c)}
      BY <3>1
    <3>5. ASSUME NEW c \in Col
          PROVE  /\ DOMAIN cells'[c] \subseteq 1..rows
                 /\ cells'[c] \in [DOMAIN cells'[c] -> Val]
      <4>1. CASE cells'[c] = cells[c]
        BY <4>1 DEF BufferInv, TypeOK
      <4>2. CASE cells'[c] = MergedCol(c)
        BY <3>2, <4>2
      <4>. QED
        BY <3>4, <4>1, <4>2
    <3>. QED
      BY <3>1, <3>3, <3>5 DEF BufferInv, PendingFits
  <2>. QED
    BY <1>4, <2>1, <2>2
<1>7. TypeOK'
  <2>1. \A c \in Col : Len(file'[c]) <= MaxRows
    <3>. SUFFICES ASSUME NEW c \in Col PROVE Len(file'[c]) <= MaxRows
      OBVIOUS
    <3>1. CASE file'[c] = file[c]
      BY <3>1 DEF BufferInv, TypeOK
    <3>2. CASE file'[c] = <<>>
      BY <3>2, ConstantsFit
    <3>. QED
      BY <1>5, <3>1, <3>2
  <2>2. DOMAIN image' \subseteq Col /\ image' \in [DOMAIN image' -> Seq(Val)]
    BY <1>1 DEF NoImage
  <2>. QED
    BY <1>1, <1>3, <1>5, <1>6, <2>1, <2>2 DEF BufferInv, TypeOK, Phases, Breaking
<1>8. PendingFits'
  BY <1>1, <1>6 DEF PendingFits, NoCells
<1>9. (InGrow /\ InNew /\ InPatch /\ InSwap /\ InRebuild /\ InRewrite /\ CutEnds)'
  BY <1>1 DEF InGrow, InNew, InPatch, InSwap, InRebuild, InRewrite, CutEnds
<1>10. ASSUME "grow" \notin Faults, "swap" \notin Faults, RowsInv PROVE Readable'
  <2>1. CASE Breaking
    BY <1>1, <2>1 DEF Readable, Breaking
  <2>2. CASE ~Breaking
    <3>1. \A c \in dcols : Len(file[c]) >= rows
      <4>1. CASE phase = "grow"
        BY <1>2, <1>10, <4>1 DEF RowsInv, InGrow
      <4>2. CASE phase = "new"
        BY <1>10, <4>2 DEF RowsInv, InNew, NewCols
      <4>3. CASE phase = "patch"
        BY <1>10, <4>3 DEF RowsInv, InPatch
      <4>. QED
        BY <1>2, <1>10, <2>2, <4>1, <4>2, <4>3 DEF Breaking
    <3>2. rows = 0 => header = 0
      BY <1>2, <1>3, <1>10, <2>2 DEF Breaking, RowsInv, InGrow, InNew, InPatch, HeaderFits, OpenRows
    <3>3. OpenRows' = rows
      BY <1>1, <3>2 DEF OpenRows
    <3>. QED
      BY <1>1, <1>5, <3>1, <3>3 DEF Readable, Breaking
  <2>. QED
    BY <2>1, <2>2
<1>. QED
  BY <1>7, <1>8, <1>9, <1>10 DEF BufferInv, RowsInv

LEMMA ReopenKeeps ==
  ASSUME BufferInv, Reopen
  PROVE  BufferInv' /\ (RowsInv => RowsInv')
<1>1. /\ ~cut
      /\ rows' = OpenRows /\ cols' = dcols /\ added' = {} /\ removed' = FALSE
      /\ cells' = [c \in Col |-> NoCells]
      /\ phase' = "idle" /\ left' = {} /\ image' = NoImage
      /\ cut' = Breaking
      /\ UNCHANGED <<header, sync, dcols, file>>
  BY DEF Reopen, disk
<1>2. TypeOK'
  <2>1. DOMAIN cells' = Col /\ \A c \in Col :
          DOMAIN cells'[c] \subseteq 1..rows' /\ cells'[c] \in [DOMAIN cells'[c] -> Val]
    BY <1>1 DEF NoCells
  <2>2. DOMAIN image' \subseteq Col /\ image' \in [DOMAIN image' -> Seq(Val)]
    BY <1>1 DEF NoImage
  <2>3. rows' \in 0..MaxRows
    BY <1>1 DEF BufferInv, TypeOK, OpenRows
  <2>4. cut' \in BOOLEAN
    BY <1>1 DEF Breaking
  <2>. QED
    BY <1>1, <2>1, <2>2, <2>3, <2>4 DEF BufferInv, TypeOK, Phases
<1>3. RowsInv => Readable'
  BY <1>1 DEF RowsInv, Readable, Breaking, OpenRows
<1>4. (PendingFits /\ InGrow /\ InNew /\ InPatch /\ InSwap /\ InRebuild /\ InRewrite /\ CutEnds)'
  BY <1>1 DEF PendingFits, NoCells, InGrow, InNew, InPatch, InSwap, InRebuild, InRewrite, CutEnds
<1>. QED
  BY <1>2, <1>3, <1>4 DEF BufferInv, RowsInv

-----------------------------------------------------------------------------
(* The theorems.                                                           *)

LEMMA NextKeeps ==
  ASSUME BufferInv, [Next]_vars
  PROVE  /\ BufferInv'
         /\ "grow" \notin Faults /\ "swap" \notin Faults /\ RowsInv => RowsInv'
<1>1. CASE UNCHANGED vars
  <2>1. UNCHANGED <<header, sync, dcols, file, rows, cols, cells, added, removed,
                    phase, left, image, cut>>
    BY <1>1 DEF vars, disk, memory
  <2>2. TypeOK'
    BY <2>1 DEF BufferInv, TypeOK
  <2>3. PendingFits' /\ InSwap' /\ InRebuild' /\ InRewrite' /\ CutEnds'
    BY <2>1 DEF BufferInv, PendingFits, NoCells, InSwap, InRebuild, InRewrite, CutEnds
  <2>4. RowsInv => RowsInv'
    BY <2>1 DEF RowsInv, Readable, Breaking, InGrow, InNew, InPatch, OpenRows, HeaderFits, NewCols
  <2>. QED
    BY <2>2, <2>3, <2>4 DEF BufferInv
<1>2. CASE Next
  BY <1>2, AddRowKeeps, PutCellKeeps, RemoveRowKeeps, AddColKeeps, RemoveColKeeps,
     BeginInPlaceKeeps, BeginGrowKeeps, PatchHeaderKeeps, SwapDatKeeps, GrowKeeps,
     WriteNewKeeps, PatchDoneKeeps, RebuildKeeps, BeginRebuildKeeps, EndRebuildKeeps,
     TearCellKeeps, PatchCellKeeps, BeginRewriteKeeps,
     RewriteDatKeeps, RewriteFileKeeps, EndFlushKeeps, FlushFailsKeeps, ReopenKeeps
     DEF Next
<1>. QED
  BY <1>1, <1>2

LEMMA BufferInvHolds == Spec => []BufferInv
<1>1. Init => BufferInv
  BY InitInv
<1>2. BufferInv /\ [Next]_vars => BufferInv'
  BY NextKeeps
<1>. QED
  BY <1>1, <1>2, PTL DEF Spec

LEMMA RowsInvHolds ==
  ASSUME "grow" \notin Faults, "swap" \notin Faults
  PROVE  Spec => []RowsInv
<1>1. Init => RowsInv
  BY InitInv
<1>2. BufferInv /\ RowsInv /\ [Next]_vars => RowsInv'
  BY NextKeeps
<1>. QED
  BY <1>1, <1>2, BufferInvHolds, PTL DEF Spec

(* The buffer, the directory and the image of a rewrite are well typed: no *)
(* pending cell is left for a row that is gone, whatever was removed or    *)
(* failed, and no file has more rows than the table ever had.              *)
THEOREM TypeCorrect == Spec => []TypeOK
<1>1. BufferInv => TypeOK
  BY DEF BufferInv
<1>. QED
  BY BufferInvHolds, <1>1, PTL

(* As long as no flush fails at growing a file or at replacing table.dat,  *)
(* whoever opens the directory, while no manager is in the middle of its   *)
(* growth and no rewrite is under way, nor died there, finds the rows the  *)
(* table claims to have in every column: at every other moment of a flush, *)
(* after a crash there, and after a flush that failed.                     *)
THEOREM AlwaysReadable ==
  ASSUME "grow" \notin Faults, "swap" \notin Faults
  PROVE  Spec => []Readable
<1>1. RowsInv => Readable
  BY DEF RowsInv
<1>. QED
  BY RowsInvHolds, <1>1, PTL
=============================================================================
