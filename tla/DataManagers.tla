---------------------------- MODULE DataManagers ----------------------------
(***************************************************************************)
(* A flush as the writes it makes to one data manager's files, seen by     *)
(* the read handles of the same process and by whoever opens the table     *)
(* after the process died in it (grow_in_place, flush_preserving and       *)
(* create_table of crates/casacure/src/table.rs).                          *)
(*                                                                         *)
(* Read handles map the files.  A write in place shows through a mapping   *)
(* at once; a replaced file leaves the mapping on the old one.  A handle   *)
(* keeps what it parsed when it was opened: header, index, row count.      *)
(***************************************************************************)
EXTENDS Naturals, Integers, Sequences, FiniteSets, SequencesExt, FiniteSetsExt,
        StandardStMan, IncrementalStMan, TiledStMan

CONSTANTS
  Layouts,       \* the files there are at the start: [kind, big, spec, file, cells]
  CellValues(_), \* what is put in the columns: of "ssm" by its column kind, "ism", "tsm"
  TsmShape,      \* the cell shape of the tiled column
  TsmRequest,    \* and the tile shape asked for
  MaxRows, MaxEdits  \* bounds: rows, and cells put and rows added in all

ASSUME DataManagersAssumption == {MaxRows, MaxEdits} \subseteq Nat

(* Strings are sequences of numbered characters.                           *)
Strings == Seq(Nat)

(* The files there are at the start are whole.  Those of a StandardStMan   *)
(* hold no fewer rows in a bucket than this program puts there: a rebuild  *)
(* lays its buckets out for that many and leaves table.dat's offsets.      *)
ASSUME LayoutsAssumption ==
  /\ CellValues("string") \subseteq Strings
  /\ \A l \in Layouts :
       /\ l.kind \in {"ssm", "ism", "tsm"} /\ l.nrow \in Nat
       /\ l.kind = "ssm" =>
            /\ SsmSound(l.file, ReadIndex(l.file)[2], IndexChain(l.file))
            /\ Apart(l.spec, SsmRpb) /\ Apart(l.spec, ReadIndex(l.file)[2].rpb)
            /\ DOMAIN l.cells = SsmCols
            /\ \A c \in SsmCols : DOMAIN l.cells[c] = 0..(l.nrow - 1)
            /\ \A c \in SsmCols : SsmKinds[c] = "string" =>
                 \A r \in 0..(l.nrow - 1) : l.cells[c][r] \in Strings
       /\ l.kind = "ism" => IsmFits(l.file, l.file.hdr.nb)

VARIABLES
  kind,   \* the manager's type
  dat,    \* table.dat: row count, byte order, the manager's column offsets
  file,   \* the manager's files
  rows,   \* the writing handle's row count
  cells,  \* its cells: cells[c][row], pending ones included
  pend,   \* the cells put since the last flush, <<c, row>>
  doing,  \* "rest", "grow", "patch", "rebuild" or "dead"
  todo,   \* the writes the flush has still to make
  was,    \* the cells before the flush
  view,   \* the open read handle, if any
  edits

vars == <<kind, dat, file, rows, cells, pend, doing, todo, was, view, edits>>

Zero == 0

Columns(k) == CASE k = "ssm" -> SsmCols [] k = "ism" -> 1..IsmCols [] k = "tsm" -> {1}

Default(k, c) ==
  CASE k = "ssm" -> SsmDefault(c, Zero)
    [] k = "ism" -> Zero
    [] k = "tsm" -> <<TsmShape, Zeros(Product(TsmShape))>>

Values(k, c) == IF k = "ssm" THEN CellValues(SsmKinds[c]) ELSE CellValues(k)

OpenManager(k, f, big) ==
  CASE k = "ssm" -> SsmOpen(f, big) [] k = "ism" -> IsmOpen(f, big) [] k = "tsm" -> TsmOpen(f)

ReadCell(k, f, h, spec, c, row) ==
  CASE k = "ssm" -> SsmRead(f, h, spec, Zero, c, row)
    [] k = "ism" -> IsmRead(f, h, c, row)
    [] k = "tsm" -> TsmRead(f, h, TsmShape, row)

ApplyWrite(k, f, w) ==
  CASE k = "ssm" -> SsmApply(f, w) [] k = "ism" -> IsmApply(f, w) [] k = "tsm" -> TsmApply(f, w)

(* The cells as the managers' builders take them: rows counted from 1.     *)
FromOne(cs, n) == [c \in DOMAIN cs |-> [r \in 1..n |-> cs[c][r - 1]]]

-----------------------------------------------------------------------------
(* A write: to table.dat's row count, to a file in place, or by replacing  *)
(* a file: the main one or the other, array or tile file.                  *)

InPlace(ws)    == [j \in DOMAIN ws |-> [how |-> "inplace", w |-> ws[j]]]
Counted(n)     == [how |-> "count", n |-> n]
Replaced(f)    == [how |-> "main", f |-> f]
ReplacedAux(f) == [how |-> "aux", f |-> f]
NewDat(d)      == [how |-> "dat", d |-> d]

(* The part of the files that lies in the main file, and the other part.   *)
WithMain(k, f, g) ==
  CASE k = "ssm" -> [g EXCEPT !.arr = f.arr] [] k = "ism" -> g [] k = "tsm" -> [g EXCEPT !.tile = f.tile]
WithAux(k, f, g) ==
  CASE k = "ssm" -> [f EXCEPT !.arr = g.arr] [] k = "ism" -> f [] k = "tsm" -> [f EXCEPT !.tile = g.tile]

(* Whole new files for the cells.                                          *)
Build(k, n, cs) ==
  CASE k = "ssm" -> SsmBuild(n, cs)
    [] k = "ism" -> IsmBuild(n, FromOne(cs, n))
    [] k = "tsm" -> TsmBuild(TsmShape, TsmRequest, FromOne(cs, n)[1])[2]

BuildWrites(k, f) ==
  <<Replaced(f)>> \o IF k = "ism" \/ (k = "ssm" /\ \A c \in SsmCols : SsmKinds[c] \notin Arrays)
                       THEN <<>> ELSE <<ReplacedAux(f)>>

-----------------------------------------------------------------------------
(* The pending cells as the managers take them.                            *)

Pairs(ps) == SetToSortSeq(ps, LAMBDA a, b : a[1] < b[1] \/ (a[1] = b[1] /\ a[2] < b[2]))

AsSeq(s, cs)   == [k \in DOMAIN s |-> <<s[k][1], s[k][2], cs[s[k][1]][s[k][2]]>>]
AsFuns(ps, cs) == [c \in 1..IsmCols |-> [r \in {p[2] : p \in {q \in ps : q[1] = c}} |-> cs[c][r]]]
AsCells(s, cs) == [k \in DOMAIN s |-> <<s[k][2], cs[1][s[k][2]]>>]

Handle == OpenManager(kind, file, dat.big)

(* The checks of the dry run, and the writes of the growth.                *)
CanGrow(h) ==
  CASE kind = "ssm" -> SsmCanGrow(file, h, dat.spec, dat.nrow)
    [] kind = "ism" -> IsmCanUpdate(file, h, Zero, AsFuns({}, cells), dat.nrow, rows)
    [] kind = "tsm" -> TsmCanGrow(file.hdr, TsmShape, <<>>, dat.nrow)

Growth(h) ==
  CASE kind = "ssm" -> SsmGrow(file, h, dat.spec, Zero, dat.nrow, rows)
    [] kind = "ism" -> IsmUpdate(file, h, Zero, AsFuns({}, cells), dat.nrow, rows)
    [] kind = "tsm" -> TsmGrow(file, TsmShape, TsmRequest, <<>>, dat.nrow, rows)

(* Whether the pending cells can be patched in, and the writes of that.    *)
CanPatch(h) ==
  CASE kind = "ssm" -> SsmCanPatch(h, AsSeq(Pairs(pend), cells))
    [] kind = "ism" -> IsmCanUpdate(file, h, Zero, AsFuns(pend, cells), rows, rows)
    [] kind = "tsm" -> TsmCanPatch(file, AsCells(Pairs(pend), cells))

Patch(h) ==
  CASE kind = "ssm" -> SsmPatch(file, h, dat.spec, AsSeq(Pairs(pend), cells))
    [] kind = "ism" -> IsmUpdate(file, h, Zero, AsFuns(pend, cells), rows, rows)
    [] kind = "tsm" -> TsmPatch(file, AsCells(Pairs(pend), cells))

-----------------------------------------------------------------------------
(* Read handles.  may[c][row]: the values the cell has had since opening.  *)

Seen(v) == WithAux(kind, IF v.main = <<>> THEN file ELSE v.main[1], IF v.aux = <<>> THEN file ELSE v.aux[1])
SeenCell(v, c, row) == ReadCell(kind, Seen(v), v.h, v.spec, c, row)

(* The cells a handle can read, kept when a growth begins.                 *)
Readable(v) == {p \in Columns(kind) \X (0..(v.nrow - 1)) : SeenCell(v, p[1], p[2]) # Broken}

(* Writes in place that the handles see; the others they are spared.       *)
Kept(v, w) ==
  IF v = <<>> THEN <<>>
  ELSE <<[v[1] EXCEPT !.main = IF w.how = "main" /\ @ = <<>> /\ kind # "tsm" THEN <<file>> ELSE @,
                      !.aux  = IF w.how = "aux" /\ @ = <<>> THEN <<file>> ELSE @]>>

(* What a cell read from the files may be while a flush is under way.      *)
OldOrNew(c, row) ==
  {cells[c][row], IF row \in DOMAIN was[c] THEN was[c][row] ELSE Default(kind, c)}

-----------------------------------------------------------------------------
Init ==
  \E l \in Layouts :
    /\ kind = l.kind
    /\ dat = [nrow |-> l.nrow, big |-> l.big, spec |-> l.spec]
    /\ file = l.file
    /\ rows = l.nrow
    /\ cells = l.cells
    /\ was = l.cells
    /\ pend = {} /\ todo = <<>> /\ doing = "rest" /\ view = <<>> /\ edits = 0

PutCell(c, row, v) ==
  /\ doing = "rest" /\ row < rows /\ edits < MaxEdits
  /\ edits' = edits + 1
  /\ pend' = pend \cup {<<c, row>>}
  /\ cells' = [cells EXCEPT ![c][row] = v]
  /\ UNCHANGED <<kind, dat, file, rows, doing, todo, was, view>>

AddRows(n) ==
  /\ doing = "rest" /\ rows + n <= MaxRows /\ edits < MaxEdits
  /\ edits' = edits + 1
  /\ rows' = rows + n
  /\ cells' = [c \in DOMAIN cells |-> [r \in 0..(rows + n - 1) |->
                 IF r < rows THEN cells[c][r] ELSE Default(kind, c)]]
  /\ UNCHANGED <<kind, dat, file, pend, doing, todo, was, view>>

(* Growth first, if the managers' dry runs agree.                          *)
BeginGrow ==
  /\ doing = "rest" /\ rows > dat.nrow
  /\ \E h \in {Handle} :
       /\ h[1] = "ok" /\ CanGrow(h[2])
       /\ todo' = Append(InPlace(Growth(h[2])), Counted(rows))
  /\ doing' = "grow"
  /\ view' = IF view = <<>> THEN <<>> ELSE <<[view[1] EXCEPT !.reads = Readable(view[1])]>>
  /\ UNCHANGED <<kind, dat, file, rows, cells, pend, was, edits>>

(* Else the table is written anew, table.dat first; the rewrite takes this *)
(* program's byte order and column offsets.                                *)
BeginRewrite ==
  /\ doing = "rest" /\ rows > dat.nrow
  /\ \E h \in {Handle} : h[1] = "ok" => ~CanGrow(h[2])
  /\ todo' = <<NewDat([nrow |-> rows, big |-> FALSE, spec |-> Layout(SsmRpb)])>>
               \o BuildWrites(kind, Build(kind, rows, cells))
  /\ doing' = "rebuild"
  /\ UNCHANGED <<kind, dat, file, rows, cells, pend, was, view, edits>>

(* The pending cells, once the row counts agree.                           *)
BeginPatch ==
  /\ \/ doing = "rest"
     \/ doing = "grow" /\ todo = <<>>
  /\ rows = dat.nrow /\ pend # {}
  /\ \E h \in {Handle} :
       /\ h[1] = "ok" /\ CanPatch(h[2])
       /\ todo' = InPlace(Patch(h[2]))
  /\ doing' = "patch"
  /\ UNCHANGED <<kind, dat, file, rows, cells, pend, was, view, edits>>

(* A manager that cannot be patched is built anew from its cells on disk   *)
(* with the pending ones over them: table.dat stays as it is.              *)
BeginRebuild ==
  /\ \/ doing = "rest"
     \/ doing = "grow" /\ todo = <<>>
  /\ rows = dat.nrow /\ pend # {}
  /\ \E h \in {Handle} : h[1] = "ok" /\ ~CanPatch(h[2])
  /\ todo' = BuildWrites(kind, Build(kind, rows, cells))
  /\ doing' = "rebuild"
  /\ UNCHANGED <<kind, dat, file, rows, cells, pend, was, view, edits>>

Write ==
  /\ doing \in {"grow", "patch", "rebuild"} /\ todo # <<>>
  /\ LET w == Head(todo)
     IN  /\ file' = CASE w.how = "inplace" -> ApplyWrite(kind, file, w.w)
                      [] w.how = "main"    -> WithMain(kind, file, w.f)
                      [] w.how = "aux"     -> WithAux(kind, file, w.f)
                      [] OTHER -> file
         /\ dat' = CASE w.how = "count" -> [dat EXCEPT !.nrow = w.n]
                     [] w.how = "dat"   -> w.d
                     [] OTHER -> dat
         /\ view' = Kept(view, w)
  /\ todo' = Tail(todo)
  /\ UNCHANGED <<kind, rows, cells, pend, doing, was, edits>>

EndFlush ==
  /\ doing \in {"grow", "patch", "rebuild"} /\ todo = <<>>
  /\ doing = "grow" => pend = {}
  /\ doing' = "rest"
  /\ pend' = {}
  /\ was' = cells
  /\ view' = IF view = <<>> THEN <<>>
             ELSE <<[view[1] EXCEPT !.may = [c \in DOMAIN @ |-> [r \in DOMAIN @[c] |-> @[c][r] \cup {cells[c][r]}]]]>>
  /\ UNCHANGED <<kind, dat, file, rows, cells, todo, edits>>

(* A read handle opens at any time: the writes it must not see are made    *)
(* under the flush gate, which makes each of them one step.                *)
OpenView ==
  /\ view = <<>> /\ doing # "dead"
  /\ \E h \in {Handle} :
       /\ h[1] = "ok"
       /\ view' = <<[h |-> h[2], spec |-> dat.spec, nrow |-> dat.nrow, main |-> <<>>, aux |-> <<>>,
                     built |-> doing = "rebuild", reads |-> {},
                     may |-> [c \in DOMAIN cells |-> [r \in 0..(dat.nrow - 1) |-> OldOrNew(c, r)]]]>>
  /\ UNCHANGED <<kind, dat, file, rows, cells, pend, doing, todo, was, edits>>

(* The process dies with the writes it has made.                           *)
Die ==
  /\ doing \in {"grow", "patch", "rebuild"} /\ todo # <<>>
  /\ doing' = "dead"
  /\ view' = <<>>
  /\ UNCHANGED <<kind, dat, file, rows, cells, pend, todo, was, edits>>

Next ==
  \/ \E c \in Columns(kind) : \E row \in 0..(MaxRows - 1) : \E v \in Values(kind, c) : PutCell(c, row, v)
  \/ \E n \in 1..MaxRows : AddRows(n)
  \/ BeginGrow \/ BeginRewrite \/ BeginPatch \/ BeginRebuild \/ Write \/ EndFlush
  \/ OpenView \/ Die

Spec == Init /\ [][Next]_vars

-----------------------------------------------------------------------------
(* Opened now, the files give a cell of the table.                         *)
Fresh(h, c, row) == ReadCell(kind, file, h, dat.spec, c, row)

AllCells(n) == Columns(kind) \X (0..(n - 1))

IsAmong(x, vs) == x \in {Found(v) : v \in vs}

(* A table at rest holds exactly what was put: opened anew, every cell of  *)
(* every row reads as the writer left it.                                  *)
StoredIsWritten ==
  doing = "rest" /\ pend = {} /\ rows = dat.nrow =>
    \E h \in {Handle} :
      /\ h[1] = "ok"
      /\ \A p \in AllCells(rows) : Fresh(h[2], p[1], p[2]) = Found(cells[p[1]][p[2]])

(* However far a growth or a patch has come, and also if it ends there,    *)
(* the files never give a cell a value it did not have: they give the old  *)
(* value, the new one or an error.                                         *)
NeverAnotherValue ==
  (\A j \in DOMAIN todo : todo[j].how \in {"inplace", "count"}) =>
    \A h \in {Handle} : h[1] = "ok" =>
      \A p \in AllCells(dat.nrow) :
        \E x \in {Fresh(h[2], p[1], p[2])} : x = Broken \/ IsAmong(x, OldOrNew(p[1], p[2]))

(* A read handle goes on reading its rows while the table grows behind it: *)
(* no write of a growth takes a cell away that it could read before.       *)
GrowthKeepsReaders ==
  doing = "grow" /\ view # <<>> =>
    \A p \in view[1].reads : SeenCell(view[1], p[1], p[2]) # Broken

(* A read handle opened outside a rebuild reads no value its cells have    *)
(* not had since, whatever is flushed behind it.                           *)
HandleNeverMisreads ==
  view # <<>> =>
    view[1].built \/ \A p \in AllCells(view[1].nrow) :
      \E x \in {SeenCell(view[1], p[1], p[2])} :
        x = Broken \/ IsAmong(x, view[1].may[p[1]][p[2]] \cup OldOrNew(p[1], p[2]))

(* "an open never parses a half-written file set (whole-file rewrites are  *)
(* atomic renames regardless)": a handle can be opened at any time and     *)
(* finds each cell as it was or as it will be.  (Found not to hold.)        *)
OpenIsWhole ==
  doing # "dead" =>
    \E h \in {Handle} :
      /\ h[1] = "ok"
      /\ \A p \in AllCells(dat.nrow) : IsAmong(Fresh(h[2], p[1], p[2]), OldOrNew(p[1], p[2]))

(* "A reader then observes each cell wholly before or wholly after any one *)
(* patch".  (Found not to hold.)                                           *)
PatchIsWhole ==
  doing = "patch" /\ view # <<>> =>
    \A p \in AllCells(view[1].nrow) :
      IsAmong(SeenCell(view[1], p[1], p[2]), view[1].may[p[1]][p[2]] \cup OldOrNew(p[1], p[2]))
=============================================================================
