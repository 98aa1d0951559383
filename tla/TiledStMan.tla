----------------------------- MODULE TiledStMan -----------------------------
(***************************************************************************)
(* The files of the tiled storage managers (crates/casacure/src/tsm.rs,    *)
(* build_tsm_data and patch_tsm_column of table.rs, tsm_grow of grow.rs):  *)
(* a header table.f{n} with the cubes of equally shaped array cells and,   *)
(* for TiledShapeStMan, the maps from rows to cubes; and the tile files    *)
(* table.f{n}_TSM{k} with the cubes cut into tiles.                        *)
(*                                                                         *)
(* Shapes are in storage order, first axis fastest; a cell is its shape    *)
(* with its elements in that order.  A place of a tile file holds one      *)
(* element; Byte of them are one byte (8 for Bool, which is packed bit by  *)
(* bit), and a tile begins at a whole byte.                                *)
(***************************************************************************)
EXTENDS Naturals, Integers, Sequences, FiniteSets, SequencesExt, FiniteSetsExt

CONSTANTS
  TsmRoot,     \* "TiledColumnStMan" or "TiledShapeStMan"
  Byte,        \* elements in a byte
  TileBytes    \* the bytes a tile is meant to have (524288)

ASSUME TiledStManAssumption ==
  /\ TsmRoot \in {"TiledColumnStMan", "TiledShapeStMan"}
  /\ {Byte, TileBytes} \subseteq Nat \ {0}

TsmFound(v) == <<"ok", v>>
TsmUnset    == <<"unset">>
TsmBroken   == <<"error">>

CeilDiv(a, b) == (a + b - 1) \div b
Product(s)    == FoldLeft(LAMBDA a, b : a * b, 1, s)
Bytes(n)      == CeilDiv(n, Byte)

Sum(axes, F(_)) == FoldLeft(LAMBDA a, d : a + F(d), 0, [d \in axes |-> d])

Min2(a, b) == IF a < b THEN a ELSE b
Max2(a, b) == IF a < b THEN b ELSE a

(* The distance between neighbours on axis d of an array.                  *)
Stride(shape, d) == Product(SubSeq(shape, 1, d - 1))

Prefix(s) == SubSeq(s, 1, Len(s) - 1)

-----------------------------------------------------------------------------
(* The geometry of a cell that its tiles split.                            *)

Grid(cell, tile) == [d \in DOMAIN cell |-> CeilDiv(cell[d], tile[d])]

(* A line along the first axis of a tile's part of the cell, or several    *)
(* that follow one another in the tile as they do in the cell.             *)
Run(tile, src, dst, len) == [tile |-> tile, src |-> src, dst |-> dst, len |-> len]

(* Faulty variant: runs are merged though they part in the cell.           *)
MergeBySource(runs, r) ==
  IF runs # <<>> /\ Last(runs).tile = r.tile /\ Last(runs).src + Last(runs).len = r.src
    THEN [runs EXCEPT ![Len(runs)].len = @ + r.len]
    ELSE Append(runs, r)

Merge(runs, r) ==
  IF /\ runs # <<>>
     /\ LET l == Last(runs)
        IN  l.tile = r.tile /\ l.src + l.len = r.src /\ l.dst + l.len = r.dst
    THEN [runs EXCEPT ![Len(runs)].len = @ + r.len]
    ELSE Append(runs, r)

(* The digits of k in the mixed radix of a shape.                          *)
Position(k, shape) == [d \in DOMAIN shape |-> (k \div Stride(shape, d)) % shape[d]]

(* The tiles in order, and in each the lines of its part of the cell.      *)
TileRuns(cell, tile) ==
  LET axes     == DOMAIN cell
      grid     == Grid(cell, tile)
      valid(k) == LET t == Position(k, grid)
                  IN  [d \in axes |-> Min2(tile[d], cell[d] - t[d] * tile[d])]
      line(k, t, p, len) ==
        Run(k, Sum(axes, LAMBDA d : p[d] * Stride(tile, d)),
            Sum(axes, LAMBDA d : (t[d] * tile[d] + p[d]) * Stride(cell, d)), len)
      lines(runs, k, part) ==
        FoldLeft(LAMBDA rs, q : Merge(rs, line(k, Position(k, grid), Position((q - 1) * part[1], part), part[1])),
          runs, [q \in 1..(Product(part) \div part[1]) |-> q])
  IN  FoldLeft(LAMBDA rs, k : lines(rs, k - 1, valid(k - 1)), <<>>, [k \in 1..Product(grid) |-> k])

(* The same seen from the other side: the merges leave every element of    *)
(* the cell in one run, at its place in its tile.                          *)
ElementIn(cell, tile, e) ==
  LET p == Position(e, cell)
  IN  [tile |-> Sum(DOMAIN cell, LAMBDA d : (p[d] \div tile[d]) * Stride(Grid(cell, tile), d)),
       src  |-> Sum(DOMAIN cell, LAMBDA d : (p[d] % tile[d]) * Stride(tile, d))]

-----------------------------------------------------------------------------
(* Headers.  cube: its cell shape, rows, the tiles' cell part and rows,    *)
(* the tile file and where in it the tiles begin (in bytes).               *)
(*                                                                         *)
(* map: the row intervals, each by its last row, the cube (from 0) and the *)
(* position of that row in the cube.                                       *)

Cube(cell, rows, tile, rpt, file) ==
  [cell |-> cell, rows |-> rows, tile |-> tile, rpt |-> rpt, file |-> file, off |-> 0]

Placeholder == Cube(<<>>, 0, <<>>, 0, -1)

(* Rows per tile without a request: tiles of TileBytes, whole cells.       *)
DerivedRows(cell) == Max2(1, TileBytes \div Max2(1, Bytes(Product(cell))))

(* A requested tile shape: missing axes become 1, those too many go.       *)
RequestedTile(cell, tile) ==
  LET part == [d \in DOMAIN cell |-> IF d <= Len(tile) THEN tile[d] ELSE 1]
  IN  IF tile = <<>> \/ \E d \in DOMAIN tile : tile[d] <= 0 THEN TsmBroken
      ELSE TsmFound([tile |-> part,
                     rpt |-> IF Len(cell) < Len(tile) THEN tile[Len(cell) + 1] ELSE 1])

(* The tiling of a column: its request, unless the cells' shape is not     *)
(* known yet.                                                              *)
Tiling(cell, request) ==
  IF request = <<>> \/ cell = <<>> THEN TsmFound([tile |-> cell, rpt |-> DerivedRows(cell)])
  ELSE RequestedTile(cell, request)

LayerTiles(cell, tile) == Product(Grid(cell, tile))
Bucket(tile, rpt)      == Bytes(Product(tile) * rpt)

(* The length of a tile file for n rows.                                   *)
TileLength(cell, t, n) ==
  Bucket(t.tile, t.rpt) * Max2(1, CeilDiv(n, t.rpt)) * LayerTiles(cell, t.tile)

TileFile == IF TsmRoot = "TiledShapeStMan" THEN 1 ELSE 0

(* TiledShapeStMan keeps a placeholder cube before the real one.           *)
TsmHeader(cell, t, n) ==
  [root  |-> TsmRoot, rows |-> n,
   cubes |-> IF TsmRoot = "TiledShapeStMan"
               THEN <<Placeholder, Cube(cell, n, t.tile, t.rpt, TileFile)>>
               ELSE <<Cube(cell, n, t.tile, t.rpt, TileFile)>>,
   map   |-> IF TsmRoot = "TiledShapeStMan" /\ n > 0
               THEN <<[row |-> n - 1, cube |-> 1, pos |-> n - 1]>> ELSE <<>>]

(* The tile shape of a header as this program writes it.                   *)
StoredTile(hdr) ==
  LET real == IF hdr.root = "TiledShapeStMan" THEN 1 ELSE 0
      cube == hdr.cubes[real + 1]
  IN  IF /\ hdr.root \in {"TiledColumnStMan", "TiledShapeStMan"}
         /\ Len(hdr.cubes) = real + 1
         /\ cube.file = real /\ cube.off = 0
         /\ cube.rpt > 0 /\ \A d \in DOMAIN cube.tile : cube.tile[d] > 0
         /\ real = 0 \/ hdr.map = IF hdr.rows = 0 THEN <<>>
                                  ELSE <<[row |-> hdr.rows - 1, cube |-> 1, pos |-> hdr.rows - 1]>>
        THEN Append(cube.tile, cube.rpt)
        ELSE <<>>

-----------------------------------------------------------------------------
(* Reading.  f.tile[k] is a tile file, a sequence of places; a handle      *)
(* keeps the header it read and how far its mappings reach.                *)

TsmOpen(f) ==
  IF \E k \in DOMAIN f.hdr.cubes :
       LET c == f.hdr.cubes[k] IN c.file >= 0 /\ c.rows > 0 /\ c.file \notin DOMAIN f.tile
    THEN TsmBroken
    ELSE TsmFound([hdr |-> f.hdr, len |-> [k \in DOMAIN f.tile |-> Len(f.tile[k])]])

(* The interval a row is in; a position before the cube's first is unset.  *)
LocateMapped(hdr, row) ==
  LET hits == {i \in DOMAIN hdr.map : hdr.map[i].row >= row}
      m    == hdr.map[Min(hits)]
      pos  == m.pos - (m.row - row)
  IN  IF hits = {} \/ pos < 0 \/ m.cube + 1 \notin DOMAIN hdr.cubes THEN <<>>
      ELSE IF hdr.cubes[m.cube + 1].rows = 0 THEN <<>>
      ELSE <<m.cube + 1, pos>>

(* Without maps the cubes hold the rows one after the other, and a         *)
(* TiledCellStMan has a cube for every row.                                *)
Locate(hdr, row) ==
  LET before(k) == FoldLeft(LAMBDA a, c : a + c.rows, 0, SubSeq(hdr.cubes, 1, k - 1))
      hits == {k \in DOMAIN hdr.cubes : before(k) <= row /\ row < before(k) + hdr.cubes[k].rows}
  IN  CASE hdr.root = "TiledCellStMan" ->
             IF row + 1 \in DOMAIN hdr.cubes /\ hdr.cubes[row + 1].cell # <<>>
               THEN <<row + 1, 0>> ELSE <<>>
        [] hdr.root # "TiledCellStMan" /\ hdr.map # <<>> -> LocateMapped(hdr, row)
        [] OTHER -> IF hits = {} THEN <<>> ELSE <<Min(hits), row - before(Min(hits))>>

(* The pieces of a cell: the place in its file each one starts at, and the *)
(* elements it holds.  A cell the tiles cover is one piece.                *)
Segments(cube, layer, inT, size, runs) ==
  LET first == cube.off + layer * LayerTiles(cube.cell, cube.tile) * size
  IN  [j \in DOMAIN runs |->
         [at  |-> (first + runs[j].tile * size) * Byte + inT * Product(cube.tile) + runs[j].src,
          dst |-> runs[j].dst, len |-> runs[j].len]]

InCube(cube, pos) ==
  LET layer == pos \div cube.rpt
      inT   == pos % cube.rpt
      size  == Bucket(cube.tile, cube.rpt)
  IN  IF cube.cell = cube.tile
        THEN <<[at |-> (cube.off + layer * size) * Byte + inT * Product(cube.cell),
                dst |-> 0, len |-> Product(cube.cell)]>>
        ELSE Segments(cube, layer, inT, size, TileRuns(cube.cell, cube.tile))

CellPlace(hdr, at) == InCube(hdr.cubes[at[1]], at[2])

(* The byte behind the last one a piece touches.                           *)
PieceEnd(p) == Bytes(p.at + p.len)

Zeros(n) == [k \in 1..n |-> 0]

(* Row counts and mappings that are too short are errors; an unset cell    *)
(* reads as zeros in the column's shape, if it has one.                    *)
Gathered(file, mapped, cell, pieces) ==
  IF \E j \in DOMAIN pieces : PieceEnd(pieces[j]) * Byte > mapped THEN TsmBroken
  ELSE TsmFound(<<cell,
         [e \in 1..Product(cell) |->
            LET j == CHOOSE k \in DOMAIN pieces :
                       pieces[k].dst < e /\ e <= pieces[k].dst + pieces[k].len
            IN  file[pieces[j].at + e - pieces[j].dst]]>>)

TsmCell(f, h, shape, at) ==
  IF at = <<>>
    THEN IF shape = <<>> THEN TsmUnset ELSE TsmFound(<<shape, Zeros(Product(shape))>>)
  ELSE LET cube == h.hdr.cubes[at[1]]
       IN  IF cube.rpt <= 0 \/ cube.file \notin DOMAIN h.len THEN TsmBroken
           ELSE Gathered(f.tile[cube.file], h.len[cube.file], cube.cell, CellPlace(h.hdr, at))

TsmRead(f, h, shape, row) ==
  IF row >= h.hdr.rows THEN TsmBroken ELSE TsmCell(f, h, shape, Locate(h.hdr, row))

-----------------------------------------------------------------------------
(* Writing.                                                                *)

(* The shape of a column's cells: the descriptor's, else that of the first *)
(* cell that has one.                                                      *)
CellShape(shape, cells) ==
  LET shaped == {k \in DOMAIN cells : cells[k][1] # <<>>}
  IN  IF shape # <<>> THEN shape ELSE IF shaped = {} THEN <<>> ELSE cells[Min(shaped)][1]

(* The places of a tile file after some of them are given elements.        *)
Placed(file, pieces, elements) ==
  [i \in DOMAIN file |->
     LET j == {k \in DOMAIN pieces : pieces[k].at < i /\ i <= pieces[k].at + pieces[k].len}
     IN  IF j = {} THEN file[i]
         ELSE LET p == pieces[Max(j)] IN elements[p.dst + i - p.at]]

(* Whole files for the cells of n rows; cells of another size are refused. *)
TilesOf(hdr, cube, length, cells) ==
  [hdr  |-> hdr,
   tile |-> [k \in {TileFile} |->
      FoldLeft(LAMBDA tf, r : Placed(tf, InCube(cube, r - 1), cells[r][2]),
        Zeros(length * Byte), [r \in DOMAIN cells |-> r])]]

Tiled(cell, t, cells) ==
  IF t = TsmBroken \/ \E r \in DOMAIN cells : Len(cells[r][2]) # Product(cell) THEN TsmBroken
  ELSE TsmFound(TilesOf(TsmHeader(cell, t[2], Len(cells)),
                  Cube(cell, Len(cells), t[2].tile, t[2].rpt, TileFile),
                  TileLength(cell, t[2], Len(cells)), cells))

TsmBuild(shape, request, cells) ==
  LET cell == CellShape(shape, cells) IN Tiled(cell, Tiling(cell, request), cells)

(* The tile file is made longer with zeros, then the header is replaced;   *)
(* nothing else is touched.                                                *)
Tile(k, file) == [tile |-> [x \in {k} |-> file], hdr |-> <<>>]
TsmHead(h)    == [tile |-> <<>>, hdr |-> <<h>>]

TsmApply(f, w) ==
  [tile |-> [k \in DOMAIN f.tile \cup DOMAIN w.tile |->
               IF k \in DOMAIN w.tile THEN w.tile[k] ELSE f.tile[k]],
   hdr  |-> IF w.hdr = <<>> THEN f.hdr ELSE w.hdr[1]]

(* The cell shape a growth keeps, or gives a table that had no rows.       *)
GrownShape(hdr, shape, pending, old) ==
  LET real   == IF TsmRoot = "TiledShapeStMan" THEN 2 ELSE 1
      onDisk == IF real \in DOMAIN hdr.cubes THEN hdr.cubes[real].cell ELSE <<>>
      first(s) == SelectSeq(s, LAMBDA x : x # <<>> /\ \A d \in DOMAIN x : x[d] > 0)
  IN  IF old > 0 THEN IF StoredTile(hdr) # <<>> THEN onDisk ELSE <<>>
      ELSE IF first(<<shape, pending, onDisk>>) = <<>> THEN <<>>
      ELSE first(<<shape, pending, onDisk>>)[1]

TsmCanGrow(hdr, shape, pending, old) ==
  /\ hdr.rows = old
  /\ hdr.root = TsmRoot
  /\ GrownShape(hdr, shape, pending, old) # <<>>

(* A stored tile shape goes before a requested one.                        *)
GrownTile(hdr, cell, request) ==
  LET tile == IF StoredTile(hdr) # <<>> THEN StoredTile(hdr) ELSE request
  IN  IF Len(tile) = Len(cell) + 1 THEN tile ELSE <<>>

Grown(f, cell, t, old, new) ==
  LET kept == IF old = 0 \/ TileFile \notin DOMAIN f.tile THEN <<>> ELSE f.tile[TileFile]
  IN  <<Tile(TileFile, kept \o Zeros(Max2(0, TileLength(cell, t, new) * Byte - Len(kept)))),
        TsmHead(TsmHeader(cell, t, new))>>

GrownTo(f, request, cell, old, new) ==
  Grown(f, cell, Tiling(cell, GrownTile(f.hdr, cell, request))[2], old, new)

(* Faulty variant: growth tiles the column anew.                           *)
TsmGrowDerived(f, shape, request, pending, old, new) ==
  Grown(f, shape, [tile |-> shape, rpt |-> DerivedRows(shape)], old, new)

TsmGrow(f, shape, request, pending, old, new) ==
  GrownTo(f, request, GrownShape(f.hdr, shape, pending, old), old, new)

-----------------------------------------------------------------------------
(* Patching.  pend: the pending cells, <<row, cell>>, rows ascending.      *)

(* A cell that has no place, or that is not as long as the one stored      *)
(* there, or not of its shape if tiles split it, refuses the patch.        *)
TsmCanPatch(f, pend) ==
  \A k \in DOMAIN pend :
    LET at   == Locate(f.hdr, pend[k][1])
        cube == f.hdr.cubes[at[1]]
    IN  /\ pend[k][1] < f.hdr.rows
        /\ at # <<>>
        /\ Len(pend[k][2][2]) = Product(cube.cell)
        /\ cube.cell = cube.tile \/ pend[k][2][1] = cube.cell

(* Pieces whose bytes touch are written as one run of bytes; a byte that   *)
(* is not covered by pieces, as a packed one may be, is read before.       *)
TouchedBytes(pieces) ==
  UNION {(pieces[j].at \div Byte)..(PieceEnd(pieces[j]) - 1) : j \in DOMAIN pieces}

PatchBytes(old, new, hit) ==
  [i \in DOMAIN old |-> IF (i - 1) \div Byte \in hit THEN new[i] ELSE old[i]]

PatchTile(f, k, pend) ==
  LET mine == SelectSeq(pend, LAMBDA p : f.hdr.cubes[Locate(f.hdr, p[1])[1]].file = k)
  IN  PatchBytes(f.tile[k],
        FoldLeft(LAMBDA tf, p : Placed(tf, CellPlace(f.hdr, Locate(f.hdr, p[1])), p[2][2]), f.tile[k], mine),
        UNION {TouchedBytes(CellPlace(f.hdr, Locate(f.hdr, mine[j][1]))) : j \in DOMAIN mine})

(* One section under the flush gate, whatever files it writes.             *)
TsmPatch(f, pend) ==
  LET files == {f.hdr.cubes[Locate(f.hdr, pend[k][1])[1]].file : k \in DOMAIN pend}
  IN  IF pend = <<>> THEN <<>>
      ELSE <<[tile |-> [k \in files |-> PatchTile(f, k, pend)], hdr |-> <<>>]>>
=============================================================================
