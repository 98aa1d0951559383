---------------------------- MODULE TableReads ----------------------------
(* The read calls of a table handle, while a flush patches the same files. *)
(*                                                                         *)
(* A handle is the table itself or a reference table: a list of rows of    *)
(* the table, which lists over lists are composed into.  A ranged read of  *)
(* a reference table gathers its rows in ascending order, run by run, and  *)
(* puts each value where its caller asked for it.  A read holds the flush  *)
(* gate of the table's directory while it decodes, a patch while it        *)
(* writes; the patch of an incremental storage manager takes no gate.      *)
EXTENDS Integers, Sequences, FiniteSets, SequencesExt, FiniteSetsExt

CONSTANTS
  Cols,          \* the columns
  Manager,       \* the storage manager of each: "Ssm", "Ism" or "Tsm"
  Shape,         \* its declared cell shape: <<>> is a scalar, Free any shape
  Type,          \* "Number", "Bool" or "Text"
  Free,          \* stands for a shape that is not declared
  FreeShape,     \* the shape the cells of such a column have
  Unset,         \* the <<column, row>> no value was stored for
  NRows,         \* the rows of the table
  ByteBits,      \* the bits of a byte
  Word,          \* 2^32: what an unsigned corner of a slice wraps at
  RowLists,      \* the row lists reference tables are made with
  MaxViews,      \* the reference tables made
  Requests,      \* the reads asked for
  Patched,       \* the columns flushes patch
  PatchRows,     \* the rows a flush patches, in this order
  MaxPatches     \* the flushes

ASSUME TableReadsAssumption ==
  /\ Manager \in [Cols -> {"Ssm", "Ism", "Tsm"}]
  /\ Shape \in [Cols -> Seq(Nat)] /\ FreeShape \in Seq(Nat)
  /\ NRows \in Nat /\ ByteBits \in Nat \ {0}
  /\ RowLists \subseteq Seq(Nat)
  /\ \A q \in Requests : q.col \in Cols /\ {q.on, q.start, q.nrow} \subseteq Nat
  /\ Patched \subseteq Cols
  /\ PatchRows \in Seq(0..(NRows - 1)) /\ MaxPatches \in Nat

\* A column of declared shape has a value in every row, unless it is tiled.
ASSUME UnsetAssumption ==
  \A c \in Cols, r \in 0..(NRows - 1) :
    <<c, r>> \in Unset => Manager[c] = "Tsm" \/ Shape[c] = Free

VARIABLES cells, views, patch, patches, read, answer
vars == <<cells, views, patch, patches, read, answer>>

Rows == 0..(NRows - 1)
None == [op |-> "none", gate |-> FALSE]

(***************************************************************************)
(* Cells.  An element names its row, its place in the cell and how many    *)
(* flushes wrote it: no two places of the table look the same.             *)
(***************************************************************************)
Size(shape) ==
  LET first[n \in 0..Len(shape)] == IF n = 0 THEN 1 ELSE first[n - 1] * shape[n]
  IN  first[Len(shape)]
IsArray(c) == Shape[c] # <<>>
HasShape(c) == Shape[c] # Free
CellShape(c) == IF HasShape(c) THEN Shape[c] ELSE FreeShape
Element(r, i, n) == 100 * (r + 1) + 10 * i + n
\* A scalar is as wide as two elements: the halves of its bytes.
Width(c) == IF IsArray(c) THEN Size(CellShape(c)) ELSE 2
Stored(c, r, n) == [set |-> TRUE, data |-> [i \in 1..Width(c) |-> Element(r, i, n)]]
NotStored == [set |-> FALSE, data |-> <<>>]

\* What an unset tiled cell visits: zeros of the declared shape.
TsmDefault(c) == [i \in 1..(IF HasShape(c) THEN Size(Shape[c]) ELSE 0) |-> 0]

\* The value of a cell: an unset one has its default, of no shape when none
\* is declared.
ReadCellFrom(at, c, r) ==
  LET cell == at[c][r] IN
  CASE cell.set                            -> [shape |-> CellShape(c), data |-> cell.data]
    [] ~cell.set /\ Manager[c] = "Tsm" -> [shape |-> CellShape(c), data |-> TsmDefault(c)]
    [] OTHER                               -> [shape |-> <<>>, data |-> <<>>]

CellDefinedFrom(at, c, r) ==
  \/ ~IsArray(c)
  \/ HasShape(c)
  \/ Manager[c] = "Ism"
  \/ at[c][r].set

(***************************************************************************)
(* Raw reads: the bytes of a cell as the data file has them.               *)
(***************************************************************************)
RawColumnSupported(c) ==
  /\ Type[c] # "Text"
  /\ HasShape(c)
  /\ CASE Manager[c] = "Ssm" -> Type[c] # "Bool"
       [] Manager[c] = "Ism" -> ~IsArray(c)
       [] OTHER              -> IsArray(c)

\* Tiled bits are packed over the rows of a cube: a cell starts some bits
\* into its first byte, and its last byte may hold bits of the next cell.
BitStream(at, c) ==
  [b \in 0..(NRows * Size(Shape[c]) - 1) |->
     LET r == b \div Size(Shape[c]) IN
     IF at[c][r].set THEN at[c][r].data[(b % Size(Shape[c])) + 1] ELSE 0]

BitCell(at, c, r) ==
  LET n     == Size(Shape[c])
      first == ((r * n) \div ByteBits) * ByteBits
      last  == (((r * n + n - 1) \div ByteBits) + 1) * ByteBits - 1
      bits  == BitStream(at, c)
  IN  IF at[c][r].set
      THEN [bytes |-> [i \in 1..(last - first + 1) |->
                         IF first + i - 1 \in DOMAIN bits THEN bits[first + i - 1] ELSE 0],
            skip |-> (r * n) % ByteBits, nelem |-> n]
      ELSE [bytes |-> [i \in 1..(((n + ByteBits - 1) \div ByteBits) * ByteBits) |-> 0],
            skip |-> 0, nelem |-> n]

\* What the visits of a read are given; the bits are what the caller takes
\* out of the bytes.
RawCell(at, c, r) ==
  [shape |-> IF Manager[c] = "Ssm" THEN Shape[c] ELSE <<>>,
   data  |-> IF at[c][r].set THEN at[c][r].data ELSE TsmDefault(c)]

BitsTaken(cell) == [shape |-> <<>>, data |-> SubSeq(cell.bytes, cell.skip + 1, cell.skip + cell.nelem)]

Seen(at, q, r) ==
  CASE q.op = "raw"     -> RawCell(at, q.col, r)
    [] q.op = "bits"    -> BitsTaken(BitCell(at, q.col, r))
    [] q.op = "defined" -> [shape |-> <<>>, data |-> <<IF CellDefinedFrom(at, q.col, r) THEN 1 ELSE 0>>]
    [] OTHER            -> ReadCellFrom(at, q.col, r)

\* A raw read of a packed column, and a packed read of another, are refused.
RawRefused(q) ==
  \/ q.op = "raw" /\ Manager[q.col] = "Tsm" /\ Type[q.col] = "Bool"
  \/ q.op = "bits" /\ Manager[q.col] # "Tsm"

(***************************************************************************)
(* Slices of an array cell: inclusive corners and a step per dimension.    *)
(***************************************************************************)
Steps(inc, n) == [d \in 1..n |-> IF d <= Len(inc) /\ inc[d] > 0 THEN inc[d] ELSE 1]

BadSlice(shape, blc, trc) ==
  \/ Len(blc) # Len(shape)
  \/ Len(trc) # Len(shape)
  \/ \E d \in DOMAIN shape : blc[d] < 0 \/ trc[d] < blc[d] \/ trc[d] % Word >= shape[d]

NewShapeShort(blc, trc, steps) ==
  [d \in DOMAIN blc |-> ((trc[d] - blc[d] + steps[d] - 1) \div steps[d]) % Word]

\* Both the corner that is compared and the extent are cut to 32 bits.
NewShape(blc, trc, steps) ==
  [d \in DOMAIN blc |-> ((trc[d] - blc[d]) \div steps[d] + 1) % Word]

\* The elements, in row-major order: the last dimension runs fastest.
Indices(shape, new, blc, steps) ==
  LET Stride(d) == Size(SubSeq(shape, d + 1, Len(shape)))
      from[d \in 1..(Len(shape) + 1)] ==
        IF d > Len(shape) THEN <<0>>
        ELSE FlattenSeq([k \in 1..new[d] |->
               [i \in DOMAIN from[d + 1] |-> (blc[d] + (k - 1) * steps[d]) * Stride(d) + from[d + 1][i]]])
  IN  from[1]

Fine(v) == [ok |-> TRUE, why |-> "", value |-> v]
Bad(why) == [ok |-> FALSE, why |-> why, value |-> [shape |-> <<>>, data |-> <<>>]]

SliceArrayValueInc(v, blc, trc, inc) ==
  LET steps == Steps(inc, Len(v.shape))
      new   == NewShape(blc, trc, steps)
      at    == Indices(v.shape, new, blc, steps)
  IN  IF BadSlice(v.shape, blc, trc) THEN Bad("slice")
      ELSE IF \E i \in DOMAIN at : at[i] >= Len(v.data) THEN Bad("panic")
      ELSE Fine([shape |-> new, data |-> [i \in DOMAIN at |-> v.data[at[i] + 1]]])

SliceStoredCell(c, v, q) ==
  IF ~IsArray(c) \/ (q.blc = <<>> /\ q.trc = <<>>) THEN Fine(v)
  ELSE SliceArrayValueInc(v, q.blc, q.trc, q.inc)

(***************************************************************************)
(* Reference tables.  Handle 0 is the table, handle h the h-th view.  A    *)
(* view keeps the rows of the table; of and local say how it was made.     *)
(***************************************************************************)
HandleRows(h) == IF h = 0 THEN NRows ELSE Len(views[h].rows)

ViewRow(h, r) == views[h].rows[r + 1]

RowOrder(h, rows) ==
  /\ Len(views) < MaxViews
  /\ read = None
  /\ answer = None
  /\ \/ /\ h = 0
        /\ \A i \in DOMAIN rows : rows[i] \in Rows
        /\ views' = Append(views, [rows |-> rows, of |-> 0, local |-> rows])
     \/ /\ h \in DOMAIN views
        /\ \A i \in DOMAIN rows : rows[i] < Len(views[h].rows)
        /\ views' = Append(views, [rows  |-> [i \in DOMAIN rows |-> ViewRow(h, rows[i])],
                                   of    |-> h,
                                   local |-> rows])
  /\ UNCHANGED <<cells, patch, patches, read, answer>>

\* The rows of a gather, as pairs of a row and the place its value goes to:
\* a list in order stays, another is sorted by row, equal rows in any order.
Pairs(rows) == [i \in DOMAIN rows |-> [row |-> rows[i], dest |-> i]]

SourceOrders(rows) ==
  IF \A i \in 1..(Len(rows) - 1) : rows[i] <= rows[i + 1] THEN {Pairs(rows)}
  ELSE {p \in {[i \in DOMAIN rows |-> Pairs(rows)[f[i]]] :
               f \in {g \in [DOMAIN rows -> DOMAIN rows] : \A i, j \in DOMAIN rows : g[i] = g[j] => i = j}} :
        \A i \in 1..(Len(p) - 1) : p[i].row <= p[i + 1].row}

RunEndsMerged(order, i) == i = Len(order) \/ order[i + 1].row > order[i].row + 1

\* A run ends where the next row is not the row after.
RunEnds(order, i) == i = Len(order) \/ order[i + 1].row # order[i].row + 1

RunStart(order, i) ==
  Max({1} \cup {j + 1 : j \in {k \in 1..(i - 1) : RunEnds(order, k)}})

\* A run is read from its first row on: the n-th value goes to the place of
\* the run's n-th pair.
Gather(order) ==
  [i \in DOMAIN order |->
     [row  |-> order[RunStart(order, i)].row + (i - RunStart(order, i)),
      dest |-> order[i].dest]]

RangeOf(q) == [i \in 1..q.nrow |-> q.start + i - 1]

\* An empty range of a view is fine wherever it starts.
ViewRangeBad(q) == q.nrow > 0 /\ q.start + q.nrow > HandleRows(q.on)
ViewRangeRowLast(q) == q.start + q.nrow - 1
ViewRangeRow(q) == IF q.start >= HandleRows(q.on) THEN q.start ELSE HandleRows(q.on)
ViewRows(q) == [i \in 1..q.nrow |-> ViewRow(q.on, q.start + i - 1)]

(***************************************************************************)
(* A read.  It is resolved to the rows it visits, in order; it takes the   *)
(* gate, visits row after row, and lets the gate go.  A slice of the table *)
(* itself takes the gate anew for each row.                                *)
(***************************************************************************)
GatedByCell(q) == q.on = 0 /\ q.op = "slice"

Begun(q, todo) == [op |-> q.op, q |-> q, todo |-> todo, at |-> 0, gate |-> FALSE, got |-> <<>>]

Answered(q, ok, why, row, values) ==
  [op |-> q.op, q |-> q, ok |-> ok, why |-> why, row |-> row, values |-> values, of |-> cells[q.col]]

Refuse(q, why, row) == answer' = Answered(q, FALSE, why, row, <<>>)

\* The call: the rows of a view are looked up before anything is decoded.
Ask(q) ==
  /\ read = None
  /\ answer = None
  /\ q.on \in 0..Len(views)
  /\ q.op \in {"raw", "bits"} => RawColumnSupported(q.col)
  /\ \/ /\ q.on # 0
        /\ ViewRangeBad(q)
        /\ Refuse(q, "row", ViewRangeRow(q))
        /\ UNCHANGED read
     \/ /\ q.on # 0
        /\ ~ViewRangeBad(q)
        /\ \E order \in SourceOrders(ViewRows(q)) : read' = Begun(q, Gather(order))
        /\ UNCHANGED answer
     \/ /\ q.on = 0
        /\ read' = Begun(q, Pairs(RangeOf(q)))
        /\ UNCHANGED answer
  /\ UNCHANGED <<cells, views, patch, patches>>

Next1 == read.todo[read.at + 1]
AllVisited == read.at = Len(read.todo)

Enter ==
  /\ read # None
  /\ ~read.gate
  /\ ~patch.gate
  /\ ~AllVisited \/ (read.got = <<>> /\ ~GatedByCell(read.q))
  /\ IF RawRefused(read.q) /\ ~AllVisited
     THEN Refuse(read.q, "raw", 0) /\ read' = None
     ELSE read' = [read EXCEPT !.gate = TRUE] /\ UNCHANGED answer
  /\ UNCHANGED <<cells, views, patch, patches>>

\* A slice of one row is cut before the next row is read.
Cut(q, v) == IF q.op = "slice" THEN SliceStoredCell(q.col, v, q) ELSE Fine(v)

\* An unset tiled cell of no declared shape has no default: the manager says
\* the row is out of range, and names its number of rows.
NoDefault(q, r) ==
  q.op # "defined" /\ Manager[q.col] = "Tsm" /\ ~HasShape(q.col) /\ ~cells[q.col][r].set

Visit ==
  LET q == read.q
      r == Next1.row
      v == IF r \in Rows THEN Cut(q, Seen(cells, q, r)) ELSE Bad("row")
  IN
  /\ read # None
  /\ read.gate
  /\ ~AllVisited
  /\ IF r \notin Rows \/ NoDefault(q, r)
     THEN Refuse(q, "row", IF r \in Rows THEN NRows ELSE r) /\ read' = None
     ELSE IF ~v.ok /\ GatedByCell(q)
     THEN Refuse(q, v.why, r) /\ read' = None
     ELSE /\ read' = [read EXCEPT !.at = @ + 1,
                                  !.got = Append(@, [dest |-> Next1.dest, v |-> v]),
                                  !.gate = ~GatedByCell(q)]
          /\ UNCHANGED answer
  /\ UNCHANGED <<cells, views, patch, patches>>

\* Each value goes to the place its row was asked at.
Placed(got, n) == [i \in 1..n |-> got[CHOOSE k \in DOMAIN got : got[k].dest = i].v]

Leave ==
  LET values == Placed(read.got, Len(read.todo)) IN
  /\ read # None
  /\ AllVisited
  /\ read.gate \/ GatedByCell(read.q)
  /\ answer' = IF \E i \in DOMAIN values : ~values[i].ok
               THEN Answered(read.q, FALSE, "slice", 0, <<>>)
               ELSE Answered(read.q, TRUE, "", 0, [i \in DOMAIN values |-> values[i].value])
  /\ read' = None
  /\ UNCHANGED <<cells, views, patch, patches>>

(***************************************************************************)
(* A flush of this process patches rows in place, each in two writes.  One *)
(* patch below is one hold of the gate: a standard storage manager takes   *)
(* it for the buckets, lets it go, and takes it again for the records of   *)
(* its arrays.  A cell that keeps its shape lies in one of the two.        *)
(***************************************************************************)
NoPatch == [gate |-> FALSE, col |-> "", todo |-> <<>>]

PatchGateNever(c) == FALSE
PatchGate(c) == Manager[c] # "Ism"

BeginPatch(c) ==
  /\ patch = NoPatch
  /\ patches < MaxPatches
  /\ c \in Patched
  /\ PatchGate(c) => ~read.gate
  /\ patches' = patches + 1
  /\ patch' = [gate |-> PatchGate(c), col |-> c,
               todo |-> [k \in 1..(2 * Len(PatchRows)) |->
                           <<PatchRows[(k + 1) \div 2], IF k % 2 = 1 THEN 1 ELSE 2>>]]
  /\ UNCHANGED <<cells, views, read, answer>>

\* The cell after one of its two halves is written for the n-th time.
Written(c, r, half, n) ==
  LET old == IF cells[c][r].set THEN cells[c][r].data ELSE TsmDefault(c)
      new == Stored(c, r, n).data
      mid == (Len(new) + 1) \div 2
  IN  [set |-> TRUE,
       data |-> IF half = 2 \/ Len(old) # Len(new) THEN new
                ELSE [i \in DOMAIN new |-> IF i <= mid THEN new[i] ELSE old[i]]]

PatchWrite ==
  /\ patch.todo # <<>>
  /\ LET c == patch.col
         w == Head(patch.todo) IN
     cells' = [cells EXCEPT ![c][w[1]] = Written(c, w[1], w[2], patches)]
  /\ patch' = [patch EXCEPT !.todo = Tail(@)]
  /\ UNCHANGED <<views, patches, read, answer>>

EndPatch ==
  /\ patch # NoPatch
  /\ patch.todo = <<>>
  /\ patch' = NoPatch
  /\ UNCHANGED <<cells, views, patches, read, answer>>

\* The caller takes the answer.
Take ==
  /\ answer # None
  /\ answer' = None
  /\ UNCHANGED <<cells, views, patch, patches, read>>

Init ==
  /\ cells = [c \in Cols |-> [r \in Rows |-> IF <<c, r>> \in Unset THEN NotStored ELSE Stored(c, r, 0)]]
  /\ views = <<>>
  /\ patch = NoPatch
  /\ patches = 0
  /\ read = None
  /\ answer = None

Next ==
  \/ \E h \in 0..MaxViews, rows \in RowLists : RowOrder(h, rows)
  \/ \E q \in Requests : Ask(q)
  \/ Enter \/ Visit \/ Leave \/ Take
  \/ \E c \in Cols : BeginPatch(c)
  \/ PatchWrite \/ EndPatch

Spec == Init /\ [][Next]_vars

(***************************************************************************)
(* What a read promises.                                                   *)
(***************************************************************************)
\* The table's row a row of a handle stands for, one list after another.
RowBehind(h, r) ==
  LET behind[g \in 0..Len(views)] ==
        IF g = 0 THEN [i \in Nat |-> i]
        ELSE [i \in 0..(Len(views[g].local) - 1) |-> behind[views[g].of][views[g].local[i + 1]]]
  IN  behind[h][r]

AskedRow(q, i) == RowBehind(q.on, q.start + i - 1)

\* A cell as n flushes, or none, left it; an unset one is zeros, or empty.
WholeCells(c, r) ==
  {Stored(c, r, n).data : n \in {k \in 0..MaxPatches : k > 0 \/ <<c, r>> \notin Unset}}
  \cup (IF <<c, r>> \in Unset THEN {IF HasShape(c) THEN TsmDefault(c) ELSE <<>>} ELSE {})

ContentOf(of, c, r) ==
  IF of[r].set THEN of[r].data ELSE IF HasShape(c) THEN TsmDefault(c) ELSE <<>>

\* A read of the whole cells of a range answers the cell of each row that
\* was asked for, once and in its place, all as they were at one moment: as
\* if the rows had been read one by one with nobody writing (table.rs
\* getcol, getcol_raw, getcol_raw_bits and their gathers).
AnswersAreTheRows ==
  answer # None /\ answer.ok /\ answer.op \in {"cell", "col", "raw", "bits"} =>
    /\ Len(answer.values) = answer.q.nrow
    /\ \A i \in 1..answer.q.nrow :
         answer.values[i].data = ContentOf(answer.of, answer.q.col, AskedRow(answer.q, i))

\* No read is given a cell of which a flush has written a part: what a visit
\* decodes is the cell wholly before or wholly after every flush
\* (flushgate.rs: "A reader then observes each cell wholly before or wholly
\* after any one patch").
CellsAreWhole ==
  answer # None /\ answer.ok /\ answer.op \in {"cell", "col", "raw", "bits"} =>
    \A i \in DOMAIN answer.values :
      answer.values[i].data \in WholeCells(answer.q.col, AskedRow(answer.q, i))

\* The elements of a cell whose coordinates a slice selects, in their order.
Coordinate(p, shape, d) == (p \div Size(SubSeq(shape, d + 1, Len(shape)))) % shape[d]

Selected(data, shape, q) ==
  LET in(p) == \A d \in DOMAIN shape :
        /\ Coordinate(p, shape, d) \in q.blc[d]..q.trc[d]
        /\ (Coordinate(p, shape, d) - q.blc[d]) % Steps(q.inc, Len(shape))[d] = 0
      taken == SelectSeq([i \in DOMAIN data |-> i - 1], LAMBDA p : in(p))
  IN  [i \in DOMAIN taken |-> data[taken[i] + 1]]

Fits(shape, q) ==
  /\ Len(q.blc) = Len(shape) /\ Len(q.trc) = Len(shape)
  /\ \A d \in DOMAIN shape : q.blc[d] >= 0 /\ q.trc[d] >= q.blc[d] /\ q.trc[d] < shape[d]

\* The corners are numbers of 32 bits, which is what they are cut to.
Within32(q) == \A d \in DOMAIN q.trc : q.trc[d] < Word

\* A slice whose corners are numbers of 32 bits answers, for every row asked
\* for, the elements of one whole cell whose coordinates lie between the
\* corners and on the steps, in row-major order, and as many as its shape
\* says; it is refused exactly when the corners do not fit a cell, and never
\* ends the call (table.rs getcolslice_inc, slice_array_value_inc).
SlicesAreExact ==
  answer # None /\ answer.op = "slice" /\ IsArray(answer.q.col) /\ Within32(answer.q) =>
    LET q == answer.q
        whole(i) == {d \in WholeCells(q.col, AskedRow(q, i)) : d # <<>>}
    IN
    /\ answer.ok =>
         \A i \in DOMAIN answer.values :
           /\ whole(i) = {} \/ Fits(CellShape(q.col), q)
           /\ answer.values[i].data \in {Selected(d, CellShape(q.col), q) : d \in whole(i)}
           /\ Len(answer.values[i].data) = Size(answer.values[i].shape)
    /\ answer.why = "slice" =>
         ~Fits(CellShape(q.col), q) \/ \E i \in 1..q.nrow : <<q.col, AskedRow(q, i)>> \in Unset
    /\ answer.why # "panic"

\* Found not to hold: a corner of 2^32 or more is refused.  It is compared
\* after it is cut to 32 bits, and so is the extent: with a step of one the
\* call answers the elements up to what is left of the corner, and with a
\* longer step it may panic (table.rs slice_array_value_inc).
CornersAreRefused ==
  answer # None /\ answer.op = "slice" /\ IsArray(answer.q.col) /\ ~Within32(answer.q) => ~answer.ok

\* A read is refused for its rows exactly when it asks for a row its handle
\* does not have, and the row named is the first such row: a reference table
\* and a table of its length say the same (table.rs view_rows, getcol).
ErrorsNameTheRow ==
  answer # None /\ (\A r \in Rows : <<answer.q.col, r>> \notin Unset) =>
    LET q == answer.q IN
    /\ answer.why = "row" =>
         answer.row \in q.start..(q.start + q.nrow - 1) /\ answer.row = Max({q.start, HandleRows(q.on)})
    /\ answer.ok => \A i \in 1..q.nrow : q.start + i - 1 < HandleRows(q.on)
=============================================================================
