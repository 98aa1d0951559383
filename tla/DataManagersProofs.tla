-------------------------- MODULE DataManagersProofs ------------------------
(***************************************************************************)
(* What DataManagers says of the read handles of a table that grows,       *)
(* proved for any table, values and number of rows.                        *)
(*                                                                         *)
(* The invariant has a part for each type of data manager.  The file of a  *)
(* StandardStMan is whole, or a known number of a growth's writes away     *)
(* from one that was, and a handle's index finds its rows in it.  That of  *)
(* an IncrementalStMan fits the buckets it will have, and no write to come *)
(* takes a row from a bucket a handle reads.  A tiled one's reads depend   *)
(* on nothing that is written.                                             *)
(***************************************************************************)
EXTENDS DataManagers, StandardStManProofs

-----------------------------------------------------------------------------
(* StandardStMan: the two files, and the layout this program writes.       *)

IsSsm(f) == f = [hdr |-> f.hdr, bucket |-> f.bucket, arr |-> f.arr]

LEMMA ArrChanges ==
  ASSUME NEW f, IsSsm(f), NEW a
  PROVE  LET n == [f EXCEPT !.arr = a]
         IN  IsSsm(n) /\ n.hdr = f.hdr /\ n.bucket = f.bucket /\ n.arr = a
BY DEF IsSsm

LEMMA ArrIsFree ==
  ASSUME NEW f, NEW ix, NEW chain, SsmSound(f, ix, chain), NEW a
  PROVE  SsmSound([f EXCEPT !.arr = a], ix, chain)
<1>. DEFINE n == [f EXCEPT !.arr = a]
<1>1. IsSsm(f)
  BY DEF SsmSound, IsSsm
<1>2. IsSsm(n) /\ n.hdr = f.hdr /\ n.bucket = f.bucket
  BY <1>1, ArrChanges
<1>. HIDE DEF n
<1>3. ChainSound(f, ix, chain) => ChainSound(n, ix, chain)
  BY <1>2 DEF ChainSound
<1>. QED
  BY <1>2, <1>3 DEF SsmSound, IsSsm, n

LEMMA ColumnsApart ==
  ASSUME NEW c \in Nat, NEW d \in Nat, NEW b \in Nat, c < d
  PROVE  (c - 1) * b + b <= (d - 1) * b
<1>1. d - 1 \in Nat /\ c <= d - 1
  OBVIOUS
<1>2. c * b <= (d - 1) * b /\ (c - 1) * b + b = c * b
  BY <1>1
<1>. QED
  BY <1>2

LEMMA LayoutApart ==
  Apart(Layout(SsmRpb), SsmRpb)
<1>1. SsmRpb \in Nat /\ SsmCols \subseteq Nat \ {0}
  BY StandardStManAssumption DEF SsmCols
<1>. DEFINE o == Layout(SsmRpb).offset
<1>2. \A c \in SsmCols : o[c] = (c - 1) * SsmRpb
  BY DEF Layout
<1>. HIDE DEF o
<1>3. \A c \in SsmCols : o[c] \in Nat
  BY <1>1, <1>2
<1>4. ASSUME NEW c \in SsmCols, NEW d \in SsmCols, c # d
      PROVE  o[c] + SsmRpb <= o[d] \/ o[d] + SsmRpb <= o[c]
  <2>1. c \in Nat /\ d \in Nat
    BY <1>1
  <2>2. CASE c < d
    BY <1>1, <1>2, <2>1, <2>2, ColumnsApart
  <2>3. CASE d < c
    BY <1>1, <1>2, <2>1, <2>3, ColumnsApart
  <2>. QED
    BY <1>4, <2>1, <2>2, <2>3
<1>. QED
  BY <1>3, <1>4 DEF Apart, o

(* What a handle keeps of whole files is their index.                      *)
LEMMA OpenedIndex ==
  ASSUME NEW f, NEW big, SsmOpen(f, big)[1] = "ok"
  PROVE  ReadIndex(f) # Broken /\ SsmOpen(f, big)[2].index = ReadIndex(f)[2]
BY DEF SsmOpen, Opened, Found, Broken

(* Reading a tiled column: whether a cell is there depends on the handle   *)
(* alone.                                                                  *)
LEMMA TiledKeeps ==
  ASSUME NEW f, NEW g, NEW h, NEW shape, NEW row, TsmRead(f, h, shape, row) # TsmBroken
  PROVE  TsmRead(g, h, shape, row) # TsmBroken
BY DEF TsmRead, TsmCell, Gathered, TsmBroken, TsmFound, TsmUnset

-----------------------------------------------------------------------------
(* Read handles.                                                           *)

IsView(v) ==
  /\ v = [h |-> v.h, spec |-> v.spec, nrow |-> v.nrow, main |-> v.main, aux |-> v.aux,
          built |-> v.built, reads |-> v.reads, may |-> v.may]
  /\ v.nrow \in Nat

(* What a handle reads if the files are f.                                 *)
SeenIn(k, v, f) ==
  WithAux(k, IF v.main = <<>> THEN f ELSE v.main[1], IF v.aux = <<>> THEN f ELSE v.aux[1])

ReadsIn(k, v, f) == \A p \in v.reads : ReadCell(k, SeenIn(k, v, f), v.h, v.spec, p[1], p[2]) # Broken

(* A handle whose main file has not been replaced finds its rows as the    *)
(* index ix does, by table.dat's column offsets.                           *)
Abreast(v, ix, spec) == v.main = <<>> => v.spec = spec /\ Follows(v.h.index, ix, v.nrow)

Frozen(v) == v.main # <<>> => IsSsm(v.main[1])

LEMMA SsmSeen ==
  ASSUME NEW v, Frozen(v), NEW f, IsSsm(f)
  PROVE  LET n == SeenIn("ssm", v, f)
         IN  /\ n.bucket = (IF v.main = <<>> THEN f ELSE v.main[1]).bucket
             /\ n.arr = (IF v.aux = <<>> THEN f ELSE v.aux[1]).arr
<1>. DEFINE m == IF v.main = <<>> THEN f ELSE v.main[1]
            a == (IF v.aux = <<>> THEN f ELSE v.aux[1]).arr
<1>1. IsSsm(m)
  BY DEF Frozen
<1>2. SeenIn("ssm", v, f) = [m EXCEPT !.arr = a]
  BY DEF SeenIn, WithAux
<1>. HIDE DEF m, a
<1>3. [m EXCEPT !.arr = a].bucket = m.bucket /\ [m EXCEPT !.arr = a].arr = a
  BY <1>1, ArrChanges
<1>. QED
  BY <1>2, <1>3 DEF m, a

LEMMA SameCell ==
  ASSUME NEW f, NEW n, n.bucket = f.bucket, NEW h, NEW spec, NEW c, NEW row
  PROVE  StoredCell(n, h, spec, c, row) = StoredCell(f, h, spec, c, row)
BY DEF StoredCell, CellIn, CellAt

(* While a growth runs a handle goes on reading what it could.             *)
Watches(g, v) ==
  /\ IsView(v) /\ Frozen(v) /\ Abreast(v, g.ix, g.spec) /\ v.nrow <= g.old
  /\ v.reads \subseteq Columns("ssm") \X (0..(v.nrow - 1))

LEMMA SsmReadsOn ==
  ASSUME NEW g, GrowthOf(g), \A c \in SsmCols : g.spec.offset[c] \in Nat, NEW W, NEW s, NEW f, Along(g, W, s, f),
         NEW v, Watches(g, v), ReadsIn("ssm", v, g.f0)
  PROVE  ReadsIn("ssm", v, f)
<1>1. IsSsm(g.f0) /\ IsSsm(f) /\ v.nrow \in 0..g.old
  <2>1. IsSsm(g.f0) /\ g.old \in Nat
    BY DEF GrowthOf, SsmSound, IsSsm
  <2>2. IsSsm(f)
    BY DEF Along, IsSsm
  <2>. QED
    BY <2>1, <2>2 DEF Watches, IsView
<1>2. SameStrings(g.f0, f) /\ DOMAIN g.f0.arr.rec \subseteq DOMAIN f.arr.rec
  BY DEF Along
<1>. DEFINE before == SeenIn("ssm", v, g.f0)
            now == SeenIn("ssm", v, f)
<1>3. /\ before.bucket = (IF v.main = <<>> THEN g.f0 ELSE v.main[1]).bucket
      /\ before.arr = (IF v.aux = <<>> THEN g.f0 ELSE v.aux[1]).arr
      /\ now.bucket = (IF v.main = <<>> THEN f ELSE v.main[1]).bucket
      /\ now.arr = (IF v.aux = <<>> THEN f ELSE v.aux[1]).arr
  BY <1>1, SsmSeen DEF Watches
<1>. HIDE DEF before, now
<1>4. SameStrings(before, now) /\ DOMAIN before.arr.rec \subseteq DOMAIN now.arr.rec
  <2>1. SameStrings(before, now)
    BY <1>2, <1>3 DEF SameStrings
  <2>. QED
    BY <1>2, <1>3, <2>1
<1>5. SUFFICES ASSUME NEW p \in v.reads, SsmRead(before, v.h, v.spec, Zero, p[1], p[2]) # Broken
               PROVE  SsmRead(now, v.h, v.spec, Zero, p[1], p[2]) # Broken
  BY DEF ReadsIn, ReadCell, before, now
<1>6. p[1] \in SsmCols /\ p[2] \in 0..(v.nrow - 1)
  BY DEF Watches, Columns
<1>7. StoredCell(before, v.h, v.spec, p[1], p[2]) # Broken
  BY <1>5 DEF SsmRead, Decoded
<1>8. StoredCell(now, v.h, v.spec, p[1], p[2]) = StoredCell(before, v.h, v.spec, p[1], p[2])
  <2>1. CASE v.main # <<>>
    BY <1>3, <2>1, SameCell
  <2>2. CASE v.main = <<>>
    <3>1. v.spec = g.spec /\ Follows(v.h.index, g.ix, v.nrow)
      BY <2>2 DEF Watches, Abreast
    <3>2. StoredCell(before, v.h, v.spec, p[1], p[2]) = StoredCell(g.f0, v.h, g.spec, p[1], p[2])
      BY <1>3, <2>2, <3>1, SameCell
    <3>3. StoredCell(now, v.h, v.spec, p[1], p[2]) = StoredCell(f, v.h, g.spec, p[1], p[2])
      BY <1>3, <2>2, <3>1, SameCell
    <3>4. StoredCell(f, v.h, g.spec, p[1], p[2]) = StoredCell(g.f0, v.h, g.spec, p[1], p[2])
      BY <1>1, <1>6, <1>7, <3>1, <3>2, CellsAlong
    <3>. QED
      BY <3>2, <3>3, <3>4
  <2>. QED
    BY <2>1, <2>2
<1>. QED
  BY <1>4, <1>5, <1>7, <1>8, ReadsOn DEF SsmRead

LEMMA FollowsOn ==
  ASSUME NEW g, GrowthOf(g)
  PROVE  /\ Follows(g.ix, g.ix, g.old) /\ Follows(g.nix, g.ix, g.old)
         /\ \A hx, n : n \in Nat /\ n <= g.old /\ Follows(hx, g.ix, n) => Follows(hx, g.nix, n)
<1>1. g.old \in Nat /\ \A row \in 0..(g.old - 1) : FindBucket(g.nix, row) = FindBucket(g.ix, row)
  <2>1. /\ g.old \in Nat /\ IndexSound(g.ix) /\ Rows(g.ix) = g.old
        /\ IndexGrows(g.ix, g.nix, g.old, g.f0.hdr.nr, g.fresh)
    BY DEF GrowthOf, SsmSound
  <2>. QED
    BY <2>1, RowsStay
<1>. QED
  BY <1>1 DEF Follows

(* Taking the first of a list.                                             *)
LEMMA FirstTaken ==
  ASSUME NEW W, IsList(W), W # <<>>
  PROVE  /\ Head(W) = W[1] /\ 1 \in DOMAIN W /\ IsList(Tail(W)) /\ Len(W) \in Nat \ {0}
         /\ Len(Tail(W)) = Len(W) - 1 /\ DOMAIN W = 1..Len(W)
         /\ DOMAIN Tail(W) = 1..(Len(W) - 1)
         /\ \A j \in DOMAIN Tail(W) : j + 1 \in DOMAIN W /\ Tail(W)[j] = W[j + 1]
         /\ \A j \in DOMAIN W : j # 1 => j - 1 \in DOMAIN Tail(W) /\ Tail(W)[j - 1] = W[j]
<1>. DEFINE S == {W[k] : k \in DOMAIN W}
<1>1. W \in Seq(S)
  BY DEF IsList
<1>. HIDE DEF S
<1>2. Head(W) = W[1] /\ Tail(W) \in Seq(S) /\ Len(Tail(W)) = Len(W) - 1 /\ Len(W) \in Nat \ {0} /\ DOMAIN W = 1..Len(W)
  BY <1>1
<1>3. DOMAIN Tail(W) = 1..(Len(W) - 1) /\ \A j \in 1..(Len(W) - 1) : Tail(W)[j] = W[j + 1]
  BY <1>1, <1>2
<1>4. IsList(Tail(W))
  BY <1>2, SeqIsList
<1>. QED
  BY <1>2, <1>3, <1>4

LEMMA ListAppends ==
  ASSUME NEW W, IsList(W), NEW x
  PROVE  LET A == Append(InPlace(W), x)
         IN  /\ IsList(A) /\ Len(W) \in Nat /\ DOMAIN W = 1..Len(W) /\ Len(A) = Len(W) + 1 /\ DOMAIN A = 1..(Len(W) + 1)
             /\ A[Len(W) + 1] = x
             /\ \A j \in 1..Len(W) : A[j] = [how |-> "inplace", w |-> W[j]]
<1>. DEFINE S == {W[k] : k \in DOMAIN W}
            P == InPlace(W)
            n == Len(W)
<1>1. W \in Seq(S)
  BY DEF IsList
<1>2. n \in Nat /\ DOMAIN W = 1..n
  BY <1>1
<1>. HIDE DEF S, n
<1>3. DOMAIN P = 1..n /\ \A j \in 1..n : P[j] = [how |-> "inplace", w |-> W[j]]
  BY <1>2 DEF InPlace
<1>. DEFINE T == {P[j] : j \in 1..n} \cup {x}
<1>4. P = [j \in 1..n |-> P[j]]
  BY <1>2 DEF InPlace
<1>5. P \in [1..n -> T]
  <2>. HIDE DEF P
  <2>. QED
    BY <1>4
<1>6. P \in Seq(T) /\ Len(P) = n /\ x \in T
  <2>1. x \in T
    OBVIOUS
  <2>. HIDE DEF P, T
  <2>. QED
    BY <1>2, <1>5, <2>1, FunctionIsSequence
<1>. HIDE DEF T, P
<1>7. /\ Append(P, x) \in Seq(T) /\ Len(Append(P, x)) = n + 1 /\ DOMAIN Append(P, x) = 1..(n + 1)
      /\ Append(P, x)[n + 1] = x /\ \A j \in 1..n : Append(P, x)[j] = P[j]
  BY <1>2, <1>6
<1>8. IsList(Append(P, x))
  BY <1>7, SeqIsList
<1>. QED
  BY <1>2, <1>3, <1>7, <1>8 DEF P, n

LEMMA InPlaceIsList ==
  ASSUME NEW W, IsList(W)
  PROVE  /\ IsList(InPlace(W)) /\ DOMAIN InPlace(W) = DOMAIN W
         /\ \A j \in DOMAIN W : InPlace(W)[j] = [how |-> "inplace", w |-> W[j]]
<1>. DEFINE S == {W[k] : k \in DOMAIN W}
            P == InPlace(W)
            n == Len(W)
<1>1. W \in Seq(S)
  BY DEF IsList
<1>2. n \in Nat /\ DOMAIN W = 1..n
  BY <1>1
<1>. HIDE DEF S, n
<1>3. DOMAIN P = 1..n /\ \A j \in 1..n : P[j] = [how |-> "inplace", w |-> W[j]]
  BY <1>2 DEF InPlace
<1>. DEFINE T == {P[j] : j \in 1..n}
<1>4. P = [j \in 1..n |-> P[j]]
  BY <1>2 DEF InPlace
<1>5. P \in [1..n -> T]
  <2>. HIDE DEF P
  <2>. QED
    BY <1>4
<1>6. P \in Seq(T)
  <2>. HIDE DEF P, T
  <2>. QED
    BY <1>2, <1>5, FunctionIsSequence
<1>7. IsList(P)
  BY <1>6, SeqIsList
<1>. QED
  BY <1>2, <1>3, <1>7

-----------------------------------------------------------------------------
(* The shape of the state.                                                 *)

Kinds == {"ssm", "ism", "tsm"}

DatFits ==
  /\ dat = [nrow |-> dat.nrow, big |-> dat.big, spec |-> dat.spec]
  /\ dat.nrow \in Nat /\ rows \in Nat /\ dat.nrow <= rows

NewRows == [nrow |-> rows, big |-> FALSE, spec |-> Layout(SsmRpb)]

(* What a flush may still have to write.  A new table.dat goes before a    *)
(* new main file.                                                          *)
Fits(w, j) ==
  CASE doing = "grow"    -> w.how = "inplace" \/ w = Counted(rows)
    [] doing = "patch"   -> w.how = "inplace"
    [] doing = "rebuild" -> \/ w.how \in {"main", "aux"}
                            \/ w = NewDat(NewRows) /\ \E k \in DOMAIN todo : k > j /\ todo[k].how = "main"
    [] OTHER -> FALSE

TodoFits ==
  doing # "dead" => IsList(todo) /\ \A j \in DOMAIN todo : Fits(todo[j], j)

ViewFits ==
  view # <<>> =>
    /\ view = <<view[1]>> /\ IsView(view[1]) /\ view[1].nrow <= dat.nrow /\ doing # "dead"
    /\ doing = "grow" => view[1].reads \subseteq Columns(kind) \X (0..(view[1].nrow - 1))

CellsFit ==
  kind = "ssm" =>
    /\ DOMAIN cells = SsmCols /\ CellsOf(cells, rows)
    /\ \A c \in SsmCols : DOMAIN cells[c] = 0..(rows - 1)

Shape ==
  /\ kind \in Kinds /\ DatFits /\ TodoFits /\ ViewFits /\ CellsFit
  /\ doing \in {"rest", "grow", "patch", "rebuild", "dead"}
  /\ doing = "rest" => todo = <<>>

LEMMA TodoKept ==
  ASSUME TodoFits, UNCHANGED <<rows, doing, todo>>
  PROVE  TodoFits'
<1>. SUFFICES ASSUME doing # "dead" PROVE TodoFits'
  BY DEF TodoFits
<1>1. IsList(todo) /\ \A j \in DOMAIN todo : Fits(todo[j], j)
  BY DEF TodoFits
<1>2. ASSUME NEW j \in DOMAIN todo PROVE Fits(todo[j], j)'
  <2>1. Fits(todo[j], j)
    BY <1>1
  <2>. QED
    BY <2>1 DEF Fits, NewRows
<1>3. \A j \in DOMAIN todo' : Fits(todo[j], j)'
  BY <1>2
<1>. QED
  BY <1>1, <1>3 DEF TodoFits

LEMMA ShapeBegins ==
  Init => Shape
<1>. SUFFICES ASSUME NEW l \in Layouts,
                     kind = l.kind, dat = [nrow |-> l.nrow, big |-> l.big, spec |-> l.spec], rows = l.nrow,
                     cells = l.cells, todo = <<>>, doing = "rest", view = <<>>
              PROVE  Shape
  BY DEF Init
<1>1. /\ l.kind \in Kinds /\ l.nrow \in Nat
      /\ l.kind = "ssm" =>
           /\ DOMAIN l.cells = SsmCols
           /\ \A c \in SsmCols : DOMAIN l.cells[c] = 0..(l.nrow - 1)
           /\ \A c \in SsmCols : SsmKinds[c] = "string" => \A r \in 0..(l.nrow - 1) : l.cells[c][r] \in Strings
  BY LayoutsAssumption DEF Kinds
<1>2. dat.nrow = l.nrow /\ dat = [nrow |-> dat.nrow, big |-> dat.big, spec |-> dat.spec]
  OBVIOUS
<1>3. DatFits
  BY <1>1, <1>2 DEF DatFits
<1>4. TodoFits
  <2>1. IsList(<<>>)
    BY DEF IsList
  <2>. QED
    BY <2>1 DEF TodoFits
<1>5. CellsFit
  BY <1>1 DEF CellsFit, CellsOf, Strings
<1>. QED
  BY <1>1, <1>3, <1>4, <1>5 DEF Shape, ViewFits

(* What is done to the cells between flushes.                              *)
LEMMA PutKeepsShape ==
  ASSUME Shape, NEW c \in Columns(kind), NEW row \in 0..(MaxRows - 1), NEW v \in Values(kind, c), PutCell(c, row, v)
  PROVE  Shape'
<1>1. /\ row \in Nat /\ row < rows /\ cells' = [cells EXCEPT ![c][row] = v]
      /\ UNCHANGED <<kind, dat, rows, doing, todo, view>>
  BY DataManagersAssumption DEF PutCell
<1>2. DatFits' /\ TodoFits' /\ ViewFits'
  <2>1. DatFits'
    BY <1>1 DEF Shape, DatFits
  <2>2. TodoFits'
    BY <1>1, TodoKept DEF Shape
  <2>3. ViewFits'
    BY <1>1 DEF Shape, ViewFits
  <2>. QED
    BY <2>1, <2>2, <2>3
<1>3. CellsFit'
  <2>. SUFFICES ASSUME kind = "ssm" PROVE CellsFit'
    BY <1>1 DEF CellsFit
  <2>1. /\ DOMAIN cells = SsmCols /\ CellsOf(cells, rows) /\ \A d \in SsmCols : DOMAIN cells[d] = 0..(rows - 1)
        /\ c \in SsmCols /\ row \in 0..(rows - 1) /\ rows \in Nat
    BY <1>1 DEF Shape, CellsFit, Columns, DatFits
  <2>2. SsmKinds[c] = "string" => v \in Seq(Nat)
    BY LayoutsAssumption DEF Values, Strings
  <2>3. /\ DOMAIN cells' = SsmCols
        /\ \A d \in SsmCols : cells'[d] = IF d = c THEN [cells[c] EXCEPT ![row] = v] ELSE cells[d]
    BY <1>1, <2>1
  <2>4. \A d \in SsmCols : DOMAIN cells'[d] = 0..(rows - 1)
    BY <2>1, <2>3
  <2>5. CellsOf(cells', rows)
    <3>. SUFFICES ASSUME NEW d \in SsmCols, SsmKinds[d] = "string", NEW r \in 0..(rows - 1)
                  PROVE  cells'[d][r] \in Seq(Nat)
      BY DEF CellsOf
    <3>1. cells[d][r] \in Seq(Nat)
      BY <2>1 DEF CellsOf
    <3>2. cells'[d][r] = IF d = c /\ r = row THEN v ELSE cells[d][r]
      BY <2>1, <2>3
    <3>. QED
      BY <2>2, <3>1, <3>2
  <2>. QED
    BY <1>1, <2>3, <2>4, <2>5 DEF CellsFit
<1>. QED
  BY <1>1, <1>2, <1>3 DEF Shape

LEMMA AddKeepsShape ==
  ASSUME Shape, NEW n \in 1..MaxRows, AddRows(n)
  PROVE  Shape'
<1>1. /\ n \in Nat /\ rows' = rows + n /\ doing = "rest"
      /\ cells' = [c \in DOMAIN cells |-> [r \in 0..(rows + n - 1) |->
                     IF r < rows THEN cells[c][r] ELSE Default(kind, c)]]
      /\ UNCHANGED <<kind, dat, doing, todo, view>>
  BY DataManagersAssumption DEF AddRows
<1>2. DatFits'
  BY <1>1 DEF Shape, DatFits
<1>3. TodoFits'
  BY <1>1 DEF Shape, TodoFits
<1>4. ViewFits'
  BY <1>1 DEF Shape, ViewFits
<1>5. CellsFit'
  <2>. SUFFICES ASSUME kind = "ssm" PROVE CellsFit'
    BY <1>1 DEF CellsFit
  <2>1. DOMAIN cells = SsmCols /\ CellsOf(cells, rows) /\ rows \in Nat
    BY <1>1 DEF Shape, CellsFit, DatFits
  <2>2. /\ DOMAIN cells' = SsmCols
        /\ \A d \in SsmCols : cells'[d] = [r \in 0..(rows' - 1) |-> IF r < rows THEN cells[d][r] ELSE Default(kind, d)]
    BY <1>1, <2>1
  <2>3. \A d \in SsmCols : DOMAIN cells'[d] = 0..(rows' - 1)
    BY <2>2
  <2>4. ASSUME NEW d \in SsmCols, SsmKinds[d] = "string", NEW r \in 0..(rows' - 1)
        PROVE  cells'[d][r] \in Seq(Nat)
    <3>1. cells'[d][r] = IF r < rows THEN cells[d][r] ELSE Default(kind, d)
      <4>1. cells'[d] = [x \in 0..(rows' - 1) |-> IF x < rows THEN cells[d][x] ELSE Default(kind, d)]
        BY <2>2
      <4>. QED
        BY <4>1
    <3>2. Default(kind, d) = <<>>
      BY <2>4 DEF Default, SsmDefault
    <3>3. r < rows => cells[d][r] \in Seq(Nat)
      BY <1>1, <2>1, <2>4 DEF CellsOf
    <3>4. <<>> \in Seq(Nat)
      OBVIOUS
    <3>. QED
      BY <3>1, <3>2, <3>3, <3>4
  <2>5. CellsOf(cells', rows')
    BY <2>4 DEF CellsOf
  <2>. QED
    BY <1>1, <2>2, <2>3, <2>5 DEF CellsFit
<1>. QED
  BY <1>1, <1>2, <1>3, <1>4, <1>5 DEF Shape

(* The start of a flush.                                                   *)
LEMMA FlushKeepsShape ==
  ASSUME Shape, doing \in {"rest", "grow"}, NEW W, IsList(W), todo' = InPlace(W), doing' = "patch",
         UNCHANGED <<kind, dat, rows, cells, view>>
  PROVE  Shape'
<1>1. TodoFits'
  <2>. DEFINE A == InPlace(W)
  <2>1. \A j \in DOMAIN A : A[j].how = "inplace"
    <3>1. \A j \in DOMAIN A : A[j] = [how |-> "inplace", w |-> W[j]]
      BY InPlaceIsList
    <3>. HIDE DEF A
    <3>. QED
      BY <3>1
  <2>2. IsList(InPlace(W))
    BY InPlaceIsList
  <2>. QED
    BY <2>1, <2>2 DEF TodoFits, Fits
<1>2. DatFits' /\ CellsFit'
  BY DEF Shape, DatFits, CellsFit
<1>3. ViewFits'
  BY DEF Shape, ViewFits
<1>. QED
  BY <1>1, <1>2, <1>3 DEF Shape

LEMMA GrowKeepsShape ==
  ASSUME Shape, doing = "rest", NEW W, IsList(W), todo' = Append(InPlace(W), Counted(rows)), doing' = "grow",
         view' = IF view = <<>> THEN <<>> ELSE <<[view[1] EXCEPT !.reads = Readable(view[1])]>>,
         UNCHANGED <<kind, dat, rows, cells>>
  PROVE  Shape'
<1>1. TodoFits'
  <2>. DEFINE A == Append(InPlace(W), Counted(rows))
  <2>1. \A j \in DOMAIN A : A[j].how = "inplace" \/ A[j] = Counted(rows)
    <3>1. /\ Len(W) \in Nat /\ DOMAIN A = 1..(Len(W) + 1) /\ A[Len(W) + 1] = Counted(rows)
          /\ \A j \in 1..Len(W) : A[j] = [how |-> "inplace", w |-> W[j]]
      BY ListAppends
    <3>. HIDE DEF A
    <3>. TAKE j \in DOMAIN A
    <3>2. CASE j \in 1..Len(W)
      <4>1. A[j] = [how |-> "inplace", w |-> W[j]]
        BY <3>1, <3>2
      <4>. QED
        BY <4>1
    <3>3. CASE j = Len(W) + 1
      BY <3>1, <3>3
    <3>. QED
      BY <3>1, <3>2, <3>3
  <2>2. IsList(A)
    BY ListAppends
  <2>. HIDE DEF A
  <2>3. todo' = A
    BY DEF A
  <2>. QED
    BY <2>1, <2>2, <2>3 DEF TodoFits, Fits
<1>2. DatFits' /\ CellsFit'
  BY DEF Shape, DatFits, CellsFit
<1>3. ViewFits'
  <2>. SUFFICES ASSUME view # <<>> PROVE ViewFits'
    BY DEF ViewFits
  <2>. DEFINE v == view[1]
              n == [v EXCEPT !.reads = Readable(v)]
  <2>1. IsView(v) /\ v.nrow <= dat.nrow
    BY DEF Shape, ViewFits
  <2>2. IsView(n) /\ n.nrow = v.nrow /\ n.reads = Readable(v)
    BY <2>1 DEF IsView
  <2>3. Readable(v) \subseteq Columns(kind) \X (0..(v.nrow - 1))
    BY DEF Readable
  <2>4. view' = <<n>>
    OBVIOUS
  <2>. HIDE DEF v, n
  <2>. QED
    BY <2>1, <2>2, <2>3, <2>4 DEF ViewFits
<1>. QED
  BY <1>1, <1>2, <1>3 DEF Shape

LEMMA BuildIsList ==
  ASSUME NEW k, NEW f
  PROVE  LET B == BuildWrites(k, f)
         IN  /\ IsList(B) /\ 1 \in DOMAIN B /\ B[1] = Replaced(f)
             /\ \A j \in DOMAIN B : B[j] \in {Replaced(f), ReplacedAux(f)}
<1>. DEFINE B == BuildWrites(k, f)
            x == Replaced(f)
            y == ReplacedAux(f)
<1>1. B = <<x>> \/ B = <<x>> \o <<y>>
  <2>. DEFINE p == k = "ism" \/ (k = "ssm" /\ \A c \in SsmCols : SsmKinds[c] \notin Arrays)
  <2>1. B = <<x>> \o IF p THEN <<>> ELSE <<y>>
    BY DEF BuildWrites
  <2>. HIDE DEF B, p, x, y
  <2>2. CASE p
    BY <2>1, <2>2
  <2>3. CASE ~p
    BY <2>1, <2>3
  <2>. QED
    BY <2>2, <2>3
<1>. HIDE DEF B, x, y
<1>2. CASE B = <<x>>
  <2>1. IsList(<<x>>)
    <3>1. <<x>> \in Seq({x})
      OBVIOUS
    <3>. QED
      BY <3>1, SeqIsList
  <2>. QED
    BY <1>2, <2>1 DEF B, x, y
<1>3. CASE B = <<x>> \o <<y>>
  <2>1. IsList(<<x>> \o <<y>>) /\ \A j \in DOMAIN (<<x>> \o <<y>>) : (<<x>> \o <<y>>)[j] \in {x, y}
    BY ListOfTwo
  <2>2. 1 \in DOMAIN (<<x>> \o <<y>>) /\ (<<x>> \o <<y>>)[1] = x
    OBVIOUS
  <2>. QED
    BY <1>3, <2>1, <2>2 DEF B, x, y
<1>. QED
  BY <1>1, <1>2, <1>3

LEMMA Prefixed ==
  ASSUME NEW B, IsList(B), 1 \in DOMAIN B, NEW d
  PROVE  LET T == <<d>> \o B
         IN  /\ IsList(T) /\ T[1] = d /\ 2 \in DOMAIN T /\ T[2] = B[1]
             /\ \A j \in DOMAIN T : j \in Nat /\ (j = 1 \/ \E k \in DOMAIN B : T[j] = B[k])
<1>. DEFINE S == {B[k] : k \in DOMAIN B} \cup {d}
            n == Len(B)
<1>1. B \in Seq(S) /\ <<d>> \in Seq(S)
  <2>1. B \in Seq({B[k] : k \in DOMAIN B})
    BY DEF IsList
  <2>. QED
    BY <2>1
<1>2. n \in Nat /\ DOMAIN B = 1..n
  BY <1>1
<1>. HIDE DEF S, n
<1>. DEFINE T == <<d>> \o B
<1>3. /\ T \in Seq(S) /\ DOMAIN T = 1..(1 + n)
      /\ T[1] = d /\ \A j \in 1..n : T[1 + j] = B[j]
  BY <1>1, <1>2 DEF n
<1>. HIDE DEF T
<1>4. IsList(T)
  BY <1>3, SeqIsList
<1>5. 2 \in DOMAIN T /\ T[2] = B[1]
  <2>1. 1 \in 1..n
    BY <1>2
  <2>2. 1 + 1 = 2 /\ 2 \in 1..(1 + n)
    BY <1>2, <2>1
  <2>. QED
    BY <1>3, <2>1, <2>2
<1>6. ASSUME NEW j \in DOMAIN T PROVE j \in Nat /\ (j = 1 \/ \E k \in DOMAIN B : T[j] = B[k])
  <2>1. j \in 1..(1 + n)
    BY <1>3
  <2>2. CASE j # 1
    <3>1. j - 1 \in 1..n /\ 1 + (j - 1) = j
      BY <1>2, <2>1, <2>2
    <3>. QED
      BY <1>2, <1>3, <3>1
  <2>. QED
    BY <2>1, <2>2
<1>. QED
  BY <1>3, <1>4, <1>5, <1>6 DEF T

LEMMA RebuildKeepsShape ==
  ASSUME Shape, doing \in {"rest", "grow"}, NEW f, todo' = BuildWrites(kind, f), doing' = "rebuild",
         UNCHANGED <<kind, dat, rows, cells, view>>
  PROVE  Shape'
<1>1. TodoFits'
  <2>. DEFINE B == BuildWrites(kind, f)
  <2>1. IsList(B) /\ \A j \in DOMAIN B : B[j] \in {Replaced(f), ReplacedAux(f)}
    BY BuildIsList
  <2>. HIDE DEF B
  <2>2. \A j \in DOMAIN B : B[j].how \in {"main", "aux"}
    BY <2>1 DEF Replaced, ReplacedAux
  <2>3. todo' = B
    BY DEF B
  <2>. QED
    BY <2>1, <2>2, <2>3 DEF TodoFits, Fits
<1>2. DatFits' /\ CellsFit'
  BY DEF Shape, DatFits, CellsFit
<1>3. ViewFits'
  BY DEF Shape, ViewFits
<1>. QED
  BY <1>1, <1>2, <1>3 DEF Shape

LEMMA RewriteKeepsShape ==
  ASSUME Shape, doing = "rest", NEW f, todo' = <<NewDat(NewRows)>> \o BuildWrites(kind, f), doing' = "rebuild",
         UNCHANGED <<kind, dat, rows, cells, view>>
  PROVE  Shape'
<1>1. TodoFits'
  <2>. DEFINE B == BuildWrites(kind, f)
              T == <<NewDat(NewRows)>> \o B
  <2>1. IsList(B) /\ 1 \in DOMAIN B /\ B[1] = Replaced(f) /\ \A j \in DOMAIN B : B[j] \in {Replaced(f), ReplacedAux(f)}
    BY BuildIsList
  <2>. HIDE DEF B
  <2>2. /\ IsList(T) /\ T[1] = NewDat(NewRows) /\ 2 \in DOMAIN T /\ T[2] = B[1]
        /\ \A j \in DOMAIN T : j \in Nat /\ (j = 1 \/ \E k \in DOMAIN B : T[j] = B[k])
    BY <2>1, Prefixed
  <2>3. todo' = T
    BY DEF B
  <2>. HIDE DEF T
  <2>4. T[2].how = "main"
    BY <2>1, <2>2 DEF Replaced
  <2>5. \A j \in DOMAIN T : T[j].how \in {"main", "aux"} \/ (T[j] = NewDat(NewRows) /\ \E k \in DOMAIN T : k > j /\ T[k].how = "main")
    <3>. TAKE j \in DOMAIN T
    <3>1. CASE j = 1
      BY <2>2, <2>4, <3>1
    <3>2. CASE \E k \in DOMAIN B : T[j] = B[k]
      BY <2>1, <3>2 DEF Replaced, ReplacedAux
    <3>. QED
      BY <2>2, <3>1, <3>2
  <2>6. NewRows' = NewRows
    BY DEF NewRows
  <2>7. ASSUME NEW j \in DOMAIN T PROVE Fits(todo[j], j)'
    BY <2>3, <2>5, <2>6 DEF Fits
  <2>. QED
    BY <2>2, <2>3, <2>7 DEF TodoFits
<1>2. DatFits' /\ CellsFit'
  BY DEF Shape, DatFits, CellsFit
<1>3. ViewFits'
  BY DEF Shape, ViewFits
<1>. QED
  BY <1>1, <1>2, <1>3 DEF Shape

LEMMA EndKeepsShape ==
  ASSUME Shape, EndFlush
  PROVE  Shape'
<1>1. doing' = "rest" /\ todo = <<>> /\ UNCHANGED <<kind, dat, rows, cells, todo>> /\ doing # "dead"
  BY DEF EndFlush
<1>2. DatFits' /\ CellsFit' /\ TodoFits'
  <2>1. DatFits'
    BY <1>1 DEF Shape, DatFits
  <2>2. CellsFit'
    BY <1>1 DEF Shape, CellsFit
  <2>3. TodoFits'
    <3>1. todo' = <<>>
      BY <1>1
    <3>2. IsList(<<>>)
      BY DEF IsList
    <3>. QED
      BY <3>1, <3>2 DEF TodoFits
  <2>. QED
    BY <2>1, <2>2, <2>3
<1>3. ViewFits'
  <2>. SUFFICES ASSUME view # <<>> PROVE ViewFits'
    BY DEF ViewFits, EndFlush
  <2>. DEFINE v == view[1]
  <2>1. \E m : view' = <<[v EXCEPT !.may = m]>>
    BY DEF EndFlush
  <2>2. PICK m : view' = <<[v EXCEPT !.may = m]>>
    BY <2>1
  <2>3. IsView(v) /\ v.nrow <= dat.nrow
    BY DEF Shape, ViewFits
  <2>. DEFINE n == [v EXCEPT !.may = m]
  <2>4. IsView(n) /\ n.nrow = v.nrow
    BY <2>3 DEF IsView
  <2>. HIDE DEF v, n
  <2>. QED
    BY <1>1, <2>2, <2>3, <2>4 DEF ViewFits, n
<1>. QED
  BY <1>1, <1>2, <1>3 DEF Shape

LEMMA ViewOpens ==
  ASSUME OpenView
  PROVE  \E h, b, m : /\ Handle[1] = "ok" /\ h = Handle[2]
                      /\ view' = <<[h |-> h, spec |-> dat.spec, nrow |-> dat.nrow, main |-> <<>>, aux |-> <<>>,
                                   built |-> b, reads |-> {}, may |-> m]>>
<1>. DEFINE m == [c \in DOMAIN cells |-> [r \in 0..(dat.nrow - 1) |-> OldOrNew(c, r)]]
            b == doing = "rebuild"
<1>1. /\ Handle[1] = "ok"
      /\ view' = <<[h |-> Handle[2], spec |-> dat.spec, nrow |-> dat.nrow, main |-> <<>>, aux |-> <<>>,
                    built |-> b, reads |-> {}, may |-> m]>>
  BY DEF OpenView
<1>. HIDE DEF m, b
<1>. QED
  BY <1>1

LEMMA OpenKeepsShape ==
  ASSUME Shape, OpenView
  PROVE  Shape'
<1>1. doing # "dead" /\ UNCHANGED <<kind, dat, rows, cells, doing, todo>>
  BY DEF OpenView
<1>2. PICK h, b, m : view' = <<[h |-> h, spec |-> dat.spec, nrow |-> dat.nrow, main |-> <<>>, aux |-> <<>>,
                                 built |-> b, reads |-> {}, may |-> m]>>
  BY ViewOpens
<1>3. dat.nrow \in Nat
  BY DEF Shape, DatFits
<1>4. DatFits' /\ CellsFit' /\ TodoFits'
  <2>1. DatFits'
    BY <1>1 DEF Shape, DatFits
  <2>2. CellsFit'
    BY <1>1 DEF Shape, CellsFit
  <2>3. TodoFits'
    BY <1>1, TodoKept DEF Shape
  <2>. QED
    BY <2>1, <2>2, <2>3
<1>5. ViewFits'
  <2>. DEFINE n == [h |-> h, spec |-> dat.spec, nrow |-> dat.nrow, main |-> <<>>, aux |-> <<>>,
                    built |-> b, reads |-> {}, may |-> m]
  <2>1. IsView(n) /\ n.nrow = dat.nrow /\ n.reads = {}
    BY <1>3 DEF IsView
  <2>2. view' = <<n>>
    BY <1>2
  <2>. HIDE DEF n
  <2>3. view'[1] = n /\ view' = <<view'[1]>> /\ n.nrow <= dat'.nrow /\ doing' # "dead"
    BY <1>1, <1>3, <2>1, <2>2
  <2>4. IsView(view'[1])
    BY <2>1, <2>3
  <2>5. n.reads \subseteq Columns(kind') \X (0..(n.nrow - 1))
    BY <2>1
  <2>. QED
    BY <2>3, <2>4, <2>5 DEF ViewFits, IsView
<1>. QED
  BY <1>1, <1>4, <1>5 DEF Shape

LEMMA DieKeepsShape ==
  ASSUME Shape, Die
  PROVE  Shape'
BY DEF Shape, Die, DatFits, CellsFit, TodoFits, ViewFits

(* What a write leaves of an open handle: files that are replaced are      *)
(* kept, all else stays.                                                   *)
Keeps(v, n, w) ==
  /\ IsView(n) /\ n.h = v.h /\ n.spec = v.spec /\ n.nrow = v.nrow /\ n.reads = v.reads
  /\ n.main = IF w.how = "main" /\ v.main = <<>> /\ kind # "tsm" THEN <<file>> ELSE v.main
  /\ n.aux = IF w.how = "aux" /\ v.aux = <<>> THEN <<file>> ELSE v.aux
  /\ w.how \notin {"main", "aux"} => n = v

LEMMA BothReplaced ==
  ASSUME NEW v, NEW m, NEW a
  PROVE  [v EXCEPT !.main = m, !.aux = a] = [[v EXCEPT !.main = m] EXCEPT !.aux = a]
OBVIOUS

LEMMA OneReplaced ==
  ASSUME NEW h, NEW s, NEW r, NEW x, NEW y, NEW b, NEW p, NEW z, NEW m,
         NEW v, v = [h |-> h, spec |-> s, nrow |-> r, main |-> x, aux |-> y, built |-> b, reads |-> p, may |-> z]
  PROVE  /\ [v EXCEPT !.main = m] =
              [h |-> h, spec |-> s, nrow |-> r, main |-> m, aux |-> y, built |-> b, reads |-> p, may |-> z]
         /\ [v EXCEPT !.aux = m] =
              [h |-> h, spec |-> s, nrow |-> r, main |-> x, aux |-> m, built |-> b, reads |-> p, may |-> z]
OBVIOUS

LEMMA WriteKeeps ==
  ASSUME view # <<>>, IsView(view[1]), NEW w
  PROVE  \E n : Kept(view, w) = <<n>> /\ Keeps(view[1], n, w)
<1>. DEFINE v == view[1]
            m == IF w.how = "main" /\ v.main = <<>> /\ kind # "tsm" THEN <<file>> ELSE v.main
            a == IF w.how = "aux" /\ v.aux = <<>> THEN <<file>> ELSE v.aux
            n == [v EXCEPT !.main = m, !.aux = a]
<1>1. Kept(view, w) = <<n>>
  BY DEF Kept
<1>. HIDE DEF m, a
<1>0. /\ v.nrow \in Nat
      /\ v = [h |-> v.h, spec |-> v.spec, nrow |-> v.nrow, main |-> v.main, aux |-> v.aux,
              built |-> v.built, reads |-> v.reads, may |-> v.may]
  BY DEF IsView
<1>. HIDE DEF v
<1>9. n = [h |-> v.h, spec |-> v.spec, nrow |-> v.nrow, main |-> m, aux |-> a,
            built |-> v.built, reads |-> v.reads, may |-> v.may]
  <2>. DEFINE u == [v EXCEPT !.main = m]
  <2>1. u =
          [h |-> v.h, spec |-> v.spec, nrow |-> v.nrow, main |-> m, aux |-> v.aux,
           built |-> v.built, reads |-> v.reads, may |-> v.may]
    BY <1>0, OneReplaced
  <2>2. n = [u EXCEPT !.aux = a]
    BY BothReplaced
  <2>. HIDE DEF u, n
  <2>3. [u EXCEPT !.aux = a] =
          [h |-> v.h, spec |-> v.spec, nrow |-> v.nrow, main |-> m, aux |-> a,
           built |-> v.built, reads |-> v.reads, may |-> v.may]
    BY <2>1, OneReplaced
  <2>. QED
    BY <2>2, <2>3
<1>3. m = v.main /\ a = v.aux => n = v
  BY <1>0, <1>9
<1>. HIDE DEF n
<1>2. /\ IsView(n) /\ n.h = v.h /\ n.spec = v.spec /\ n.nrow = v.nrow /\ n.reads = v.reads
      /\ n.main = m /\ n.aux = a
  BY <1>0, <1>9 DEF IsView
<1>4. w.how \notin {"main", "aux"} => m = v.main /\ a = v.aux
  BY DEF m, a
<1>5. Keeps(v, n, w)
  BY <1>2, <1>3, <1>4 DEF Keeps, m, a
<1>. QED
  BY <1>1, <1>5 DEF v, n

(* A write and the list of those to come.                                  *)
LEMMA WriteTakes ==
  ASSUME Shape, Write
  PROVE  /\ Fits(todo[1], 1) /\ 1 \in DOMAIN todo /\ IsList(todo') /\ doing \in {"grow", "patch", "rebuild"}
         /\ Len(todo) \in Nat \ {0} /\ Len(todo') = Len(todo) - 1 /\ DOMAIN todo = 1..Len(todo)
         /\ DOMAIN todo' = 1..(Len(todo) - 1)
         /\ \A j \in DOMAIN todo' : j \in Nat /\ j + 1 \in DOMAIN todo /\ todo'[j] = todo[j + 1]
         /\ \A j \in DOMAIN todo : j # 1 => j - 1 \in DOMAIN todo' /\ todo'[j - 1] = todo[j]
         /\ UNCHANGED <<kind, rows, cells, doing>>
         /\ view' = Kept(view, todo[1])
         /\ todo[1].how = "inplace" => file' = ApplyWrite(kind, file, todo[1].w) /\ dat' = dat
         /\ todo[1].how = "main" => file' = WithMain(kind, file, todo[1].f) /\ dat' = dat
         /\ todo[1].how = "aux" => file' = WithAux(kind, file, todo[1].f) /\ dat' = dat
         /\ todo[1].how = "count" => file' = file /\ dat' = [dat EXCEPT !.nrow = todo[1].n]
         /\ todo[1].how = "dat" => file' = file /\ dat' = todo[1].d
<1>1. IsList(todo) /\ todo # <<>> /\ todo' = Tail(todo) /\ doing \in {"grow", "patch", "rebuild"} /\ doing # "dead"
  BY DEF Shape, TodoFits, Write
<1>2. /\ Head(todo) = todo[1] /\ 1 \in DOMAIN todo /\ IsList(Tail(todo)) /\ Len(todo) \in Nat \ {0}
      /\ Len(Tail(todo)) = Len(todo) - 1 /\ DOMAIN todo = 1..Len(todo)
      /\ DOMAIN Tail(todo) = 1..(Len(todo) - 1)
      /\ \A j \in DOMAIN Tail(todo) : j + 1 \in DOMAIN todo /\ Tail(todo)[j] = todo[j + 1]
      /\ \A j \in DOMAIN todo : j # 1 => j - 1 \in DOMAIN Tail(todo) /\ Tail(todo)[j - 1] = todo[j]
  BY <1>1, FirstTaken
<1>3. Fits(todo[1], 1)
  BY <1>1, <1>2 DEF Shape, TodoFits
<1>4. /\ UNCHANGED <<kind, rows, cells, doing>> /\ view' = Kept(view, todo[1])
      /\ file' = CASE todo[1].how = "inplace" -> ApplyWrite(kind, file, todo[1].w)
                   [] todo[1].how = "main"    -> WithMain(kind, file, todo[1].f)
                   [] todo[1].how = "aux"     -> WithAux(kind, file, todo[1].f)
                   [] OTHER -> file
      /\ dat' = CASE todo[1].how = "count" -> [dat EXCEPT !.nrow = todo[1].n]
                  [] todo[1].how = "dat"   -> todo[1].d
                  [] OTHER -> dat
  BY <1>2 DEF Write
<1>5. \A j \in DOMAIN Tail(todo) : j \in Nat
  BY <1>2
<1>6. /\ todo[1].how = "inplace" => file' = ApplyWrite(kind, file, todo[1].w) /\ dat' = dat
      /\ todo[1].how = "main" => file' = WithMain(kind, file, todo[1].f) /\ dat' = dat
      /\ todo[1].how = "aux" => file' = WithAux(kind, file, todo[1].f) /\ dat' = dat
      /\ todo[1].how = "count" => file' = file /\ dat' = [dat EXCEPT !.nrow = todo[1].n]
      /\ todo[1].how = "dat" => file' = file /\ dat' = todo[1].d
  BY <1>4
<1>. QED
  BY <1>1, <1>2, <1>3, <1>4, <1>5, <1>6

LEMMA WriteKeepsShape ==
  ASSUME Shape, Write
  PROVE  Shape'
<1>. DEFINE w == todo[1]
<1>1. /\ Fits(w, 1) /\ IsList(todo') /\ doing \in {"grow", "patch", "rebuild"}
      /\ \A j \in DOMAIN todo' : j \in Nat /\ j + 1 \in DOMAIN todo /\ todo'[j] = todo[j + 1]
      /\ \A j \in DOMAIN todo : j # 1 => j - 1 \in DOMAIN todo' /\ todo'[j - 1] = todo[j]
      /\ UNCHANGED <<kind, rows, cells, doing>> /\ view' = Kept(view, w)
      /\ DOMAIN todo = 1..Len(todo)
  BY WriteTakes
<1>2. /\ w.how \in {"inplace", "main", "aux"} => dat' = dat
      /\ w.how = "count" => dat' = [dat EXCEPT !.nrow = w.n]
      /\ w.how = "dat" => dat' = w.d
  BY WriteTakes
<1>3. DatFits /\ rows \in Nat
  BY DEF Shape, DatFits
<1>4. DatFits' /\ dat.nrow <= dat'.nrow
  <2>1. CASE w.how \in {"inplace", "main", "aux"}
    BY <1>1, <1>2, <1>3, <2>1 DEF DatFits
  <2>2. CASE w = Counted(rows)
    <3>1. dat' = [dat EXCEPT !.nrow = rows]
      BY <1>2, <2>2 DEF Counted
    <3>. QED
      BY <1>1, <1>3, <3>1 DEF DatFits
  <2>3. CASE w = NewDat(NewRows)
    <3>1. dat' = NewRows
      BY <1>2, <2>3 DEF NewDat
    <3>. QED
      BY <1>1, <1>3, <3>1 DEF DatFits, NewRows
  <2>. QED
    BY <1>1, <2>1, <2>2, <2>3 DEF Fits
<1>5. TodoFits'
  <2>. SUFFICES ASSUME NEW j \in DOMAIN todo' PROVE Fits(todo[j], j)'
    BY <1>1 DEF TodoFits
  <2>1. j \in Nat /\ j + 1 \in DOMAIN todo /\ todo'[j] = todo[j + 1]
    BY <1>1
  <2>2. Fits(todo[j + 1], j + 1)
    BY <1>1, <2>1 DEF Shape, TodoFits
  <2>3. CASE doing \in {"grow", "patch"}
    BY <1>1, <2>1, <2>2, <2>3 DEF Fits
  <2>4. CASE doing = "rebuild"
    <3>1. CASE todo[j + 1].how \in {"main", "aux"}
      BY <1>1, <2>1, <2>4, <3>1 DEF Fits
    <3>2. CASE todo[j + 1] = NewDat(NewRows) /\ \E k \in DOMAIN todo : k > j + 1 /\ todo[k].how = "main"
      <4>1. PICK k \in DOMAIN todo : k > j + 1 /\ todo[k].how = "main"
        BY <3>2
      <4>2. k \in Nat /\ k # 1 /\ k - 1 > j
        <5>1. k \in Int
          BY <1>1
        <5>. QED
          BY <2>1, <4>1, <5>1
      <4>3. k - 1 \in DOMAIN todo' /\ todo'[k - 1] = todo[k]
        BY <1>1, <4>2
      <4>4. NewRows' = NewRows
        BY <1>1 DEF NewRows
      <4>5. todo'[j] = NewDat(NewRows') /\ \E i \in DOMAIN todo' : i > j /\ todo'[i].how = "main"
        BY <2>1, <3>2, <4>1, <4>2, <4>3, <4>4
      <4>. QED
        BY <1>1, <2>4, <4>5 DEF Fits
    <3>. QED
      BY <2>2, <2>4, <3>1, <3>2 DEF Fits
  <2>. QED
    BY <1>1, <2>3, <2>4
<1>6. ViewFits'
  <2>. SUFFICES ASSUME view # <<>> PROVE ViewFits'
    BY <1>1 DEF ViewFits, Kept
  <2>1. /\ IsView(view[1]) /\ view[1].nrow <= dat.nrow
        /\ doing = "grow" => view[1].reads \subseteq Columns(kind) \X (0..(view[1].nrow - 1))
    BY DEF Shape, ViewFits
  <2>2. PICK n : view' = <<n>> /\ Keeps(view[1], n, w)
    BY <1>1, <2>1, WriteKeeps
  <2>3. view'[1] = n /\ view' = <<view'[1]>> /\ IsView(n) /\ n.nrow = view[1].nrow /\ n.reads = view[1].reads
    BY <2>2 DEF Keeps
  <2>4. n.nrow <= dat'.nrow
    <3>1. view[1].nrow \in Nat /\ dat.nrow \in Nat /\ dat'.nrow \in Nat
      BY <1>3, <1>4, <2>1 DEF IsView, DatFits
    <3>. QED
      BY <1>4, <2>1, <2>3, <3>1
  <2>5. doing' # "dead" /\ (doing' = "grow" => n.reads \subseteq Columns(kind') \X (0..(n.nrow - 1)))
    BY <1>1, <2>1, <2>3
  <2>. QED
    BY <2>3, <2>4, <2>5 DEF ViewFits, IsView
<1>7. CellsFit'
  BY <1>1 DEF Shape, CellsFit
<1>. QED
  BY <1>1, <1>4, <1>5, <1>6, <1>7 DEF Shape

-----------------------------------------------------------------------------
(* A StandardStMan.                                                        *)

(* Its files are whole, and its handles find their rows in them.           *)
Whole(ix, chain) ==
  /\ SsmSound(file, ix, chain) /\ Apart(dat.spec, ix.rpb)
  /\ view # <<>> => Abreast(view[1], ix, dat.spec)
  /\ doing = "patch" => \A j \in DOMAIN todo : Mild(ix, todo[j].w)

Steady ==
  \/ doing \in {"rest", "patch"}
  \/ doing = "grow" /\ todo = <<>>
  \/ doing = "rebuild" /\ \A j \in DOMAIN todo : todo[j].how # "main"

(* Or s writes of a growth have been made.                                 *)
Growing(g, W, s) ==
  /\ GrowthOf(g) /\ WritesOf(g, W) /\ IsList(W) /\ s \in 0..Len(W) /\ Along(g, W, s, file)
  /\ g.spec = dat.spec /\ g.old = dat.nrow /\ Apart(dat.spec, g.nix.rpb)
  /\ Len(todo) = Len(W) - s + 1 /\ todo[Len(todo)] = Counted(rows)
  /\ \A j \in 1..(Len(W) - s) : todo[j] = [how |-> "inplace", w |-> W[s + j]]
  /\ view # <<>> => Abreast(view[1], g.ix, dat.spec) /\ ReadsIn("ssm", view[1], g.f0)

(* Or new files are to take their place.                                   *)
Renewing ==
  \A j \in DOMAIN todo : todo[j].how = "main" =>
    \E ix, chain : SsmSound(todo[j].f, ix, chain) /\ ix.rpb = SsmRpb

SsmInv ==
  kind = "ssm" /\ doing # "dead" =>
    /\ Apart(dat.spec, SsmRpb) /\ IsSsm(file)
    /\ view # <<>> => Frozen(view[1])
    /\ Steady => \E ix, chain : Whole(ix, chain)
    /\ doing = "grow" /\ todo # <<>> => \E g, W, s : Growing(g, W, s)
    /\ doing = "grow" /\ todo = <<>> /\ view # <<>> => ReadsIn("ssm", view[1], file)
    /\ doing = "rebuild" => Renewing

LEMMA SsmBegins ==
  Init => SsmInv
<1>. SUFFICES ASSUME NEW l \in Layouts,
                     kind = l.kind, dat = [nrow |-> l.nrow, big |-> l.big, spec |-> l.spec], rows = l.nrow,
                     file = l.file, todo = <<>>, doing = "rest", view = <<>>, kind = "ssm"
              PROVE  SsmInv
  BY DEF Init, SsmInv
<1>. DEFINE ix == ReadIndex(l.file)[2]
            chain == IndexChain(l.file)
<1>1. SsmSound(l.file, ix, chain) /\ Apart(l.spec, SsmRpb) /\ Apart(l.spec, ix.rpb)
  BY LayoutsAssumption
<1>. HIDE DEF ix, chain
<1>2. dat.spec = l.spec
  OBVIOUS
<1>3. IsSsm(file)
  BY <1>1 DEF SsmSound, IsSsm
<1>4. Whole(ix, chain)
  BY <1>1, <1>2 DEF Whole
<1>. QED
  BY <1>1, <1>2, <1>3, <1>4 DEF SsmInv

(* Cells are put, rows added and flushes ended with the files as they are. *)
LEMMA SsmRests ==
  ASSUME Shape, SsmInv, Steady, UNCHANGED <<kind, dat, file>>, doing' = "rest", todo' = <<>>,
         view' = view \/ \E n : /\ view # <<>> /\ view' = <<n>> /\ n.h = view[1].h /\ n.spec = view[1].spec
                                /\ n.nrow = view[1].nrow /\ n.main = view[1].main
  PROVE  SsmInv'
<1>. SUFFICES ASSUME kind = "ssm" PROVE SsmInv'
  BY DEF SsmInv
<1>1. doing # "dead"
  BY DEF Steady
<1>2. /\ Apart(dat.spec, SsmRpb) /\ IsSsm(file) /\ (view # <<>> => Frozen(view[1]))
      /\ \E ix, chain : Whole(ix, chain)
  BY <1>1 DEF SsmInv
<1>3. PICK ix, chain : Whole(ix, chain)
  BY <1>2
<1>4. view' # <<>> => /\ view # <<>> /\ view'[1].h = view[1].h /\ view'[1].spec = view[1].spec
                      /\ view'[1].nrow = view[1].nrow /\ view'[1].main = view[1].main
  OBVIOUS
<1>5. (view # <<>> => Frozen(view[1]))'
  BY <1>2, <1>4 DEF Frozen
<1>6. Whole(ix, chain)'
  <2>1. view' # <<>> => Abreast(view'[1], ix, dat.spec)
    BY <1>3, <1>4 DEF Whole, Abreast
  <2>. QED
    BY <1>3, <2>1 DEF Whole
<1>7. \E i, c : Whole(i, c)'
  BY <1>6
<1>. QED
  BY <1>2, <1>5, <1>7 DEF SsmInv

LEMMA SsmGrows ==
  ASSUME Shape, SsmInv, BeginGrow, kind = "ssm"
  PROVE  SsmInv' /\ IsList(Growth(Handle[2]))
<1>. DEFINE h == Handle[2]
<1>0. PICK W : W = Growth(h)
  OBVIOUS
<1>1. /\ doing = "rest" /\ rows > dat.nrow /\ Handle[1] = "ok" /\ CanGrow(h)
      /\ todo' = Append(InPlace(W), Counted(rows)) /\ doing' = "grow"
      /\ UNCHANGED <<kind, dat, file, rows>>
      /\ view' = IF view = <<>> THEN <<>> ELSE <<[view[1] EXCEPT !.reads = Readable(view[1])]>>
  BY <1>0 DEF BeginGrow
<1>2. Apart(dat.spec, SsmRpb) /\ IsSsm(file) /\ (view # <<>> => Frozen(view[1])) /\ \E ix, chain : Whole(ix, chain)
  BY <1>1 DEF SsmInv, Steady
<1>3. PICK ix, chain : Whole(ix, chain)
  BY <1>2
<1>4. SsmSound(file, ix, chain) /\ Apart(dat.spec, ix.rpb) /\ (view # <<>> => Abreast(view[1], ix, dat.spec))
  BY <1>3 DEF Whole
<1>5. h.index = ix
  <2>1. SsmOpen(file, dat.big)[1] = "ok" /\ h = SsmOpen(file, dat.big)[2]
    BY <1>1 DEF Handle, OpenManager
  <2>2. h.index = ReadIndex(file)[2]
    BY <2>1, OpenedIndex
  <2>3. ReadIndex(file) = Found(ix)
    <3>1. IndexSound(ix) /\ ChainSound(file, ix, chain) /\ IdxCap \in Nat \ {0}
      BY <1>4, StandardStManAssumption DEF SsmSound
    <3>. QED
      BY <3>1, IndexReadsBack
  <2>. QED
    BY <2>2, <2>3 DEF Found
<1>6. Rows(ix) = dat.nrow
  BY <1>1, <1>5 DEF CanGrow, SsmCanGrow, Rows
<1>7. W = SsmGrow(file, h, dat.spec, Zero, dat.nrow, rows)
  BY <1>0 DEF Growth
<1>. HIDE DEF h
<1>8. PICK g : Begins(g, W, file, ix, dat.spec, dat.nrow)
  <2>1. dat.nrow \in Nat /\ rows \in Nat /\ dat.nrow < rows /\ IdxCap \in Nat \ {0}
    BY <1>1, StandardStManAssumption DEF Shape, DatFits
  <2>. QED
    BY <1>4, <1>5, <1>6, <1>7, <2>1, GrowthIsOne
<1>9. /\ GrowthOf(g) /\ WritesOf(g, W) /\ IsList(W) /\ g.f0 = file /\ g.ix = ix /\ g.spec = dat.spec
      /\ g.old = dat.nrow /\ g.nix.rpb = ix.rpb
  BY <1>8 DEF Begins
<1>10. Along(g, W, 0, file)
  BY <1>9, AlongBegins
<1>11. /\ Len(W) \in Nat /\ Len(todo') = Len(W) - 0 + 1 /\ todo'[Len(todo')] = Counted(rows)
       /\ \A j \in 1..(Len(W) - 0) : todo'[j] = [how |-> "inplace", w |-> W[0 + j]]
  <2>. DEFINE A == Append(InPlace(W), Counted(rows))
  <2>1. /\ Len(W) \in Nat /\ Len(A) = Len(W) + 1 /\ A[Len(W) + 1] = Counted(rows)
        /\ \A j \in 1..Len(W) : A[j] = [how |-> "inplace", w |-> W[j]]
    BY <1>9, ListAppends
  <2>2. todo' = A
    BY <1>1
  <2>. HIDE DEF A
  <2>. QED
    BY <2>1, <2>2
<1>12. (view # <<>> => Abreast(view[1], g.ix, dat.spec) /\ ReadsIn("ssm", view[1], g.f0) /\ Frozen(view[1]))'
  <2>. SUFFICES ASSUME view # <<>>
                PROVE  (Abreast(view[1], g.ix, dat.spec) /\ ReadsIn("ssm", view[1], g.f0) /\ Frozen(view[1]))'
    BY <1>1
  <2>. DEFINE v == view[1]
              n == [v EXCEPT !.reads = Readable(v)]
  <2>1. IsView(v)
    BY DEF Shape, ViewFits
  <2>2. /\ n.h = v.h /\ n.spec = v.spec /\ n.nrow = v.nrow /\ n.main = v.main /\ n.aux = v.aux /\ n.reads = Readable(v)
    BY <2>1 DEF IsView
  <2>3. view'[1] = n
    BY <1>1
  <2>4. SeenIn("ssm", n, file) = Seen(v)
    <3>. HIDE DEF n, v
    <3>. QED
      BY <2>2 DEF SeenIn, Seen
  <2>5. ReadsIn("ssm", n, file)
    <3>1. \A p \in Readable(v) : SeenCell(v, p[1], p[2]) # Broken
      BY DEF Readable
    <3>2. \A p \in Readable(v) : ReadCell("ssm", Seen(v), v.h, v.spec, p[1], p[2]) # Broken
      BY <3>1 DEF SeenCell
    <3>. HIDE DEF n, v
    <3>. QED
      BY <2>2, <2>4, <3>2 DEF ReadsIn
  <2>6. Abreast(n, g.ix, dat.spec) /\ Frozen(n)
    <3>. HIDE DEF n
    <3>. QED
      BY <1>2, <1>4, <1>9, <2>2 DEF Abreast, Frozen
  <2>. HIDE DEF n, v
  <2>. QED
    BY <1>1, <1>9, <2>3, <2>5, <2>6
<1>13. Growing(g, W, 0)'
  BY <1>1, <1>4, <1>9, <1>10, <1>11, <1>12 DEF Growing
<1>14. \E i, U, s : Growing(i, U, s)'
  BY <1>13
<1>15. todo' # <<>>
  BY <1>11
<1>16. ~Steady'
  BY <1>1, <1>15 DEF Steady
<1>. QED
  BY <1>0, <1>1, <1>2, <1>9, <1>12, <1>14, <1>15, <1>16 DEF SsmInv, h

LEMMA HandleHasIndex ==
  ASSUME kind = "ssm", NEW ix, NEW chain, SsmSound(file, ix, chain), Handle[1] = "ok"
  PROVE  Handle[2].index = ix
<1>1. SsmOpen(file, dat.big)[1] = "ok" /\ Handle[2] = SsmOpen(file, dat.big)[2]
  BY DEF Handle, OpenManager
<1>2. Handle[2].index = ReadIndex(file)[2]
  BY <1>1, OpenedIndex
<1>3. ReadIndex(file) = Found(ix)
  <2>1. IndexSound(ix) /\ ChainSound(file, ix, chain) /\ IdxCap \in Nat \ {0}
    BY StandardStManAssumption DEF SsmSound
  <2>. QED
    BY <2>1, IndexReadsBack
<1>. QED
  BY <1>2, <1>3 DEF Found

LEMMA SsmPatches ==
  ASSUME Shape, SsmInv, BeginPatch, kind = "ssm"
  PROVE  SsmInv' /\ IsList(Patch(Handle[2]))
<1>. DEFINE h == Handle[2]
<1>0. PICK W : W = Patch(h)
  OBVIOUS
<1>1. /\ doing = "rest" \/ (doing = "grow" /\ todo = <<>>)
      /\ Handle[1] = "ok" /\ CanPatch(h) /\ todo' = InPlace(W) /\ doing' = "patch"
      /\ UNCHANGED <<kind, dat, file, rows, view>>
  BY <1>0 DEF BeginPatch
<1>2. Apart(dat.spec, SsmRpb) /\ IsSsm(file) /\ (view # <<>> => Frozen(view[1])) /\ \E ix, chain : Whole(ix, chain)
  BY <1>1 DEF SsmInv, Steady
<1>3. PICK ix, chain : Whole(ix, chain)
  BY <1>2
<1>4. SsmSound(file, ix, chain) /\ Apart(dat.spec, ix.rpb) /\ (view # <<>> => Abreast(view[1], ix, dat.spec))
  BY <1>3 DEF Whole
<1>5. h.index = ix
  BY <1>1, <1>4, HandleHasIndex
<1>6. \E p : W = SsmPatch(file, h, dat.spec, p) /\ SsmCanPatch(h, p)
  BY <1>0, <1>1 DEF CanPatch, Patch
<1>. HIDE DEF h
<1>7. PICK p : W = SsmPatch(file, h, dat.spec, p) /\ SsmCanPatch(h, p)
  BY <1>6
<1>8. MildWrites(ix, W)
  BY <1>4, <1>5, <1>7, PatchIsMild
<1>9. IsList(W) /\ \A j \in DOMAIN W : Mild(ix, W[j])
  BY <1>8 DEF MildWrites
<1>10. \A j \in DOMAIN todo' : Mild(ix, todo'[j].w)
  <2>. DEFINE A == InPlace(W)
  <2>1. DOMAIN A = DOMAIN W /\ \A j \in DOMAIN W : A[j] = [how |-> "inplace", w |-> W[j]]
    BY <1>9, InPlaceIsList
  <2>2. todo' = A
    BY <1>1
  <2>. HIDE DEF A
  <2>3. \A j \in DOMAIN W : A[j].w = W[j]
    BY <2>1
  <2>. QED
    BY <1>9, <2>1, <2>2, <2>3
<1>11. Whole(ix, chain)'
  BY <1>1, <1>4, <1>10 DEF Whole
<1>12. \E i, c : Whole(i, c)'
  BY <1>11
<1>13. (view # <<>> => Frozen(view[1]))'
  BY <1>1, <1>2
<1>. QED
  BY <1>0, <1>1, <1>2, <1>9, <1>12, <1>13 DEF SsmInv, h

(* New files for the cells.                                                *)
LEMMA SsmRenews ==
  ASSUME Shape, SsmInv, doing # "dead", kind = "ssm", doing' = "rebuild",
         NEW B, B = BuildWrites("ssm", SsmBuild(rows, cells)), IsList(todo'),
         1 \in DOMAIN B, B[1] = Replaced(SsmBuild(rows, cells)),
         \A j \in DOMAIN B : B[j] \in {Replaced(SsmBuild(rows, cells)), ReplacedAux(SsmBuild(rows, cells))},
         \A j \in DOMAIN todo' : todo'[j].how = "dat" \/ \E k \in DOMAIN B : todo'[j] = B[k],
         \E j \in DOMAIN todo' : todo'[j] = B[1],
         UNCHANGED <<kind, dat, file, view>>
  PROVE  SsmInv'
<1>0. PICK f : f = SsmBuild(rows, cells)
  OBVIOUS
<1>1. Apart(dat.spec, SsmRpb) /\ IsSsm(file) /\ (view # <<>> => Frozen(view[1]))
  BY DEF SsmInv
<1>2. \E ix, chain : SsmSound(f, ix, chain) /\ ix.rpb = SsmRpb
  <2>1. rows \in Nat /\ CellsOf(cells, rows)
    BY DEF Shape, DatFits, CellsFit
  <2>2. \E chain : SsmSound(SsmBuild(rows, cells), BuildIndex(rows), chain) /\ BuildIndex(rows).rpb = SsmRpb
    BY <2>1, BuildIsSound
  <2>. QED
    BY <1>0, <2>2
<1>3. ASSUME NEW j \in DOMAIN todo', todo'[j].how = "main" PROVE todo'[j].f = f
  <2>1. PICK k \in DOMAIN B : todo'[j] = B[k]
    BY <1>3
  <2>2. todo'[j] \in {Replaced(f), ReplacedAux(f)}
    BY <1>0, <2>1
  <2>. QED
    BY <1>3, <2>2 DEF Replaced, ReplacedAux
<1>4. Renewing'
  BY <1>2, <1>3 DEF Renewing
<1>5. ~Steady'
  <2>1. PICK j \in DOMAIN todo' : todo'[j] = B[1]
    OBVIOUS
  <2>2. todo'[j].how = "main"
    BY <2>1 DEF Replaced
  <2>. QED
    BY <2>2 DEF Steady
<1>6. (view # <<>> => Frozen(view[1]))'
  BY <1>1
<1>. QED
  BY <1>1, <1>4, <1>5, <1>6 DEF SsmInv

LEMMA SsmRebuilds ==
  ASSUME Shape, SsmInv, BeginRebuild, kind = "ssm"
  PROVE  SsmInv'
<1>0. PICK B : B = BuildWrites("ssm", SsmBuild(rows, cells))
  OBVIOUS
<1>1. doing # "dead" /\ todo' = B /\ doing' = "rebuild" /\ UNCHANGED <<kind, dat, file, view>>
  BY <1>0 DEF BeginRebuild, Build
<1>2. /\ IsList(B) /\ 1 \in DOMAIN B /\ B[1] = Replaced(SsmBuild(rows, cells))
      /\ \A j \in DOMAIN B : B[j] \in {Replaced(SsmBuild(rows, cells)), ReplacedAux(SsmBuild(rows, cells))}
  BY <1>0, BuildIsList
<1>. QED
  BY <1>0, <1>1, <1>2, SsmRenews

LEMMA SsmRewrites ==
  ASSUME Shape, SsmInv, BeginRewrite, kind = "ssm"
  PROVE  SsmInv'
<1>0. PICK B : B = BuildWrites("ssm", SsmBuild(rows, cells))
  OBVIOUS
<1>1. /\ doing # "dead" /\ todo' = <<NewDat(NewRows)>> \o B /\ doing' = "rebuild"
      /\ UNCHANGED <<kind, dat, file, view>>
  BY <1>0 DEF BeginRewrite, Build, NewRows
<1>2. /\ IsList(B) /\ 1 \in DOMAIN B /\ B[1] = Replaced(SsmBuild(rows, cells))
      /\ \A j \in DOMAIN B : B[j] \in {Replaced(SsmBuild(rows, cells)), ReplacedAux(SsmBuild(rows, cells))}
  BY <1>0, BuildIsList
<1>3. /\ IsList(todo') /\ 2 \in DOMAIN todo' /\ todo'[2] = B[1] /\ todo'[1] = NewDat(NewRows)
      /\ \A j \in DOMAIN todo' : j = 1 \/ \E k \in DOMAIN B : todo'[j] = B[k]
  <2>. DEFINE T == <<NewDat(NewRows)>> \o B
  <2>1. /\ IsList(T) /\ 2 \in DOMAIN T /\ T[2] = B[1] /\ T[1] = NewDat(NewRows)
        /\ \A j \in DOMAIN T : j = 1 \/ \E k \in DOMAIN B : T[j] = B[k]
    BY <1>2, Prefixed
  <2>2. todo' = T
    BY <1>1
  <2>. HIDE DEF T
  <2>. QED
    BY <2>1, <2>2
<1>4. \A j \in DOMAIN todo' : todo'[j].how = "dat" \/ \E k \in DOMAIN B : todo'[j] = B[k]
  BY <1>3 DEF NewDat
<1>5. \E j \in DOMAIN todo' : todo'[j] = B[1]
  BY <1>3
<1>. QED
  BY <1>0, <1>1, <1>2, <1>3, <1>4, <1>5, SsmRenews

LEMMA SsmOpens ==
  ASSUME Shape, SsmInv, OpenView, kind = "ssm"
  PROVE  SsmInv'
<1>1. doing # "dead" /\ UNCHANGED <<kind, dat, file, rows, doing, todo>>
  BY DEF OpenView
<1>2. PICK h, b, m : /\ Handle[1] = "ok" /\ h = Handle[2]
                     /\ view' = <<[h |-> h, spec |-> dat.spec, nrow |-> dat.nrow, main |-> <<>>, aux |-> <<>>,
                                   built |-> b, reads |-> {}, may |-> m]>>
  BY ViewOpens
<1>. DEFINE n == view'[1]
<1>3. n.h = h /\ n.spec = dat.spec /\ n.nrow = dat.nrow /\ n.main = <<>> /\ n.reads = {} /\ view' # <<>>
  BY <1>2
<1>. HIDE DEF n
<1>4. /\ Apart(dat.spec, SsmRpb) /\ IsSsm(file)
      /\ Steady => \E ix, chain : Whole(ix, chain)
      /\ doing = "grow" /\ todo # <<>> => \E g, W, s : Growing(g, W, s)
      /\ doing = "rebuild" => Renewing
  BY <1>1 DEF SsmInv
<1>5. Frozen(n) /\ \A f : ReadsIn("ssm", n, f)
  BY <1>3 DEF Frozen, ReadsIn
<1>6. Steady' => \E ix, chain : Whole(ix, chain)'
  <2>. SUFFICES ASSUME Steady' PROVE \E ix, chain : Whole(ix, chain)'
    OBVIOUS
  <2>1. Steady
    BY <1>1 DEF Steady
  <2>2. PICK ix, chain : Whole(ix, chain)
    BY <1>4, <2>1
  <2>3. h.index = ix
    BY <1>2, <2>2, HandleHasIndex DEF Whole
  <2>4. Abreast(n, ix, dat.spec)
    BY <1>3, <2>3 DEF Abreast, Follows
  <2>5. Whole(ix, chain)'
    BY <1>1, <2>2, <2>4 DEF Whole, n
  <2>. QED
    BY <2>5
<1>7. doing = "grow" /\ todo # <<>> => \E g, W, s : Growing(g, W, s)'
  <2>. SUFFICES ASSUME doing = "grow", todo # <<>> PROVE \E g, W, s : Growing(g, W, s)'
    OBVIOUS
  <2>1. PICK g, W, s : Growing(g, W, s)
    BY <1>4
  <2>2. /\ GrowthOf(g) /\ WritesOf(g, W) /\ s \in 0..Len(W) /\ Along(g, W, s, file) /\ g.spec = dat.spec
        /\ g.old = dat.nrow /\ IdxCap \in Nat \ {0}
    BY <2>1, StandardStManAssumption DEF Growing
  <2>3. ReadIndex(file) \in {Found(g.ix), Found(g.nix), Broken}
    BY <2>2, IndexAlong
  <2>4. ReadIndex(file) # Broken /\ h.index = ReadIndex(file)[2]
    <3>1. SsmOpen(file, dat.big)[1] = "ok" /\ h = SsmOpen(file, dat.big)[2]
      BY <1>2 DEF Handle, OpenManager
    <3>. QED
      BY <3>1, OpenedIndex
  <2>5. h.index = g.ix \/ h.index = g.nix
    BY <2>3, <2>4 DEF Found
  <2>6. Follows(h.index, g.ix, dat.nrow)
    BY <2>2, <2>5, FollowsOn
  <2>7. Abreast(n, g.ix, dat.spec)
    BY <1>3, <2>6 DEF Abreast
  <2>8. Growing(g, W, s)'
    BY <1>1, <1>3, <1>5, <2>1, <2>7 DEF Growing, n
  <2>. QED
    BY <2>8
<1>8. Renewing' <=> Renewing
  BY <1>1 DEF Renewing
<1>. QED
  BY <1>1, <1>3, <1>4, <1>5, <1>6, <1>7, <1>8 DEF SsmInv, n

LEMMA ViewStays ==
  ASSUME Shape, Write, todo[1].how \notin {"main", "aux"}
  PROVE  view' = view
<1>1. view' = Kept(view, todo[1])
  BY WriteTakes
<1>2. CASE view = <<>>
  BY <1>1, <1>2 DEF Kept
<1>3. CASE view # <<>>
  <2>1. IsView(view[1]) /\ view = <<view[1]>>
    BY <1>3 DEF Shape, ViewFits
  <2>2. PICK n : Kept(view, todo[1]) = <<n>> /\ Keeps(view[1], n, todo[1])
    BY <1>3, <2>1, WriteKeeps
  <2>3. n = view[1]
    BY <2>2 DEF Keeps
  <2>. QED
    BY <1>1, <2>1, <2>2, <2>3
<1>. QED
  BY <1>2, <1>3

(* A write in place, of a patch.                                           *)
LEMMA SsmPatchWrites ==
  ASSUME Shape, SsmInv, Write, kind = "ssm", doing = "patch"
  PROVE  SsmInv'
<1>. DEFINE w == todo[1]
<1>1. /\ Fits(w, 1) /\ 1 \in DOMAIN todo
      /\ \A j \in DOMAIN todo' : j + 1 \in DOMAIN todo /\ todo'[j] = todo[j + 1]
      /\ UNCHANGED <<kind, rows, cells, doing>> /\ view' = Kept(view, w)
      /\ w.how = "inplace" => file' = ApplyWrite(kind, file, w.w) /\ dat' = dat
  BY WriteTakes
<1>2. w.how = "inplace"
  BY <1>1 DEF Fits
<1>3. file' = SsmApply(file, w.w) /\ dat' = dat
  BY <1>1, <1>2 DEF ApplyWrite
<1>4. view' = view
  BY <1>2, ViewStays
<1>. HIDE DEF w
<1>5. Apart(dat.spec, SsmRpb) /\ (view # <<>> => Frozen(view[1])) /\ \E ix, chain : Whole(ix, chain)
  BY DEF SsmInv, Steady
<1>6. PICK ix, chain : Whole(ix, chain)
  BY <1>5
<1>7. SsmSound(SsmApply(file, w.w), ix, chain)
  <2>1. SsmSound(file, ix, chain) /\ Mild(ix, w.w)
    BY <1>1, <1>6 DEF Whole, w
  <2>. QED
    BY <2>1, MildKeeps
<1>8. \A j \in DOMAIN todo' : Mild(ix, todo'[j].w)
  BY <1>1, <1>6 DEF Whole
<1>9. Whole(ix, chain)'
  BY <1>1, <1>3, <1>4, <1>6, <1>7, <1>8 DEF Whole
<1>10. \E i, c : Whole(i, c)'
  BY <1>9
<1>11. IsSsm(file')
  BY <1>3, <1>7 DEF SsmSound, IsSsm
<1>. QED
  BY <1>1, <1>3, <1>4, <1>5, <1>10, <1>11 DEF SsmInv

(* Of a growth, or the row count behind it.                                *)
LEMMA GrowingReads ==
  ASSUME Shape, kind = "ssm", doing = "grow", view # <<>>, Frozen(view[1]), NEW g, NEW W, NEW s, Growing(g, W, s)
  PROVE  /\ Watches(g, view[1]) /\ \A c \in SsmCols : g.spec.offset[c] \in Nat
         /\ ReadsIn("ssm", view[1], file)
<1>1. /\ GrowthOf(g) /\ Along(g, W, s, file) /\ g.spec = dat.spec /\ g.old = dat.nrow /\ Apart(dat.spec, g.nix.rpb)
      /\ Abreast(view[1], g.ix, dat.spec) /\ ReadsIn("ssm", view[1], g.f0)
  BY DEF Growing
<1>2. /\ IsView(view[1]) /\ view[1].nrow <= dat.nrow
      /\ view[1].reads \subseteq Columns("ssm") \X (0..(view[1].nrow - 1))
  BY DEF Shape, ViewFits
<1>3. Watches(g, view[1])
  BY <1>1, <1>2 DEF Watches
<1>4. \A c \in SsmCols : g.spec.offset[c] \in Nat
  BY <1>1 DEF Apart
<1>5. ReadsIn("ssm", view[1], file)
  BY <1>1, <1>3, <1>4, SsmReadsOn
<1>. QED
  BY <1>3, <1>4, <1>5

LEMMA SsmGrowWrites ==
  ASSUME Shape, SsmInv, Write, kind = "ssm", doing = "grow"
  PROVE  SsmInv'
<1>. DEFINE w == todo[1]
<1>1. /\ 1 \in DOMAIN todo
      /\ Len(todo) \in Nat \ {0} /\ Len(todo') = Len(todo) - 1 /\ DOMAIN todo = 1..Len(todo)
      /\ DOMAIN todo' = 1..(Len(todo) - 1)
      /\ \A j \in DOMAIN todo' : j \in Nat /\ j + 1 \in DOMAIN todo /\ todo'[j] = todo[j + 1]
      /\ UNCHANGED <<kind, rows, cells, doing>> /\ IsList(todo')
      /\ w.how = "inplace" => file' = ApplyWrite(kind, file, w.w) /\ dat' = dat
      /\ w.how = "count" => file' = file /\ dat' = [dat EXCEPT !.nrow = w.n]
  BY WriteTakes
<1>2. todo # <<>>
  BY DEF Write
<1>3. Apart(dat.spec, SsmRpb) /\ IsSsm(file) /\ (view # <<>> => Frozen(view[1])) /\ \E g, W, s : Growing(g, W, s)
  BY <1>2 DEF SsmInv
<1>4. PICK g, W, s : Growing(g, W, s)
  BY <1>3
<1>5. /\ GrowthOf(g) /\ WritesOf(g, W) /\ IsList(W) /\ s \in 0..Len(W) /\ Along(g, W, s, file)
      /\ g.spec = dat.spec /\ g.old = dat.nrow /\ Apart(dat.spec, g.nix.rpb)
      /\ Len(todo) = Len(W) - s + 1 /\ todo[Len(todo)] = Counted(rows)
      /\ \A j \in 1..(Len(W) - s) : todo[j] = [how |-> "inplace", w |-> W[s + j]]
      /\ view # <<>> => Abreast(view[1], g.ix, dat.spec) /\ ReadsIn("ssm", view[1], g.f0)
  BY <1>4 DEF Growing
<1>6. Len(W) \in Nat /\ s \in Nat
  <2>1. W \in Seq({W[k] : k \in DOMAIN W})
    BY <1>5 DEF IsList
  <2>2. Len(W) \in Nat
    BY <2>1
  <2>. QED
    BY <1>5, <2>2
<1>. HIDE DEF w
<1>7. CASE s < Len(W)
  <2>1. w = [how |-> "inplace", w |-> W[s + 1]]
    <3>1. 1 \in 1..(Len(W) - s)
      BY <1>6, <1>7
    <3>. QED
      BY <1>5, <3>1 DEF w
  <2>2. file' = SsmApply(file, W[s + 1]) /\ dat' = dat /\ view' = view
    BY <1>1, <2>1, ViewStays DEF ApplyWrite, w
  <2>3. Along(g, W, s + 1, SsmApply(file, W[s + 1])) /\ s + 1 \in 0..Len(W)
    <3>1. IdxCap \in Nat \ {0}
      BY StandardStManAssumption
    <3>2. s + 1 \in 0..Len(W)
      BY <1>6, <1>7
    <3>. QED
      BY <1>5, <1>6, <1>7, <3>1, <3>2, AlongSteps
  <2>4. Len(todo') = Len(W) - (s + 1) + 1 /\ todo'[Len(todo')] = Counted(rows) /\ todo' # <<>>
    <3>1. Len(todo') = Len(W) - (s + 1) + 1
      BY <1>1, <1>5, <1>6
    <3>2. Len(todo') \in DOMAIN todo' /\ Len(todo') + 1 = Len(todo)
      BY <1>1, <1>5, <1>6, <1>7
    <3>3. todo'[Len(todo')] = todo[Len(todo)]
      BY <1>1, <3>2
    <3>. QED
      BY <1>5, <3>1, <3>2, <3>3
  <2>5. \A j \in 1..(Len(W) - (s + 1)) : todo'[j] = [how |-> "inplace", w |-> W[s + 1 + j]]
    <3>. TAKE j \in 1..(Len(W) - (s + 1))
    <3>0. Len(todo) = Len(W) - s + 1
      BY <1>5
    <3>1. j \in 1..(Len(todo) - 1) /\ j + 1 \in 1..(Len(W) - s) /\ s + (j + 1) = s + 1 + j
      BY <1>6, <3>0
    <3>2. todo'[j] = todo[j + 1]
      BY <1>1, <3>1
    <3>. QED
      BY <1>5, <3>1, <3>2
  <2>6. Growing(g, W, s + 1)'
    BY <1>1, <1>5, <2>2, <2>3, <2>4, <2>5 DEF Growing
  <2>7. \E i, U, k : Growing(i, U, k)'
    BY <2>6
  <2>8. ~Steady' /\ IsSsm(file')
    BY <1>1, <2>2, <2>3, <2>4 DEF Steady, IsSsm, Along
  <2>. QED
    BY <1>1, <1>3, <2>2, <2>4, <2>7, <2>8 DEF SsmInv
<1>8. CASE s = Len(W)
  <2>1. w = Counted(rows) /\ Len(todo) = 1
    BY <1>5, <1>6, <1>8 DEF w
  <2>2. file' = file /\ dat' = [dat EXCEPT !.nrow = rows] /\ view' = view
    BY <1>1, <2>1, ViewStays DEF Counted, w
  <2>3. dat'.spec = dat.spec /\ dat'.nrow = rows
    BY <2>2 DEF Shape, DatFits
  <2>4. todo' = <<>>
    BY <1>1, <2>1 DEF IsList
  <2>5. SsmSound(file, g.nix, g.nchain)
    BY <1>5, <1>8, ArrivesSound
  <2>6. view # <<>> => Abreast(view[1], g.nix, dat.spec)
    <3>. SUFFICES ASSUME view # <<>>, view[1].main = <<>> PROVE view[1].spec = dat.spec /\ Follows(view[1].h.index, g.nix, view[1].nrow)
      BY DEF Abreast
    <3>1. view[1].nrow \in Nat /\ view[1].nrow <= g.old
      BY <1>5 DEF Shape, ViewFits, IsView
    <3>2. view[1].spec = dat.spec /\ Follows(view[1].h.index, g.ix, view[1].nrow)
      BY <1>5 DEF Abreast
    <3>. QED
      BY <1>5, <3>1, <3>2, FollowsOn
  <2>7. Whole(g.nix, g.nchain)'
    BY <1>1, <1>5, <2>2, <2>3, <2>5, <2>6 DEF Whole
  <2>8. \E i, c : Whole(i, c)'
    BY <2>7
  <2>9. view # <<>> => ReadsIn("ssm", view[1], file)
    BY <1>3, <1>4, GrowingReads
  <2>. QED
    BY <1>1, <1>3, <2>2, <2>3, <2>4, <2>8, <2>9 DEF SsmInv
<1>. QED
  BY <1>5, <1>6, <1>7, <1>8

(* Of new files.                                                           *)
LEMMA SsmRenewWrites ==
  ASSUME Shape, SsmInv, Write, kind = "ssm", doing = "rebuild"
  PROVE  SsmInv'
<1>. DEFINE w == todo[1]
<1>1. /\ Fits(w, 1) /\ 1 \in DOMAIN todo /\ DOMAIN todo = 1..Len(todo)
      /\ \A j \in DOMAIN todo' : j \in Nat /\ j + 1 \in DOMAIN todo /\ todo'[j] = todo[j + 1]
      /\ \A j \in DOMAIN todo : j # 1 => j - 1 \in DOMAIN todo' /\ todo'[j - 1] = todo[j]
      /\ UNCHANGED <<kind, rows, cells, doing>> /\ view' = Kept(view, w)
  BY WriteTakes
<1>2. /\ w.how = "main" => file' = WithMain(kind, file, w.f) /\ dat' = dat
      /\ w.how = "aux" => file' = WithAux(kind, file, w.f) /\ dat' = dat
      /\ w.how = "dat" => file' = file /\ dat' = w.d
  BY WriteTakes
<1>3. /\ Apart(dat.spec, SsmRpb) /\ IsSsm(file) /\ (view # <<>> => Frozen(view[1])) /\ Renewing
      /\ Steady => \E ix, chain : Whole(ix, chain)
  BY DEF SsmInv
<1>4. Renewing'
  BY <1>1, <1>3 DEF Renewing
<1>5. view # <<>> => \E n : view' = <<n>> /\ Keeps(view[1], n, w)
  <2>1. view # <<>> => IsView(view[1])
    BY DEF Shape, ViewFits
  <2>. QED
    BY <1>1, <2>1, WriteKeeps
<1>6. view = <<>> => view' = <<>>
  BY <1>1 DEF Kept
<1>7. ASSUME view' # <<>> PROVE view # <<>> /\ Keeps(view[1], view'[1], w)
  <2>1. PICK n : view' = <<n>> /\ Keeps(view[1], n, w)
    BY <1>5, <1>6, <1>7
  <2>2. view'[1] = n
    BY <2>1
  <2>. QED
    BY <1>6, <1>7, <2>1, <2>2
<1>8. (view # <<>> => Frozen(view[1]))'
  <2>. SUFFICES ASSUME view' # <<>> PROVE Frozen(view'[1])
    BY DEF Frozen
  <2>1. view'[1].main = view[1].main \/ view'[1].main = <<file>>
    BY <1>7 DEF Keeps
  <2>. QED
    BY <1>3, <1>7, <2>1 DEF Frozen
<1>. HIDE DEF w
<1>9. CASE w.how = "main"
  <2>1. file' = [w.f EXCEPT !.arr = file.arr] /\ dat' = dat
    BY <1>2, <1>9 DEF WithMain
  <2>2. PICK ix, chain : SsmSound(w.f, ix, chain) /\ ix.rpb = SsmRpb
    BY <1>1, <1>3, <1>9 DEF Renewing, w
  <2>3. SsmSound(file', ix, chain)
    <3>1. SsmSound([w.f EXCEPT !.arr = file.arr], ix, chain)
      BY <2>2, ArrIsFree
    <3>. QED
      BY <2>1, <3>1
  <2>4. view' # <<>> => view'[1].main # <<>>
    <3>1. view' # <<>> => \/ view'[1].main = view[1].main /\ view[1].main # <<>>
                       \/ view'[1].main = <<file>>
      BY <1>7, <1>9 DEF Keeps
    <3>. QED
      BY <3>1
  <2>5. Whole(ix, chain)'
    BY <1>1, <1>3, <2>1, <2>2, <2>3, <2>4 DEF Whole, Abreast
  <2>6. \E i, c : Whole(i, c)'
    BY <2>5
  <2>7. IsSsm(file')
    BY <2>3 DEF SsmSound, IsSsm
  <2>. QED
    BY <1>1, <1>3, <1>4, <1>8, <2>1, <2>6, <2>7 DEF SsmInv
<1>10. CASE w.how = "aux"
  <2>1. file' = [file EXCEPT !.arr = w.f.arr] /\ dat' = dat
    BY <1>2, <1>10 DEF WithAux
  <2>2. ASSUME Steady' PROVE Steady
    <3>1. \A j \in DOMAIN todo' : todo'[j].how # "main"
      BY <1>1, <2>2 DEF Steady
    <3>2. \A j \in DOMAIN todo : todo[j].how # "main"
      BY <1>1, <1>10, <3>1 DEF w
    <3>. QED
      BY <3>2 DEF Steady
  <2>3. Steady' => \E i, c : Whole(i, c)'
    <3>. SUFFICES ASSUME Steady' PROVE \E i, c : Whole(i, c)'
      OBVIOUS
    <3>1. PICK ix, chain : Whole(ix, chain)
      BY <1>3, <2>2
    <3>2. SsmSound([file EXCEPT !.arr = w.f.arr], ix, chain)
      BY <3>1, ArrIsFree DEF Whole
    <3>3. view' # <<>> => Abreast(view'[1], ix, dat.spec)
      BY <1>7, <1>10, <3>1 DEF Whole, Abreast, Keeps
    <3>4. Whole(ix, chain)'
      BY <1>1, <2>1, <3>1, <3>2, <3>3 DEF Whole
    <3>. QED
      BY <3>4
  <2>4. IsSsm(file')
    BY <1>3, <2>1, ArrChanges
  <2>. QED
    BY <1>1, <1>3, <1>4, <1>8, <2>1, <2>3, <2>4 DEF SsmInv
<1>11. CASE w = NewDat(NewRows) /\ \E k \in DOMAIN todo : k > 1 /\ todo[k].how = "main"
  <2>1. file' = file /\ dat' = NewRows
    BY <1>2, <1>11 DEF NewDat
  <2>2. dat'.spec = Layout(SsmRpb) /\ Apart(dat'.spec, SsmRpb)
    BY <2>1, LayoutApart DEF NewRows
  <2>3. ~Steady'
    <3>1. PICK k \in DOMAIN todo : k > 1 /\ todo[k].how = "main"
      BY <1>11
    <3>2. k - 1 \in DOMAIN todo' /\ todo'[k - 1].how = "main"
      <4>1. k # 1
        BY <1>1, <3>1
      <4>. QED
        BY <1>1, <3>1, <4>1
    <3>. QED
      BY <1>1, <3>2 DEF Steady
  <2>. QED
    BY <1>1, <1>3, <1>4, <1>8, <2>1, <2>2, <2>3 DEF SsmInv
<1>. QED
  BY <1>1, <1>9, <1>10, <1>11 DEF Fits

(* The cells of the table at rest.                                         *)
LEMMA SsmEnds ==
  ASSUME Shape, SsmInv, EndFlush
  PROVE  SsmInv'
<1>1. /\ todo = <<>> /\ doing' = "rest" /\ todo' = <<>> /\ UNCHANGED <<kind, dat, file>>
      /\ doing \in {"grow", "patch", "rebuild"}
  BY DEF EndFlush
<1>2. Steady
  BY <1>1 DEF Steady
<1>3. view' = view \/ \E n : /\ view # <<>> /\ view' = <<n>> /\ n.h = view[1].h /\ n.spec = view[1].spec
                             /\ n.nrow = view[1].nrow /\ n.main = view[1].main
  <2>1. CASE view = <<>>
    BY <2>1 DEF EndFlush
  <2>2. CASE view # <<>>
    <3>. DEFINE v == view[1]
    <3>1. \E m : view' = <<[v EXCEPT !.may = m]>>
      BY <2>2 DEF EndFlush
    <3>2. PICK m : view' = <<[v EXCEPT !.may = m]>>
      BY <3>1
    <3>3. IsView(v)
      BY <2>2 DEF Shape, ViewFits
    <3>. DEFINE n == [v EXCEPT !.may = m]
    <3>4. n.h = v.h /\ n.spec = v.spec /\ n.nrow = v.nrow /\ n.main = v.main
      BY <3>3 DEF IsView
    <3>. HIDE DEF n
    <3>. QED
      BY <2>2, <3>2, <3>4 DEF n
  <2>. QED
    BY <2>1, <2>2
<1>. QED
  BY <1>1, <1>2, <1>3, SsmRests

LEMMA SsmSteps ==
  ASSUME Shape, SsmInv, [Next]_vars
  PROVE  SsmInv'
<1>. SUFFICES ASSUME kind' = "ssm" PROVE SsmInv'
  BY DEF SsmInv
<1>1. kind = "ssm"
  BY DEF Next, vars, PutCell, AddRows, BeginGrow, BeginRewrite, BeginPatch, BeginRebuild, Write, EndFlush, OpenView, Die
<1>2. ASSUME NEW c \in Columns(kind), NEW row \in 0..(MaxRows - 1), NEW v \in Values(kind, c), PutCell(c, row, v)
      PROVE  SsmInv'
  <2>1. doing = "rest" /\ doing' = "rest" /\ todo' = <<>> /\ UNCHANGED <<kind, dat, file, view>>
    BY <1>2 DEF PutCell, Shape
  <2>. QED
    BY <2>1, SsmRests DEF Steady
<1>3. ASSUME NEW n \in 1..MaxRows, AddRows(n) PROVE SsmInv'
  <2>1. doing = "rest" /\ doing' = "rest" /\ todo' = <<>> /\ UNCHANGED <<kind, dat, file, view>>
    BY <1>3 DEF AddRows, Shape
  <2>. QED
    BY <2>1, SsmRests DEF Steady
<1>4. CASE BeginGrow
  BY <1>1, <1>4, SsmGrows
<1>5. CASE BeginRewrite
  BY <1>1, <1>5, SsmRewrites
<1>6. CASE BeginPatch
  BY <1>1, <1>6, SsmPatches
<1>7. CASE BeginRebuild
  BY <1>1, <1>7, SsmRebuilds
<1>8. CASE Write
  <2>1. doing \in {"grow", "patch", "rebuild"}
    BY <1>8 DEF Write
  <2>. QED
    BY <1>1, <1>8, <2>1, SsmPatchWrites, SsmGrowWrites, SsmRenewWrites
<1>9. CASE EndFlush
  BY <1>9, SsmEnds
<1>10. CASE OpenView
  BY <1>1, <1>10, SsmOpens
<1>11. CASE Die
  BY <1>11 DEF Die, SsmInv
<1>12. CASE UNCHANGED vars
  <2>1. UNCHANGED <<kind, dat, file, rows, doing, todo, view>>
    BY <1>12 DEF vars
  <2>2. UNCHANGED <<Steady, Renewing>>
    BY <2>1 DEF Steady, Renewing
  <2>3. \A ix, chain : Whole(ix, chain)' <=> Whole(ix, chain)
    BY <2>1 DEF Whole
  <2>4. \A g, W, s : Growing(g, W, s)' <=> Growing(g, W, s)
    BY <2>1 DEF Growing
  <2>. QED
    BY <2>1, <2>2, <2>3, <2>4 DEF SsmInv
<1>. QED
  BY <1>2, <1>3, <1>4, <1>5, <1>6, <1>7, <1>8, <1>9, <1>10, <1>11, <1>12 DEF Next

-----------------------------------------------------------------------------
(* IncrementalStMan: numbers in ascending order.                           *)

Below(S, x) == {y \in S : y < x}

LEMMA BelowNext ==
  ASSUME NEW S, S \subseteq Nat, IsFiniteSet(S), NEW m \in Nat
  PROVE  /\ Cardinality(Below(S, m)) \in Nat
         /\ Cardinality(Below(S, m + 1)) = Cardinality(Below(S, m)) + (IF m \in S THEN 1 ELSE 0)
<1>1. Below(S, m) \subseteq S /\ IsFiniteSet(Below(S, m)) /\ m \notin Below(S, m)
  <2>1. Below(S, m) \subseteq S /\ m \notin Below(S, m)
    BY DEF Below
  <2>. QED
    BY <2>1, FS_Subset
<1>2. Cardinality(Below(S, m)) \in Nat
  BY <1>1, FS_CardinalityType
<1>3. CASE m \in S
  <2>0. \A y : y \in Below(S, m + 1) <=> y \in Below(S, m) \cup {m}
    <3>1. \A y \in S : y \in Nat /\ (y < m + 1 <=> y < m \/ y = m)
      OBVIOUS
    <3>. QED
      BY <1>3, <3>1 DEF Below
  <2>1. Below(S, m + 1) = Below(S, m) \cup {m}
    BY <2>0
  <2>2. Cardinality(Below(S, m) \cup {m}) = Cardinality(Below(S, m)) + 1
    BY <1>1, FS_AddElement
  <2>. QED
    BY <1>2, <1>3, <2>1, <2>2
<1>4. CASE m \notin S
  <2>0. \A y : y \in Below(S, m + 1) <=> y \in Below(S, m)
    <3>1. \A y \in S : y \in Nat /\ (y < m + 1 <=> y < m \/ y = m)
      OBVIOUS
    <3>. QED
      BY <1>4, <3>1 DEF Below
  <2>1. Below(S, m + 1) = Below(S, m)
    <3>. DEFINE A == Below(S, m + 1)
                B == Below(S, m)
    <3>1. \A y : y \in A <=> y \in B
      BY <2>0
    <3>. HIDE DEF A, B
    <3>2. A = B
      BY <3>1
    <3>. QED
      BY <3>2 DEF A, B
  <2>. QED
    BY <1>2, <1>4, <2>1
<1>. QED
  BY <1>2, <1>3, <1>4

LEMMA InOrder ==
  ASSUME NEW n \in Nat, NEW S, S \subseteq 0..n, NEW k \in 1..Cardinality(S)
  PROVE  /\ Cardinality(S) \in Nat /\ DOMAIN Ascending(S) = 1..Cardinality(S)
         /\ Ascending(S)[k] \in S /\ Cardinality(Below(S, Ascending(S)[k])) = k - 1
<1>1. IsFiniteSet(S) /\ S \subseteq Nat /\ Cardinality(S) \in Nat
  <2>1. IsFiniteSet(0..n)
    BY FS_Interval
  <2>2. IsFiniteSet(S)
    BY <2>1, FS_Subset
  <2>. QED
    BY <2>2, FS_CardinalityType
<1>. DEFINE At == {m \in Nat : Cardinality(Below(S, m)) >= k}
<1>2. PICK m \in At : \A j \in At : m <= j
  <2>1. Below(S, n + 1) = S
    <3>1. \A y \in S : y < n + 1
      OBVIOUS
    <3>2. \A y : y \in Below(S, n + 1) <=> y \in S
      BY <3>1 DEF Below
    <3>. DEFINE A == Below(S, n + 1)
    <3>. HIDE DEF A
    <3>. QED
      BY <3>2 DEF A
  <2>2. n + 1 \in At
    BY <1>1, <2>1
  <2>. HIDE DEF At
  <2>3. At \subseteq Nat
    BY DEF At
  <2>. QED
    BY <2>2, <2>3, Least
<1>3. m # 0
  <2>1. Below(S, 0) = {}
    <3>1. \A y \in S : ~(y < 0)
      BY <1>1
    <3>. QED
      BY <3>1, Zenon DEF Below
  <2>2. Cardinality({}) = 0
    BY FS_EmptySet
  <2>3. ~(0 >= k)
    OBVIOUS
  <2>. QED
    BY <2>1, <2>2, <2>3
<1>. DEFINE x == m - 1
<1>4. x \in Nat /\ m = x + 1 /\ x \notin At
  BY <1>2, <1>3
<1>. HIDE DEF x
<1>5. /\ Cardinality(Below(S, x)) \in Nat /\ Cardinality(Below(S, x)) < k
      /\ Cardinality(Below(S, x + 1)) >= k
      /\ Cardinality(Below(S, x + 1)) = Cardinality(Below(S, x)) + (IF x \in S THEN 1 ELSE 0)
  <2>1. /\ Cardinality(Below(S, x)) \in Nat
        /\ Cardinality(Below(S, x + 1)) = Cardinality(Below(S, x)) + (IF x \in S THEN 1 ELSE 0)
    BY <1>1, <1>4, BelowNext
  <2>2. Cardinality(Below(S, x + 1)) >= k
    BY <1>2, <1>4
  <2>3. ~(Cardinality(Below(S, x)) >= k)
    BY <1>4
  <2>. QED
    BY <1>1, <2>1, <2>2, <2>3
<1>6. x \in S /\ Cardinality(Below(S, x)) = k - 1
  BY <1>1, <1>5
<1>7. \E y \in S : Cardinality(Below(S, y)) = k - 1
  BY <1>6
<1>8. DOMAIN Ascending(S) = 1..Cardinality(S) /\ Ascending(S)[k] = CHOOSE y \in S : Cardinality(Below(S, y)) = k - 1
  BY DEF Ascending, Below
<1>. QED
  BY <1>1, <1>7, <1>8

(* From nothing on.                                                        *)
LEMMA FromZero ==
  ASSUME NEW n \in Nat, NEW S, S \subseteq 0..n, 0 \in S
  PROVE  1 \in DOMAIN Ascending(S) /\ Ascending(S)[1] = 0 /\ DOMAIN Ascending(S) = 1..Cardinality(S) /\ Cardinality(S) \in Nat
<1>1. IsFiniteSet(S) /\ Cardinality(S) \in Nat /\ Cardinality(S) # 0
  <2>1. IsFiniteSet(0..n)
    BY FS_Interval
  <2>2. IsFiniteSet(S)
    BY <2>1, FS_Subset
  <2>. QED
    BY <2>2, FS_CardinalityType, FS_EmptySet
<1>2. 1 \in 1..Cardinality(S)
  BY <1>1
<1>. DEFINE x == Ascending(S)[1]
<1>3. DOMAIN Ascending(S) = 1..Cardinality(S) /\ x \in S /\ Cardinality(Below(S, x)) = 1 - 1
  BY <1>2, InOrder
<1>. HIDE DEF x
<1>4. Below(S, x) = {}
  <2>1. Below(S, x) \subseteq S
    BY DEF Below
  <2>2. IsFiniteSet(Below(S, x))
    BY <1>1, <2>1, FS_Subset
  <2>. QED
    BY <1>3, <2>2, FS_EmptySet
<1>5. x = 0
  BY <1>3, <1>4 DEF Below
<1>. QED
  BY <1>1, <1>2, <1>3, <1>5 DEF x

-----------------------------------------------------------------------------
(* Its buckets.                                                            *)

LEMMA RoomOfABucket ==
  ASSUME NEW size \in Nat
  PROVE  RowsPerBucket(size) \in Nat \ {0}
<1>. DEFINE room == IF size > 1 + IsmCols THEN size - 1 - IsmCols ELSE 0
            a == room \div (3 * IsmCols)
<1>1. IsmCols \in Nat \ {0}
  BY IncrementalStManAssumption
<1>2. room \in Nat /\ 3 * IsmCols \in Nat \ {0}
  BY <1>1
<1>. HIDE DEF room
<1>3. a \in Nat
  BY <1>2
<1>. HIDE DEF a
<1>4. Max({1, a}) = IF 1 >= a THEN 1 ELSE a
  BY <1>3, MaxOfTwo
<1>5. RowsPerBucket(size) = Max({1, a})
  BY DEF RowsPerBucket, a, room
<1>. QED
  BY <1>3, <1>4, <1>5

(* A bucket in which every row from the first on has a cell.               *)
Proper(s) ==
  s[1] = "bucket" /\ \A c \in 1..IsmCols : \A x \in Nat : Before(s[3][c].rows, x) # 0

LEMMA StartsAtOnce ==
  ASSUME NEW r, NEW n \in Nat, DOMAIN r = 1..n, 1 \in DOMAIN r, r[1] = 0, NEW x \in Nat
  PROVE  Before(r, x) # 0
<1>. DEFINE S == {0} \cup {k \in DOMAIN r : r[k] <= x}
<1>1. S \subseteq 0..n /\ 1 \in S
  OBVIOUS
<1>. HIDE DEF S
<1>2. Max(S) \in S /\ \A k \in S : k <= Max(S)
  BY <1>1, Greatest
<1>3. Max(S) # 0
  BY <1>1, <1>2
<1>. QED
  BY <1>3 DEF Before, S

LEMMA EncodedTag ==
  ASSUME NEW size, NEW col
  PROVE  EncodeBucket(size, col) = IsmBroken \/ EncodeBucket(size, col)[1] = "bucket"
BY DEF EncodeBucket, Packed

LEMMA EncodedIsProper ==
  ASSUME NEW size, NEW col, DOMAIN col = 1..IsmCols,
         \A c \in 1..IsmCols : Len(col[c]) \in Nat /\ Len(col[c]) >= 1,
         EncodeBucket(size, col) # IsmBroken
  PROVE  Proper(EncodeBucket(size, col))
<1>. DEFINE b == EncodeBucket(size, col)
            data == DataOrder(col)
<1>1. b[1] = "bucket" /\ b[3] = [c \in DOMAIN col |-> Interval(data, c, Ascending(Starts(col[c])))]
  BY DEF EncodeBucket, Packed
<1>. HIDE DEF b, data
<1>2. ASSUME NEW c \in 1..IsmCols, NEW x \in Nat PROVE Before(b[3][c].rows, x) # 0
  <2>1. b[3][c].rows = Ascending(Starts(col[c]))
    BY <1>1 DEF Interval
  <2>. DEFINE S == Starts(col[c])
              n == Len(col[c])
  <2>2. n \in Nat /\ n >= 1
    OBVIOUS
  <2>3. S \subseteq 0..(n - 1) /\ 0 \in S
    BY <2>2 DEF Starts
  <2>. HIDE DEF S, n
  <2>4. n - 1 \in Nat
    BY <2>2
  <2>5. 1 \in DOMAIN Ascending(S) /\ Ascending(S)[1] = 0 /\ DOMAIN Ascending(S) = 1..Cardinality(S) /\ Cardinality(S) \in Nat
    BY <2>3, <2>4, FromZero
  <2>6. Before(Ascending(S), x) # 0
    BY <2>5, StartsAtOnce
  <2>. QED
    BY <2>1, <2>6 DEF S
<1>. QED
  BY <1>1, <1>2 DEF Proper, b

(* An index, behind whose last boundary more buckets follow.               *)
Steps(from, cap, new, c) == [j \in 1..c |-> Min({from + j * cap, new})]
Numbers(nb, c) == [j \in 1..c |-> nb + j - 1]

LEMMA StepsAscend ==
  ASSUME NEW from \in Nat, NEW cap \in Nat \ {0}, NEW new \in Nat, from <= new, NEW c \in Nat
  PROVE  /\ Steps(from, cap, new, c) \in [1..c -> Nat]
         /\ \A j \in 1..c : from <= Steps(from, cap, new, c)[j]
         /\ \A j \in 1..(c - 1) : Steps(from, cap, new, c)[j] <= Steps(from, cap, new, c)[j + 1]
<1>. DEFINE B == Steps(from, cap, new, c)
<1>1. ASSUME NEW j \in 1..c
      PROVE  /\ j * cap \in Nat /\ B[j] = IF from + j * cap <= new THEN from + j * cap ELSE new
  <2>1. j * cap \in Nat
    OBVIOUS
  <2>2. B[j] = Min({from + j * cap, new})
    BY DEF Steps
  <2>. HIDE DEF B
  <2>. QED
    BY <2>1, <2>2, MinOfTwo
<1>2. DOMAIN B = 1..c /\ B = [j \in 1..c |-> B[j]]
  BY DEF Steps
<1>. HIDE DEF B
<1>3. \A j \in 1..c : B[j] \in Nat /\ from <= B[j]
  BY <1>1
<1>4. ASSUME NEW j \in 1..(c - 1) PROVE B[j] <= B[j + 1]
  <2>1. j \in 1..c /\ j + 1 \in 1..c /\ j * cap \in Nat /\ (j + 1) * cap \in Nat /\ j * cap <= (j + 1) * cap
    <3>1. j \in 1..c /\ j + 1 \in 1..c /\ j \in Nat
      OBVIOUS
    <3>2. (j + 1) * cap = j * cap + cap /\ j * cap \in Nat
      BY <3>1
    <3>. QED
      BY <3>1, <3>2
  <2>2. /\ B[j] = IF from + j * cap <= new THEN from + j * cap ELSE new
        /\ B[j + 1] = IF from + (j + 1) * cap <= new THEN from + (j + 1) * cap ELSE new
    BY <1>1, <2>1
  <2>. DEFINE a == j * cap
              b == (j + 1) * cap
  <2>3. a \in Nat /\ b \in Nat /\ a <= b
    BY <2>1
  <2>4. /\ B[j] = IF from + a <= new THEN from + a ELSE new
        /\ B[j + 1] = IF from + b <= new THEN from + b ELSE new
    BY <2>2
  <2>. HIDE DEF a, b
  <2>. QED
    BY <2>3, <2>4
<1>. QED
  BY <1>2, <1>3, <1>4 DEF B

LEMMA IndexExtends ==
  ASSUME NEW r, NEW num, NEW nb \in Nat, IndexFits(r, num, nb),
         NEW from \in Nat, NEW new \in Nat, from <= new, NEW cap \in Nat \ {0}, NEW c \in Nat,
         NEW A \in [1..(Len(num) + 1) -> Nat], \A k \in 1..Len(num) : A[k] = r[k], A[Len(num) + 1] = from,
         Len(num) = 0 \/ r[Len(num)] <= from
  PROVE  IndexFits(A \o Steps(from, cap, new, c), num \o Numbers(nb, c), nb + c)
<1>. DEFINE B == Steps(from, cap, new, c)
            C == Numbers(nb, c)
            u == Len(num)
<1>1. num \in Seq(Nat) /\ u \in Nat /\ Len(r) = u + 1 /\ DOMAIN num = 1..u /\ \A k \in 1..u : num[k] < nb /\ r[k] <= r[k + 1]
  <2>1. num \in Seq(Nat) /\ Len(r) = Len(num) + 1 /\ \A k \in DOMAIN num : num[k] < nb /\ r[k] <= r[k + 1]
    BY DEF IndexFits
  <2>2. u \in Nat /\ DOMAIN num = 1..u
    BY <2>1
  <2>. QED
    BY <2>1, <2>2
<1>2. /\ B \in [1..c -> Nat] /\ \A j \in 1..c : from <= B[j]
      /\ \A j \in 1..(c - 1) : B[j] <= B[j + 1]
  BY StepsAscend
<1>3. C \in [1..c -> Nat] /\ \A j \in 1..c : C[j] = nb + j - 1
  BY DEF Numbers
<1>4. A[u + 1] = from /\ A \in [1..(u + 1) -> Nat] /\ (\A k \in 1..u : A[k] = r[k]) /\ (u = 0 \/ r[u] <= from)
  OBVIOUS
<1>. HIDE DEF B, C, u
<1>5. A \in Seq(Nat) /\ Len(A) = u + 1 /\ B \in Seq(Nat) /\ Len(B) = c /\ C \in Seq(Nat) /\ Len(C) = c
  <2>1. u + 1 \in Nat
    BY <1>1
  <2>. QED
    BY <1>2, <1>3, <1>4, <2>1, FunctionIsSequence
<1>. DEFINE R == A \o B
            N == num \o C
<1>6. /\ R \in Seq(Nat) /\ Len(R) = u + 1 + c
      /\ \A k \in 1..(u + 1) : R[k] = A[k]
      /\ \A k \in 1..c : R[u + 1 + k] = B[k]
  <2>1. /\ R \in Seq(Nat) /\ Len(R) = Len(A) + Len(B)
        /\ \A k \in 1..Len(A) : R[k] = A[k]
        /\ \A k \in 1..Len(B) : R[Len(A) + k] = B[k]
    <3>1. A \in Seq(Nat) /\ B \in Seq(Nat)
      BY <1>5
    <3>. QED
      BY <3>1, Joined
  <2>. HIDE DEF R
  <2>. QED
    BY <1>5, <2>1
<1>7. /\ N \in Seq(Nat) /\ Len(N) = u + c
      /\ \A k \in 1..u : N[k] = num[k]
      /\ \A k \in 1..c : N[u + k] = C[k]
  <2>1. num \in Seq(Nat) /\ C \in Seq(Nat) /\ Len(num) = u /\ Len(C) = c
    BY <1>1, <1>5 DEF u
  <2>2. /\ N \in Seq(Nat) /\ Len(N) = Len(num) + Len(C)
        /\ \A k \in 1..Len(num) : N[k] = num[k]
        /\ \A k \in 1..Len(C) : N[Len(num) + k] = C[k]
    <3>1. num \in Seq(Nat) /\ C \in Seq(Nat)
      BY <2>1
    <3>. QED
      BY <3>1, Joined
  <2>. HIDE DEF N
  <2>. QED
    BY <2>1, <2>2
<1>. HIDE DEF R, N
<1>8. ASSUME NEW k \in DOMAIN N PROVE N[k] < nb + c /\ R[k] <= R[k + 1]
  <2>1. k \in 1..(u + c) /\ k \in Nat
    BY <1>1, <1>7
  <2>2. CASE k <= u
    <3>1. k \in 1..u /\ k \in 1..(u + 1) /\ k + 1 \in 1..(u + 1)
      BY <1>1, <2>1, <2>2
    <3>2. N[k] = num[k] /\ num[k] < nb /\ num[k] \in Nat
      <4>1. N[k] = num[k]
        BY <1>7, <3>1
      <4>2. num[k] < nb /\ num[k] \in Nat
        BY <1>1, <3>1
      <4>. QED
        BY <4>1, <4>2
    <3>3. N[k] < nb + c
      BY <3>2
    <3>4. R[k] = A[k] /\ R[k + 1] = A[k + 1] /\ A[k] = r[k] /\ r[k] <= r[k + 1]
      BY <1>1, <1>4, <1>6, <3>1
    <3>5. A[k] <= A[k + 1]
      <4>1. CASE k < u
        <5>1. k + 1 \in 1..u
          BY <1>1, <3>1, <4>1
        <5>. QED
          BY <1>4, <3>4, <5>1
      <4>2. CASE k = u
        BY <1>4, <3>1, <3>4, <4>2
      <4>. QED
        BY <1>1, <3>1, <4>1, <4>2
    <3>. QED
      BY <3>3, <3>4, <3>5
  <2>3. CASE k > u
    <3>. DEFINE j == k - u
    <3>1. j \in 1..c /\ k = u + j /\ j \in Nat
      BY <1>1, <2>1, <2>3
    <3>. HIDE DEF j
    <3>2. N[k] = nb + j - 1
      BY <1>3, <1>7, <3>1
    <3>3. N[k] < nb + c
      BY <3>1, <3>2
    <3>4. R[k + 1] = B[j]
      <4>1. k + 1 = u + 1 + j
        BY <1>1, <3>1
      <4>. QED
        BY <1>6, <3>1, <4>1
    <3>5. CASE j = 1
      <4>1. k = u + 1 /\ k \in 1..(u + 1)
        BY <1>1, <3>1, <3>5
      <4>2. R[k] = from
        BY <1>4, <1>6, <4>1
      <4>. QED
        BY <1>2, <3>1, <3>3, <3>4, <4>2
    <3>6. CASE j # 1
      <4>. DEFINE i == j - 1
      <4>1. i \in 1..c /\ i \in 1..(c - 1) /\ j = i + 1 /\ k = u + 1 + i
        BY <1>1, <3>1, <3>6
      <4>. HIDE DEF i
      <4>2. R[k] = B[i] /\ B[i] <= B[i + 1]
        BY <1>2, <1>6, <4>1
      <4>. QED
        BY <3>3, <3>4, <4>1, <4>2
    <3>. QED
      BY <3>5, <3>6
  <2>. QED
    BY <1>1, <2>1, <2>2, <2>3
<1>9. Len(R) = Len(N) + 1
  BY <1>1, <1>6, <1>7
<1>. QED
  BY <1>6, <1>7, <1>8, <1>9 DEF IndexFits, R, N, B, C

-----------------------------------------------------------------------------
(* IncrementalStMan: files and the writes made to them.                    *)

SlotsFit(m, n) == \A b \in DOMAIN m : SlotFits(b, m[b], n)
HeadFits(h, n) == {"big", "size", "nb"} \subseteq DOMAIN h /\ h.size \in Nat /\ h.nb = n

(* A write to a file whose buckets will be n.                              *)
IsmWrite(w, n) ==
  \/ w.hdr = <<>> /\ SlotsFit(w.slot, n)
  \/ w.hdr # <<>> /\ w.slot = <<>> /\ HeadFits(w.hdr[1], n)

LEMMA MoreBuckets ==
  ASSUME NEW f, NEW n, IsmFits(f, n), NEW m \in Nat, n <= m
  PROVE  IsmFits(f, m)
<1>1. n \in Nat /\ \A b \in DOMAIN f.slot : SlotFits(b, f.slot[b], n)
  BY DEF IsmFits
<1>2. ASSUME NEW b \in DOMAIN f.slot PROVE SlotFits(b, f.slot[b], m)
  <2>1. b \in Nat /\ SlotFits(b, f.slot[b], n)
    BY <1>1 DEF SlotFits
  <2>2. f.slot[b][1] = "bucket" => b < m
    BY <1>1, <2>1 DEF SlotFits
  <2>3. ASSUME f.slot[b][1] = "index" PROVE IndexFits(f.slot[b][2], f.slot[b][3], m)
    <3>. DEFINE r == f.slot[b][2]
                u == f.slot[b][3]
    <3>1. IndexFits(r, u, n)
      BY <2>1, <2>3 DEF SlotFits
    <3>. HIDE DEF r, u
    <3>2. u \in Seq(Nat) /\ \A k \in DOMAIN u : u[k] \in Nat /\ u[k] < n
      BY <3>1 DEF IndexFits
    <3>3. \A k \in DOMAIN u : u[k] < m
      BY <1>1, <3>2
    <3>4. IndexFits(r, u, m)
      BY <3>1, <3>3 DEF IndexFits
    <3>. QED
      BY <3>4 DEF r, u
  <2>. QED
    BY <2>1, <2>2, <2>3 DEF SlotFits
<1>. QED
  BY <1>2 DEF IsmFits

LEMMA WriteFits ==
  ASSUME NEW f, NEW n, IsmFits(f, n), NEW w, IsmWrite(w, n)
  PROVE  /\ IsmFits(IsmApply(f, w), n)
         /\ w.hdr = <<>> => IsmApply(f, w).hdr = f.hdr
         /\ w.hdr # <<>> => IsmApply(f, w).hdr.nb = n
<1>. DEFINE g == IsmApply(f, w)
<1>1. /\ g = [slot |-> g.slot, hdr |-> g.hdr] /\ g.hdr = (IF w.hdr = <<>> THEN f.hdr ELSE w.hdr[1])
      /\ DOMAIN g.slot = DOMAIN f.slot \cup DOMAIN w.slot
      /\ \A b \in DOMAIN g.slot : g.slot[b] = IF b \in DOMAIN w.slot THEN w.slot[b] ELSE f.slot[b]
  BY DEF IsmApply
<1>. HIDE DEF g
<1>2. \A b \in DOMAIN w.slot : SlotFits(b, w.slot[b], n)
  <2>1. CASE w.hdr = <<>>
    BY <2>1 DEF IsmWrite, SlotsFit
  <2>2. CASE w.hdr # <<>>
    BY <2>2 DEF IsmWrite
  <2>. QED
    BY <2>1, <2>2
<1>3. \A b \in DOMAIN f.slot : SlotFits(b, f.slot[b], n)
  BY DEF IsmFits
<1>4. \A b \in DOMAIN g.slot : SlotFits(b, g.slot[b], n)
  BY <1>1, <1>2, <1>3
<1>5. {"big", "size", "nb"} \subseteq DOMAIN g.hdr /\ g.hdr.size \in Nat /\ n \in Nat
  <2>1. {"big", "size", "nb"} \subseteq DOMAIN f.hdr /\ f.hdr.size \in Nat /\ n \in Nat
    BY DEF IsmFits
  <2>2. w.hdr # <<>> => {"big", "size", "nb"} \subseteq DOMAIN w.hdr[1] /\ w.hdr[1].size \in Nat /\ w.hdr[1].nb = n
    BY DEF IsmWrite, HeadFits
  <2>. QED
    BY <1>1, <2>1, <2>2
<1>6. w.hdr # <<>> => g.hdr.nb = n
  BY <1>1 DEF IsmWrite, HeadFits
<1>. QED
  BY <1>1, <1>4, <1>5, <1>6 DEF IsmFits, g

(* A handle opened on such a file.                                         *)
LEMMA OpenedFits ==
  ASSUME NEW f, NEW n, IsmFits(f, n), NEW big, IsmOpen(f, big)[1] = "ok"
  PROVE  IndexFits(IsmOpen(f, big)[2].rows, IsmOpen(f, big)[2].number, n)
<1>1. /\ f.hdr.nb \in DOMAIN f.slot /\ f.slot[f.hdr.nb][1] = "index"
      /\ IsmOpen(f, big)[2].rows = f.slot[f.hdr.nb][2] /\ IsmOpen(f, big)[2].number = f.slot[f.hdr.nb][3]
  BY DEF IsmOpen, ReadBoundaries, IsmBroken, IsmFound
<1>2. SlotFits(f.hdr.nb, f.slot[f.hdr.nb], n)
  BY <1>1 DEF IsmFits
<1>. QED
  BY <1>1, <1>2 DEF SlotFits

(* Files built for the table's cells.                                      *)
LEMMA BuiltFits ==
  ASSUME NEW n \in Nat, NEW cs
  PROVE  IsmFits(IsmBuild(n, cs), IsmBuild(n, cs).hdr.nb)
<1>. DEFINE f == IsmBuild(n, cs)
            rpb == RowsPerBucket(IsmSize)
            used == (n + rpb - 1) \div rpb
            R == [k \in 1..(used + 1) |-> Min({(k - 1) * rpb, n})]
            U == [k \in 1..used |-> k - 1]
<1>1. rpb \in Nat \ {0} /\ IsmSize \in Nat
  BY IncrementalStManAssumption, RoomOfABucket
<1>2. /\ f = [hdr |-> f.hdr, slot |-> f.slot] /\ DOMAIN f.slot = 0..used
      /\ f.hdr = [big |-> FALSE, size |-> IsmSize, nb |-> used]
      /\ \A b \in 0..used : b < used => \E x : f.slot[b] = EncodeBucket(IsmSize, x)
      /\ \A b \in 0..used : ~(b < used) => f.slot[b] = EncodeIndex(R, U)
  BY DEF IsmBuild
<1>. HIDE DEF rpb
<1>3. used \in Nat
  BY <1>1
<1>. HIDE DEF f, used
<1>4. ASSUME NEW k \in 1..(used + 1)
      PROVE  R[k] \in Nat /\ (k + 1 \in 1..(used + 1) => R[k] <= R[k + 1])
  <2>1. \A i \in 1..(used + 1) : (i - 1) * rpb \in Nat /\ R[i] = IF (i - 1) * rpb <= n THEN (i - 1) * rpb ELSE n
    <3>1. ASSUME NEW i \in 1..(used + 1)
          PROVE  (i - 1) * rpb \in Nat /\ R[i] = IF (i - 1) * rpb <= n THEN (i - 1) * rpb ELSE n
      <4>1. i - 1 \in Nat
        OBVIOUS
      <4>2. (i - 1) * rpb \in Nat
        BY <1>1, <4>1
      <4>. QED
        BY <4>2, MinOfTwo
    <3>. QED
      BY <3>1
  <2>. HIDE DEF R
  <2>2. R[k] \in Nat
    BY <2>1
  <2>3. ASSUME k + 1 \in 1..(used + 1) PROVE R[k] <= R[k + 1]
    <3>. DEFINE a == (k - 1) * rpb
                b == (k + 1 - 1) * rpb
    <3>1. a \in Nat /\ b \in Nat /\ R[k] = (IF a <= n THEN a ELSE n) /\ R[k + 1] = (IF b <= n THEN b ELSE n)
      BY <2>1, <2>3
    <3>2. a <= b
      <4>1. k + 1 - 1 = k /\ k - 1 \in Nat /\ k \in Nat
        OBVIOUS
      <4>2. k * rpb = (k - 1) * rpb + rpb
        BY <1>1, <4>1
      <4>. QED
        BY <1>1, <3>1, <4>1, <4>2
    <3>. HIDE DEF a, b
    <3>. QED
      BY <3>1, <3>2
  <2>. QED
    BY <2>2, <2>3
<1>5. R \in Seq(Nat) /\ Len(R) = used + 1 /\ U \in Seq(Nat) /\ Len(U) = used /\ DOMAIN U = 1..used
      /\ \A k \in 1..used : U[k] = k - 1
  <2>1. R \in [1..(used + 1) -> Nat]
    BY <1>4
  <2>2. U \in [1..used -> Nat] /\ \A k \in 1..used : U[k] = k - 1
    OBVIOUS
  <2>3. used + 1 \in Nat
    BY <1>3
  <2>. HIDE DEF R, U
  <2>. QED
    BY <1>3, <2>1, <2>2, <2>3, FunctionIsSequence
<1>. HIDE DEF R, U
<1>6. \A k \in 1..used : U[k] < used /\ R[k] <= R[k + 1]
  <2>1. \A k \in 1..used : k \in Nat /\ k \in 1..(used + 1) /\ k + 1 \in 1..(used + 1) /\ k - 1 < used
    BY <1>3
  <2>. QED
    BY <1>4, <1>5, <2>1
<1>7. IndexFits(R, U, used)
  BY <1>5, <1>6 DEF IndexFits
<1>8. ASSUME NEW b \in 0..used PROVE SlotFits(b, f.slot[b], used)
  <2>1. CASE b < used
    <3>1. PICK x : f.slot[b] = EncodeBucket(IsmSize, x)
      BY <1>2, <2>1
    <3>2. f.slot[b] = IsmBroken \/ f.slot[b][1] = "bucket"
      BY <3>1, EncodedTag
    <3>3. f.slot[b][1] # "index" 
      BY <3>2 DEF IsmBroken
    <3>. QED
      BY <2>1, <3>3 DEF SlotFits
  <2>2. CASE ~(b < used)
    <3>1. f.slot[b] = <<"index", R, U>>
      BY <1>2, <2>2 DEF EncodeIndex
    <3>. QED
      BY <1>7, <3>1 DEF SlotFits
  <2>. QED
    BY <2>1, <2>2
<1>9. f.hdr.nb = used /\ f.hdr.size \in Nat /\ {"big", "size", "nb"} \subseteq DOMAIN f.hdr
  BY <1>1, <1>2
<1>. QED
  BY <1>2, <1>3, <1>8, <1>9 DEF IsmFits, f

Joins(W, S, y) == IsList(W) /\ (\A j \in DOMAIN W : W[j] \in S) /\ \E j \in DOMAIN W : W[j] = y

LEMMA ThreeParts ==
  ASSUME NEW S, NEW p \in Nat, NEW q \in Nat, NEW a \in [1..p -> S], NEW b \in [1..q -> S], NEW x \in S, NEW y \in S
  PROVE  Joins(a \o b \o <<x, y>>, S, y)
<1>. DEFINE u == a \o b
            v == <<x, y>>
            W == u \o v
<1>1. a \in Seq(S) /\ b \in Seq(S) /\ v \in Seq(S) /\ Len(v) = 2 /\ v[2] = y
  BY FunctionIsSequence
<1>. HIDE DEF v
<1>2. u \in Seq(S)
  BY <1>1
<1>. HIDE DEF u
<1>3. /\ W \in Seq(S) /\ Len(W) = Len(u) + Len(v)
      /\ \A k \in 1..Len(v) : W[Len(u) + k] = v[k]
  <2>1. v \in Seq(S)
    BY <1>1
  <2>. QED
    BY <1>2, <2>1, Joined
<1>. HIDE DEF W
<1>4. Len(u) \in Nat /\ DOMAIN W = 1..Len(W)
  BY <1>2, <1>3
<1>5. Len(u) + 2 \in DOMAIN W /\ W[Len(u) + 2] = y
  <2>1. 2 \in 1..Len(v) /\ Len(W) = Len(u) + 2
    BY <1>1, <1>3
  <2>. QED
    BY <1>1, <1>3, <1>4, <2>1
<1>6. \A j \in DOMAIN W : W[j] \in S
  BY <1>3
<1>7. IsList(W)
  BY <1>3, SeqIsList
<1>8. \E j \in DOMAIN W : W[j] = y
  BY <1>5
<1>. QED
  BY <1>6, <1>7, <1>8 DEF W, u, v, Joins

(* The plan of an update: hit are the buckets encoded anew, new buckets    *)
(* hold the rows behind from.                                              *)
EndOf(h, cap, new, t, k) == IF t /\ k = Len(h.number) THEN Min({h.rows[k] + cap, new}) ELSE h.rows[k + 1]
Behind(h, cap, old, new, t) == IF t THEN Min({h.rows[Len(h.number)] + cap, new}) ELSE old
Moved(h, cap, new, t, hit) ==
  [k \in 1..(Len(h.number) + 1) |-> IF k > 1 /\ k - 1 \in hit THEN EndOf(h, cap, new, t, k - 1) ELSE h.rows[k]]

PlanHas(plan, f, h, zero, p, new, cap, t, hit, from, fresh) ==
  /\ DOMAIN plan.redone = hit
  /\ \A k \in hit : plan.redone[k] =
       EncodeBucket(f.hdr.size, Gather(f, h, zero, p, h.rows[k], h.rows[k + 1], EndOf(h, cap, new, t, k)))
  /\ DOMAIN plan.added = 1..fresh /\ plan.added = [j \in 1..fresh |-> plan.added[j]]
  /\ \A j \in 1..fresh : \E x : plan.added[j] = EncodeBucket(f.hdr.size, x)
  /\ plan.rows = Moved(h, cap, new, t, hit) \o Steps(from, cap, new, fresh)
  /\ plan.number = h.number \o Numbers(f.hdr.nb, fresh)

LEMMA PlanIs ==
  ASSUME NEW f, NEW h, NEW zero, NEW p, NEW old, NEW new, NEW cap, cap = RowsPerBucket(f.hdr.size),
         NEW t, t = TopUp(h, old, new, cap), NEW hit, hit = Affected(h, p, old, t),
         NEW from, from = Behind(h, cap, old, new, t), NEW fresh, fresh = Count(new - from, cap)
  PROVE  PlanHas(IsmPlan(f, h, zero, p, old, new), f, h, zero, p, new, cap, t, hit, from, fresh)
BY DEF IsmPlan, Planned, Laid, Behind, EndOf, Moved, Steps, Numbers, Count, PlanHas

(* Its boundaries: those there were, up to from.                           *)
Moves(h, cap, new, t, hit, from) ==
  LET A == Moved(h, cap, new, t, hit)
      u == Len(h.number)
  IN  /\ from \in Nat /\ from <= new
      /\ A \in [1..(u + 1) -> Nat] /\ A[u + 1] = from
      /\ \A k \in 1..u : A[k] = h.rows[k]
      /\ u = 0 \/ h.rows[u] <= from
      /\ t => EndOf(h, cap, new, t, u) \in Nat /\ h.rows[u] \in Nat /\ h.rows[u] < EndOf(h, cap, new, t, u)

LEMMA BoundariesMove ==
  ASSUME NEW h, NEW nb \in Nat, IndexFits(h.rows, h.number, nb), Len(h.rows) = Len(h.number) + 1,
         NEW old \in Nat, NEW new \in Nat, old <= new, Last(h.rows) = old, NEW cap \in Nat \ {0},
         NEW t \in BOOLEAN, t = TopUp(h, old, new, cap), NEW hit, t => Len(h.number) \in hit,
         hit \subseteq DOMAIN h.number
  PROVE  Moves(h, cap, new, t, hit, Behind(h, cap, old, new, t))
<1>. DEFINE from == Behind(h, cap, old, new, t)
            A    == Moved(h, cap, new, t, hit)
            u    == Len(h.number)
<1>1. /\ h.rows \in Seq(Nat) /\ h.number \in Seq(Nat) /\ u \in Nat /\ Len(h.rows) = u + 1
      /\ DOMAIN h.number = 1..u
      /\ \A k \in 1..u : h.rows[k] <= h.rows[k + 1]
  <2>1. h.rows \in Seq(Nat) /\ h.number \in Seq(Nat) /\ \A k \in DOMAIN h.number : h.rows[k] <= h.rows[k + 1]
    BY DEF IndexFits
  <2>2. u \in Nat /\ DOMAIN h.number = 1..u
    BY <2>1
  <2>. QED
    BY <2>1, <2>2
<1>2. \A k \in 1..(u + 1) : h.rows[k] \in Nat
  <2>. HIDE DEF u
  <2>1. h.rows \in Seq(Nat) /\ Len(h.rows) = u + 1
    BY <1>1
  <2>. QED
    BY <2>1
<1>3. h.rows[u + 1] = old
  BY <1>1 DEF Last
<1>4. t => u # 0 /\ new > old /\ u \in hit
  <2>1. t => h.number # <<>> /\ new > old
    BY DEF TopUp
  <2>2. h.number # <<>> => u # 0
    BY <1>1
  <2>. QED
    BY <2>1, <2>2
<1>5. \A k \in hit : k \in 1..u
  BY <1>1
<1>6. from = IF t THEN Min({h.rows[u] + cap, new}) ELSE old
  BY DEF Behind
<1>7. /\ DOMAIN A = 1..(u + 1) /\ A = [k \in 1..(u + 1) |-> A[k]]
      /\ \A k \in 1..(u + 1) : A[k] = IF k > 1 /\ k - 1 \in hit THEN EndOf(h, cap, new, t, k - 1) ELSE h.rows[k]
  BY DEF Moved
<1>8. /\ \A k \in 1..u : EndOf(h, cap, new, t, k) = IF t /\ k = u THEN from ELSE h.rows[k + 1]
  BY <1>6 DEF EndOf
<1>. HIDE DEF from, A, u
<1>9. t => u \in 1..(u + 1) /\ u \in 1..u /\ h.rows[u] \in Nat
  BY <1>1, <1>2, <1>4
<1>10. t => from = IF h.rows[u] + cap <= new THEN h.rows[u] + cap ELSE new
  <2>1. t => h.rows[u] + cap \in Int
    BY <1>9
  <2>. QED
    BY <1>6, <2>1, MinOfTwo
<1>11. u = 0 \/ h.rows[u] <= old
  <2>1. u = 0 \/ u \in 1..u
    BY <1>1
  <2>. QED
    BY <1>1, <1>3, <2>1
<1>12. from \in Nat /\ from <= new /\ (u = 0 \/ h.rows[u] <= from) /\ (t => h.rows[u] < from)
  <2>1. CASE t
    <3>1. from = (IF h.rows[u] + cap <= new THEN h.rows[u] + cap ELSE new) /\ u # 0 /\ new > old /\ h.rows[u] \in Nat
      BY <1>4, <1>9, <1>10, <2>1
    <3>2. h.rows[u] <= old
      BY <1>11, <3>1
    <3>. DEFINE x == h.rows[u]
    <3>3. from = (IF x + cap <= new THEN x + cap ELSE new) /\ x \in Nat /\ x <= old
      BY <3>1, <3>2
    <3>. HIDE DEF x
    <3>0. new > old
      BY <3>1
    <3>4. from \in Nat /\ from <= new /\ x <= from /\ x < from
      BY <3>0, <3>3
    <3>. QED
      BY <3>4 DEF x
  <2>2. CASE ~t
    BY <1>6, <1>11, <2>2
  <2>. QED
    BY <2>1, <2>2
<1>13. \A k \in 1..u : A[k] = h.rows[k]
  <2>. SUFFICES ASSUME NEW k \in 1..u PROVE A[k] = h.rows[k]
    OBVIOUS
  <2>1. k \in 1..(u + 1) /\ k \in Nat
    BY <1>1
  <2>2. CASE k > 1 /\ k - 1 \in hit
    <3>1. k - 1 \in 1..u /\ k - 1 # u /\ k - 1 + 1 = k
      BY <1>1, <1>5, <2>1, <2>2
    <3>2. EndOf(h, cap, new, t, k - 1) = h.rows[k - 1 + 1]
      BY <1>8, <3>1
    <3>. QED
      BY <1>7, <2>1, <2>2, <3>1, <3>2
  <2>3. CASE ~(k > 1 /\ k - 1 \in hit)
    <3>1. A[k] = IF k > 1 /\ k - 1 \in hit THEN EndOf(h, cap, new, t, k - 1) ELSE h.rows[k]
      BY <1>7, <2>1, Zenon
    <3>. QED
      BY <2>3, <3>1, Zenon
  <2>. QED
    BY <2>2, <2>3
<1>14. A[u + 1] = from
  <2>1. u + 1 \in 1..(u + 1) /\ u + 1 - 1 = u
    BY <1>1
  <2>2. A[u + 1] = IF u + 1 > 1 /\ u \in hit THEN EndOf(h, cap, new, t, u) ELSE h.rows[u + 1]
    <3>1. PICK m : m = u + 1
      OBVIOUS
    <3>2. m \in 1..(u + 1) /\ m - 1 = u
      BY <1>1, <3>1
    <3>3. A[m] = IF m > 1 /\ m - 1 \in hit THEN EndOf(h, cap, new, t, m - 1) ELSE h.rows[m]
      BY <1>7, <3>2, Zenon
    <3>. QED
      BY <3>1, <3>2, <3>3, Zenon
  <2>3. CASE t
    <3>1. u + 1 > 1 /\ u \in hit /\ u \in 1..u
      BY <1>1, <1>4, <1>9, <2>3
    <3>. QED
      BY <1>8, <2>2, <2>3, <3>1
  <2>4. CASE ~t
    <3>1. u \in hit => EndOf(h, cap, new, t, u) = h.rows[u + 1]
      BY <1>5, <1>8, <2>4
    <3>. QED
      BY <1>3, <1>6, <2>2, <2>4, <3>1
  <2>. QED
    BY <2>3, <2>4
<1>15. A \in [1..(u + 1) -> Nat]
  <2>1. ASSUME NEW k \in 1..(u + 1) PROVE A[k] \in Nat
    <3>1. k \in 1..u \/ k = u + 1
      BY <1>1
    <3>. QED
      BY <1>2, <1>12, <1>13, <1>14, <3>1
  <2>. QED
    BY <1>7, <2>1
<1>16. t => EndOf(h, cap, new, t, u) = from
  BY <1>8, <1>9
<1>. QED
  BY <1>9, <1>12, <1>13, <1>14, <1>15, <1>16 DEF from, A, u, Moves

(* A write that leaves every row of the first m buckets a cell.            *)
SparesReaders(w, m) == \A b \in DOMAIN w.slot : b < m => Proper(w.slot[b])

(* Each write of an update fits the file with its new buckets, the last    *)
(* one being the header, and those of a growth spare the readers.          *)
UpdateFits(W, nb, quiet) ==
  /\ IsList(W)
  /\ \E n \in Nat : /\ nb <= n
                    /\ \A j \in DOMAIN W : IsmWrite(W[j], n) /\ (quiet => SparesReaders(W[j], nb))
                    /\ \E j \in DOMAIN W : W[j].hdr # <<>>

LEMMA RedoneFits ==
  ASSUME NEW n \in Nat, NEW b \in Nat, b < n, NEW x, x[1] = "bucket"
  PROVE  IsmWrite(Slots([k \in {b} |-> x]), n)
<1>. DEFINE m == [k \in {b} |-> x]
<1>1. DOMAIN m = {b} /\ m[b] = x
  OBVIOUS
<1>. HIDE DEF m
<1>2. SlotsFit(m, n)
  BY <1>1 DEF SlotsFit, SlotFits
<1>. QED
  BY <1>2 DEF IsmWrite, Slots, m

LEMMA AddedFits ==
  ASSUME NEW n \in Nat, NEW b \in Nat, b < n, NEW x, x = IsmBroken \/ x[1] = "bucket"
  PROVE  IsmWrite(Slots([k \in {b} |-> x]), n)
<1>. DEFINE m == [k \in {b} |-> x]
<1>1. DOMAIN m = {b} /\ m[b] = x /\ x[1] # "index"
  BY DEF IsmBroken
<1>. HIDE DEF m
<1>2. SlotsFit(m, n)
  BY <1>1 DEF SlotsFit, SlotFits
<1>. QED
  BY <1>2 DEF IsmWrite, Slots, m

LEMMA IndexWriteFits ==
  ASSUME NEW n \in Nat, NEW r, NEW u, IndexFits(r, u, n)
  PROVE  IsmWrite(Slots([k \in {n} |-> EncodeIndex(r, u)]), n)
<1>. DEFINE x == EncodeIndex(r, u)
            m == [k \in {n} |-> x]
<1>1. x[1] = "index" /\ x[2] = r /\ x[3] = u
  BY DEF EncodeIndex
<1>. HIDE DEF x
<1>2. DOMAIN m = {n} /\ m[n] = x
  OBVIOUS
<1>. HIDE DEF m
<1>3. SlotsFit(m, n)
  BY <1>1, <1>2 DEF SlotsFit, SlotFits
<1>. QED
  BY <1>3 DEF IsmWrite, Slots, m, x

LEMMA HeadWriteFits ==
  ASSUME NEW f, NEW nb, IsmFits(f, nb), NEW n \in Nat
  PROVE  IsmWrite(IsmHead([f.hdr EXCEPT !.nb = n]), n) /\ IsmHead([f.hdr EXCEPT !.nb = n]).hdr # <<>>
<1>. DEFINE h == [f.hdr EXCEPT !.nb = n]
<1>1. {"big", "size", "nb"} \subseteq DOMAIN f.hdr /\ f.hdr.size \in Nat
  BY DEF IsmFits
<1>2. DOMAIN h = DOMAIN f.hdr /\ h.size = f.hdr.size /\ h.nb = n
  BY <1>1
<1>. HIDE DEF h
<1>3. HeadFits(h, n)
  BY <1>1, <1>2 DEF HeadFits
<1>. QED
  BY <1>3 DEF IsmWrite, IsmHead, h

LEMMA SparedByOne ==
  ASSUME NEW b, NEW m, NEW x, b < m => Proper(x)
  PROVE  SparesReaders(Slots([k \in {b} |-> x]), m)
BY DEF SparesReaders, Slots

(* A bucket that is to take new rows has a cell for every row.             *)
LEMMA GatheredIsProper ==
  ASSUME NEW size, NEW f, NEW h, NEW zero, NEW p, NEW start \in Nat, NEW have, NEW end \in Nat, start < end,
         EncodeBucket(size, Gather(f, h, zero, p, start, have, end)) # IsmBroken
  PROVE  Proper(EncodeBucket(size, Gather(f, h, zero, p, start, have, end)))
<1>. DEFINE cs == Gather(f, h, zero, p, start, have, end)
<1>1. DOMAIN cs = 1..IsmCols
  BY DEF Gather
<1>2. ASSUME NEW c \in 1..IsmCols PROVE Len(cs[c]) \in Nat /\ Len(cs[c]) >= 1
  <2>. DEFINE d == cs[c]
  <2>1. DOMAIN d = 1..(end - start) /\ d = [k \in 1..(end - start) |-> d[k]]
    BY DEF Gather
  <2>2. PICK n : n = end - start
    OBVIOUS
  <2>3. n \in Nat /\ n >= 1
    BY <2>2
  <2>. HIDE DEF d
  <2>. DEFINE S == {d[k] : k \in 1..n}
  <2>4. d \in [1..n -> S]
    BY <2>1, <2>2
  <2>. HIDE DEF S
  <2>5. Len(d) = n
    BY <2>3, <2>4, FunctionIsSequence
  <2>. QED
    BY <2>3, <2>5 DEF d
<1>. HIDE DEF cs
<1>. QED
  BY <1>1, <1>2, EncodedIsProper DEF cs

LEMMA UpdateIsFit ==
  ASSUME NEW f, NEW nb, IsmFits(f, nb), f.hdr.nb = nb, NEW h, IndexFits(h.rows, h.number, nb),
         NEW zero, NEW p, NEW old \in Nat, NEW new \in Nat, old <= new, IsmCanUpdate(f, h, zero, p, old, new)
  PROVE  UpdateFits(IsmUpdate(f, h, zero, p, old, new), nb, \A c \in 1..IsmCols : DOMAIN p[c] = {})
<1>. DEFINE quiet == \A c \in 1..IsmCols : DOMAIN p[c] = {}
<1>1. PICK plan, cap : plan = IsmPlan(f, h, zero, p, old, new) /\ cap = RowsPerBucket(f.hdr.size)
  OBVIOUS
<1>2. PICK t, hit : t = TopUp(h, old, new, cap) /\ hit = Affected(h, p, old, t)
  OBVIOUS
<1>3. PICK from, fresh : from = Behind(h, cap, old, new, t) /\ fresh = Count(new - from, cap)
  OBVIOUS
<1>4. /\ DOMAIN plan.redone = hit
      /\ \A k \in hit : plan.redone[k] =
           EncodeBucket(f.hdr.size, Gather(f, h, zero, p, h.rows[k], h.rows[k + 1], EndOf(h, cap, new, t, k)))
      /\ DOMAIN plan.added = 1..fresh /\ plan.added = [j \in 1..fresh |-> plan.added[j]]
      /\ \A j \in 1..fresh : \E x : plan.added[j] = EncodeBucket(f.hdr.size, x)
      /\ plan.rows = Moved(h, cap, new, t, hit) \o Steps(from, cap, new, fresh)
      /\ plan.number = h.number \o Numbers(f.hdr.nb, fresh)
  <2>1. PlanHas(plan, f, h, zero, p, new, cap, t, hit, from, fresh)
    BY <1>1, <1>2, <1>3, PlanIs
  <2>. QED
    BY <2>1 DEF PlanHas
<1>5. Len(h.rows) = Len(h.number) + 1 /\ Last(h.rows) = old /\ IsmBroken \notin Range(plan.redone)
  BY <1>1 DEF IsmCanUpdate
<1>6. /\ f.hdr.size \in Nat /\ cap \in Nat \ {0} /\ nb \in Nat
  BY <1>1, RoomOfABucket DEF IsmFits
<1>7. /\ h.number \in Seq(Nat) /\ Len(h.number) \in Nat /\ DOMAIN h.number = 1..Len(h.number)
      /\ \A k \in 1..Len(h.number) : h.number[k] \in Nat /\ h.number[k] < nb
  <2>1. h.number \in Seq(Nat) /\ \A k \in DOMAIN h.number : h.number[k] < nb
    BY DEF IndexFits
  <2>2. Len(h.number) \in Nat /\ DOMAIN h.number = 1..Len(h.number)
    BY <2>1
  <2>. QED
    BY <2>1, <2>2
<1>8. /\ t \in BOOLEAN /\ hit \subseteq DOMAIN h.number /\ (t => Len(h.number) \in hit)
      /\ (quiet => \A k \in hit : t /\ k = Len(h.number))
  <2>1. t \in BOOLEAN
    BY <1>2 DEF TopUp
  <2>2. hit \subseteq DOMAIN h.number
    BY <1>2 DEF Affected
  <2>3. t => Len(h.number) \in 1..Len(h.number)
    <3>1. t => h.number # <<>>
      BY <1>2 DEF TopUp
    <3>2. h.number # <<>> => Len(h.number) # 0
      BY <1>7
    <3>. QED
      BY <1>7, <3>1, <3>2
  <2>4. t => Len(h.number) \in hit
    BY <1>2, <1>7, <2>3 DEF Affected
  <2>5. quiet => \A k \in hit : t /\ k = Len(h.number)
    BY <1>2 DEF Affected
  <2>. QED
    BY <2>1, <2>2, <2>4, <2>5
<1>. DEFINE A == Moved(h, cap, new, t, hit)
            u == Len(h.number)
<1>9. /\ from \in Nat /\ from <= new
      /\ A \in [1..(u + 1) -> Nat] /\ A[u + 1] = from
      /\ \A k \in 1..u : A[k] = h.rows[k]
      /\ u = 0 \/ h.rows[u] <= from
      /\ t => EndOf(h, cap, new, t, u) \in Nat /\ h.rows[u] \in Nat /\ h.rows[u] < EndOf(h, cap, new, t, u)
  <2>1. Len(h.rows) = Len(h.number) + 1 /\ Last(h.rows) = old
    BY <1>5
  <2>2. cap \in Nat \ {0} /\ nb \in Nat
    BY <1>6
  <2>3. t \in BOOLEAN /\ (t => Len(h.number) \in hit) /\ hit \subseteq DOMAIN h.number
    BY <1>8
  <2>4. t = TopUp(h, old, new, cap) /\ from = Behind(h, cap, old, new, t)
    BY <1>2, <1>3
  <2>5. Moves(h, cap, new, t, hit, Behind(h, cap, old, new, t))
    BY <2>1, <2>2, <2>3, <2>4, BoundariesMove
  <2>6. Moves(h, cap, new, t, hit, from)
    BY <2>4, <2>5
  <2>. QED
    BY <2>6 DEF Moves
<1>10. fresh \in Nat
  <2>1. new - from \in Nat
    BY <1>9
  <2>. QED
    BY <1>3, <1>6, <2>1, CountHolds
<1>11. PICK n : n = nb + fresh
  OBVIOUS
<1>12. n \in Nat /\ nb <= n
  BY <1>6, <1>10, <1>11
<1>13. IndexFits(plan.rows, plan.number, n)
  <2>. HIDE DEF A, u
  <2>1. IndexFits(A \o Steps(from, cap, new, fresh), h.number \o Numbers(nb, fresh), nb + fresh)
    BY <1>6, <1>9, <1>10, IndexExtends DEF u
  <2>. QED
    BY <1>4, <1>11, <2>1 DEF A
<1>. HIDE DEF A, u
<1>. DEFINE Good(w) == IsmWrite(w, n) /\ (quiet => SparesReaders(w, nb))
            ord == Ascending(hit)
            card == Cardinality(hit)
            one(j) == Slots([b \in {h.number[ord[j]]} |-> plan.redone[ord[j]]])
            two(j) == Slots([b \in {nb + j - 1} |-> plan.added[j]])
            x == Slots([b \in {n} |-> EncodeIndex(plan.rows, plan.number)])
            y == IsmHead([f.hdr EXCEPT !.nb = n])
            a == [j \in 1..card |-> one(j)]
            b == [j \in 1..fresh |-> two(j)]
            S == {one(j) : j \in 1..card} \cup {two(j) : j \in 1..fresh} \cup {x, y}
<1>14. card \in Nat /\ DOMAIN ord = 1..card /\ \A j \in 1..card : ord[j] \in hit
  <2>1. hit \subseteq 0..u
    BY <1>7, <1>8 DEF u
  <2>2. u \in Nat
    BY <1>7 DEF u
  <2>3. IsFiniteSet(hit)
    <3>1. IsFiniteSet(0..u)
      BY <2>2, FS_Interval
    <3>. QED
      BY <2>1, <3>1, FS_Subset
  <2>4. card \in Nat
    BY <2>3, FS_CardinalityType
  <2>5. DOMAIN ord = 1..card
    BY DEF Ascending
  <2>. QED
    BY <2>1, <2>2, <2>4, <2>5, InOrder
<1>. HIDE DEF ord, card
<1>15. ASSUME NEW j \in 1..card PROVE Good(one(j))
  <2>. DEFINE k == ord[j]
  <2>1. k \in hit /\ k \in 1..u /\ h.number[k] \in Nat /\ h.number[k] < nb
    BY <1>7, <1>8, <1>14 DEF u
  <2>2. plan.redone[k] # IsmBroken
    BY <1>4, <1>5, <2>1 DEF Range
  <2>. HIDE DEF k
  <2>3. plan.redone[k][1] = "bucket"
    BY <1>4, <2>1, <2>2, EncodedTag
  <2>4. h.number[k] < n
    BY <1>6, <1>12, <2>1
  <2>5. quiet => Proper(plan.redone[k])
    <3>. SUFFICES ASSUME quiet PROVE Proper(plan.redone[k])
      OBVIOUS
    <3>1. t /\ k = u
      BY <1>8, <2>1 DEF u
    <3>. DEFINE e == EndOf(h, cap, new, t, k)
    <3>2. e \in Nat /\ h.rows[k] \in Nat /\ h.rows[k] < e
      BY <1>9, <3>1
    <3>3. plan.redone[k] = EncodeBucket(f.hdr.size, Gather(f, h, zero, p, h.rows[k], h.rows[k + 1], e))
      BY <1>4, <2>1
    <3>. HIDE DEF e
    <3>. QED
      BY <2>2, <3>2, <3>3, GatheredIsProper
  <2>6. IsmWrite(one(j), n)
    BY <1>12, <2>1, <2>3, <2>4, RedoneFits DEF k
  <2>7. quiet => SparesReaders(one(j), nb)
    BY <2>5, SparedByOne DEF k
  <2>. QED
    BY <2>6, <2>7
<1>16. ASSUME NEW j \in 1..fresh PROVE Good(two(j))
  <2>1. nb + j - 1 \in Nat /\ nb + j - 1 < n /\ ~(nb + j - 1 < nb)
    BY <1>6, <1>10, <1>11
  <2>2. plan.added[j] = IsmBroken \/ plan.added[j][1] = "bucket"
    BY <1>4, EncodedTag
  <2>3. IsmWrite(two(j), n)
    BY <1>12, <2>1, <2>2, AddedFits
  <2>4. SparesReaders(two(j), nb)
    BY <2>1, SparedByOne
  <2>. QED
    BY <2>3, <2>4
<1>17. Good(x)
  <2>1. IsmWrite(x, n)
    BY <1>12, <1>13, IndexWriteFits
  <2>2. ~(n < nb)
    BY <1>6, <1>12
  <2>3. SparesReaders(x, nb)
    BY <2>2, SparedByOne
  <2>. QED
    BY <2>1, <2>3
<1>18. Good(y) /\ y.hdr # <<>>
  <2>1. IsmWrite(y, n) /\ y.hdr # <<>>
    BY <1>12, HeadWriteFits
  <2>2. SparesReaders(y, nb)
    BY DEF SparesReaders, IsmHead
  <2>. QED
    BY <2>1, <2>2
<1>19. IsmUpdate(f, h, zero, p, old, new) = a \o b \o <<x, y>>
  <2>1. Len(plan.added) = fresh
    <3>. DEFINE T == {plan.added[j] : j \in 1..fresh}
    <3>1. plan.added \in [1..fresh -> T]
      BY <1>4
    <3>. HIDE DEF T
    <3>. QED
      BY <1>10, <3>1, FunctionIsSequence
  <2>2. IsmUpdate(f, h, zero, p, old, new) = IsmWrites(f, h, plan, Ascending(hit), f.hdr.nb + Len(plan.added))
    BY <1>1, <1>4 DEF IsmUpdate, IsmUpdateBy
  <2>3. IsmWrites(f, h, plan, ord, n) = a \o b \o <<x, y>>
    BY <1>4, <1>14 DEF IsmWrites
  <2>. QED
    BY <1>11, <2>1, <2>2, <2>3 DEF ord
<1>. HIDE DEF Good, one, two, x, y
<1>20. a \in [1..card -> S] /\ b \in [1..fresh -> S] /\ x \in S /\ y \in S /\ \A w \in S : Good(w)
  BY <1>15, <1>16, <1>17, <1>18
<1>. HIDE DEF a, b, S
<1>21. PICK W : W = a \o b \o <<x, y>>
  OBVIOUS
<1>22. IsList(W) /\ (\A j \in DOMAIN W : W[j] \in S) /\ \E j \in DOMAIN W : W[j] = y
  <2>1. card \in Nat /\ a \in [1..card -> S] /\ b \in [1..fresh -> S] /\ x \in S /\ y \in S
    BY <1>14, <1>20
  <2>2. Joins(W, S, y)
    BY <1>10, <1>21, <2>1, ThreeParts
  <2>. QED
    BY <2>2 DEF Joins
<1>23. \A j \in DOMAIN W : IsmWrite(W[j], n) /\ (quiet => SparesReaders(W[j], nb))
  BY <1>20, <1>22 DEF Good
<1>24. \E j \in DOMAIN W : W[j].hdr # <<>>
  BY <1>18, <1>22
<1>25. UpdateFits(W, nb, quiet)
  BY <1>12, <1>22, <1>23, <1>24 DEF UpdateFits
<1>. QED
  BY <1>19, <1>21, <1>25

(* The place a row lies at, in a handle whose index is sound.              *)
LEMMA PlaceIs ==
  ASSUME NEW h, h.rows \in Seq(Nat), h.number \in Seq(Nat), NEW row \in Nat, BucketFor(h, row) # <<>>
  PROVE  BucketFor(h, row) = <<BucketFor(h, row)[1], BucketFor(h, row)[2]>> /\ BucketFor(h, row)[2] \in Nat
<1>. DEFINE k == Before(h.rows, row)
            S == {0} \cup {i \in DOMAIN h.rows : h.rows[i] <= row}
<1>1. Len(h.rows) \in Nat /\ DOMAIN h.rows = 1..Len(h.rows) /\ \A i \in DOMAIN h.rows : h.rows[i] \in Nat
  OBVIOUS
<1>2. S \subseteq 0..Len(h.rows) /\ S # {}
  BY <1>1
<1>3. k = Max(S)
  BY DEF Before
<1>. HIDE DEF k, S
<1>4. k \in S
  BY <1>1, <1>2, <1>3, Greatest
<1>5. k \in DOMAIN h.number /\ BucketFor(h, row) = <<h.number[k], row - h.rows[k]>>
  BY DEF BucketFor, InBucket, k
<1>6. k # 0
  <2>1. DOMAIN h.number = 1..Len(h.number)
    OBVIOUS
  <2>. QED
    BY <1>5, <2>1
<1>7. h.rows[k] \in Nat /\ h.rows[k] <= row
  BY <1>1, <1>4, <1>6 DEF S
<1>8. row - h.rows[k] \in Nat
  BY <1>7
<1>. QED
  BY <1>5, <1>8

(* A cell that was read is read again after a write that spares its bucket *)
(* or leaves its rows a cell each.                                         *)
LEMMA ReadsOnInPlace ==
  ASSUME NEW f, NEW w, NEW m, SparesReaders(w, m),
         NEW h, h.rows \in Seq(Nat), h.number \in Seq(Nat), NEW row \in Nat, NEW c \in 1..IsmCols,
         IsmRead(f, h, c, row) # IsmBroken, BucketFor(h, row) = <<>> \/ BucketFor(h, row)[1] < m
  PROVE  IsmRead(IsmApply(f, w), h, c, row) # IsmBroken
<1>. DEFINE g == IsmApply(f, w)
            at == BucketFor(h, row)
            b == at[1]
<1>1. at # <<>> /\ b < m
  BY DEF IsmRead, IsmCell
<1>2. at[2] \in Nat
  BY <1>1, PlaceIs
<1>3. DOMAIN g.slot = DOMAIN f.slot \cup DOMAIN w.slot
  BY DEF IsmApply
<1>4. \A i \in DOMAIN g.slot : g.slot[i] = IF i \in DOMAIN w.slot THEN w.slot[i] ELSE f.slot[i]
  BY DEF IsmApply
<1>5. IsmCell(f, c, at) # IsmBroken
  BY DEF IsmRead
<1>. HIDE DEF at, g
<1>6. /\ b \in DOMAIN f.slot /\ f.slot[b][1] = "bucket"
      /\ Covering(f, b, at[2], ColumnIndex(f, b, c)) # IsmBroken
  BY <1>1, <1>5 DEF IsmCell
<1>7. b \in DOMAIN g.slot
  BY <1>3, <1>6
<1>8. IsmCell(g, c, at) # IsmBroken
  <2>1. CASE b \in DOMAIN w.slot
    <3>1. Proper(w.slot[b]) /\ g.slot[b] = w.slot[b]
      BY <1>1, <1>4, <1>7, <2>1 DEF SparesReaders
    <3>2. g.slot[b][1] = "bucket" /\ Before(g.slot[b][3][c].rows, at[2]) # 0
      BY <1>2, <3>1 DEF Proper
    <3>3. Covering(g, b, at[2], ColumnIndex(g, b, c)) # IsmBroken
      BY <3>2 DEF Covering, ColumnIndex, IsmBroken, IsmFound
    <3>. QED
      BY <1>1, <1>7, <3>2, <3>3 DEF IsmCell
  <2>2. CASE b \notin DOMAIN w.slot
    <3>1. g.slot[b] = f.slot[b]
      BY <1>4, <1>7, <2>2
    <3>2. Covering(g, b, at[2], ColumnIndex(g, b, c)) = Covering(f, b, at[2], ColumnIndex(f, b, c))
      BY <3>1 DEF Covering, ColumnIndex
    <3>. QED
      BY <1>1, <1>6, <1>7, <3>1, <3>2 DEF IsmCell
  <2>. QED
    BY <2>1, <2>2
<1>. QED
  BY <1>8 DEF IsmRead, at, g

-----------------------------------------------------------------------------
(* Its state.                                                              *)

Counts(j) == todo[j].how = "inplace" /\ todo[j].w.hdr # <<>>

(* The file fits the buckets it will have when the flush is through.       *)
Settled(n) ==
  /\ IsmFits(file, n)
  /\ \A j \in DOMAIN todo : todo[j].how = "inplace" => IsmWrite(todo[j].w, n)
  /\ file.hdr.nb = n \/ \E j \in DOMAIN todo : Counts(j)

(* The writes to come leave alone, or a cell each, the rows of the first m *)
(* buckets, in which the handle's readable cells lie.                      *)
Within(v, m) ==
  v.main = <<>> => \A p \in v.reads : BucketFor(v.h, p[2]) = <<>> \/ BucketFor(v.h, p[2])[1] < m

Spared(m) ==
  /\ \A j \in DOMAIN todo : todo[j].how = "inplace" => SparesReaders(todo[j].w, m)
  /\ view # <<>> => Within(view[1], m)

Parsed(v) == v.h.rows \in Seq(Nat) /\ v.h.number \in Seq(Nat)

IsmInv ==
  kind = "ism" /\ doing # "dead" =>
    /\ \E n : Settled(n)
    /\ \A j \in DOMAIN todo : todo[j].how = "main" => IsmFits(todo[j].f, todo[j].f.hdr.nb)
    /\ view # <<>> => Parsed(view[1])
    /\ doing = "grow" => \E m : Spared(m)
    /\ doing = "grow" /\ view # <<>> => ReadsIn("ism", view[1], file)

LEMMA IsmSeen ==
  ASSUME NEW v, NEW f
  PROVE  SeenIn("ism", v, f) = IF v.main = <<>> THEN f ELSE v.main[1]
BY DEF SeenIn, WithAux

LEMMA IsmReadsOn ==
  ASSUME NEW v, Parsed(v), v.nrow \in Nat, v.reads \subseteq Columns("ism") \X (0..(v.nrow - 1)),
         NEW m, Within(v, m), NEW w, SparesReaders(w, m), NEW f, ReadsIn("ism", v, f)
  PROVE  ReadsIn("ism", v, IsmApply(f, w))
<1>. SUFFICES ASSUME NEW p \in v.reads
              PROVE  IsmRead(SeenIn("ism", v, IsmApply(f, w)), v.h, p[1], p[2]) # Broken
  BY DEF ReadsIn, ReadCell
<1>1. p[1] \in 1..IsmCols /\ p[2] \in Nat
  <2>1. p[1] \in Columns("ism") /\ p[2] \in 0..(v.nrow - 1)
    OBVIOUS
  <2>. QED
    BY <2>1 DEF Columns
<1>2. IsmRead(SeenIn("ism", v, f), v.h, p[1], p[2]) # Broken
  BY DEF ReadsIn, ReadCell
<1>3. CASE v.main # <<>>
  BY <1>2, <1>3, IsmSeen
<1>4. CASE v.main = <<>>
  <2>1. IsmRead(f, v.h, p[1], p[2]) # IsmBroken
    BY <1>2, <1>4, IsmSeen DEF IsmBroken, Broken
  <2>2. BucketFor(v.h, p[2]) = <<>> \/ BucketFor(v.h, p[2])[1] < m
    BY <1>4 DEF Within
  <2>3. v.h.rows \in Seq(Nat) /\ v.h.number \in Seq(Nat)
    BY DEF Parsed
  <2>4. IsmRead(IsmApply(f, w), v.h, p[1], p[2]) # IsmBroken
    BY <1>1, <2>1, <2>2, <2>3, ReadsOnInPlace
  <2>. QED
    BY <1>4, <2>4, IsmSeen DEF IsmBroken, Broken
<1>. QED
  BY <1>3, <1>4

LEMMA IsmBegins ==
  Init => IsmInv
<1>. SUFFICES ASSUME NEW l \in Layouts, kind = l.kind, file = l.file, todo = <<>>, doing = "rest", view = <<>>,
                     kind = "ism"
              PROVE  IsmInv
  BY DEF Init, IsmInv
<1>1. IsmFits(file, file.hdr.nb)
  BY LayoutsAssumption
<1>2. Settled(file.hdr.nb)
  BY <1>1 DEF Settled
<1>. QED
  BY <1>2 DEF IsmInv

(* With nothing left to write the file fits its own header.                *)
LEMMA AtRestFits ==
  ASSUME IsmInv, kind = "ism", doing # "dead", todo = <<>>
  PROVE  IsmFits(file, file.hdr.nb)
<1>1. PICK n : Settled(n)
  BY DEF IsmInv
<1>. QED
  BY <1>1 DEF Settled

LEMMA IsmRests ==
  ASSUME IsmInv, doing # "dead", todo = <<>>, UNCHANGED <<kind, file>>, doing' = "rest", todo' = <<>>,
         view' = view \/ \E n : view # <<>> /\ view' = <<n>> /\ n.h = view[1].h
  PROVE  IsmInv'
<1>. SUFFICES ASSUME kind = "ism" PROVE IsmInv'
  BY DEF IsmInv
<1>1. IsmFits(file, file.hdr.nb)
  BY AtRestFits
<1>2. Settled(file.hdr.nb)'
  BY <1>1 DEF Settled
<1>3. view' # <<>> => Parsed(view'[1])
  <2>1. view # <<>> => Parsed(view[1])
    BY DEF IsmInv
  <2>2. view' # <<>> => view # <<>> /\ view'[1].h = view[1].h
    OBVIOUS
  <2>. QED
    BY <2>1, <2>2 DEF Parsed
<1>4. \E n : Settled(n)'
  BY <1>2
<1>. QED
  BY <1>3, <1>4 DEF IsmInv

(* The writes of T in place are those of W.                                *)
Carries(T, W) ==
  /\ \A j \in DOMAIN T : /\ T[j].how = "inplace" => \E k \in DOMAIN W : T[j].w = W[k]
                         /\ T[j].how # "main"
  /\ \A k \in DOMAIN W : \E j \in DOMAIN T : T[j].how = "inplace" /\ T[j].w = W[k]

LEMMA InPlaceCarries ==
  ASSUME NEW W, IsList(W)
  PROVE  Carries(InPlace(W), W)
<1>. DEFINE T == InPlace(W)
<1>1. DOMAIN T = DOMAIN W /\ \A j \in DOMAIN W : T[j] = [how |-> "inplace", w |-> W[j]]
  BY InPlaceIsList
<1>. HIDE DEF T
<1>2. ASSUME NEW j \in DOMAIN W PROVE T[j].how = "inplace" /\ T[j].w = W[j]
  <2>1. T[j] = [how |-> "inplace", w |-> W[j]]
    BY <1>1
  <2>. QED
    BY <2>1
<1>. QED
  BY <1>1, <1>2 DEF Carries, T

LEMMA GrowthCarries ==
  ASSUME NEW W, IsList(W), NEW n
  PROVE  Carries(Append(InPlace(W), Counted(n)), W)
<1>. DEFINE T == Append(InPlace(W), Counted(n))
<1>1. /\ Len(W) \in Nat /\ DOMAIN W = 1..Len(W) /\ DOMAIN T = 1..(Len(W) + 1) /\ T[Len(W) + 1] = Counted(n)
      /\ \A j \in 1..Len(W) : T[j] = [how |-> "inplace", w |-> W[j]]
  BY ListAppends
<1>. HIDE DEF T
<1>2. ASSUME NEW j \in 1..Len(W) PROVE j \in DOMAIN T /\ T[j].how = "inplace" /\ T[j].w = W[j]
  <2>1. T[j] = [how |-> "inplace", w |-> W[j]]
    BY <1>1
  <2>2. j \in DOMAIN T
    BY <1>1
  <2>. QED
    BY <2>1, <2>2
<1>3. T[Len(W) + 1].how = "count"
  BY <1>1 DEF Counted
<1>4. \A j \in DOMAIN T : j \in 1..Len(W) \/ j = Len(W) + 1
  BY <1>1
<1>5. \A j \in DOMAIN T : /\ T[j].how = "inplace" => \E k \in DOMAIN W : T[j].w = W[k]
                          /\ T[j].how # "main"
  BY <1>1, <1>2, <1>3, <1>4
<1>. QED
  BY <1>1, <1>2, <1>5 DEF Carries, T

LEMMA IsmFlushes ==
  ASSUME NEW nb, IsmFits(file, nb), NEW W, NEW quiet, UpdateFits(W, nb, quiet), Carries(todo', W), file' = file
  PROVE  /\ \E n : Settled(n)'
         /\ quiet => \A j \in DOMAIN todo' : todo'[j].how = "inplace" => SparesReaders(todo'[j].w, nb)
<1>1. PICK n \in Nat : /\ nb <= n
                       /\ \A j \in DOMAIN W : IsmWrite(W[j], n) /\ (quiet => SparesReaders(W[j], nb))
                       /\ \E j \in DOMAIN W : W[j].hdr # <<>>
  BY DEF UpdateFits
<1>2. IsmFits(file', n)
  BY <1>1, MoreBuckets
<1>3. \A j \in DOMAIN todo' : todo'[j].how = "inplace" =>
        IsmWrite(todo'[j].w, n) /\ (quiet => SparesReaders(todo'[j].w, nb))
  BY <1>1 DEF Carries
<1>4. \E j \in DOMAIN todo' : todo'[j].how = "inplace" /\ todo'[j].w.hdr # <<>>
  BY <1>1 DEF Carries
<1>5. Settled(n)'
  BY <1>2, <1>3, <1>4 DEF Settled, Counts
<1>. QED
  BY <1>3, <1>5

LEMMA IsmHandle ==
  ASSUME IsmInv, kind = "ism", doing # "dead", todo = <<>>, Handle[1] = "ok"
  PROVE  IsmFits(file, file.hdr.nb) /\ IndexFits(Handle[2].rows, Handle[2].number, file.hdr.nb)
<1>1. IsmFits(file, file.hdr.nb)
  BY AtRestFits
<1>2. IsmOpen(file, dat.big)[1] = "ok" /\ Handle[2] = IsmOpen(file, dat.big)[2]
  BY DEF Handle, OpenManager
<1>. QED
  BY <1>1, <1>2, OpenedFits

(* The cells a growth has to keep lie in the buckets there are.            *)
LEMMA ReadsLieWithin ==
  ASSUME NEW f, NEW n, IsmFits(f, n), NEW v, NEW c, ReadsIn("ism", v, f)
  PROVE  Within(v, n)
<1>. SUFFICES ASSUME v.main = <<>>, NEW p \in v.reads, BucketFor(v.h, p[2]) # <<>>
              PROVE  BucketFor(v.h, p[2])[1] < n
  BY DEF Within
<1>. DEFINE b == BucketFor(v.h, p[2])[1]
<1>1. IsmRead(f, v.h, p[1], p[2]) # IsmBroken
  <2>1. IsmRead(SeenIn("ism", v, f), v.h, p[1], p[2]) # Broken
    BY DEF ReadsIn, ReadCell
  <2>. QED
    BY <2>1, IsmSeen DEF IsmBroken, Broken
<1>2. b \in DOMAIN f.slot /\ f.slot[b][1] = "bucket"
  BY <1>1 DEF IsmRead, IsmCell
<1>. HIDE DEF b
<1>3. SlotFits(b, f.slot[b], n)
  BY <1>2 DEF IsmFits
<1>4. b < n
  BY <1>2, <1>3 DEF SlotFits
<1>. QED
  BY <1>4 DEF b

LEMMA IsmGrows ==
  ASSUME Shape, IsmInv, BeginGrow, kind = "ism"
  PROVE  IsmInv' /\ IsList(Growth(Handle[2]))
<1>. DEFINE h == Handle[2]
            v == view[1]
<1>1. PICK W : W = Growth(h)
  OBVIOUS
<1>2. /\ doing = "rest" /\ rows > dat.nrow /\ Handle[1] = "ok" /\ CanGrow(h)
      /\ todo' = Append(InPlace(W), Counted(rows)) /\ doing' = "grow"
      /\ UNCHANGED <<kind, dat, file, rows>>
      /\ view' = IF view = <<>> THEN <<>> ELSE <<[v EXCEPT !.reads = Readable(v)]>>
  BY <1>1 DEF BeginGrow
<1>3. doing # "dead" /\ todo = <<>>
  BY <1>2 DEF Shape
<1>4. IsmFits(file, file.hdr.nb) /\ IndexFits(h.rows, h.number, file.hdr.nb)
  BY <1>2, <1>3, IsmHandle
<1>5. PICK none : none = AsFuns({}, cells)
  OBVIOUS
<1>6. \A c \in 1..IsmCols : DOMAIN none[c] = {}
  BY <1>5 DEF AsFuns
<1>7. UpdateFits(W, file.hdr.nb, \A c \in 1..IsmCols : DOMAIN none[c] = {})
  <2>1. dat.nrow \in Nat /\ rows \in Nat /\ dat.nrow <= rows
    BY DEF Shape, DatFits
  <2>2. IsmCanUpdate(file, h, Zero, none, dat.nrow, rows) /\ W = IsmUpdate(file, h, Zero, none, dat.nrow, rows)
    BY <1>1, <1>2, <1>5 DEF CanGrow, Growth
  <2>. HIDE DEF h
  <2>. QED
    BY <1>4, <2>1, <2>2, UpdateIsFit
<1>. HIDE DEF h
<1>8. IsList(W)
  BY <1>7 DEF UpdateFits
<1>9. Carries(todo', W)
  BY <1>2, <1>8, GrowthCarries
<1>10. /\ \E n : Settled(n)'
       /\ \A j \in DOMAIN todo' : todo'[j].how = "inplace" => SparesReaders(todo'[j].w, file.hdr.nb)
  BY <1>2, <1>4, <1>6, <1>7, <1>9, IsmFlushes
<1>11. ASSUME view' # <<>>
       PROVE  Parsed(view'[1]) /\ Within(view'[1], file.hdr.nb) /\ ReadsIn("ism", view'[1], file)
  <2>1. view # <<>>
    BY <1>2, <1>11
  <2>2. IsView(v)
    BY <2>1 DEF Shape, ViewFits
  <2>3. Parsed(v)
    BY <1>3, <2>1 DEF IsmInv
  <2>. DEFINE n == [v EXCEPT !.reads = Readable(v)]
  <2>4. n.h = v.h /\ n.spec = v.spec /\ n.main = v.main /\ n.aux = v.aux /\ n.reads = Readable(v)
    BY <2>2 DEF IsView
  <2>5. view'[1] = n
    BY <1>2, <2>1
  <2>. HIDE DEF n, v
  <2>6. SeenIn("ism", n, file) = Seen(v)
    BY <2>4 DEF SeenIn, Seen
  <2>7. \A p \in Readable(v) : ReadCell("ism", Seen(v), v.h, v.spec, p[1], p[2]) # Broken
    BY DEF Readable, SeenCell
  <2>8. ReadsIn("ism", n, file)
    BY <2>4, <2>6, <2>7 DEF ReadsIn
  <2>9. Within(n, file.hdr.nb)
    BY <1>4, <2>8, ReadsLieWithin
  <2>10. Parsed(n)
    BY <2>3, <2>4 DEF Parsed
  <2>. QED
    BY <2>5, <2>8, <2>9, <2>10
<1>13. \E m : Spared(m)'
  <2>1. PICK k : k = file.hdr.nb
    OBVIOUS
  <2>2. Spared(k)'
    BY <1>2, <1>10, <1>11, <2>1 DEF Spared
  <2>. QED
    BY <2>2
<1>14. \A j \in DOMAIN todo' : todo'[j].how # "main"
  BY <1>9 DEF Carries
<1>. QED
  BY <1>1, <1>2, <1>8, <1>10, <1>11, <1>13, <1>14 DEF IsmInv, h

LEMMA IsmPatches ==
  ASSUME Shape, IsmInv, BeginPatch, kind = "ism"
  PROVE  IsmInv' /\ IsList(Patch(Handle[2]))
<1>. DEFINE h == Handle[2]
<1>1. PICK W : W = Patch(h)
  OBVIOUS
<1>2. /\ doing \in {"rest", "grow"} /\ todo = <<>>
      /\ Handle[1] = "ok" /\ CanPatch(h) /\ todo' = InPlace(W) /\ doing' = "patch"
      /\ UNCHANGED <<kind, dat, file, rows, view>>
  BY <1>1 DEF BeginPatch, Shape
<1>3. IsmFits(file, file.hdr.nb) /\ IndexFits(h.rows, h.number, file.hdr.nb)
  BY <1>2, IsmHandle
<1>4. PICK some : some = AsFuns(pend, cells)
  OBVIOUS
<1>5. PICK quiet : quiet = \A c \in 1..IsmCols : DOMAIN some[c] = {}
  OBVIOUS
<1>6. UpdateFits(W, file.hdr.nb, quiet)
  <2>1. rows \in Nat /\ rows <= rows
    BY DEF Shape, DatFits
  <2>2. IsmCanUpdate(file, h, Zero, some, rows, rows) /\ W = IsmUpdate(file, h, Zero, some, rows, rows)
    BY <1>1, <1>2, <1>4 DEF CanPatch, Patch
  <2>. HIDE DEF h
  <2>. QED
    BY <1>3, <1>5, <2>1, <2>2, UpdateIsFit
<1>. HIDE DEF h
<1>7. IsList(W)
  BY <1>6 DEF UpdateFits
<1>8. Carries(todo', W)
  BY <1>2, <1>7, InPlaceCarries
<1>9. \E n : Settled(n)'
  BY <1>2, <1>3, <1>6, <1>8, IsmFlushes
<1>10. \A j \in DOMAIN todo' : todo'[j].how # "main"
  BY <1>8 DEF Carries
<1>11. view # <<>> => Parsed(view[1])
  BY <1>2 DEF IsmInv
<1>12. (view # <<>> => Parsed(view[1]))'
  BY <1>2, <1>11 DEF Parsed
<1>. QED
  BY <1>1, <1>2, <1>7, <1>9, <1>10, <1>12 DEF IsmInv, h

(* Whole new files, behind a new table.dat or not.                         *)
LEMMA IsmRenews ==
  ASSUME Shape, IsmInv, doing # "dead", todo = <<>>, kind = "ism", doing' = "rebuild",
         NEW f, IsmFits(f, f.hdr.nb), \A j \in DOMAIN todo' : todo'[j].how = "dat" \/ todo'[j] = Replaced(f) \/ todo'[j] = ReplacedAux(f),
         UNCHANGED <<kind, file, view>>
  PROVE  IsmInv'
<1>1. IsmFits(file, file.hdr.nb)
  BY AtRestFits
<1>2. \A j \in DOMAIN todo' : /\ todo'[j].how # "inplace"
                              /\ todo'[j].how = "main" => todo'[j] = Replaced(f)
  BY DEF Replaced, ReplacedAux
<1>3. \A j \in DOMAIN todo' : todo'[j].how = "main" => todo'[j].f = f
  BY <1>2 DEF Replaced
<1>4. \E n : Settled(n)'
  <2>1. PICK n : n = file.hdr.nb
    OBVIOUS
  <2>2. Settled(n)'
    BY <1>1, <1>2, <2>1 DEF Settled
  <2>. QED
    BY <2>2
<1>5. (view # <<>> => Parsed(view[1]))'
  BY DEF IsmInv, Parsed
<1>6. \A j \in DOMAIN todo' : todo'[j].how = "main" => IsmFits(todo'[j].f, todo'[j].f.hdr.nb)
  BY <1>3
<1>. QED
  BY <1>4, <1>5, <1>6 DEF IsmInv

LEMMA IsmRebuilds ==
  ASSUME Shape, IsmInv, BeginRebuild \/ BeginRewrite, kind = "ism"
  PROVE  IsmInv'
<1>1. PICK f : f = Build(kind, rows, cells)
  OBVIOUS
<1>2. IsmFits(f, f.hdr.nb)
  <2>1. rows \in Nat
    BY DEF Shape, DatFits
  <2>. QED
    BY <1>1, <2>1, BuiltFits DEF Build
<1>3. /\ doing # "dead" /\ todo = <<>> /\ doing' = "rebuild" /\ UNCHANGED <<kind, file, view>>
      /\ todo' = BuildWrites(kind, f) \/ todo' = <<NewDat(NewRows)>> \o BuildWrites(kind, f)
  BY <1>1 DEF BeginRebuild, BeginRewrite, Shape, NewRows
<1>4. PICK B : B = BuildWrites(kind, f)
  OBVIOUS
<1>5. IsList(B) /\ 1 \in DOMAIN B /\ \A j \in DOMAIN B : B[j] = Replaced(f) \/ B[j] = ReplacedAux(f)
  BY <1>4, BuildIsList
<1>6. \A j \in DOMAIN todo' : todo'[j].how = "dat" \/ todo'[j] = Replaced(f) \/ todo'[j] = ReplacedAux(f)
  <2>1. CASE todo' = B
    BY <1>5, <2>1
  <2>2. CASE todo' = <<NewDat(NewRows)>> \o B
    <3>. DEFINE T == <<NewDat(NewRows)>> \o B
    <3>1. T[1] = NewDat(NewRows) /\ \A j \in DOMAIN T : j = 1 \/ \E k \in DOMAIN B : T[j] = B[k]
      BY <1>5, Prefixed
    <3>. HIDE DEF T
    <3>2. \A j \in DOMAIN T : T[j].how = "dat" \/ \E k \in DOMAIN B : T[j] = B[k]
      BY <3>1 DEF NewDat
    <3>3. todo' = T
      BY <2>2 DEF T
    <3>. QED
      BY <1>5, <3>2, <3>3
  <2>. QED
    BY <1>3, <1>4, <2>1, <2>2
<1>. QED
  BY <1>2, <1>3, <1>6, IsmRenews

LEMMA IsmOpens ==
  ASSUME Shape, IsmInv, OpenView, kind = "ism"
  PROVE  IsmInv'
<1>1. doing # "dead" /\ UNCHANGED <<kind, dat, file, rows, doing, todo>> /\ view = <<>>
  BY DEF OpenView
<1>2. PICK h, b, m : /\ Handle[1] = "ok" /\ h = Handle[2]
                     /\ view' = <<[h |-> h, spec |-> dat.spec, nrow |-> dat.nrow, main |-> <<>>, aux |-> <<>>,
                                   built |-> b, reads |-> {}, may |-> m]>>
  BY ViewOpens
<1>. DEFINE v == view'[1]
<1>3. v.h = h /\ v.reads = {} /\ view' # <<>>
  BY <1>2
<1>4. PICK n : Settled(n)
  BY <1>1 DEF IsmInv
<1>5. IndexFits(h.rows, h.number, n)
  <2>1. IsmOpen(file, dat.big)[1] = "ok" /\ h = IsmOpen(file, dat.big)[2]
    BY <1>2 DEF Handle, OpenManager
  <2>. QED
    BY <1>4, <2>1, OpenedFits DEF Settled
<1>. HIDE DEF v
<1>6. Parsed(v) /\ (\A k : Within(v, k)) /\ \A f : ReadsIn("ism", v, f)
  BY <1>3, <1>5 DEF Parsed, IndexFits, Within, ReadsIn
<1>7. Settled(n)'
  BY <1>1, <1>4 DEF Settled, Counts
<1>8. \E k : Settled(k)'
  BY <1>7
<1>9. doing = "grow" => \E k : Spared(k)'
  <2>. SUFFICES ASSUME doing = "grow" PROVE \E k : Spared(k)'
    OBVIOUS
  <2>1. PICK k : Spared(k)
    BY DEF IsmInv
  <2>2. Spared(k)'
    BY <1>1, <1>6, <2>1 DEF Spared, v
  <2>. QED
    BY <2>2
<1>10. \A j \in DOMAIN todo : todo[j].how = "main" => IsmFits(todo[j].f, todo[j].f.hdr.nb)
  BY <1>1 DEF IsmInv
<1>. QED
  BY <1>1, <1>6, <1>8, <1>9, <1>10 DEF IsmInv, v

(* A write in place.                                                       *)
LEMMA IsmWritesOn ==
  ASSUME Shape, IsmInv, Write, kind = "ism", todo[1].how = "inplace"
  PROVE  IsmInv'
<1>. DEFINE w == todo[1]
<1>1. /\ 1 \in DOMAIN todo /\ doing \in {"grow", "patch", "rebuild"}
      /\ \A j \in DOMAIN todo' : j + 1 \in DOMAIN todo /\ todo'[j] = todo[j + 1]
      /\ \A j \in DOMAIN todo : j # 1 => j - 1 \in DOMAIN todo' /\ todo'[j - 1] = todo[j]
      /\ UNCHANGED <<kind, doing>>
      /\ file' = ApplyWrite(kind, file, w.w)
  BY WriteTakes
<1>2. file' = IsmApply(file, w.w)
  BY <1>1 DEF ApplyWrite
<1>3. view' = view
  BY ViewStays
<1>4. PICK n : Settled(n)
  BY <1>1 DEF IsmInv
<1>5. IsmFits(file, n) /\ IsmWrite(w.w, n)
  BY <1>1, <1>4 DEF Settled
<1>. HIDE DEF w
<1>6. /\ IsmFits(file', n)
      /\ w.w.hdr = <<>> => file'.hdr = file.hdr
      /\ w.w.hdr # <<>> => file'.hdr.nb = n
  BY <1>2, <1>5, WriteFits
<1>7. \A j \in DOMAIN todo' : todo'[j].how = "inplace" => IsmWrite(todo'[j].w, n)
  BY <1>1, <1>4 DEF Settled
<1>8. file'.hdr.nb = n \/ \E j \in DOMAIN todo' : todo'[j].how = "inplace" /\ todo'[j].w.hdr # <<>>
  <2>1. CASE w.w.hdr # <<>>
    BY <1>6, <2>1
  <2>2. CASE w.w.hdr = <<>> /\ file.hdr.nb = n
    BY <1>6, <2>2
  <2>3. CASE w.w.hdr = <<>> /\ file.hdr.nb # n
    <3>1. PICK j \in DOMAIN todo : Counts(j)
      BY <1>4, <2>3 DEF Settled
    <3>2. j # 1 /\ todo[j].how = "inplace" /\ todo[j].w.hdr # <<>>
      BY <2>3, <3>1 DEF Counts, w
    <3>3. j - 1 \in DOMAIN todo' /\ todo'[j - 1] = todo[j]
      BY <1>1, <3>2
    <3>. QED
      BY <3>2, <3>3
  <2>. QED
    BY <2>1, <2>2, <2>3
<1>9. Settled(n)'
  BY <1>6, <1>7, <1>8 DEF Settled, Counts
<1>10. \E k : Settled(k)'
  BY <1>9
<1>11. \A j \in DOMAIN todo' : todo'[j].how = "main" => IsmFits(todo'[j].f, todo'[j].f.hdr.nb)
  <2>1. \A j \in DOMAIN todo : todo[j].how = "main" => IsmFits(todo[j].f, todo[j].f.hdr.nb)
    BY <1>1 DEF IsmInv
  <2>. QED
    BY <1>1, <2>1
<1>12. view # <<>> => Parsed(view[1])
  BY <1>1 DEF IsmInv
<1>13. (view # <<>> => Parsed(view[1]))'
  BY <1>3, <1>12 DEF Parsed
<1>14. ASSUME doing = "grow"
       PROVE  (\E m : Spared(m)') /\ (view # <<>> => ReadsIn("ism", view[1], file'))
  <2>1. PICK m : Spared(m)
    BY <1>14 DEF IsmInv
  <2>2. (\A j \in DOMAIN todo : todo[j].how = "inplace" => SparesReaders(todo[j].w, m)) /\ (view # <<>> => Within(view[1], m))
    BY <2>1 DEF Spared
  <2>3. \A j \in DOMAIN todo' : todo'[j].how = "inplace" => SparesReaders(todo'[j].w, m)
    BY <1>1, <2>2
  <2>4. Spared(m)'
    BY <1>3, <2>2, <2>3 DEF Spared
  <2>5. SparesReaders(w.w, m)
    BY <1>1, <2>2 DEF w
  <2>6. ASSUME view # <<>> PROVE ReadsIn("ism", view[1], file')
    <3>. DEFINE v == view[1]
    <3>1. v.nrow \in Nat /\ v.reads \subseteq Columns("ism") \X (0..(v.nrow - 1))
      BY <1>14, <2>6 DEF Shape, ViewFits, IsView
    <3>2. ReadsIn("ism", v, file)
      BY <1>14, <2>6 DEF IsmInv
    <3>3. Parsed(v) /\ Within(v, m)
      BY <1>12, <2>2, <2>6
    <3>. HIDE DEF v
    <3>4. ReadsIn("ism", v, IsmApply(file, w.w))
      BY <2>5, <3>1, <3>2, <3>3, IsmReadsOn
    <3>. QED
      BY <1>2, <3>4 DEF v
  <2>. QED
    BY <2>4, <2>6
<1>15. doing = "grow" /\ view # <<>> => ReadsIn("ism", view[1], file')
  BY <1>14
<1>16. doing = "grow" => \E m : Spared(m)'
  BY <1>14
<1>. QED
  BY <1>1, <1>3, <1>10, <1>11, <1>13, <1>15, <1>16 DEF IsmInv

(* The row count, a new table.dat, or a file there is none of.             *)
LEMMA IsmStays ==
  ASSUME Shape, IsmInv, Write, kind = "ism", todo[1].how \notin {"inplace", "main"}
  PROVE  IsmInv'
<1>. DEFINE w == todo[1]
<1>1. /\ 1 \in DOMAIN todo /\ doing \in {"grow", "patch", "rebuild"} /\ Fits(w, 1)
      /\ \A j \in DOMAIN todo' : j + 1 \in DOMAIN todo /\ todo'[j] = todo[j + 1]
      /\ \A j \in DOMAIN todo : j # 1 => j - 1 \in DOMAIN todo' /\ todo'[j - 1] = todo[j]
      /\ UNCHANGED <<kind, doing>> /\ view' = Kept(view, w)
  BY WriteTakes
<1>2. file' = file
  <2>1. w.how \in {"aux", "count", "dat"}
    BY <1>1 DEF Fits, Counted, NewDat
  <2>2. /\ w.how = "aux" => file' = WithAux(kind, file, w.f)
        /\ w.how = "count" => file' = file
        /\ w.how = "dat" => file' = file
    BY WriteTakes
  <2>. QED
    BY <2>1, <2>2 DEF WithAux
<1>3. PICK n : Settled(n)
  BY <1>1 DEF IsmInv
<1>4. \A j \in DOMAIN todo' : todo'[j].how = "inplace" => IsmWrite(todo'[j].w, n)
  BY <1>1, <1>3 DEF Settled
<1>5. file.hdr.nb = n \/ \E j \in DOMAIN todo' : todo'[j].how = "inplace" /\ todo'[j].w.hdr # <<>>
  <2>. SUFFICES ASSUME file.hdr.nb # n
                PROVE  \E j \in DOMAIN todo' : todo'[j].how = "inplace" /\ todo'[j].w.hdr # <<>>
    OBVIOUS
  <2>1. PICK j \in DOMAIN todo : Counts(j)
    BY <1>3 DEF Settled
  <2>2. j # 1 /\ todo[j].how = "inplace" /\ todo[j].w.hdr # <<>>
    BY <2>1 DEF Counts
  <2>3. j - 1 \in DOMAIN todo' /\ todo'[j - 1] = todo[j]
    BY <1>1, <2>2
  <2>. QED
    BY <2>2, <2>3
<1>6. Settled(n)'
  BY <1>2, <1>3, <1>4, <1>5 DEF Settled, Counts
<1>7. \E k : Settled(k)'
  BY <1>6
<1>8. \A j \in DOMAIN todo' : todo'[j].how = "main" => IsmFits(todo'[j].f, todo'[j].f.hdr.nb)
  <2>1. \A j \in DOMAIN todo : todo[j].how = "main" => IsmFits(todo[j].f, todo[j].f.hdr.nb)
    BY <1>1 DEF IsmInv
  <2>. QED
    BY <1>1, <2>1
<1>9. view # <<>> => Parsed(view[1])
  BY <1>1 DEF IsmInv
<1>10. view' # <<>> => view # <<>> /\ view'[1].h = view[1].h
  <2>1. CASE view = <<>>
    BY <1>1, <2>1 DEF Kept
  <2>2. CASE view # <<>>
    <3>1. IsView(view[1])
      BY <2>2 DEF Shape, ViewFits
    <3>2. PICK v : Kept(view, w) = <<v>> /\ Keeps(view[1], v, w)
      BY <2>2, <3>1, WriteKeeps
    <3>. QED
      BY <1>1, <2>2, <3>2 DEF Keeps
  <2>. QED
    BY <2>1, <2>2
<1>11. (view # <<>> => Parsed(view[1]))'
  BY <1>9, <1>10 DEF Parsed
<1>12. ASSUME doing = "grow"
       PROVE  (\E m : Spared(m)') /\ (view' # <<>> => ReadsIn("ism", view'[1], file))
  <2>1. view' = view
    <3>1. w.how \notin {"main", "aux"}
      BY <1>1, <1>12 DEF Fits, Counted
    <3>. QED
      BY <3>1, ViewStays
  <2>2. PICK m : Spared(m)
    BY <1>12 DEF IsmInv
  <2>3. \A j \in DOMAIN todo' : todo'[j].how = "inplace" => SparesReaders(todo'[j].w, m)
    BY <1>1, <2>2 DEF Spared
  <2>4. Spared(m)'
    BY <2>1, <2>2, <2>3 DEF Spared
  <2>5. view # <<>> => ReadsIn("ism", view[1], file)
    BY <1>12 DEF IsmInv
  <2>. QED
    BY <2>1, <2>4, <2>5
<1>13. doing = "grow" => \E m : Spared(m)'
  BY <1>12
<1>14. doing = "grow" /\ view' # <<>> => ReadsIn("ism", view'[1], file)
  BY <1>12
<1>. QED
  BY <1>1, <1>2, <1>7, <1>8, <1>11, <1>13, <1>14 DEF IsmInv

(* A new main file.                                                        *)
LEMMA IsmReplaces ==
  ASSUME Shape, IsmInv, Write, kind = "ism", todo[1].how = "main"
  PROVE  IsmInv'
<1>. DEFINE w == todo[1]
<1>1. /\ 1 \in DOMAIN todo /\ doing \in {"grow", "patch", "rebuild"} /\ Fits(w, 1)
      /\ \A j \in DOMAIN todo' : j + 1 \in DOMAIN todo /\ todo'[j] = todo[j + 1]
      /\ UNCHANGED <<kind, doing>> /\ view' = Kept(view, w)
      /\ file' = WithMain(kind, file, w.f)
  BY WriteTakes
<1>2. doing = "rebuild"
  BY <1>1 DEF Fits, Counted
<1>3. file' = w.f
  BY <1>1 DEF WithMain
<1>4. \A j \in DOMAIN todo : todo[j].how = "main" => IsmFits(todo[j].f, todo[j].f.hdr.nb)
  BY <1>2 DEF IsmInv
<1>5. IsmFits(file', file'.hdr.nb)
  BY <1>1, <1>3, <1>4
<1>6. \A j \in DOMAIN todo' : todo'[j].how # "inplace"
  <2>1. \A j \in DOMAIN todo : Fits(todo[j], j)
    BY <1>2 DEF Shape, TodoFits
  <2>2. \A j \in DOMAIN todo : todo[j].how # "inplace"
    BY <1>2, <2>1 DEF Fits, NewDat
  <2>. QED
    BY <1>1, <2>2
<1>7. \E n : Settled(n)'
  <2>1. PICK n : n = file'.hdr.nb
    OBVIOUS
  <2>2. Settled(n)'
    BY <1>5, <1>6, <2>1 DEF Settled
  <2>. QED
    BY <2>2
<1>8. \A j \in DOMAIN todo' : todo'[j].how = "main" => IsmFits(todo'[j].f, todo'[j].f.hdr.nb)
  BY <1>1, <1>4
<1>9. view # <<>> => Parsed(view[1])
  BY <1>2 DEF IsmInv
<1>10. view' # <<>> => view # <<>> /\ view'[1].h = view[1].h
  <2>1. CASE view = <<>>
    BY <1>1, <2>1 DEF Kept
  <2>2. CASE view # <<>>
    <3>1. IsView(view[1])
      BY <2>2 DEF Shape, ViewFits
    <3>2. PICK v : Kept(view, w) = <<v>> /\ Keeps(view[1], v, w)
      BY <2>2, <3>1, WriteKeeps
    <3>. QED
      BY <1>1, <2>2, <3>2 DEF Keeps
  <2>. QED
    BY <2>1, <2>2
<1>11. (view # <<>> => Parsed(view[1]))'
  BY <1>9, <1>10 DEF Parsed
<1>. QED
  BY <1>1, <1>2, <1>7, <1>8, <1>11 DEF IsmInv

LEMMA IsmEnds ==
  ASSUME Shape, IsmInv, EndFlush
  PROVE  IsmInv'
<1>1. /\ todo = <<>> /\ doing' = "rest" /\ todo' = <<>> /\ UNCHANGED <<kind, file>>
      /\ doing \in {"grow", "patch", "rebuild"}
  BY DEF EndFlush
<1>2. view' = view \/ \E n : view # <<>> /\ view' = <<n>> /\ n.h = view[1].h
  <2>1. CASE view = <<>>
    BY <2>1 DEF EndFlush
  <2>2. CASE view # <<>>
    <3>. DEFINE v == view[1]
    <3>1. \E m : view' = <<[v EXCEPT !.may = m]>>
      BY <2>2 DEF EndFlush
    <3>2. PICK m : view' = <<[v EXCEPT !.may = m]>>
      BY <3>1
    <3>3. IsView(v)
      BY <2>2 DEF Shape, ViewFits
    <3>. DEFINE n == [v EXCEPT !.may = m]
    <3>4. n.h = v.h
      BY <3>3 DEF IsView
    <3>. HIDE DEF n
    <3>. QED
      BY <2>2, <3>2, <3>4 DEF n
  <2>. QED
    BY <2>1, <2>2
<1>. QED
  BY <1>1, <1>2, IsmRests

LEMMA IsmSteps ==
  ASSUME Shape, IsmInv, [Next]_vars
  PROVE  IsmInv'
<1>. SUFFICES ASSUME kind' = "ism" PROVE IsmInv'
  BY DEF IsmInv
<1>1. kind = "ism"
  BY DEF Next, vars, PutCell, AddRows, BeginGrow, BeginRewrite, BeginPatch, BeginRebuild, Write, EndFlush, OpenView, Die
<1>2. ASSUME NEW c \in Columns(kind), NEW row \in 0..(MaxRows - 1), NEW v \in Values(kind, c), PutCell(c, row, v)
      PROVE  IsmInv'
  <2>1. doing = "rest" /\ doing' = "rest" /\ todo = <<>> /\ todo' = <<>> /\ UNCHANGED <<kind, file, view>>
    BY <1>2 DEF PutCell, Shape
  <2>. QED
    BY <2>1, IsmRests
<1>3. ASSUME NEW n \in 1..MaxRows, AddRows(n) PROVE IsmInv'
  <2>1. doing = "rest" /\ doing' = "rest" /\ todo = <<>> /\ todo' = <<>> /\ UNCHANGED <<kind, file, view>>
    BY <1>3 DEF AddRows, Shape
  <2>. QED
    BY <2>1, IsmRests
<1>4. CASE BeginGrow
  BY <1>1, <1>4, IsmGrows
<1>5. CASE BeginRewrite \/ BeginRebuild
  BY <1>1, <1>5, IsmRebuilds
<1>6. CASE BeginPatch
  BY <1>1, <1>6, IsmPatches
<1>7. CASE Write
  BY <1>1, <1>7, IsmWritesOn, IsmStays, IsmReplaces
<1>8. CASE EndFlush
  BY <1>8, IsmEnds
<1>9. CASE OpenView
  BY <1>1, <1>9, IsmOpens
<1>10. CASE Die
  BY <1>10 DEF Die, IsmInv
<1>11. CASE UNCHANGED vars
  <2>1. UNCHANGED <<kind, file, doing, todo, view>>
    BY <1>11 DEF vars
  <2>2. \A n : Settled(n)' <=> Settled(n)
    BY <2>1 DEF Settled, Counts
  <2>3. \A m : Spared(m)' <=> Spared(m)
    BY <2>1 DEF Spared
  <2>. QED
    BY <2>1, <2>2, <2>3 DEF IsmInv
<1>. QED
  BY <1>2, <1>3, <1>4, <1>5, <1>6, <1>7, <1>8, <1>9, <1>10, <1>11 DEF Next

-----------------------------------------------------------------------------
(* A tiled storage manager.                                                *)

TsmInv ==
  kind = "tsm" /\ doing = "grow" /\ view # <<>> => ReadsIn("tsm", view[1], file)

LEMMA TsmLists ==
  ASSUME kind = "tsm"
  PROVE  IsList(Growth(Handle[2])) /\ IsList(Patch(Handle[2]))
<1>1. \E x, y : Growth(Handle[2]) = <<x, y>>
  BY DEF Growth, TsmGrow, GrownTo, Grown
<1>2. Patch(Handle[2]) = <<>> \/ \E x : Patch(Handle[2]) = <<x>>
  BY DEF Patch, TsmPatch
<1>3. ASSUME NEW x, NEW y PROVE IsList(<<x, y>>)
  <2>1. <<x, y>> \in Seq({x, y})
    OBVIOUS
  <2>. QED
    BY <2>1, SeqIsList
<1>4. ASSUME NEW x PROVE IsList(<<x>>)
  <2>1. <<x>> \in Seq({x})
    OBVIOUS
  <2>. QED
    BY <2>1, SeqIsList
<1>5. IsList(<<>>)
  <2>1. <<>> \in Seq({})
    OBVIOUS
  <2>. QED
    BY <2>1, SeqIsList
<1>. QED
  BY <1>1, <1>2, <1>3, <1>4, <1>5

LEMMA TsmReadsOn ==
  ASSUME NEW v, NEW f, ReadsIn("tsm", v, f), NEW g
  PROVE  ReadsIn("tsm", v, g)
<1>. SUFFICES ASSUME NEW p \in v.reads PROVE TsmRead(SeenIn("tsm", v, g), v.h, TsmShape, p[2]) # Broken
  BY DEF ReadsIn, ReadCell
<1>1. TsmRead(SeenIn("tsm", v, f), v.h, TsmShape, p[2]) # Broken
  BY DEF ReadsIn, ReadCell
<1>2. TsmBroken = Broken
  BY DEF TsmBroken, Broken
<1>. QED
  BY <1>1, <1>2, TiledKeeps

LEMMA TsmSteps ==
  ASSUME Shape, TsmInv, [Next]_vars
  PROVE  TsmInv'
<1>. SUFFICES ASSUME kind' = "tsm", doing' = "grow", view' # <<>> PROVE ReadsIn("tsm", view'[1], file')
  BY DEF TsmInv
<1>1. kind = "tsm"
  BY DEF Next, vars, PutCell, AddRows, BeginGrow, BeginRewrite, BeginPatch, BeginRebuild, Write, EndFlush, OpenView, Die
<1>2. CASE BeginGrow
  <2>. DEFINE v == view[1]
              n == [v EXCEPT !.reads = Readable(v)]
  <2>1. view # <<>> /\ view'[1] = n /\ file' = file
    BY <1>2 DEF BeginGrow
  <2>2. IsView(v)
    BY <2>1 DEF Shape, ViewFits
  <2>3. n.h = v.h /\ n.spec = v.spec /\ n.main = v.main /\ n.aux = v.aux /\ n.reads = Readable(v)
    BY <2>2 DEF IsView
  <2>. HIDE DEF n, v
  <2>4. SeenIn("tsm", n, file) = Seen(v)
    BY <1>1, <2>3 DEF SeenIn, Seen
  <2>5. \A p \in Readable(v) : ReadCell("tsm", Seen(v), v.h, v.spec, p[1], p[2]) # Broken
    BY <1>1 DEF Readable, SeenCell
  <2>6. ReadsIn("tsm", n, file)
    BY <2>3, <2>4, <2>5 DEF ReadsIn
  <2>. QED
    BY <2>1, <2>6
<1>3. CASE Write
  <2>1. Fits(todo[1], 1) /\ doing' = doing
    BY <1>3, WriteTakes
  <2>2. todo[1].how \notin {"main", "aux"}
    BY <2>1 DEF Fits, Counted
  <2>3. view' = view
    BY <1>3, <2>2, ViewStays
  <2>4. ReadsIn("tsm", view[1], file)
    BY <1>1, <2>1, <2>3 DEF TsmInv
  <2>. QED
    BY <2>3, <2>4, TsmReadsOn
<1>4. CASE OpenView
  <2>1. PICK h, b, m : view' = <<[h |-> h, spec |-> dat.spec, nrow |-> dat.nrow, main |-> <<>>, aux |-> <<>>,
                                  built |-> b, reads |-> {}, may |-> m]>>
    BY <1>4, ViewOpens
  <2>2. view'[1].reads = {}
    BY <2>1
  <2>. QED
    BY <2>2 DEF ReadsIn
<1>5. CASE UNCHANGED vars
  BY <1>1, <1>5 DEF vars, TsmInv
<1>6. CASE BeginRewrite \/ BeginPatch \/ BeginRebuild \/ EndFlush \/ Die
  BY <1>6 DEF BeginRewrite, BeginPatch, BeginRebuild, EndFlush, Die
<1>7. ASSUME NEW c \in Columns(kind), NEW row \in 0..(MaxRows - 1), NEW v \in Values(kind, c), PutCell(c, row, v)
      PROVE  FALSE
  BY <1>7 DEF PutCell
<1>8. ASSUME NEW n \in 1..MaxRows, AddRows(n) PROVE FALSE
  BY <1>8 DEF AddRows
<1>. QED
  BY <1>2, <1>3, <1>4, <1>5, <1>6, <1>7, <1>8 DEF Next

-----------------------------------------------------------------------------
(* All of it.                                                              *)

Inv == Shape /\ SsmInv /\ IsmInv /\ TsmInv

LEMMA ShapeSteps ==
  ASSUME Inv, [Next]_vars
  PROVE  Shape'
<1>1. Shape /\ kind \in Kinds
  BY DEF Inv, Shape
<1>2. ASSUME NEW c \in Columns(kind), NEW row \in 0..(MaxRows - 1), NEW v \in Values(kind, c), PutCell(c, row, v)
      PROVE  Shape'
  BY <1>1, <1>2, PutKeepsShape
<1>3. ASSUME NEW n \in 1..MaxRows, AddRows(n) PROVE Shape'
  BY <1>1, <1>3, AddKeepsShape
<1>4. CASE BeginGrow
  <2>1. IsList(Growth(Handle[2]))
    BY <1>1, <1>4, SsmGrows, IsmGrows, TsmLists DEF Inv, Kinds
  <2>2. PICK W : W = Growth(Handle[2])
    OBVIOUS
  <2>3. /\ doing = "rest" /\ todo' = Append(InPlace(W), Counted(rows)) /\ doing' = "grow"
        /\ view' = IF view = <<>> THEN <<>> ELSE <<[view[1] EXCEPT !.reads = Readable(view[1])]>>
        /\ UNCHANGED <<kind, dat, rows, cells>>
    BY <1>4, <2>2 DEF BeginGrow
  <2>. QED
    BY <1>1, <2>1, <2>2, <2>3, GrowKeepsShape
<1>5. CASE BeginRewrite
  <2>1. PICK f : f = Build(kind, rows, cells)
    OBVIOUS
  <2>2. /\ doing = "rest" /\ todo' = <<NewDat(NewRows)>> \o BuildWrites(kind, f) /\ doing' = "rebuild"
        /\ UNCHANGED <<kind, dat, rows, cells, view>>
    BY <1>5, <2>1 DEF BeginRewrite, NewRows
  <2>. QED
    BY <1>1, <2>2, RewriteKeepsShape
<1>6. CASE BeginPatch
  <2>1. IsList(Patch(Handle[2]))
    BY <1>1, <1>6, SsmPatches, IsmPatches, TsmLists DEF Inv, Kinds
  <2>2. PICK W : W = Patch(Handle[2])
    OBVIOUS
  <2>3. /\ doing \in {"rest", "grow"} /\ todo' = InPlace(W) /\ doing' = "patch"
        /\ UNCHANGED <<kind, dat, rows, cells, view>>
    BY <1>6, <2>2 DEF BeginPatch
  <2>. QED
    BY <1>1, <2>1, <2>2, <2>3, FlushKeepsShape
<1>7. CASE BeginRebuild
  <2>1. PICK f : f = Build(kind, rows, cells)
    OBVIOUS
  <2>2. /\ doing \in {"rest", "grow"} /\ todo' = BuildWrites(kind, f) /\ doing' = "rebuild"
        /\ UNCHANGED <<kind, dat, rows, cells, view>>
    BY <1>7, <2>1 DEF BeginRebuild
  <2>. QED
    BY <1>1, <2>2, RebuildKeepsShape
<1>8. CASE Write
  BY <1>1, <1>8, WriteKeepsShape
<1>9. CASE EndFlush
  BY <1>1, <1>9, EndKeepsShape
<1>10. CASE OpenView
  BY <1>1, <1>10, OpenKeepsShape
<1>11. CASE Die
  BY <1>1, <1>11, DieKeepsShape
<1>12. CASE UNCHANGED vars
  <2>1. UNCHANGED <<kind, dat, rows, cells, doing, todo, view>>
    BY <1>12 DEF vars
  <2>2. UNCHANGED <<DatFits, TodoFits, ViewFits, CellsFit>>
    BY <2>1 DEF DatFits, TodoFits, ViewFits, CellsFit, Fits, NewRows
  <2>. QED
    BY <1>1, <2>1, <2>2 DEF Shape
<1>. QED
  BY <1>2, <1>3, <1>4, <1>5, <1>6, <1>7, <1>8, <1>9, <1>10, <1>11, <1>12 DEF Next

LEMMA InvBegins ==
  Init => Inv
<1>1. Init => TsmInv
  BY DEF Init, TsmInv
<1>. QED
  BY <1>1, ShapeBegins, SsmBegins, IsmBegins DEF Inv

LEMMA InvSteps ==
  Inv /\ [Next]_vars => Inv'
<1>. SUFFICES ASSUME Inv, [Next]_vars PROVE Inv'
  OBVIOUS
<1>1. Shape'
  BY ShapeSteps
<1>2. SsmInv'
  BY SsmSteps DEF Inv
<1>3. IsmInv'
  BY IsmSteps DEF Inv
<1>4. TsmInv'
  BY TsmSteps DEF Inv
<1>. QED
  BY <1>1, <1>2, <1>3, <1>4 DEF Inv

LEMMA InvKeepsReaders ==
  Inv => GrowthKeepsReaders
<1>. SUFFICES ASSUME Inv, doing = "grow", view # <<>>, NEW p \in view[1].reads
              PROVE  SeenCell(view[1], p[1], p[2]) # Broken
  BY DEF GrowthKeepsReaders
<1>1. Shape /\ SsmInv /\ IsmInv /\ TsmInv /\ kind \in Kinds
  BY DEF Inv, Shape
<1>2. kind = "ssm" => ReadsIn("ssm", view[1], file)
  <2>. SUFFICES ASSUME kind = "ssm" PROVE ReadsIn("ssm", view[1], file)
    OBVIOUS
  <2>1. CASE todo = <<>>
    BY <1>1, <2>1 DEF SsmInv
  <2>2. CASE todo # <<>>
    <3>1. Frozen(view[1]) /\ \E g, W, s : Growing(g, W, s)
      BY <1>1, <2>2 DEF SsmInv
    <3>. QED
      BY <1>1, <3>1, GrowingReads
  <2>. QED
    BY <2>1, <2>2
<1>3. kind = "ism" => ReadsIn("ism", view[1], file)
  BY <1>1 DEF IsmInv
<1>4. kind = "tsm" => ReadsIn("tsm", view[1], file)
  BY <1>1 DEF TsmInv
<1>5. ReadsIn(kind, view[1], file)
  BY <1>1, <1>2, <1>3, <1>4 DEF Kinds
<1>. QED
  BY <1>5 DEF ReadsIn, SeenIn, SeenCell, Seen

(* A growth spares the read handles of its process: whatever data manager  *)
(* and whatever file it began from, every cell a handle could read when a  *)
(* growth began it can read after each of the growth's writes, for which   *)
(* grow_in_place takes no lock that reading waits for.                     *)
THEOREM ReadersAreKept ==
  Spec => []GrowthKeepsReaders
<1>1. Spec => []Inv
  BY InvBegins, InvSteps, PTL DEF Spec
<1>. QED
  BY <1>1, InvKeepsReaders, PTL
=============================================================================
