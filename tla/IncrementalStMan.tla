-------------------------- MODULE IncrementalStMan --------------------------
(***************************************************************************)
(* The file of an IncrementalStMan data manager (crates/casacure/src/      *)
(* ism.rs, build_ism_data and patch_ism_columns of table.rs, ism_update of *)
(* grow.rs): a header, buckets that hold a run of rows each, with equal    *)
(* cells that follow one another stored once, and behind the last bucket   *)
(* the index of the rows.                                                  *)
(*                                                                         *)
(* A place of the file holds a bucket or the index; a cell, a row number   *)
(* and an offset in a bucket take one unit of its size.  Columns hold      *)
(* scalars; rows count from 0.                                             *)
(***************************************************************************)
EXTENDS Naturals, Sequences, FiniteSets, SequencesExt, FiniteSetsExt

CONSTANTS IsmCols,   \* how many columns the manager holds
          IsmSize    \* the size of the buckets this program writes

ASSUME IncrementalStManAssumption == {IsmCols, IsmSize} \subseteq Nat \ {0}

IsmFound(v) == <<"ok", v>>
IsmBroken   == <<"error">>

-----------------------------------------------------------------------------
(* Encoding.  A bucket's rows are given as cells[c][k], k from 1.          *)

(* The rows a bucket holds whatever the values, one interval for every row *)
(* of every column.                                                        *)
RowsPerBucket(size) ==
  Max({1, (IF size > 1 + IsmCols THEN size - 1 - IsmCols ELSE 0) \div (3 * IsmCols)})

(* Numbers in ascending order.                                             *)
Ascending(S) ==
  [k \in 1..Cardinality(S) |-> CHOOSE x \in S : Cardinality({y \in S : y < x}) = k - 1]

(* Where the intervals of a column start, counting from 0.                 *)
Starts(col) == {k \in 0..(Len(col) - 1) : k = 0 \/ col[k + 1] # col[k]}

(* The data goes row by row across the columns.                            *)
DataOrder(cells) ==
  SelectSeq([j \in 1..(IsmCols * Len(cells[1])) |-> <<((j - 1) \div IsmCols), ((j - 1) % IsmCols) + 1>>],
    LAMBDA p : p[1] \in Starts(cells[p[2]]))

IndexUnits(cells) ==
  FoldLeft(LAMBDA a, c : a + 1 + 2 * Cardinality(Starts(cells[c])), 0, [c \in 1..IsmCols |-> c])

Interval(data, c, rows) ==
  [rows |-> rows,
   offs |-> [k \in DOMAIN rows |-> (CHOOSE j \in DOMAIN data : data[j] = <<rows[k], c>>) - 1]]

Packed(size, cells, data) ==
  IF 1 + Len(data) + IndexUnits(cells) > size THEN IsmBroken
  ELSE <<"bucket", [j \in DOMAIN data |-> cells[data[j][2]][data[j][1] + 1]],
         [c \in DOMAIN cells |-> Interval(data, c, Ascending(Starts(cells[c])))]>>

EncodeBucket(size, cells) == Packed(size, cells, DataOrder(cells))

(* The boundaries, one more than the buckets, and the buckets' numbers.    *)
EncodeIndex(rows, numbers) == <<"index", rows, numbers>>

(* A whole file: cells[c][k].                                              *)
IsmBuild(n, cells) ==
  LET rpb  == RowsPerBucket(IsmSize)
      used == (n + rpb - 1) \div rpb
      rows(b) == [c \in 1..IsmCols |-> SubSeq(cells[c], b * rpb + 1, Min({(b + 1) * rpb, n}))]
  IN  [hdr  |-> [big |-> FALSE, size |-> IsmSize, nb |-> used],
       slot |-> [b \in 0..used |->
                   IF b < used THEN EncodeBucket(IsmSize, rows(b))
                   ELSE EncodeIndex([k \in 1..(used + 1) |-> Min({(k - 1) * rpb, n})],
                                    [k \in 1..used |-> k - 1])]]

-----------------------------------------------------------------------------
(* Reading.                                                                *)

(* The index is looked for behind the last bucket the header counts.       *)
ReadBoundaries(f) ==
  IF f.hdr.nb \notin DOMAIN f.slot \/ f.slot[f.hdr.nb][1] # "index" THEN IsmBroken
  ELSE IsmFound([rows |-> f.slot[f.hdr.nb][2], number |-> f.slot[f.hdr.nb][3]])

IsmOpen(f, big) ==
  IF f.hdr.big # big THEN IsmBroken ELSE ReadBoundaries(f)

(* The bucket a row is in: the last boundary that is not behind the row.   *)
Before(rows, row) == Max({0} \cup {k \in DOMAIN rows : rows[k] <= row})

InBucket(h, row, k) ==
  IF k \notin DOMAIN h.number THEN <<>> ELSE <<h.number[k], row - h.rows[k]>>

BucketFor(h, row) == InBucket(h, row, Before(h.rows, row))

ColumnIndex(f, bucket, c) == f.slot[bucket][3][c]

(* The cell of the interval that holds the row.                            *)
Covering(f, bucket, row, ci) ==
  LET k == Before(ci.rows, row)
  IN  IF k = 0 THEN IsmBroken ELSE IsmFound(f.slot[bucket][2][ci.offs[k] + 1])

IsmCell(f, c, at) ==
  IF at = <<>> THEN IsmBroken
  ELSE IF at[1] \notin DOMAIN f.slot \/ f.slot[at[1]][1] # "bucket" THEN IsmBroken
  ELSE Covering(f, at[1], at[2], ColumnIndex(f, at[1], c))

IsmRead(f, h, c, row) == IsmCell(f, c, BucketFor(h, row))

-----------------------------------------------------------------------------
(* Growth and patching in place, which are one: from old to new rows with  *)
(* the pending cells, pend[c] a function of their rows.                    *)

(* Rows start until end: those before have from the file, the others the   *)
(* column's default, and the pending cells over them.                      *)
Gather(f, h, zero, pend, start, have, end) ==
  [c \in 1..IsmCols |-> [k \in 1..(end - start) |->
     LET row == start + k - 1
     IN  IF row \in DOMAIN pend[c] THEN pend[c][row]
         ELSE IF row < have THEN IsmRead(f, h, c, row)[2]
         ELSE zero]]

(* The buckets to encode anew, by their places in the index: those with    *)
(* pending rows, and the last one if it has room for new rows.             *)
Affected(h, pend, old, topUp) ==
  {k \in DOMAIN h.number :
     \/ \E c \in 1..IsmCols : \E r \in DOMAIN pend[c] :
          r < old /\ h.rows[k] <= r /\ r < h.rows[k + 1]
     \/ topUp /\ k = Len(h.number)}

Laid(f, h, zero, pend, new, cap, hit, End(_), from) ==
  LET used  == Len(h.number)
      fresh == (new - from + cap - 1) \div cap
  IN  [redone |-> [k \in hit |-> EncodeBucket(f.hdr.size,
                     Gather(f, h, zero, pend, h.rows[k], h.rows[k + 1], End(k)))],
       added  |-> [j \in 1..fresh |-> LET start == from + (j - 1) * cap
                                          stop  == Min({start + cap, new})
                                      IN  EncodeBucket(f.hdr.size, Gather(f, h, zero, pend, start, start, stop))],
       rows   |-> [k \in 1..(used + 1) |-> IF k > 1 /\ k - 1 \in hit THEN End(k - 1) ELSE h.rows[k]]
                    \o [j \in 1..fresh |-> Min({from + j * cap, new})],
       number |-> h.number \o [j \in 1..fresh |-> f.hdr.nb + j - 1]]

Planned(f, h, zero, pend, old, new, cap, topUp) ==
  LET end(k) == IF topUp /\ k = Len(h.number) THEN Min({h.rows[k] + cap, new}) ELSE h.rows[k + 1]
  IN  Laid(f, h, zero, pend, new, cap, Affected(h, pend, old, topUp), end,
        IF topUp THEN Min({h.rows[Len(h.number)] + cap, new}) ELSE old)

TopUp(h, old, new, cap) ==
  h.number # <<>> /\ new > old /\ old - h.rows[Len(h.number)] < cap

IsmPlan(f, h, zero, pend, old, new) ==
  LET cap == RowsPerBucket(f.hdr.size)
  IN  Planned(f, h, zero, pend, old, new, cap, TopUp(h, old, new, cap))

(* Nothing is written unless the rows are as many as this handle counts    *)
(* and every bucket to be encoded anew fits, which one that holds more     *)
(* rows than this program would put there may fail to do.                  *)
IsmCanUpdate(f, h, zero, pend, old, new) ==
  /\ Len(h.rows) = Len(h.number) + 1
  /\ Last(h.rows) = old
  /\ IsmBroken \notin Range(IsmPlan(f, h, zero, pend, old, new).redone)

Slots(m)  == [slot |-> m, hdr |-> <<>>]
IsmHead(h) == [slot |-> <<>>, hdr |-> <<h>>]

IsmApply(f, w) ==
  [slot |-> [b \in DOMAIN f.slot \cup DOMAIN w.slot |->
               IF b \in DOMAIN w.slot THEN w.slot[b] ELSE f.slot[b]],
   hdr  |-> IF w.hdr = <<>> THEN f.hdr ELSE w.hdr[1]]

(* The writes, in order: the buckets that were there, one by one, the new  *)
(* ones, the first of them over the old index, the new index behind them,  *)
(* and the header that counts them.  The flush gate is not taken.          *)
IsmWrites(f, h, plan, hits, next) ==
  [j \in DOMAIN hits |-> Slots([b \in {h.number[hits[j]]} |-> plan.redone[hits[j]]])]
    \o [j \in DOMAIN plan.added |-> Slots([b \in {f.hdr.nb + j - 1} |-> plan.added[j]])]
    \o <<Slots([b \in {next} |-> EncodeIndex(plan.rows, plan.number)]),
         IsmHead([f.hdr EXCEPT !.nb = next])>>

IsmUpdateBy(f, h, plan) ==
  IsmWrites(f, h, plan, Ascending(DOMAIN plan.redone), f.hdr.nb + Len(plan.added))

(* Faulty variant: the new index lies one place too early.                *)
IsmUpdateShort(f, h, zero, pend, old, new) ==
  LET plan == IsmPlan(f, h, zero, pend, old, new)
  IN  IsmWrites(f, h, plan, <<>>, f.hdr.nb + Len(plan.added) - 1)

IsmUpdate(f, h, zero, pend, old, new) == IsmUpdateBy(f, h, IsmPlan(f, h, zero, pend, old, new))

-----------------------------------------------------------------------------
(* Files that a header counting n buckets fits: the buckets lie before it, *)
(* and an index knows only of these, its boundaries ascending.             *)

IndexFits(rows, number, n) ==
  /\ rows \in Seq(Nat) /\ number \in Seq(Nat) /\ Len(rows) = Len(number) + 1
  /\ \A k \in DOMAIN number : number[k] < n /\ rows[k] <= rows[k + 1]

SlotFits(b, slot, n) ==
  /\ b \in Nat
  /\ slot[1] = "bucket" => b < n
  /\ slot[1] = "index" => IndexFits(slot[2], slot[3], n)

IsmFits(f, n) ==
  /\ f = [hdr |-> f.hdr, slot |-> f.slot]
  /\ {"big", "size", "nb"} \subseteq DOMAIN f.hdr /\ f.hdr.size \in Nat /\ n \in Nat
  /\ \A b \in DOMAIN f.slot : SlotFits(b, f.slot[b], n)
=============================================================================
