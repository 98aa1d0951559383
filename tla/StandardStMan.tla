---------------------------- MODULE StandardStMan ----------------------------
(***************************************************************************)
(* The files of a StandardStMan data manager (crates/casacure/src/ssm.rs,  *)
(* build_ssm_data and patch_ssm_column of table.rs, ssm_grow of grow.rs):  *)
(* table.f{n}, a header and numbered buckets, and the array file           *)
(* table.f{n}i.  The columns' cells lie in data buckets, found through an  *)
(* index that is itself stored in a chain of buckets; long strings lie in  *)
(* string buckets a cell refers to, arrays in records of the array file.   *)
(*                                                                         *)
(* A cell, a character, a number of the index and an array record each     *)
(* take one unit of space; rows count from 0.  These are operators on a    *)
(* value that stands for the two files; DataManagers runs them.            *)
(***************************************************************************)
EXTENDS Naturals, Integers, Sequences, FiniteSets, SequencesExt, FiniteSetsExt

CONSTANTS
  SsmKinds,    \* per column: "fixed" (a number, a Bool, an inline array), "string",
               \* "array" of any shape or "shaped" array, of one element here
  SsmRpb,      \* rows of a data bucket this program writes (32)
  IdxCap,      \* numbers an index bucket holds
  StrCap,      \* characters a string bucket holds
  Inline,      \* the longest string kept in its cell (8)
  Reserve      \* the room below which a string starts a new bucket (50)

ASSUME StandardStManAssumption ==
  /\ SsmKinds \in Seq({"fixed", "string", "array", "shaped"})
  /\ {SsmRpb, IdxCap, StrCap} \subseteq Nat \ {0}
  /\ {Inline, Reserve} \subseteq Nat

SsmCols == DOMAIN SsmKinds

(* An array is its shape with its elements; a cell nobody set has none.    *)
NoArray   == <<<<>>, <<>>>>
Shaped(v) == <<<<1>>, <<v>>>>

Arrays == {"array", "shaped"}

SsmDefault(c, zero) ==
  CASE SsmKinds[c] = "fixed"  -> zero
    [] SsmKinds[c] = "string" -> <<>>
    [] SsmKinds[c] = "array"  -> NoArray
    [] SsmKinds[c] = "shaped" -> Shaped(zero)

(* What a read gives: a value, or the error that the files do not hold one.*)
Found(v) == <<"ok", v>>
Broken   == <<"error">>

-----------------------------------------------------------------------------
(* Buckets.                                                                *)

DataBucket(cells)        == <<"data", cells>>
IndexBucket(next, piece) == <<"index", next, piece>>
StringBucket(next, data) == <<"string", next, data>>

Unset == <<"zero">>  \* the zero bytes of a bucket nobody has written

(* The columns lie one after the other in a bucket, rpb cells each.        *)
Layout(rpb) == [rpb |-> rpb, offset |-> [c \in SsmCols |-> (c - 1) * rpb]]

BucketCells(layout) == Len(SsmKinds) * layout.rpb

(* An index: the last row of every used bucket, ascending, and its number. *)
Index(rpb, last, number) == [rpb |-> rpb, last |-> last, number |-> number]

(* The first used bucket whose last row is not before the row.             *)
FindBucket(ix, row) ==
  LET hits == {k \in DOMAIN ix.last : ix.last[k] >= row}
  IN  IF hits = {} THEN [k |-> 0, start |-> 0, number |-> 0]
      ELSE LET k == Min(hits)
           IN [k |-> k, start |-> IF k = 1 THEN 0 ELSE ix.last[k - 1] + 1,
               number |-> ix.number[k]]

IndexStream(ix) == <<Len(ix.last), ix.rpb>> \o ix.last \o ix.number

(* A stream cut short does not parse.                                      *)
ParseIndex(s) ==
  IF Len(s) < 2 \/ Len(s) < 2 + 2 * s[1] THEN Broken
  ELSE Found(Index(s[2], SubSeq(s, 3, 2 + s[1]), SubSeq(s, 3 + s[1], 2 + 2 * s[1])))

Pieces(s, cap) ==
  [k \in 1..((Len(s) + cap - 1) \div cap) |->
     SubSeq(s, (k - 1) * cap + 1, Min({k * cap, Len(s)}))]

-----------------------------------------------------------------------------
(* Reading.                                                                *)

(* The buckets of the index: a chain that is followed by its links, as     *)
(* many buckets as the header says.                                        *)
IndexChain(f) ==
  LET at[k \in 1..f.hdr.nrIdx] ==
        IF k = 1 THEN f.hdr.first
        ELSE IF at[k - 1] \in DOMAIN f.bucket THEN f.bucket[at[k - 1]][2] ELSE -1
      used == {k \in DOMAIN at : \A j \in 1..k : at[j] >= 0}
  IN  [k \in 1..Cardinality(used) |-> at[k]]

(* Their pieces, cut to the length the header says.                        *)
ReadChain(f, chain) ==
  LET text == FlattenSeq([k \in DOMAIN chain |-> f.bucket[chain[k]][3]])
  IN  IF \E k \in DOMAIN chain : chain[k] \notin DOMAIN f.bucket \/ f.bucket[chain[k]][1] # "index"
        THEN Broken
        ELSE ParseIndex(SubSeq(text, 1, Min({Len(text), f.hdr.idxLen})))

ReadIndex(f) == ReadChain(f, IndexChain(f))

(* What a handle keeps of the files: the header, the parsed index and how  *)
(* far its mapping of the array file reaches.                              *)
Opened(f, big, ix) ==
  IF f.hdr.big # big \/ ix = Broken THEN Broken
  ELSE Found([index |-> ix[2], arrEnd |-> f.arr.end])

SsmOpen(f, big) == Opened(f, big, ReadIndex(f))

(* One step of the walk along string buckets.                              *)
TakeString(f, w) ==
  IF w.left = 0 \/ w.bad THEN w
  ELSE IF w.b \notin DOMAIN f.bucket \/ f.bucket[w.b][1] # "string" THEN [w EXCEPT !.bad = TRUE]
  ELSE LET b    == f.bucket[w.b]
           take == Min({w.left, Len(b[3]) - w.off})
       IN  IF take <= 0 \/ (take < w.left /\ b[2] < 0) THEN [w EXCEPT !.bad = TRUE]
           ELSE [b |-> b[2], off |-> 0, left |-> w.left - take, bad |-> FALSE,
                 out |-> w.out \o SubSeq(b[3], w.off + 1, w.off + take)]

Taken(w) == IF w.bad \/ w.left > 0 THEN Broken ELSE Found(w.out)

(* No step that goes on takes less than a character.                       *)
ReadString(f, b, off, len) ==
  LET walk[k \in 0..len] ==
        IF k = 0 THEN [b |-> b, off |-> off, left |-> len, bad |-> FALSE, out |-> <<>>]
        ELSE TakeString(f, walk[k - 1])
  IN  Taken(walk[len])

(* The stored cell of column c in a row, by the column offsets table.dat   *)
(* gives.                                                                  *)
CellAt(f, b, i) ==
  IF b.k = 0 \/ b.number \notin DOMAIN f.bucket \/ f.bucket[b.number][1] # "data"
       \/ i > Len(f.bucket[b.number][2])
    THEN Broken
    ELSE f.bucket[b.number][2][i]

CellIn(f, b, offset, row) == CellAt(f, b, offset + row - b.start + 1)

StoredCell(f, h, spec, c, row) == CellIn(f, FindBucket(h.index, row), spec.offset[c], row)

(* A number, or a string: short ones are in the cell.                      *)
ReadScalar(f, c, zero, cell) ==
  CASE cell = Unset -> Found(SsmDefault(c, zero))
    [] cell[1] = "fixed" /\ SsmKinds[c] = "fixed"  -> Found(cell[2])
    [] cell[1] = "short" /\ SsmKinds[c] = "string" -> Found(cell[2])
    [] cell[1] = "long"  /\ SsmKinds[c] = "string" -> ReadString(f, cell[2], cell[3], cell[4])
    [] OTHER -> Broken

(* The record an array cell refers to, if the handle's mapping reaches it. *)
ReadRecord(f, h, off) ==
  IF off < h.arrEnd /\ off \in DOMAIN f.arr.rec THEN Found(f.arr.rec[off].value) ELSE Broken

(* An array cell: the offset 0 stands for no array.                        *)
ReadArray(f, h, cell) ==
  CASE cell = Unset       -> Found(NoArray)
    [] cell[1] = "record" -> ReadRecord(f, h, cell[2])
    [] OTHER -> Broken

Decoded(f, h, zero, c, cell) ==
  IF cell = Broken THEN Broken
  ELSE IF SsmKinds[c] \in Arrays THEN ReadArray(f, h, cell)
  ELSE ReadScalar(f, c, zero, cell)

SsmRead(f, h, spec, zero, c, row) == Decoded(f, h, zero, c, StoredCell(f, h, spec, c, row))

-----------------------------------------------------------------------------
(* Writing whole files.                                                    *)

(* The string buckets written so far, in order: <<link, content>> each,    *)
(* the first to be numbered first.  The text goes into the last bucket     *)
(* unless little room is left there, and rolls over into linked ones.      *)
Free(b) == StrCap - Len(b[2])

Open(sb, text) ==
  LET empty == <<-1, <<>>>>
  IN  IF sb = <<>> THEN <<empty>>
      ELSE IF Len(text) > Free(Last(sb)) /\ Free(Last(sb)) < Reserve THEN Append(sb, empty)
      ELSE sb

Spread(open, number, text, pieces) ==
  LET link(k) == IF k < Len(pieces) THEN number + k ELSE -1
  IN  [ref |-> <<number, Len(Last(open)[2])>>,
       sb  |-> Append(Front(open), <<link(1), Last(open)[2] \o pieces[1]>>)
                 \o [k \in 1..(Len(pieces) - 1) |-> <<link(k + 1), pieces[k + 1]>>]]

Split(text, room) ==
  <<SubSeq(text, 1, Min({Len(text), room}))>> \o Pieces(SubSeq(text, room + 1, Len(text)), StrCap)

PutInto(open, first, text) ==
  Spread(open, first + Len(open) - 1, text, Split(text, Free(Last(open))))

PutString(sb, first, text) == PutInto(Open(sb, text), first, text)

WithLong(a, p, v) ==
  [a EXCEPT !.cells = Append(@, <<"long", p.ref[1], p.ref[2], Len(v)>>), !.sb = p.sb]

(* The encoded cells of all columns, in order, with the string buckets and *)
(* the array records they refer to.                                        *)
EncodeCell(a, first, c, v) ==
  IF SsmKinds[c] = "fixed" THEN [a EXCEPT !.cells = Append(@, <<"fixed", v>>)]
  ELSE IF SsmKinds[c] = "string" /\ Len(v) <= Inline
    THEN [a EXCEPT !.cells = Append(@, <<"short", v>>)]
  ELSE IF SsmKinds[c] = "string" THEN WithLong(a, PutString(a.sb, first, v), v)
  ELSE [a EXCEPT !.cells = Append(@, <<"record", Len(a.recs) + 1>>), !.recs = Append(@, v)]

(* Data buckets first, then the index, then the string buckets.            *)
BuildIndex(n) ==
  LET used == (n + SsmRpb - 1) \div SsmRpb
  IN  Index(SsmRpb, [b \in 1..used |-> Min({b * SsmRpb, n}) - 1], [b \in 1..used |-> b - 1])

(* cells[c][row], for n rows, become new files.                            *)
Encoded(n, cells, first) ==
  LET done[k \in 0..(Len(SsmKinds) * n)] ==
        IF k = 0 THEN [cells |-> <<>>, sb |-> <<>>, recs |-> <<>>]
        ELSE LET c == ((k - 1) \div n) + 1
             IN  EncodeCell(done[k - 1], first, c, cells[c][(k - 1) % n])
  IN  done[Len(SsmKinds) * n]

Assembled(n, data, first, stream, pieces, enc) ==
  LET bucket(b) == DataBucket([i \in 1..BucketCells(Layout(SsmRpb)) |->
                     LET c == ((i - 1) \div SsmRpb) + 1
                         r == b * SsmRpb + ((i - 1) % SsmRpb)
                     IN  IF r < n THEN enc.cells[(c - 1) * n + r + 1] ELSE Unset])
  IN  [hdr |-> [big |-> FALSE, size |-> BucketCells(Layout(SsmRpb)), nr |-> first + Len(enc.sb),
                nrIdx |-> Len(pieces), first |-> data, idxLen |-> Len(stream)],
       bucket |-> [b \in 0..(first + Len(enc.sb) - 1) |->
                     IF b < data THEN bucket(b)
                     ELSE IF b < first
                       THEN IndexBucket(IF b + 1 < first THEN b + 1 ELSE -1, pieces[b - data + 1])
                     ELSE StringBucket(enc.sb[b - first + 1][1], enc.sb[b - first + 1][2])],
       arr |-> [end |-> Len(enc.recs) + 1, counted |-> FALSE,
                rec |-> [o \in DOMAIN enc.recs |-> [refs |-> 1, value |-> enc.recs[o]]]]]

Indexed(n, data, stream, pieces, cells) ==
  Assembled(n, data, data + Len(pieces), stream, pieces, Encoded(n, cells, data + Len(pieces)))

SsmBuild(n, cells) ==
  LET stream == IndexStream(BuildIndex(n))
  IN  Indexed(n, (n + SsmRpb - 1) \div SsmRpb, stream, Pieces(stream, IdxCap), cells)

-----------------------------------------------------------------------------
(* Writing in place: the writes in the order they are made, each one all   *)
(* or nothing for a reader.  Buckets, header and array file that a write   *)
(* leaves alone are absent from it.                                        *)

Buckets(m) == [bucket |-> m, hdr |-> <<>>, arr |-> <<>>]
Header(h)  == [bucket |-> <<>>, hdr |-> <<h>>, arr |-> <<>>]
ArrayFile(a) == [bucket |-> <<>>, hdr |-> <<>>, arr |-> <<a>>]

SsmApply(f, w) ==
  [bucket |-> [b \in DOMAIN f.bucket \cup DOMAIN w.bucket |->
                 IF b \in DOMAIN w.bucket THEN w.bucket[b] ELSE f.bucket[b]],
   hdr |-> IF w.hdr = <<>> THEN f.hdr ELSE w.hdr[1],
   arr |-> IF w.arr = <<>> THEN f.arr ELSE w.arr[1]]

(* An array cell that is put: its record is rewritten where it is if the   *)
(* shape is the same and no other cell shares it, else appended.           *)
PutArrayAt(a, off, v, mine) ==
  IF mine /\ a.arr.rec[off].value[1] = v[1]
    THEN [a EXCEPT !.arr.rec[off].value = v, !.off = off]
    ELSE [arr |-> [a.arr EXCEPT !.end = @ + 1,
                                !.rec = [o \in DOMAIN @ \cup {a.arr.end} |->
                                           IF o = a.arr.end THEN [refs |-> 1, value |-> v] ELSE @[o]]],
          off |-> a.arr.end]

(* Faulty variant: a shared record is rewritten too.                       *)
PutArrayShared(a, off, v) == PutArrayAt(a, off, v, off \in DOMAIN a.arr.rec)

PutArray(a, off, v) ==
  PutArrayAt(a, off, v, off \in DOMAIN a.arr.rec /\ (~a.arr.counted \/ a.arr.rec[off].refs = 1))

(* pend: the pending cells as a sequence of <<c, row, v>>, columns, then   *)
(* rows ascending.  A manager with a pending string is not patched, nor is *)
(* one whose index has no bucket for a pending row.                        *)
SsmCanPatch(h, pend) ==
  \A k \in DOMAIN pend :
    SsmKinds[pend[k][1]] # "string" /\ FindBucket(h.index, pend[k][2]).k # 0

(* The pending arrays go to the array file: its new contents, and the      *)
(* offset each of them has now.                                            *)
PutArrays(f, h, spec, pend) ==
  LET off(cell)  == IF cell[1] = "record" THEN cell[2] ELSE 0
      step(a, q) == [arr |-> q.arr, offs |-> Append(a.offs, q.off)]
  IN  FoldLeft(LAMBDA a, p :
                 IF SsmKinds[p[1]] \notin Arrays THEN [a EXCEPT !.offs = Append(@, 0)]
                 ELSE step(a, PutArray([arr |-> a.arr, off |-> 0], off(StoredCell(f, h, spec, p[1], p[2])), p[3])),
               [arr |-> f.arr, offs |-> <<>>], pend)

(* The touched buckets, each read, patched and written back.               *)
PatchBuckets(f, h, spec, pend, offs) ==
  LET home(p) == FindBucket(h.index, p[2])
      at(p)   == spec.offset[p[1]] + p[2] - home(p).start + 1
      cell(k) == IF SsmKinds[pend[k][1]] = "fixed" THEN <<"fixed", pend[k][3]>>
                 ELSE <<"record", offs[k]>>
      mine(b) == {k \in DOMAIN pend : home(pend[k]).number = b}
  IN  [b \in {home(pend[k]).number : k \in DOMAIN pend} |->
         DataBucket([i \in DOMAIN f.bucket[b][2] |->
           LET ks == {k \in mine(b) : at(pend[k]) = i}
           IN  IF ks = {} THEN f.bucket[b][2][i] ELSE cell(Max(ks))])]

(* Two sections under the flush gate: the buckets, then the array file.    *)
PatchWith(f, h, spec, pend, puts) ==
  <<Buckets(PatchBuckets(f, h, spec, pend, puts.offs))>>
    \o IF puts.arr = f.arr THEN <<>> ELSE <<ArrayFile(puts.arr)>>

SsmPatch(f, h, spec, pend) == PatchWith(f, h, spec, pend, PutArrays(f, h, spec, pend))

SsmCanGrow(f, h, spec, old) ==
  /\ (IF h.index.last = <<>> THEN 0 ELSE Last(h.index.last) + 1) = old
  /\ \A c \in SsmCols : spec.offset[c] + h.index.rpb <= f.hdr.size

(* A new row's cell.                                                       *)
DefaultCell(c, zero) ==
  CASE SsmKinds[c] = "fixed"  -> <<"fixed", zero>>
    [] SsmKinds[c] = "string" -> <<"short", <<>>>>
    [] SsmKinds[c] = "array"  -> Unset

(* The cells of some of a bucket's rows are given their defaults.          *)
WithDefaults(cells, spec, rows, Cell(_, _)) ==
  [i \in DOMAIN cells |->
     LET c == {k \in SsmCols : i - 1 - spec.offset[k] \in rows}
     IN  IF c = {} THEN cells[i] ELSE Cell(Max(c), i - 1 - spec.offset[Max(c)])]

(* The growth of an index from old to new rows: the last bucket is topped  *)
(* up, then fresh buckets are appended at the end of the file.             *)
PlanFrom(next, ix, old, new) ==
  LET used  == Len(ix.last)
      start == IF used >= 2 THEN ix.last[used - 1] + 1 ELSE 0
      end   == Min({start + ix.rpb, new})
      topUp == used > 0 /\ old < end
      from  == IF topUp THEN end ELSE old
      fresh == (new - from + ix.rpb - 1) \div ix.rpb
      last  == (IF topUp THEN Append(Front(ix.last), end - 1) ELSE ix.last)
                 \o [j \in 1..fresh |-> Min({from + j * ix.rpb, new}) - 1]
  IN  [start |-> start, end |-> end, topUp |-> topUp, from |-> from, fresh |-> fresh, next |-> next,
       index |-> Index(ix.rpb, last, ix.number \o [j \in 1..fresh |-> next + j - 1])]

GrowPlan(f, ix, old, new) == PlanFrom(f.hdr.nr, ix, old, new)

(* The index is written over its own chain, extended at the end of the     *)
(* file where it has become longer, and the header after it.               *)
ChainWrites(hdr, stream, pieces, chain, nr) ==
  LET link(k) == IF k < Len(chain) THEN chain[k + 1] ELSE -1
  IN  [k \in DOMAIN pieces |-> Buckets([b \in {chain[k]} |-> IndexBucket(link(k), pieces[k])])]
        \o <<Header([hdr EXCEPT !.nr = nr, !.nrIdx = Len(pieces), !.first = chain[1],
                                !.idxLen = Len(stream)])>>

OverChain(f, stream, pieces, old, next) ==
  ChainWrites(f.hdr, stream, pieces,
    SubSeq(old \o [j \in 1..Len(pieces) |-> next + j - 1], 1, Len(pieces)),
    next + Max({0, Len(pieces) - Len(old)}))

WriteIndex(f, stream, next) == OverChain(f, stream, Pieces(stream, IdxCap), IndexChain(f), next)

(* Data buckets, index, header, and last the array file, which alone is    *)
(* written under the flush gate.                                           *)
GrowBy(f, h, spec, zero, old, new, plan) ==
  LET rpb    == h.index.rpb
      shaped == {c \in SsmCols : SsmKinds[c] = "shaped"}
      (* A row's default array is a record of its own. *)
      record(c, row) == f.arr.end + (row - old) * Cardinality(shaped)
                          + Cardinality({k \in shaped : k < c})
      cell(c, row) == IF SsmKinds[c] # "shaped" THEN DefaultCell(c, zero)
                      ELSE IF row < new THEN <<"record", record(c, row)>> ELSE Unset
      recs   == f.arr.end..(f.arr.end + (new - old) * Cardinality(shaped) - 1)
      top    == [b \in {Last(h.index.number)} |->
                   DataBucket(WithDefaults(f.bucket[b][2], spec, (old - plan.start)..(plan.end - 1 - plan.start),
                                LAMBDA c, r : cell(c, plan.start + r)))]
      fresh  == [b \in plan.next..(plan.next + plan.fresh - 1) |->
                   DataBucket(WithDefaults([i \in 1..f.hdr.size |-> Unset], spec, 0..(rpb - 1),
                                LAMBDA c, r : cell(c, plan.from + (b - plan.next) * rpb + r)))]
      array  == [end |-> f.arr.end + Cardinality(recs), counted |-> f.arr.counted,
                 rec |-> [o \in DOMAIN f.arr.rec \cup recs |->
                            IF o \in recs THEN [refs |-> 1, value |-> Shaped(zero)] ELSE f.arr.rec[o]]]
  IN  (IF plan.topUp THEN <<Buckets(top)>> ELSE <<>>)
        \o (IF plan.fresh > 0 THEN <<Buckets(fresh)>> ELSE <<>>)
        \o WriteIndex(f, IndexStream(plan.index), f.hdr.nr + plan.fresh)
        \o (IF recs # {} THEN <<ArrayFile(array)>> ELSE <<>>)

SsmGrow(f, h, spec, zero, old, new) ==
  GrowBy(f, h, spec, zero, old, new, GrowPlan(f, h.index, old, new))

-----------------------------------------------------------------------------
(* Whole files: the buckets are numbered below the count in the header,    *)
(* each bucket of rows is in the index once, and the index lies piece by   *)
(* piece along a chain of buckets of its own.                              *)

IsWhole(cells) == Len(cells) \in Nat /\ DOMAIN cells = 1..Len(cells)

IndexSound(ix) ==
  /\ ix = Index(ix.rpb, ix.last, ix.number)
  /\ ix.rpb \in Nat \ {0} /\ ix.last \in Seq(Nat) /\ ix.number \in Seq(Nat)
  /\ Len(ix.last) = Len(ix.number)
  /\ \A j, k \in DOMAIN ix.number : ix.number[j] = ix.number[k] => j = k

ChainSound(f, ix, chain) ==
  LET stream == IndexStream(ix)
      pieces == Pieces(stream, IdxCap)
  IN  /\ chain \in Seq(Nat) /\ Len(chain) = Len(pieces)
      /\ f.hdr.nrIdx = Len(pieces) /\ f.hdr.first = chain[1] /\ f.hdr.idxLen = Len(stream)
      /\ \A k \in DOMAIN chain :
           /\ chain[k] \in DOMAIN f.bucket
           /\ f.bucket[chain[k]][1] = "index" /\ f.bucket[chain[k]][3] = pieces[k]
           /\ k < Len(chain) => f.bucket[chain[k]][2] = chain[k + 1]

SsmSound(f, ix, chain) ==
  /\ f = [hdr |-> f.hdr, bucket |-> f.bucket, arr |-> f.arr]
  /\ {"big", "size", "nr", "nrIdx", "first", "idxLen"} \subseteq DOMAIN f.hdr
  /\ f.hdr.size \in Nat /\ f.hdr.nr \in Nat /\ DOMAIN f.bucket \subseteq 0..(f.hdr.nr - 1)
  /\ IndexSound(ix) /\ ChainSound(f, ix, chain)
  /\ \A j, k \in DOMAIN chain : chain[j] = chain[k] => j = k
  /\ \A k \in DOMAIN ix.number :
       /\ ix.number[k] \in DOMAIN f.bucket
       /\ f.bucket[ix.number[k]][1] = "data" /\ IsWhole(f.bucket[ix.number[k]][2])

(* No two columns' cells of a bucket overlap, at so many rows a bucket.    *)
Apart(spec, rpb) ==
  /\ \A c \in SsmCols : spec.offset[c] \in Nat
  /\ \A c, d \in SsmCols :
       c # d => spec.offset[c] + rpb <= spec.offset[d] \/ spec.offset[d] + rpb <= spec.offset[c]
=============================================================================
