-------------------------- MODULE TableReadsProofs --------------------------
(***************************************************************************)
(* What TableReads says of its answers, proved for any columns, rows,      *)
(* reference tables over reference tables, requests and flushes.           *)
(*                                                                         *)
(* The invariants follow a read from its call to its answer: the rows it   *)
(* was resolved to are those asked for, each once; what it was given so    *)
(* far are the cells as they are now, because it holds the gate; and a     *)
(* cell is whole unless a flush that holds the gate is at it.              *)
(***************************************************************************)
EXTENDS TableReads, NaturalLemmas, FiniteSetTheorems, SequenceTheorems

(* A view's rows are those its list names of the handle it was made from.  *)
ViewsFit ==
  /\ views \in Seq([rows : Seq(Rows), of : Nat, local : Seq(Nat)])
  /\ \A h \in 1..Len(views) :
       /\ views[h].of < h
       /\ Len(views[h].local) = Len(views[h].rows)
       /\ \A i \in 1..Len(views[h].rows) :
            IF views[h].of = 0 THEN views[h].rows[i] = views[h].local[i]
            ELSE /\ views[h].local[i] < Len(views[views[h].of].rows)
                 /\ views[h].rows[i] = ViewRow(views[h].of, views[h].local[i])

(* A flush writes both halves of a cell, one after the other.              *)
PatchFits ==
  /\ patch = [gate |-> patch.gate, col |-> patch.col, todo |-> patch.todo]
  /\ patches \in 0..MaxPatches
  /\ patch # NoPatch => patch.col \in Patched /\ patch.gate = PatchGate(patch.col) /\ patches > 0
  /\ patch.todo \in Seq(Rows \X {1, 2})
  /\ \A k \in 1..Len(patch.todo) :
       patch.todo[k][2] = 1 => k < Len(patch.todo) /\ patch.todo[k + 1] = <<patch.todo[k][1], 2>>

(* A cell is unset, or as one flush or none left it,                       *)
Whole(cell, c, r) ==
  \/ cell = NotStored /\ <<c, r>> \in Unset
  \/ \E n \in {k \in 0..MaxPatches : k > 0 \/ <<c, r>> \notin Unset} : cell = Stored(c, r, n)

(* unless it is the one a flush is at.                                     *)
Halved(c, r) ==
  patch.todo # <<>> /\ patch.col = c /\ Head(patch.todo) = <<r, 2>> /\ cells[c][r].set

CellsFit ==
  /\ DOMAIN cells = Cols /\ \A c \in Cols : DOMAIN cells[c] = Rows
  /\ \A c \in Cols, r \in Rows : Whole(cells[c][r], c, r) \/ Halved(c, r)

GatesExclude == ~(read.gate /\ patch.gate)

(* The row of the table a request means by its i-th.                       *)
Resolved(q, i) == IF q.on = 0 THEN q.start + i - 1 ELSE ViewRow(q.on, q.start + i - 1)

InRange(q) == q.on # 0 /\ q.nrow > 0 => q.start + q.nrow <= HandleRows(q.on)

(* What is to be visited are the rows asked for, each once.                *)
TodoFits(q, todo) ==
  /\ todo \in Seq([row : Int, dest : Int]) /\ Len(todo) = q.nrow
  /\ \A i \in 1..q.nrow : todo[i].dest \in 1..q.nrow /\ todo[i].row = Resolved(q, todo[i].dest)
  /\ \A i, j \in 1..q.nrow : todo[i].dest = todo[j].dest => i = j
  /\ \A d \in 1..q.nrow : \E i \in 1..q.nrow : todo[i].dest = d
  /\ q.on = 0 => \A i \in 1..q.nrow : todo[i].row = q.start + i - 1
  /\ q.on # 0 => \A i \in 1..q.nrow : todo[i].row \in Rows

ReadFits ==
  read # None =>
    /\ read = [op |-> read.op, q |-> read.q, todo |-> read.todo, at |-> read.at,
               gate |-> read.gate, got |-> read.got]
    /\ read.q \in Requests /\ read.op = read.q.op /\ read.q.on \in 0..Len(views)
    /\ InRange(read.q)
    /\ read.q.op \in {"raw", "bits"} => RawColumnSupported(read.q.col)
    /\ TodoFits(read.q, read.todo)
    /\ read.at \in 0..read.q.nrow /\ Len(read.got) = read.at /\ \E S : read.got \in Seq(S)
    /\ \A k \in 1..read.at : read.got[k].dest = read.todo[k].dest /\ read.todo[k].row \in Rows
    /\ read.at > 0 \/ (read.gate /\ ~AllVisited) => ~RawRefused(read.q)

(* An answer is for rows there are; a refusal names the first that is not. *)
AnswerFits ==
  answer # None =>
    /\ answer.q \in Requests /\ answer.op = answer.q.op /\ answer.q.on \in 0..Len(views)
    /\ answer.ok => /\ InRange(answer.q) /\ Len(answer.values) = answer.q.nrow
                    /\ DOMAIN answer.values = 1..answer.q.nrow
    /\ (\A r \in Rows : <<answer.q.col, r>> \notin Unset) =>
         /\ answer.why = "row" =>
              /\ answer.row \in answer.q.start..(answer.q.start + answer.q.nrow - 1)
              /\ answer.row = Max({answer.q.start, HandleRows(answer.q.on)})
         /\ answer.ok => \A i \in 1..answer.q.nrow :
              answer.q.start + i - 1 < HandleRows(answer.q.on)

ReadsInv ==
  ViewsFit /\ PatchFits /\ CellsFit /\ GatesExclude /\ ReadFits /\ AnswerFits

(* A read that takes the gate once has been given the cells as they are.   *)
GotFits ==
  read # None /\ read.q.op # "slice" =>
    /\ read.at > 0 => read.gate
    /\ \A k \in 1..read.at :
         /\ ~NoDefault(read.q, read.todo[k].row)
         /\ read.got[k].v = Fine(Seen(cells, read.q, read.todo[k].row))

AnswerTrue ==
  answer # None /\ answer.ok /\ answer.op \in {"cell", "col", "raw", "bits"} =>
    \A i \in 1..answer.q.nrow :
      LET r == Resolved(answer.q, i) IN
      /\ r \in Rows
      /\ answer.values[i].data = ContentOf(answer.of, answer.q.col, r)
      /\ Whole(answer.of[r], answer.q.col, r)

GatedInv == GotFits /\ AnswerTrue

(* Every flush takes the gate: none patches an incremental manager.        *)
Gated == \A c \in Patched : PatchGate(c)

-----------------------------------------------------------------------------
(* Operators.                                                              *)

(* The number of elements of a shape is a natural number.                  *)
LEMMA SizeIsNatural ==
  ASSUME NEW shape \in Seq(Nat)
  PROVE  Size(shape) \in Nat
<1>. DEFINE n == Len(shape)
            Times(f, k) == IF k = 0 THEN 1 ELSE f[k - 1] * shape[k]
            first == CHOOSE f : f = [k \in 0..n |-> Times(f, k)]
            Short == {k \in 0..n : \E f \in [0..k -> Nat] : \A j \in 0..k : f[j] = Times(f, j)}
<1>0. n \in Nat
  OBVIOUS
<1>1. 0 \in Short
  <2>. DEFINE g == [k \in 0..0 |-> 1]
  <2>1. g \in [0..0 -> Nat] /\ \A j \in 0..0 : g[j] = Times(g, j)
    OBVIOUS
  <2>. HIDE DEF g
  <2>. QED
    BY <1>0, <2>1
<1>2. ASSUME NEW k \in 0..(n - 1), k \in Short PROVE k + 1 \in Short
  <2>1. PICK f \in [0..k -> Nat] : \A j \in 0..k : f[j] = Times(f, j)
    BY <1>2
  <2>. DEFINE g == [j \in 0..(k + 1) |-> IF j <= k THEN f[j] ELSE f[k] * shape[k + 1]]
  <2>2. shape[k + 1] \in Nat /\ f[k] \in Nat /\ f[k] * shape[k + 1] \in Nat
    BY <1>0
  <2>3. g \in [0..(k + 1) -> Nat]
    BY <2>2
  <2>4. \A j \in 0..(k + 1) : g[j] = Times(g, j)
    BY <2>1
  <2>5. k + 1 \in 0..n
    BY <1>0
  <2>. HIDE DEF g, Times
  <2>. QED
    BY <2>3, <2>4, <2>5
<1>3. n \in Short
  <2>1. \A k \in 0..(n - 1) : k \in Short => k + 1 \in Short
    BY <1>2
  <2>. HIDE DEF Short, n
  <2>2. \A k \in 0..n : k \in Short
    BY <1>0, <1>1, <2>1, UpTo
  <2>. QED
    BY <1>0, <2>2
<1>4. PICK f \in [0..n -> Nat] : \A j \in 0..n : f[j] = Times(f, j)
  BY <1>3
<1>5. f = [k \in 0..n |-> Times(f, k)]
  BY <1>4
<1>6. first = [k \in 0..n |-> Times(first, k)]
  BY <1>5
<1>. DEFINE Good == {k \in 0..n : first[k] \in Nat}
<1>7. 0 \in Good /\ \A k \in 0..(n - 1) : k \in Good => k + 1 \in Good
  <2>. HIDE DEF first
  <2>1. first[0] = 1
    BY <1>0, <1>6
  <2>2. ASSUME NEW k \in 0..(n - 1), first[k] \in Nat PROVE first[k + 1] \in Nat
    <3>1. first[k + 1] = first[k] * shape[k + 1]
      BY <1>0, <1>6
    <3>2. shape[k + 1] \in Nat
      BY <1>0
    <3>. QED
      BY <2>2, <3>1, <3>2
  <2>. QED
    BY <1>0, <2>1, <2>2
<1>8. n \in Good
  <2>. HIDE DEF Good, n
  <2>1. \A k \in 0..n : k \in Good
    BY <1>0, <1>7, UpTo
  <2>. QED
    BY <1>0, <2>1
<1>. QED
  BY <1>8 DEF Size

(* Steps of one add up.                                                    *)
LEMMA StepsAddUp ==
  ASSUME NEW row, NEW s \in Nat, NEW i \in Nat, s <= i,
         \A k \in s..i : row[k] \in Int,
         \A k \in s..(i - 1) : row[k + 1] = row[k] + 1
  PROVE  row[i] = row[s] + (i - s)
<1>. DEFINE Same == {d \in 0..(i - s) : row[s + d] = row[s] + d}
<1>1. 0 \in Same
  OBVIOUS
<1>2. ASSUME NEW d \in 0..(i - s - 1), d \in Same PROVE d + 1 \in Same
  <2>1. row[s + d + 1] = row[s + d] + 1 /\ row[s + d] = row[s] + d /\ row[s] \in Int
    BY <1>2
  <2>2. s + (d + 1) = s + d + 1 /\ d + 1 \in 0..(i - s) /\ d \in Nat
    OBVIOUS
  <2>3. row[s + (d + 1)] = row[s] + (d + 1)
    BY <2>1, <2>2
  <2>. QED
    BY <2>2, <2>3
<1>3. i - s \in Nat /\ \A d \in 0..(i - s - 1) : d \in Same => d + 1 \in Same
  BY <1>2
<1>4. i - s \in Same
  <2>. HIDE DEF Same
  <2>1. \A d \in 0..(i - s) : d \in Same
    BY <1>1, <1>3, UpTo
  <2>. QED
    BY <1>3, <2>1
<1>. QED
  BY <1>4

(* The runs a gather reads hold the rows that were asked for: every pair   *)
(* gets its own row and keeps its place.                                   *)
LEMMA RunIsConsecutive ==
  ASSUME NEW order \in Seq([row : Int, dest : Int]), NEW i \in 1..Len(order)
  PROVE  /\ RunStart(order, i) \in 1..i
         /\ order[i].row = order[RunStart(order, i)].row + (i - RunStart(order, i))
<1>. DEFINE Ends   == {k \in 1..(i - 1) : RunEnds(order, k)}
            Starts == {1} \cup {j + 1 : j \in Ends}
            s      == Max(Starts)
            row    == [k \in 1..Len(order) |-> order[k].row]
<1>0. i \in Nat /\ \A k \in 1..Len(order) : order[k].row \in Int
  <2>1. \A k \in 1..Len(order) : order[k] \in [row : Int, dest : Int]
    BY ElementOfSeq
  <2>. QED
    BY <2>1
<1>1. Starts \subseteq 0..i /\ 1 \in Starts /\ 0 \notin Starts
  OBVIOUS
<1>2. s \in Starts /\ \A k \in Starts : k <= s
  <2>. HIDE DEF Starts
  <2>. QED
    BY <1>0, <1>1, Greatest
<1>3. s \in 1..i
  <2>. HIDE DEF Starts, s
  <2>. QED
    BY <1>1, <1>2
<1>4. \A k \in s..(i - 1) : ~RunEnds(order, k)
  <2>1. \A k \in Ends : k + 1 <= s
    BY <1>2
  <2>. HIDE DEF s
  <2>. QED
    BY <1>3, <2>1
<1>. HIDE DEF s, Starts, Ends
<1>5. \A k \in s..(i - 1) : order[k + 1].row = order[k].row + 1
  BY <1>3, <1>4 DEF RunEnds
<1>6. /\ \A k \in s..i : row[k] \in Int
      /\ \A k \in s..(i - 1) : row[k + 1] = row[k] + 1
  BY <1>0, <1>3, <1>5
<1>7. row[i] = row[s] + (i - s)
  <2>. HIDE DEF row
  <2>1. s \in Nat /\ s <= i
    BY <1>3
  <2>. QED
    BY <1>0, <1>6, <2>1, StepsAddUp
<1>8. RunStart(order, i) = s
  BY DEF RunStart, s, Starts, Ends
<1>. QED
  BY <1>3, <1>7, <1>8

LEMMA GatherIsOrder ==
  ASSUME NEW order \in Seq([row : Int, dest : Int])
  PROVE  Gather(order) = order
<1>1. \A i \in 1..Len(order) :
        order[i] = [row |-> order[RunStart(order, i)].row + (i - RunStart(order, i)), dest |-> order[i].dest]
  <2>. TAKE i \in 1..Len(order)
  <2>1. order[i].row = order[RunStart(order, i)].row + (i - RunStart(order, i))
    BY RunIsConsecutive
  <2>2. order[i] \in [row : Int, dest : Int]
    BY ElementOfSeq
  <2>. QED
    BY <2>1, <2>2
<1>2. order = [i \in 1..Len(order) |-> order[i]] /\ DOMAIN order = 1..Len(order)
  OBVIOUS
<1>. QED
  BY <1>1, <1>2 DEF Gather

(* A gather is given every row asked for once, with the place it goes to.  *)
LEMMA SourceOrdersFit ==
  ASSUME NEW rows \in Seq(Int), NEW order \in SourceOrders(rows)
  PROVE  /\ order \in Seq([row : Int, dest : Int]) /\ Len(order) = Len(rows)
         /\ \A i \in 1..Len(rows) :
              order[i].dest \in 1..Len(rows) /\ order[i].row = rows[order[i].dest]
         /\ \A i, j \in 1..Len(rows) : order[i].dest = order[j].dest => i = j
         /\ \A d \in 1..Len(rows) : \E i \in 1..Len(rows) : order[i].dest = d
<1>. DEFINE n == Len(rows)
<1>0. n \in Nat /\ DOMAIN rows = 1..n /\ \A i \in 1..n : rows[i] \in Int
  OBVIOUS
<1>1. PICK f \in [1..n -> 1..n] :
        /\ \A i, j \in 1..n : f[i] = f[j] => i = j
        /\ order = [i \in 1..n |-> [row |-> rows[f[i]], dest |-> f[i]]]
  <2>1. CASE order = Pairs(rows)
    <3>. DEFINE id == [i \in 1..n |-> i]
    <3>1. id \in [1..n -> 1..n] /\ \A i, j \in 1..n : id[i] = id[j] => i = j
      OBVIOUS
    <3>2. order = [i \in 1..n |-> [row |-> rows[id[i]], dest |-> id[i]]]
      BY <1>0, <2>1 DEF Pairs
    <3>. QED
      BY <3>1, <3>2
  <2>2. CASE order # Pairs(rows)
    <3>1. PICK f \in [DOMAIN rows -> DOMAIN rows] :
            /\ \A i, j \in DOMAIN rows : f[i] = f[j] => i = j
            /\ order = [i \in DOMAIN rows |-> Pairs(rows)[f[i]]]
      BY <2>2 DEF SourceOrders
    <3>2. \A i \in 1..n : Pairs(rows)[f[i]] = [row |-> rows[f[i]], dest |-> f[i]]
      BY <1>0, <3>1 DEF Pairs
    <3>3. order = [i \in 1..n |-> [row |-> rows[f[i]], dest |-> f[i]]]
      BY <1>0, <3>1, <3>2
    <3>4. f \in [1..n -> 1..n] /\ \A i, j \in 1..n : f[i] = f[j] => i = j
      BY <1>0, <3>1
    <3>. HIDE DEF n
    <3>. QED
      BY <3>3, <3>4
  <2>. QED
    BY <2>1, <2>2
<1>2. \A d \in 1..n : \E i \in 1..n : f[i] = d
  <2>1. f \in Injection(1..n, 1..n)
    BY <1>1 DEF Injection, IsInjective
  <2>2. IsFiniteSet(1..n)
    BY <1>0, FS_Interval
  <2>3. f \in Surjection(1..n, 1..n)
    BY <2>1, <2>2, FS_Injection
  <2>. QED
    BY <2>3 DEF Surjection
<1>3. \A i \in 1..n : f[i] \in 1..n /\ order[i] = [row |-> rows[f[i]], dest |-> f[i]]
  BY <1>1
<1>4. order \in Seq([row : Int, dest : Int]) /\ Len(order) = n
  <2>1. order \in [1..n -> [row : Int, dest : Int]]
    BY <1>0, <1>1
  <2>2. n \in Nat
    BY <1>0
  <2>3. \A S, m : m \in Nat /\ order \in [1..m -> S] => order \in Seq(S) /\ Len(order) = m
    BY FunctionIsSequence
  <2>. HIDE DEF n
  <2>. QED
    BY <2>1, <2>2, <2>3
<1>. QED
  BY <1>1, <1>2, <1>3, <1>4

(* A table's rows are read in order.                                       *)
LEMMA RangeIsInOrder ==
  ASSUME NEW q, q.start \in Nat, q.nrow \in Nat
  PROVE  /\ Pairs(RangeOf(q)) \in Seq([row : Int, dest : Int])
         /\ Len(Pairs(RangeOf(q))) = q.nrow
         /\ \A i \in 1..q.nrow : Pairs(RangeOf(q))[i] = [row |-> q.start + i - 1, dest |-> i]
<1>. DEFINE p == [i \in 1..q.nrow |-> [row |-> q.start + i - 1, dest |-> i]]
<1>1. p \in [1..q.nrow -> [row : Int, dest : Int]]
  OBVIOUS
<1>2. Pairs(RangeOf(q)) = p
  BY DEF Pairs, RangeOf
<1>3. p \in Seq([row : Int, dest : Int]) /\ Len(p) = q.nrow
  <2>. HIDE DEF p
  <2>. QED
    BY <1>1, FunctionIsSequence
<1>. QED
  BY <1>2, <1>3

(* The bits of a packed cell, taken out of the bytes that hold them, are   *)
(* its elements.                                                           *)
LEMMA BitsAreData ==
  ASSUME NEW at, NEW c, NEW r \in Rows, NRows \in Nat, ByteBits \in Nat \ {0},
         Size(Shape[c]) \in Nat,
         at[c][r].set, at[c][r].data = [i \in 1..Size(Shape[c]) |-> at[c][r].data[i]]
  PROVE  BitsTaken(BitCell(at, c, r)).data = at[c][r].data
<1>. DEFINE n     == Size(Shape[c])
            a     == r * n
            first == (a \div ByteBits) * ByteBits
            skip  == a % ByteBits
            last  == ((a + n - 1) \div ByteBits + 1) * ByteBits - 1
            bits  == BitStream(at, c)
            bytes == [i \in 1..(last - first + 1) |->
                        IF first + i - 1 \in DOMAIN bits THEN bits[first + i - 1] ELSE 0]
            data  == at[c][r].data
<1>0. n \in Nat /\ r \in Nat /\ r < NRows
  BY DEF Rows
<1>. HIDE DEF n
<1>3. a \in Nat /\ NRows * n \in Nat /\ a + n <= NRows * n
  BY <1>0, RowsBefore
<1>4. \A k \in 0..(n - 1) : (a + k) \div n = r /\ (a + k) % n = k
  BY <1>0, PlaceInRow
<1>1. a = first + skip /\ skip \in 0..(ByteBits - 1) /\ first \in Nat
  <2>. HIDE DEF a
  <2>. QED
    BY <1>3, WholeAndRest, WholeIsNatural
<1>2. last >= a + n - 1 /\ last \in Int
  <2>. DEFINE x == a + n - 1
  <2>1. x \in Int /\ last = (x \div ByteBits + 1) * ByteBits - 1
    BY <1>0, <1>3
  <2>. HIDE DEF x, last
  <2>2. x <= last /\ last \in Int
    BY <2>1, RoundedUp
  <2>. QED
    BY <2>2 DEF x
<1>5. \A k \in 0..(n - 1) : a + k \in 0..(NRows * n - 1)
  BY <1>0, <1>3
<1>6. DOMAIN bits = 0..(NRows * n - 1)
  BY DEF BitStream, n
<1>7. \A k \in 0..(n - 1) : bits[a + k] = data[k + 1]
  <2>. TAKE k \in 0..(n - 1)
  <2>1. a + k \in 0..(NRows * n - 1) /\ (a + k) \div n = r /\ (a + k) % n = k
    BY <1>4, <1>5
  <2>2. bits[a + k] = IF at[c][(a + k) \div n].set THEN at[c][(a + k) \div n].data[((a + k) % n) + 1] ELSE 0
    BY <2>1 DEF BitStream, n
  <2>. QED
    BY <2>1, <2>2
<1>8. BitCell(at, c, r) = [bytes |-> bytes, skip |-> skip, nelem |-> n]
  BY DEF BitCell, n
<1>. HIDE DEF bits, a, first, skip, last
<1>9. DOMAIN bytes = 1..(last - first + 1) /\ skip + n <= last - first + 1
  BY <1>0, <1>1, <1>2
<1>10. \A i \in 1..n : bytes[skip + i] = data[i]
  <2>. TAKE i \in 1..n
  <2>1. /\ i - 1 \in 0..(n - 1) /\ first + (skip + i) - 1 = a + (i - 1)
        /\ skip + i \in 1..(last - first + 1) /\ (i - 1) + 1 = i
    BY <1>0, <1>1, <1>2
  <2>2. first + (skip + i) - 1 \in DOMAIN bits /\ bits[first + (skip + i) - 1] = data[i]
    BY <1>5, <1>6, <1>7, <2>1
  <2>. QED
    BY <2>1, <2>2
<1>. HIDE DEF bytes, data
<1>11. SubSeq(bytes, skip + 1, skip + n) = [i \in 1..n |-> bytes[skip + i]]
  <2>1. SubSeq(bytes, skip + 1, skip + n) = [i \in 1..((skip + n) - (skip + 1) + 1) |-> bytes[i + (skip + 1) - 1]]
    <3>1. \A s : \A i, j \in Int : SubSeq(s, i, j) = [k \in 1..(j - i + 1) |-> s[k + i - 1]]
      OBVIOUS
    <3>2. skip + 1 \in Int /\ skip + n \in Int
      BY <1>0, <1>1
    <3>. QED
      BY <3>1, <3>2
  <2>2. (skip + n) - (skip + 1) + 1 = n /\ \A i \in 1..n : i + (skip + 1) - 1 = skip + i
    BY <1>0, <1>1
  <2>. QED
    BY <2>1, <2>2
<1>12. SubSeq(bytes, skip + 1, skip + n) = [i \in 1..n |-> data[i]]
  BY <1>10, <1>11
<1>13. data = [i \in 1..n |-> data[i]]
  BY DEF data, n
<1>14. BitsTaken(BitCell(at, c, r)).data = SubSeq(bytes, skip + 1, skip + n)
  <2>1. /\ BitCell(at, c, r).bytes = bytes
        /\ BitCell(at, c, r).skip = skip /\ BitCell(at, c, r).nelem = n
    BY <1>8
  <2>. QED
    BY <2>1 DEF BitsTaken
<1>. QED
  BY <1>12, <1>13, <1>14 DEF data

-----------------------------------------------------------------------------
(* Reference tables.                                                       *)

(* What is to be visited is about the views only.                          *)
LEMMA TodoStays ==
  ASSUME views' = views
  PROVE  \A q, todo : TodoFits(q, todo)' <=> TodoFits(q, todo)
<1>1. \A q, i : Resolved(q, i)' = Resolved(q, i)
  BY DEF Resolved, ViewRow
<1>. QED
  <2>. TAKE q, todo
  <2>1. (\A i \in 1..q.nrow : todo[i].dest \in 1..q.nrow /\ todo[i].row = Resolved(q, todo[i].dest))'
          <=> \A i \in 1..q.nrow : todo[i].dest \in 1..q.nrow /\ todo[i].row = Resolved(q, todo[i].dest)
    BY <1>1
  <2>. QED
    BY <2>1, Zenon DEF TodoFits

LEMMA ViewTypes ==
  ASSUME ViewsFit, NEW h \in 1..Len(views)
  PROVE  /\ views[h] \in [rows : Seq(Rows), of : Nat, local : Seq(Nat)]
         /\ views[h].rows \in Seq(Rows) /\ views[h].of \in Nat /\ views[h].local \in Seq(Nat)
         /\ Len(views[h].rows) \in Nat
         /\ \A i \in 1..Len(views[h].rows) : views[h].rows[i] \in Rows /\ views[h].local[i] \in Nat
<1>1. views[h] \in [rows : Seq(Rows), of : Nat, local : Seq(Nat)]
  BY ElementOfSeq DEF ViewsFit
<1>2. Len(views[h].local) = Len(views[h].rows)
  BY DEF ViewsFit
<1>3. views[h].rows \in Seq(Rows) /\ views[h].of \in Nat /\ views[h].local \in Seq(Nat)
  BY <1>1
<1>4. Len(views[h].rows) \in Nat
  BY <1>3
<1>5. \A i \in 1..Len(views[h].rows) : views[h].rows[i] \in Rows /\ views[h].local[i] \in Nat
  BY <1>2, <1>3, ElementOfSeq
<1>. QED
  BY <1>1, <1>3, <1>4, <1>5

(* Following the lists one after another leads to the row a view keeps.    *)
LEMMA RowsAreComposed ==
  ASSUME ViewsFit
  PROVE  /\ \A r \in Nat : RowBehind(0, r) = r
         /\ \A h \in 1..Len(views) : \A r \in 0..(Len(views[h].rows) - 1) :
              RowBehind(h, r) = ViewRow(h, r)
<1>. DEFINE n == Len(views)
            Size0(g) == Len(views[g].local)
            Of(g) == views[g].of
            At(g, i) == views[g].local[i + 1]
            Kept(g, i) == views[g].rows[i + 1]
            Follow(f, g) ==
              IF g = 0 THEN [i \in Nat |-> i]
              ELSE [i \in 0..(Size0(g) - 1) |-> f[Of(g)][At(g, i)]]
            behind == CHOOSE f : f = [g \in 0..n |-> Follow(f, g)]
            Row(g) == IF g = 0 THEN [i \in Nat |-> i] ELSE [i \in 0..(Size0(g) - 1) |-> Kept(g, i)]
            kept == [g \in 0..n |-> Row(g)]
<1>0. n \in Nat
  BY DEF ViewsFit
<1>1. \A g \in 1..n : Of(g) \in 0..(g - 1) /\ Size0(g) \in Nat /\ Size0(g) = Len(views[g].rows)
  BY ViewTypes DEF ViewsFit
<1>2. ASSUME NEW g \in 1..n, NEW i \in 0..(Size0(g) - 1)
      PROVE  /\ At(g, i) \in Nat
             /\ Of(g) = 0 => At(g, i) = Kept(g, i)
             /\ Of(g) # 0 => At(g, i) \in 0..(Size0(Of(g)) - 1) /\ Kept(Of(g), At(g, i)) = Kept(g, i)
  <2>1. i + 1 \in 1..Len(views[g].rows)
    BY <1>1
  <2>2. At(g, i) \in Nat
    BY <2>1, ViewTypes
  <2>3. Of(g) = 0 => At(g, i) = Kept(g, i)
    BY <2>1 DEF ViewsFit
  <2>4. ASSUME Of(g) # 0
        PROVE  At(g, i) \in 0..(Size0(Of(g)) - 1) /\ Kept(Of(g), At(g, i)) = Kept(g, i)
    <3>1. Of(g) \in 1..n
      BY <1>0, <1>1, <2>4
    <3>2. Size0(Of(g)) = Len(views[Of(g)].rows) /\ Size0(Of(g)) \in Nat
      BY <1>1, <3>1
    <3>3. At(g, i) < Len(views[Of(g)].rows) /\ Kept(g, i) = ViewRow(Of(g), At(g, i))
      BY <2>1, <2>4 DEF ViewsFit
    <3>4. Kept(Of(g), At(g, i)) = Kept(g, i)
      BY <3>3 DEF ViewRow
    <3>. HIDE DEF At, Size0, Of, Kept
    <3>. QED
      BY <2>2, <3>2, <3>3, <3>4
  <2>. QED
    BY <2>2, <2>3, <2>4
<1>3. \A g, r : RowBehind(g, r) = behind[g][r]
  BY DEF RowBehind
<1>4. \A h \in 1..n : \A r \in 0..(Len(views[h].rows) - 1) : Kept(h, r) = ViewRow(h, r)
  BY DEF ViewRow
<1>. HIDE DEF Size0, Of, At, Kept, n
<1>zero. Row(0) = [i \in Nat |-> i] /\ (\A f : Follow(f, 0) = [i \in Nat |-> i])
  OBVIOUS
<1>5. \A g \in 0..n : kept[g] = Row(g)
  <2>. HIDE DEF Row
  <2>. QED
    OBVIOUS
<1>6. \A g \in 0..n : Follow(kept, g) = Row(g)
  <2>. TAKE g \in 0..n
  <2>1. CASE g = 0
    BY <2>1
  <2>2. CASE g # 0
    <3>1. g \in 1..n /\ Of(g) \in 0..n
      BY <1>0, <1>1, <2>2
    <3>2. ASSUME NEW i \in 0..(Size0(g) - 1) PROVE kept[Of(g)][At(g, i)] = Kept(g, i)
      <4>1. kept[Of(g)] = Row(Of(g))
        BY <1>5, <3>1
      <4>2. CASE Of(g) = 0
        BY <1>2, <3>1, <4>1, <4>2
      <4>3. CASE Of(g) # 0
        BY <1>2, <3>1, <4>1, <4>3
      <4>. QED
        BY <4>2, <4>3
    <3>. HIDE DEF kept
    <3>. QED
      BY <2>2, <3>2
  <2>. QED
    BY <2>1, <2>2
<1>7. kept = [g \in 0..n |-> Follow(kept, g)]
  <2>1. kept = [g \in 0..n |-> Row(g)]
    OBVIOUS
  <2>. HIDE DEF kept, Follow, Row
  <2>. QED
    BY <1>6, <2>1
<1>8. behind = [g \in 0..n |-> Follow(behind, g)]
  <2>. HIDE DEF kept, Follow
  <2>. QED
    BY <1>7
<1>. HIDE DEF behind, kept
<1>9. \A g \in 0..n : behind[g] = Follow(behind, g) /\ kept[g] = Follow(kept, g)
  <2>. HIDE DEF Follow
  <2>. QED
    BY <1>7, <1>8
<1>. DEFINE Same == {g \in 0..n : \A k \in 0..g : behind[k] = kept[k]}
<1>10. 0 \in Same
  <2>1. behind[0] = kept[0]
    <3>. HIDE DEF Follow, Row
    <3>. QED
      BY <1>0, <1>9, <1>zero
  <2>. QED
    BY <1>0, <2>1
<1>11. ASSUME NEW g \in 0..(n - 1), g \in Same PROVE g + 1 \in Same
  <2>1. g + 1 \in 1..n /\ Of(g + 1) \in 0..g
    BY <1>0, <1>1
  <2>2. behind[Of(g + 1)] = kept[Of(g + 1)]
    BY <1>11, <2>1
  <2>3. Follow(behind, g + 1) = Follow(kept, g + 1)
    BY <2>1, <2>2
  <2>4. behind[g + 1] = kept[g + 1]
    <3>. HIDE DEF Follow
    <3>. QED
      BY <1>0, <1>9, <2>1, <2>3
  <2>. QED
    BY <1>0, <1>11, <2>1, <2>4
<1>12. \A g \in 0..n : behind[g] = kept[g]
  <2>1. \A g \in 0..(n - 1) : g \in Same => g + 1 \in Same
    BY <1>11
  <2>. HIDE DEF Same
  <2>2. \A g \in 0..n : g \in Same
    BY <1>0, <1>10, <2>1, UpTo
  <2>. QED
    BY <1>0, <2>2 DEF Same
<1>13. \A r \in Nat : kept[0][r] = r
  <2>1. kept[0] = [i \in Nat |-> i]
    <3>. HIDE DEF Follow, Row
    <3>. QED
      BY <1>0, <1>5, <1>zero
  <2>. QED
    BY <2>1
<1>14. \A h \in 1..n : \A r \in 0..(Size0(h) - 1) : kept[h][r] = Kept(h, r)
  <2>. TAKE h \in 1..n
  <2>1. kept[h] = Row(h) /\ h # 0
    BY <1>0, <1>5
  <2>. QED
    BY <2>1
<1>. HIDE DEF Follow, Row
<1>15. \A r \in Nat : RowBehind(0, r) = r
  BY <1>0, <1>3, <1>12, <1>13
<1>16. ASSUME NEW h \in 1..n, NEW r \in 0..(Len(views[h].rows) - 1)
       PROVE  RowBehind(h, r) = ViewRow(h, r)
  <2>0. Size0(h) = Len(views[h].rows)
    BY <1>1
  <2>1. behind[h] = kept[h] /\ r \in 0..(Size0(h) - 1)
    BY <1>0, <1>12, <2>0
  <2>2. kept[h][r] = Kept(h, r)
    BY <1>14, <2>1
  <2>. QED
    BY <1>3, <1>4, <2>1, <2>2
<1>. QED
  BY <1>15, <1>16 DEF n

LEMMA ResolvedIsAsked ==
  ASSUME ViewsFit, NEW q \in Requests, q.on \in 0..Len(views), InRange(q), NEW i \in 1..q.nrow
  PROVE  Resolved(q, i) = AskedRow(q, i)
<1>1. q.start \in Nat /\ q.nrow \in Nat
  BY TableReadsAssumption
<1>2. CASE q.on = 0
  <2>1. q.start + i - 1 \in Nat
    BY <1>1
  <2>. QED
    BY <1>2, <2>1, RowsAreComposed DEF Resolved, AskedRow
<1>3. CASE q.on # 0
  <2>1. q.on \in 1..Len(views)
    BY <1>3 DEF ViewsFit
  <2>2. q.start + i - 1 \in 0..(Len(views[q.on].rows) - 1)
    <3>1. Len(views[q.on].rows) \in Nat
      BY <2>1, ViewTypes
    <3>2. q.nrow > 0 /\ q.start + q.nrow <= Len(views[q.on].rows)
      BY <1>1, <1>3 DEF InRange, HandleRows
    <3>3. \A s, m, l \in Nat : \A j \in 1..m : s + m <= l => s + j - 1 \in 0..(l - 1)
      OBVIOUS
    <3>. QED
      BY <1>1, <3>1, <3>2, <3>3
  <2>. QED
    BY <1>3, <2>1, <2>2, RowsAreComposed DEF Resolved, AskedRow
<1>. QED
  BY <1>2, <1>3

-----------------------------------------------------------------------------
(* What a step leaves alone.                                               *)

LEMMA RequestTypes ==
  ASSUME NEW q \in Requests
  PROVE  q.col \in Cols /\ q.on \in Nat /\ q.start \in Nat /\ q.nrow \in Nat
BY TableReadsAssumption

LEMMA HandleTypes ==
  ASSUME ViewsFit, NEW h \in 0..Len(views)
  PROVE  HandleRows(h) \in Nat
<1>1. CASE h = 0
  BY <1>1, TableReadsAssumption DEF HandleRows
<1>2. CASE h # 0
  <2>1. h \in 1..Len(views)
    BY <1>2 DEF ViewsFit
  <2>. QED
    BY <1>2, <2>1, ViewTypes DEF HandleRows
<1>. QED
  BY <1>1, <1>2

LEMMA ViewsStay ==
  ASSUME ViewsFit, UNCHANGED views
  PROVE  ViewsFit'
BY DEF ViewsFit, ViewRow

LEMMA PatchStays ==
  ASSUME PatchFits, UNCHANGED <<patch, patches>>
  PROVE  PatchFits'
BY DEF PatchFits, NoPatch

LEMMA CellsStay ==
  ASSUME CellsFit, UNCHANGED <<cells, patch>>
  PROVE  CellsFit'
BY DEF CellsFit, Whole, Halved

LEMMA ReadStays ==
  ASSUME ReadFits, UNCHANGED <<read, views>>
  PROVE  ReadFits'
BY DEF ReadFits, TodoFits, InRange, Resolved, HandleRows, ViewRow, AllVisited, RawRefused,
       RawColumnSupported, IsArray, HasShape

LEMMA AnswerStays ==
  ASSUME AnswerFits, UNCHANGED <<answer, views>>
  PROVE  AnswerFits'
BY DEF AnswerFits, InRange, HandleRows

LEMMA GotStays ==
  ASSUME GotFits, UNCHANGED <<read, cells>>
  PROVE  GotFits'
BY DEF GotFits, NoDefault

LEMMA AnswerTrueStays ==
  ASSUME AnswerTrue, UNCHANGED <<answer, views>>
  PROVE  AnswerTrue'
BY DEF AnswerTrue, Resolved, ViewRow

-----------------------------------------------------------------------------
(* The invariant, one action after another.                                *)

LEMMA InitReads ==
  ASSUME Init
  PROVE  ReadsInv /\ GatedInv
<1>1. ViewsFit
  BY DEF Init, ViewsFit
<1>2. PatchFits
  <2>1. patch = NoPatch /\ patches = 0 /\ 0 \in 0..MaxPatches
    BY TableReadsAssumption DEF Init
  <2>2. patch = [gate |-> patch.gate, col |-> patch.col, todo |-> patch.todo] /\ patch.todo = <<>>
    BY <2>1 DEF NoPatch
  <2>3. <<>> \in Seq(Rows \X {1, 2}) /\ Len(<<>>) = 0 /\ 1..0 = {}
    OBVIOUS
  <2>. QED
    BY <2>1, <2>2, <2>3 DEF PatchFits
<1>3. CellsFit
  <2>1. ASSUME NEW c \in Cols, NEW r \in Rows PROVE Whole(cells[c][r], c, r)
    <3>1. cells[c][r] = IF <<c, r>> \in Unset THEN NotStored ELSE Stored(c, r, 0)
      BY DEF Init
    <3>2. 0 \in 0..MaxPatches
      BY TableReadsAssumption
    <3>. QED
      BY <3>1, <3>2 DEF Whole
  <2>. QED
    BY <2>1 DEF Init, CellsFit
<1>4. read = None /\ answer = None /\ ~read.gate
  BY DEF Init, None
<1>. QED
  BY <1>1, <1>2, <1>3, <1>4 DEF ReadsInv, GatesExclude, ReadFits, AnswerFits, GatedInv, GotFits, AnswerTrue

LEMMA RowOrderStep ==
  ASSUME ReadsInv, NEW h, NEW rows \in RowLists, RowOrder(h, rows)
  PROVE  ReadsInv'
<1>. DEFINE n == Len(views)
<1>0. n \in Nat /\ rows \in Seq(Nat) /\ Len(rows) \in Nat /\ DOMAIN rows = 1..Len(rows)
  BY TableReadsAssumption DEF ReadsInv, ViewsFit
<1>1. PICK v \in [rows : Seq(Rows), of : Nat, local : Seq(Nat)] :
        /\ views' = Append(views, v)
        /\ v.of \in 0..n /\ Len(v.local) = Len(v.rows)
        /\ \A i \in 1..Len(v.rows) :
             IF v.of = 0 THEN v.rows[i] = v.local[i]
             ELSE v.local[i] < Len(views[v.of].rows) /\ v.rows[i] = ViewRow(v.of, v.local[i])
  <2>1. CASE h = 0
    <3>. DEFINE v == [rows |-> rows, of |-> 0, local |-> rows]
    <3>1. views' = Append(views, v) /\ \A i \in DOMAIN rows : rows[i] \in Rows
      BY <2>1 DEF RowOrder, ReadsInv, ViewsFit
    <3>2. rows \in Seq(Rows)
      BY <1>0, <3>1
    <3>. QED
      BY <1>0, <3>1, <3>2
  <2>2. CASE h # 0
    <3>. DEFINE made == [i \in DOMAIN rows |-> ViewRow(h, rows[i])]
                v    == [rows |-> made, of |-> h, local |-> rows]
    <3>1. /\ h \in 1..n /\ views' = Append(views, v)
          /\ \A i \in 1..Len(rows) : rows[i] < Len(views[h].rows)
      <4>1. /\ h \in DOMAIN views /\ views' = Append(views, v)
            /\ \A i \in DOMAIN rows : rows[i] < Len(views[h].rows)
        BY <2>2 DEF RowOrder
      <4>2. DOMAIN views = 1..n
        BY DEF ReadsInv, ViewsFit
      <4>. HIDE DEF n
      <4>. QED
        BY <1>0, <4>1, <4>2
    <3>2. \A i \in 1..Len(rows) : ViewRow(h, rows[i]) \in Rows
      <4>. TAKE i \in 1..Len(rows)
      <4>1. rows[i] + 1 \in 1..Len(views[h].rows)
        <5>1. rows[i] \in Nat /\ rows[i] < Len(views[h].rows) /\ Len(views[h].rows) \in Nat
          BY <1>0, <3>1, ViewTypes DEF ReadsInv
        <5>. QED
          BY <5>1
      <4>. QED
        BY <3>1, <4>1, ViewTypes DEF ReadsInv, ViewRow
    <3>3. made \in Seq(Rows) /\ Len(made) = Len(rows)
      <4>1. made \in [1..Len(rows) -> Rows]
        BY <1>0, <3>2
      <4>. HIDE DEF made
      <4>. QED
        BY <1>0, <4>1, FunctionIsSequence
    <3>4. \A i \in 1..Len(rows) : made[i] = ViewRow(h, rows[i])
      BY <1>0
    <3>. HIDE DEF made
    <3>. QED
      BY <1>0, <2>2, <3>1, <3>3, <3>4
  <2>. QED
    BY <2>1, <2>2
<1>2. views' \in Seq([rows : Seq(Rows), of : Nat, local : Seq(Nat)]) /\ Len(views') = n + 1
      /\ views'[n + 1] = v /\ \A k \in 1..n : views'[k] = views[k]
  <2>1. views \in Seq([rows : Seq(Rows), of : Nat, local : Seq(Nat)])
    BY DEF ReadsInv, ViewsFit
  <2>2. \A S, s, e : s \in Seq(S) /\ e \in S =>
          /\ Append(s, e) \in Seq(S) /\ Len(Append(s, e)) = Len(s) + 1
          /\ Append(s, e)[Len(s) + 1] = e /\ \A k \in 1..Len(s) : Append(s, e)[k] = s[k]
    OBVIOUS
  <2>. QED
    BY <1>1, <2>1, <2>2
<1>3. ViewsFit'
  <2>1. ASSUME NEW k \in 1..n
        PROVE  /\ views'[k].of < k /\ Len(views'[k].local) = Len(views'[k].rows)
               /\ \A i \in 1..Len(views'[k].rows) :
                    IF views'[k].of = 0 THEN views'[k].rows[i] = views'[k].local[i]
                    ELSE /\ views'[k].local[i] < Len(views'[views'[k].of].rows)
                         /\ views'[k].rows[i] = views'[views'[k].of].rows[views'[k].local[i] + 1]
    <3>1. views'[k] = views[k]
      BY <1>2
    <3>2. views[k].of # 0 => views'[views[k].of] = views[views[k].of]
      <4>1. views[k].of \in Nat
        BY ViewTypes DEF ReadsInv
      <4>2. views[k].of < k
        BY DEF ReadsInv, ViewsFit
      <4>3. views[k].of # 0 => views[k].of \in 1..n
        <5>. HIDE DEF n
        <5>. QED
          BY <1>0, <4>1, <4>2
      <4>. HIDE DEF n
      <4>. QED
        BY <1>2, <4>3
    <3>3. k \in 1..Len(views)
      OBVIOUS
    <3>4. /\ views[k].of < k /\ Len(views[k].local) = Len(views[k].rows)
          /\ \A i \in 1..Len(views[k].rows) :
               IF views[k].of = 0 THEN views[k].rows[i] = views[k].local[i]
               ELSE /\ views[k].local[i] < Len(views[views[k].of].rows)
                    /\ views[k].rows[i] = views[views[k].of].rows[views[k].local[i] + 1]
      BY <3>3 DEF ReadsInv, ViewsFit, ViewRow
    <3>5. CASE views[k].of = 0
      BY <3>1, <3>4, <3>5
    <3>6. CASE views[k].of # 0
      BY <3>1, <3>2, <3>4, <3>6
    <3>. QED
      BY <3>5, <3>6
  <2>2. /\ v.of < n + 1 /\ Len(v.local) = Len(v.rows)
        /\ \A i \in 1..Len(v.rows) :
             IF v.of = 0 THEN v.rows[i] = v.local[i]
             ELSE /\ v.local[i] < Len(views'[v.of].rows)
                  /\ v.rows[i] = views'[v.of].rows[v.local[i] + 1]
    <3>1. v.of # 0 => views'[v.of] = views[v.of]
      BY <1>0, <1>1, <1>2
    <3>. QED
      BY <1>0, <1>1, <3>1 DEF ViewRow
  <2>3. \A k \in 1..Len(views') : k \in 1..n \/ k = n + 1
    BY <1>0, <1>2
  <2>. HIDE DEF n
  <2>. QED
    BY <1>2, <2>1, <2>2, <2>3 DEF ViewsFit, ViewRow
<1>4. read' = None /\ answer' = None /\ UNCHANGED <<cells, patch, patches>>
  BY DEF RowOrder
<1>5. PatchFits' /\ CellsFit'
  BY <1>4, PatchStays, CellsStay DEF ReadsInv
<1>. QED
  BY <1>3, <1>4, <1>5 DEF ReadsInv, GatesExclude, ReadFits, AnswerFits, None

LEMMA AskStep ==
  ASSUME ReadsInv, NEW q \in Requests, Ask(q)
  PROVE  ReadsInv'
<1>0. /\ q.start \in Nat /\ q.nrow \in Nat /\ q.on \in 0..Len(views) /\ HandleRows(q.on) \in Nat
      /\ q.op \in {"raw", "bits"} => RawColumnSupported(q.col)
  BY RequestTypes, HandleTypes DEF Ask, ReadsInv
<1>1. UNCHANGED <<cells, views, patch, patches>> /\ read = None /\ answer = None
  BY DEF Ask
<1>2. ViewsFit' /\ PatchFits' /\ CellsFit'
  BY <1>1, ViewsStay, PatchStays, CellsStay DEF ReadsInv
<1>3. CASE q.on # 0 /\ ViewRangeBad(q) /\ Refuse(q, "row", ViewRangeRow(q)) /\ UNCHANGED read
  <2>1. answer' = [op |-> q.op, q |-> q, ok |-> FALSE, why |-> "row", row |-> ViewRangeRow(q),
                   values |-> <<>>, of |-> cells[q.col]]
    BY <1>3 DEF Refuse, Answered
  <2>2. ViewRangeRow(q) \in q.start..(q.start + q.nrow - 1)
    BY <1>0, <1>3 DEF ViewRangeRow, ViewRangeBad
  <2>3. ViewRangeRow(q) = Max({q.start, HandleRows(q.on)})
    BY <1>0, MaxOfTwo DEF ViewRangeRow
  <2>4. HandleRows(q.on)' = HandleRows(q.on)
    BY <1>1 DEF HandleRows
  <2>5. AnswerFits'
    BY <1>0, <1>1, <2>1, <2>2, <2>3, <2>4 DEF AnswerFits
  <2>. QED
    BY <1>1, <1>2, <1>3, <2>5 DEF ReadsInv, ReadFits, GatesExclude, None
<1>4. ASSUME NEW order, order \in Seq([row : Int, dest : Int]), Len(order) = q.nrow,
             TodoFits(q, order), InRange(q), read' = Begun(q, order), UNCHANGED answer
      PROVE  ReadsInv'
  <2>1. read' = [op |-> q.op, q |-> q, todo |-> order, at |-> 0, gate |-> FALSE, got |-> <<>>]
    BY <1>4 DEF Begun
  <2>2. TodoFits(q, order)' /\ InRange(q)'
    BY <1>1, <1>4 DEF TodoFits, InRange, Resolved, ViewRow, HandleRows
  <2>3. (q.op \in {"raw", "bits"} => RawColumnSupported(q.col))' /\ (q.on \in 0..Len(views))'
    BY <1>0, <1>1 DEF RawColumnSupported, IsArray, HasShape
  <2>4. ReadFits'
    <3>1. <<>> \in Seq({}) /\ Len(<<>>) = 0 /\ 0 \in 0..q.nrow /\ ~(0 > 0) /\ 1..0 = {}
      BY <1>0
    <3>. HIDE DEF RawColumnSupported, RawRefused, TodoFits, InRange
    <3>2. read'.q = q /\ read'.todo = order /\ read'.at = 0 /\ read'.gate = FALSE /\ read'.got = <<>> /\ read'.op = q.op
      BY <2>1
    <3>3. TodoFits(read.q, read.todo)' /\ InRange(read.q)'
      BY <2>2, <3>2 DEF TodoFits, InRange, Resolved, ViewRow, HandleRows
    <3>4. (read.q.op \in {"raw", "bits"} => RawColumnSupported(read.q.col))' /\ (read.q.on \in 0..Len(views))'
      BY <2>3, <3>2
    <3>. QED
      BY <2>1, <3>1, <3>2, <3>3, <3>4 DEF ReadFits
  <2>5. GatesExclude'
    BY <2>1 DEF GatesExclude
  <2>6. AnswerFits'
    BY <1>1, <1>4, AnswerStays DEF ReadsInv
  <2>. QED
    BY <1>2, <2>4, <2>5, <2>6 DEF ReadsInv
<1>5. CASE q.on # 0 /\ ~ViewRangeBad(q) /\ UNCHANGED answer
           /\ \E order \in SourceOrders(ViewRows(q)) : read' = Begun(q, Gather(order))
  <2>. DEFINE rows == ViewRows(q)
  <2>1. PICK order \in SourceOrders(rows) : read' = Begun(q, Gather(order))
    BY <1>5
  <2>2. InRange(q)
    BY <1>0, <1>5 DEF InRange, ViewRangeBad
  <2>3. \A i \in 1..q.nrow : Resolved(q, i) = rows[i] /\ rows[i] \in Rows
    <3>. TAKE i \in 1..q.nrow
    <3>1. q.on \in 1..Len(views) /\ q.start + q.nrow <= Len(views[q.on].rows)
      BY <1>0, <1>5, <2>2 DEF InRange, HandleRows, ReadsInv, ViewsFit
    <3>2. Len(views[q.on].rows) \in Nat
      BY <3>1, ViewTypes DEF ReadsInv
    <3>3. (q.start + i - 1) + 1 \in 1..Len(views[q.on].rows)
      <4>1. q.start \in Nat /\ q.nrow \in Nat
        BY <1>0
      <4>2. \A a, b, c \in Nat : \A k \in 1..b : a + b <= c => (a + k - 1) + 1 \in 1..c
        OBVIOUS
      <4>. QED
        BY <3>1, <3>2, <4>1, <4>2
    <3>4. ViewRow(q.on, q.start + i - 1) \in Rows
      BY <3>1, <3>3, ViewTypes DEF ReadsInv, ViewRow
    <3>. QED
      BY <1>5, <3>4 DEF Resolved, ViewRows
  <2>4. rows \in Seq(Int) /\ Len(rows) = q.nrow
    <3>1. rows \in [1..q.nrow -> Int]
      <4>1. \A i \in 1..q.nrow : rows[i] \in Int
        BY <2>3, TableReadsAssumption DEF Rows
      <4>2. rows = [i \in 1..q.nrow |-> rows[i]]
        BY DEF ViewRows
      <4>. HIDE DEF rows
      <4>. QED
        BY <4>1, <4>2
    <3>. HIDE DEF rows
    <3>. QED
      BY <1>0, <3>1, FunctionIsSequence
  <2>. HIDE DEF rows
  <2>5. /\ order \in Seq([row : Int, dest : Int]) /\ Len(order) = q.nrow
        /\ \A i \in 1..q.nrow : order[i].dest \in 1..q.nrow /\ order[i].row = rows[order[i].dest]
        /\ \A i, j \in 1..q.nrow : order[i].dest = order[j].dest => i = j
        /\ \A d \in 1..q.nrow : \E i \in 1..q.nrow : order[i].dest = d
    <3>1. order \in SourceOrders(rows)
      BY <2>1
    <3>2. \A s : s \in Seq(Int) => \A o \in SourceOrders(s) :
            /\ o \in Seq([row : Int, dest : Int]) /\ Len(o) = Len(s)
            /\ \A i \in 1..Len(s) : o[i].dest \in 1..Len(s) /\ o[i].row = s[o[i].dest]
            /\ \A i, j \in 1..Len(s) : o[i].dest = o[j].dest => i = j
            /\ \A d \in 1..Len(s) : \E i \in 1..Len(s) : o[i].dest = d
      BY SourceOrdersFit
    <3>3. \A o \in SourceOrders(rows) :
            /\ o \in Seq([row : Int, dest : Int]) /\ Len(o) = Len(rows)
            /\ \A i \in 1..Len(rows) : o[i].dest \in 1..Len(rows) /\ o[i].row = rows[o[i].dest]
            /\ \A i, j \in 1..Len(rows) : o[i].dest = o[j].dest => i = j
            /\ \A d \in 1..Len(rows) : \E i \in 1..Len(rows) : o[i].dest = d
      BY <2>4, <3>2
    <3>4. Len(rows) = q.nrow
      BY <2>4
    <3>. QED
      BY <3>1, <3>3, <3>4
  <2>6. Gather(order) = order
    BY <2>5, GatherIsOrder
  <2>7. TodoFits(q, order)
    <3>1. \A i \in 1..q.nrow : order[i].row = Resolved(q, order[i].dest) /\ order[i].row \in Rows
      <4>. TAKE i \in 1..q.nrow
      <4>1. order[i].dest \in 1..q.nrow /\ order[i].row = rows[order[i].dest]
        BY <2>5
      <4>2. \A d \in 1..q.nrow : Resolved(q, d) = rows[d] /\ rows[d] \in Rows
        BY <2>3
      <4>. QED
        BY <4>1, <4>2
    <3>. QED
      BY <1>5, <2>5, <3>1 DEF TodoFits
  <2>. QED
    BY <1>4, <1>5, <2>1, <2>2, <2>5, <2>6, <2>7
<1>6. CASE q.on = 0 /\ read' = Begun(q, Pairs(RangeOf(q))) /\ UNCHANGED answer
  <2>. DEFINE order == Pairs(RangeOf(q))
  <2>1. /\ order \in Seq([row : Int, dest : Int]) /\ Len(order) = q.nrow
        /\ \A i \in 1..q.nrow : order[i] = [row |-> q.start + i - 1, dest |-> i]
    BY <1>0, RangeIsInOrder
  <2>. HIDE DEF order
  <2>2. \A i \in 1..q.nrow : order[i].row = q.start + i - 1 /\ order[i].dest = i
    <3>. TAKE i \in 1..q.nrow
    <3>1. order[i] = [row |-> q.start + i - 1, dest |-> i]
      BY <2>1
    <3>. QED
      BY <3>1
  <2>3. TodoFits(q, order)
    BY <1>6, <2>1, <2>2 DEF TodoFits, Resolved
  <2>4. InRange(q)
    BY <1>6 DEF InRange
  <2>. QED
    BY <1>4, <1>6, <2>1, <2>3, <2>4 DEF order
<1>. QED
  BY <1>3, <1>5, <1>6 DEF Ask

LEMMA EnterStep ==
  ASSUME ReadsInv, Enter
  PROVE  ReadsInv'
<1>1. /\ UNCHANGED <<cells, views, patch, patches>>
      /\ read # None /\ ~read.gate /\ ~patch.gate
  BY DEF Enter
<1>2. ViewsFit' /\ PatchFits' /\ CellsFit'
  BY <1>1, ViewsStay, PatchStays, CellsStay DEF ReadsInv
<1>3. CASE RawRefused(read.q) /\ ~AllVisited
  <2>1. answer' = Answered(read.q, FALSE, "raw", 0, <<>>) /\ read' = None
    BY <1>3 DEF Enter, Refuse
  <2>2. AnswerFits'
    BY <1>1, <2>1 DEF AnswerFits, Answered, ReadsInv, ReadFits
  <2>. QED
    BY <1>2, <2>1, <2>2 DEF ReadsInv, ReadFits, GatesExclude, None
<1>4. CASE ~(RawRefused(read.q) /\ ~AllVisited)
  <2>1. read' = [read EXCEPT !.gate = TRUE] /\ UNCHANGED answer
    BY <1>4 DEF Enter
  <2>2. AnswerFits'
    BY <1>1, <2>1, AnswerStays DEF ReadsInv
  <2>3. read' = [op |-> read.op, q |-> read.q, todo |-> read.todo, at |-> read.at,
                 gate |-> TRUE, got |-> read.got]
    BY <1>1, <2>1 DEF ReadsInv, ReadFits
  <2>4. ReadFits'
    <3>1. /\ read'.op = read.op /\ read'.q = read.q /\ read'.todo = read.todo
          /\ read'.at = read.at /\ read'.gate = TRUE /\ read'.got = read.got
      BY <2>3
    <3>2. TodoFits(read.q, read.todo)' /\ InRange(read.q)' /\ (read.q.on \in 0..Len(views))'
      <4>1. TodoFits(read.q, read.todo) /\ InRange(read.q) /\ read.q.on \in 0..Len(views)
        BY <1>1 DEF ReadsInv, ReadFits
      <4>2. TodoFits(read.q, read.todo)'
        BY <1>1, <3>1, <4>1, TodoStays
      <4>3. InRange(read.q)'
        BY <1>1, <3>1, <4>1 DEF InRange, HandleRows
      <4>. QED
        BY <1>1, <3>1, <4>1, <4>2, <4>3
    <3>3. /\ (read.q.op \in {"raw", "bits"} => RawColumnSupported(read.q.col))'
          /\ RawRefused(read.q)' = RawRefused(read.q) /\ AllVisited' = AllVisited
      BY <1>1, <3>1 DEF ReadsInv, ReadFits, RawColumnSupported, IsArray, HasShape, RawRefused, AllVisited
    <3>4. \A k \in 1..read.at : read.got[k].dest = read.todo[k].dest /\ read.todo[k].row \in Rows
      BY <1>1 DEF ReadsInv, ReadFits
    <3>5. /\ read.q \in Requests /\ read.op = read.q.op /\ read.at \in 0..read.q.nrow
          /\ Len(read.got) = read.at /\ \E S : read.got \in Seq(S)
      BY <1>1 DEF ReadsInv, ReadFits
    <3>6. read.at > 0 \/ ~AllVisited => ~RawRefused(read.q)
      BY <1>1, <1>4 DEF ReadsInv, ReadFits
    <3>. HIDE DEF RawColumnSupported, RawRefused, TodoFits, InRange, AllVisited
    <3>. QED
      BY <2>3, <3>1, <3>2, <3>3, <3>4, <3>5, <3>6 DEF ReadFits
  <2>5. GatesExclude'
    BY <1>1 DEF GatesExclude
  <2>. QED
    BY <1>2, <2>2, <2>4, <2>5 DEF ReadsInv
<1>. QED
  BY <1>3, <1>4

LEMMA TakeStep ==
  ASSUME ReadsInv, Take
  PROVE  ReadsInv'
<1>1. UNCHANGED <<cells, views, patch, patches, read>> /\ answer' = None
  BY DEF Take
<1>2. ViewsFit' /\ PatchFits' /\ CellsFit' /\ ReadFits'
  BY <1>1, ViewsStay, PatchStays, CellsStay, ReadStays DEF ReadsInv
<1>. QED
  BY <1>1, <1>2 DEF ReadsInv, AnswerFits, GatesExclude

LEMMA BeginPatchStep ==
  ASSUME ReadsInv, NEW c \in Cols, BeginPatch(c)
  PROVE  ReadsInv'
<1>. DEFINE n       == Len(PatchRows)
            step(k) == <<PatchRows[(k + 1) \div 2], IF k % 2 = 1 THEN 1 ELSE 2>>
            todo    == [k \in 1..(2 * n) |-> step(k)]
<1>1. /\ UNCHANGED <<cells, views, read, answer>> /\ patch = NoPatch
      /\ c \in Patched /\ patches < MaxPatches /\ patches' = patches + 1
      /\ PatchGate(c) => ~read.gate
      /\ patch' = [gate |-> PatchGate(c), col |-> c, todo |-> todo]
  BY DEF BeginPatch
<1>2. ViewsFit' /\ ReadFits' /\ AnswerFits'
  BY <1>1, ViewsStay, ReadStays, AnswerStays DEF ReadsInv
<1>3. n \in Nat /\ \A k \in 1..n : PatchRows[k] \in Rows
  BY TableReadsAssumption DEF Rows
<1>. HIDE DEF n
<1>4. \A k \in 1..(2 * n) : (k + 1) \div 2 \in 1..n
  BY <1>3
<1>5. todo \in [1..(2 * n) -> Rows \X {1, 2}]
  BY <1>3, <1>4
<1>6. \A k \in 1..(2 * n) : todo[k] = step(k)
  OBVIOUS
<1>7. \A k \in 1..(2 * n) : k % 2 = 1 =>
        k + 1 \in 1..(2 * n) /\ (k + 1 + 1) \div 2 = (k + 1) \div 2 /\ (k + 1) % 2 = 0
  BY <1>3
<1>. HIDE DEF todo
<1>8. todo \in Seq(Rows \X {1, 2}) /\ Len(todo) = 2 * n
  <2>1. 2 * n \in Nat
    BY <1>3
  <2>2. \A S, m : m \in Nat /\ todo \in [1..m -> S] => todo \in Seq(S) /\ Len(todo) = m
    BY FunctionIsSequence
  <2>. QED
    BY <1>5, <2>1, <2>2
<1>9. \A k \in 1..Len(todo) :
        todo[k][2] = 1 => k < Len(todo) /\ todo[k + 1] = <<todo[k][1], 2>>
  <2>. SUFFICES ASSUME NEW k \in 1..(2 * n), todo[k][2] = 1
                PROVE  k < 2 * n /\ todo[k + 1] = <<todo[k][1], 2>>
    BY <1>8
  <2>1. k % 2 = 1 /\ todo[k][1] = PatchRows[(k + 1) \div 2]
    BY <1>6
  <2>2. k + 1 \in 1..(2 * n) /\ (k + 1 + 1) \div 2 = (k + 1) \div 2 /\ (k + 1) % 2 = 0
    BY <1>7, <2>1
  <2>3. todo[k + 1] = step(k + 1)
    BY <1>6, <2>2
  <2>. QED
    BY <1>3, <2>1, <2>2, <2>3
<1>10. patch'.gate = PatchGate(c) /\ patch'.col = c /\ patch'.todo = todo
  BY <1>1
<1>11. PatchFits'
  <2>1. patches \in 0..MaxPatches /\ patches' \in 0..MaxPatches /\ patches' > 0
    BY <1>1, TableReadsAssumption DEF ReadsInv, PatchFits
  <2>. QED
    BY <1>1, <1>8, <1>9, <1>10, <2>1 DEF PatchFits, PatchGate
<1>12. CellsFit'
  <2>1. patch.todo = <<>>
    BY <1>1 DEF NoPatch
  <2>2. \A d \in Cols, r \in Rows : Whole(cells[d][r], d, r)
    BY <2>1 DEF ReadsInv, CellsFit, Halved
  <2>. QED
    BY <1>1, <2>2 DEF ReadsInv, CellsFit, Whole
<1>13. GatesExclude'
  BY <1>1, <1>10 DEF GatesExclude
<1>. QED
  BY <1>2, <1>11, <1>12, <1>13 DEF ReadsInv

(* A half of a cell is written: it was whole or half written before, and   *)
(* is the other after.                                                     *)
LEMMA PatchWriteStep ==
  ASSUME ReadsInv, PatchWrite
  PROVE  ReadsInv'
<1>0. PICK c, w, r, half : c = patch.col /\ w = Head(patch.todo) /\ r = w[1] /\ half = w[2]
  OBVIOUS
<1>1. /\ UNCHANGED <<views, patches, read, answer>> /\ patch.todo # <<>>
      /\ cells' = [cells EXCEPT ![c][r] = Written(c, r, half, patches)]
      /\ patch' = [patch EXCEPT !.todo = Tail(@)]
  BY <1>0 DEF PatchWrite
<1>2. ViewsFit' /\ ReadFits' /\ AnswerFits'
  BY <1>1, ViewsStay, ReadStays, AnswerStays DEF ReadsInv
<1>3. patch # NoPatch /\ c \in Patched /\ c \in Cols /\ patch.gate = PatchGate(c) /\ patches \in 1..MaxPatches
  <2>1. NoPatch.todo = <<>>
    BY DEF NoPatch
  <2>2. patch # NoPatch
    BY <1>1, <2>1
  <2>3. c \in Patched /\ patch.gate = PatchGate(c) /\ patches \in 0..MaxPatches /\ patches > 0
    BY <1>0, <2>2 DEF ReadsInv, PatchFits
  <2>. QED
    BY <2>2, <2>3, TableReadsAssumption
<1>4. /\ patch.todo \in Seq(Rows \X {1, 2}) /\ Len(patch.todo) \in Nat \ {0} /\ w = patch.todo[1]
      /\ w \in Rows \X {1, 2} /\ Tail(patch.todo) \in Seq(Rows \X {1, 2})
      /\ Len(Tail(patch.todo)) = Len(patch.todo) - 1
      /\ \A k \in 1..(Len(patch.todo) - 1) : Tail(patch.todo)[k] = patch.todo[k + 1]
  <2>1. \A S, s : s \in Seq(S) /\ s # <<>> =>
          /\ Len(s) \in Nat \ {0} /\ Head(s) = s[1] /\ Head(s) \in S /\ Tail(s) \in Seq(S)
          /\ Len(Tail(s)) = Len(s) - 1 /\ \A k \in 1..(Len(s) - 1) : Tail(s)[k] = s[k + 1]
    OBVIOUS
  <2>2. patch.todo \in Seq(Rows \X {1, 2})
    BY DEF ReadsInv, PatchFits
  <2>. QED
    BY <1>0, <1>1, <2>1, <2>2
<1>5. patch' = [gate |-> patch.gate, col |-> c, todo |-> Tail(patch.todo)]
  BY <1>0, <1>1 DEF ReadsInv, PatchFits
<1>6. patch'.gate = patch.gate /\ patch'.col = c /\ patch'.todo = Tail(patch.todo)
  BY <1>5
<1>7. \A k \in 1..Len(patch.todo) :
        patch.todo[k][2] = 1 => k < Len(patch.todo) /\ patch.todo[k + 1] = <<patch.todo[k][1], 2>>
  BY DEF ReadsInv, PatchFits
<1>8. r \in Rows /\ half \in {1, 2} /\ w = <<r, half>>
  BY <1>0, <1>4
<1>9. PatchFits'
  <2>1. \A k \in 1..Len(Tail(patch.todo)) :
          Tail(patch.todo)[k][2] = 1 =>
            k < Len(Tail(patch.todo)) /\ Tail(patch.todo)[k + 1] = <<Tail(patch.todo)[k][1], 2>>
    <3>. SUFFICES ASSUME NEW k \in 1..(Len(patch.todo) - 1), patch.todo[k + 1][2] = 1
                  PROVE  /\ k < Len(patch.todo) - 1
                         /\ Tail(patch.todo)[k + 1] = <<patch.todo[k + 1][1], 2>>
      BY <1>4
    <3>1. k + 1 \in 1..Len(patch.todo)
      BY <1>4
    <3>2. k + 1 < Len(patch.todo) /\ patch.todo[k + 1 + 1] = <<patch.todo[k + 1][1], 2>>
      BY <1>7, <3>1
    <3>3. k + 1 \in 1..(Len(patch.todo) - 1)
      BY <1>4, <3>1, <3>2
    <3>. QED
      BY <1>4, <3>2, <3>3
  <2>2. patch' # NoPatch => c \in Patched /\ patch'.gate = PatchGate(c) /\ patches > 0
    BY <1>3, <1>6
  <2>3. patch' = [gate |-> patch'.gate, col |-> patch'.col, todo |-> patch'.todo]
    BY <1>5, <1>6
  <2>4. NoPatch' = NoPatch /\ PatchGate(patch.col)' = PatchGate(c)
    BY <1>6 DEF NoPatch, PatchGate
  <2>5. patches' \in 0..MaxPatches /\ patches' > 0 /\ patch'.col = c
    BY <1>1, <1>3, <1>6, TableReadsAssumption
  <2>6. /\ patch'.todo \in Seq(Rows \X {1, 2})
        /\ \A k \in 1..Len(patch'.todo) :
             patch'.todo[k][2] = 1 =>
               k < Len(patch'.todo) /\ patch'.todo[k + 1] = <<patch'.todo[k][1], 2>>
    BY <1>4, <1>6, <2>1
  <2>. HIDE DEF NoPatch, PatchGate
  <2>. QED
    BY <1>3, <1>6, <2>3, <2>4, <2>5, <2>6 DEF PatchFits
<1>10. /\ DOMAIN cells = Cols /\ \A d \in Cols : DOMAIN cells[d] = Rows
       /\ \A d \in Cols, x \in Rows : Whole(cells[d][x], d, x) \/ Halved(d, x)
  BY DEF ReadsInv, CellsFit
<1>11. /\ DOMAIN cells' = Cols /\ \A d \in Cols : DOMAIN cells'[d] = Rows
       /\ cells'[c][r] = Written(c, r, half, patches)
       /\ \A d \in Cols, x \in Rows : d # c \/ x # r => cells'[d][x] = cells[d][x]
  BY <1>1, <1>3, <1>8, <1>10
<1>12. ASSUME NEW d \in Cols, NEW x \in Rows, d # c \/ x # r PROVE Whole(cells'[d][x], d, x)
  <2>1. ~Halved(d, x)
    BY <1>0, <1>8, <1>12 DEF Halved
  <2>. QED
    BY <1>10, <1>11, <1>12, <2>1
<1>13. \/ Written(c, r, half, patches) = Stored(c, r, patches)
       \/ half = 1 /\ Written(c, r, half, patches).set
  BY <1>8 DEF Written, Stored
<1>14. ASSUME half = 1, cells'[c][r].set PROVE Halved(c, r)'
  <2>1. 1 \in 1..Len(patch.todo) /\ patch.todo[1][2] = 1 /\ patch.todo[1][1] = r
    BY <1>0, <1>4, <1>14
  <2>2. 1 < Len(patch.todo) /\ patch.todo[2] = <<r, 2>>
    BY <1>7, <2>1
  <2>3. Tail(patch.todo) # <<>> /\ Head(Tail(patch.todo)) = Tail(patch.todo)[1]
    <3>1. \A S, s : s \in Seq(S) /\ Len(s) >= 1 => s # <<>> /\ Head(s) = s[1]
      OBVIOUS
    <3>2. Tail(patch.todo) \in Seq(Rows \X {1, 2}) /\ Len(Tail(patch.todo)) >= 1
      BY <1>4, <2>2
    <3>. QED
      BY <3>1, <3>2
  <2>4. Tail(patch.todo)[1] = <<r, 2>>
    BY <1>4, <2>2
  <2>5. Head(patch'.todo) = <<r, 2>> /\ patch'.todo # <<>> /\ patch'.col = c
    BY <1>6, <2>3, <2>4
  <2>. QED
    BY <1>14, <2>5 DEF Halved
<1>15. Whole(cells'[c][r], c, r) \/ Halved(c, r)'
  <2>1. CASE Written(c, r, half, patches) = Stored(c, r, patches)
    BY <1>3, <1>11, <2>1, TableReadsAssumption DEF Whole
  <2>. QED
    BY <1>11, <1>13, <1>14, <2>1
<1>16. CellsFit'
  <2>1. \A d \in Cols, x \in Rows : Whole(cells'[d][x], d, x) \/ Halved(d, x)'
    <3>. TAKE d \in Cols, x \in Rows
    <3>1. CASE d = c /\ x = r
      BY <1>15, <3>1
    <3>2. CASE d # c \/ x # r
      BY <1>12, <3>2
    <3>. QED
      BY <3>1, <3>2
  <2>2. /\ DOMAIN cells' = Cols /\ \A d \in Cols : DOMAIN cells'[d] = Rows
    BY <1>11
  <2>. QED
    BY <2>1, <2>2 DEF CellsFit, Whole, Halved
<1>17. GatesExclude'
  BY <1>1, <1>6 DEF ReadsInv, GatesExclude
<1>. QED
  BY <1>2, <1>9, <1>16, <1>17 DEF ReadsInv

LEMMA EndPatchStep ==
  ASSUME ReadsInv, EndPatch
  PROVE  ReadsInv'
<1>1. /\ UNCHANGED <<cells, views, patches, read, answer>>
      /\ patch.todo = <<>> /\ patch' = NoPatch
  BY DEF EndPatch
<1>2. ViewsFit' /\ ReadFits' /\ AnswerFits'
  BY <1>1, ViewsStay, ReadStays, AnswerStays DEF ReadsInv
<1>3. patch'.gate = FALSE /\ patch'.todo = <<>>
  BY <1>1 DEF NoPatch
<1>4. PatchFits'
  <2>1. patch' = [gate |-> patch'.gate, col |-> patch'.col, todo |-> patch'.todo]
    BY <1>1 DEF NoPatch
  <2>2. <<>> \in Seq(Rows \X {1, 2}) /\ Len(<<>>) = 0 /\ 1..0 = {}
    OBVIOUS
  <2>. QED
    BY <1>1, <1>3, <2>1, <2>2 DEF ReadsInv, PatchFits, NoPatch
<1>5. CellsFit'
  <2>1. \A d \in Cols, x \in Rows : Whole(cells[d][x], d, x)
    BY <1>1 DEF ReadsInv, CellsFit, Halved
  <2>. QED
    BY <1>1, <2>1 DEF ReadsInv, CellsFit, Whole
<1>. QED
  BY <1>2, <1>3, <1>4, <1>5 DEF ReadsInv, GatesExclude

(* A slice is refused for its corners, never for its row.                  *)
LEMMA CutNeverNamesARow ==
  ASSUME NEW q, NEW v
  PROVE  Cut(q, v).why # "row"
<1>1. Fine(v).why = "" /\ Bad("slice").why = "slice" /\ Bad("panic").why = "panic"
  BY DEF Fine, Bad
<1>2. SliceArrayValueInc(v, q.blc, q.trc, q.inc).why # "row"
  <2>. DEFINE steps == Steps(q.inc, Len(v.shape))
              new   == NewShape(q.blc, q.trc, steps)
              at    == Indices(v.shape, new, q.blc, steps)
              cut   == [shape |-> new, data |-> [i \in DOMAIN at |-> v.data[at[i] + 1]]]
  <2>1. SliceArrayValueInc(v, q.blc, q.trc, q.inc) \in {Bad("slice"), Bad("panic"), Fine(cut)}
    BY DEF SliceArrayValueInc
  <2>2. Fine(cut).why = ""
    BY DEF Fine
  <2>. HIDE DEF cut
  <2>. QED
    BY <1>1, <2>1, <2>2
<1>. QED
  BY <1>1, <1>2 DEF Cut, SliceStoredCell

(* A column with a value in every row has a value in each.                 *)
LEMMA SetCells ==
  ASSUME CellsFit, NEW c \in Cols, NEW r \in Rows, <<c, r>> \notin Unset
  PROVE  cells[c][r].set
<1>1. Whole(cells[c][r], c, r) \/ Halved(c, r)
  BY DEF CellsFit
<1>2. \A n : Stored(c, r, n).set = TRUE
  BY DEF Stored
<1>3. Whole(cells[c][r], c, r) => cells[c][r].set
  <2>. HIDE DEF Stored
  <2>. QED
    BY <1>2 DEF Whole
<1>. QED
  BY <1>1, <1>3 DEF Halved

LEMMA VisitStep ==
  ASSUME ReadsInv, Visit
  PROVE  ReadsInv'
<1>0. PICK q, todo, at, r : q = read.q /\ todo = read.todo /\ at = read.at /\ r = Next1.row
  OBVIOUS
<1>1. /\ UNCHANGED <<cells, views, patch, patches>>
      /\ read # None /\ read.gate /\ ~AllVisited
  BY DEF Visit
<1>2. ViewsFit' /\ PatchFits' /\ CellsFit'
  BY <1>1, ViewsStay, PatchStays, CellsStay DEF ReadsInv
<1>3. /\ q \in Requests /\ read.op = q.op /\ q.on \in 0..Len(views) /\ InRange(q)
      /\ q.op \in {"raw", "bits"} => RawColumnSupported(q.col)
      /\ TodoFits(q, todo) /\ at \in 0..q.nrow /\ Len(read.got) = at
      /\ \A k \in 1..at : read.got[k].dest = todo[k].dest /\ todo[k].row \in Rows
      /\ ~RawRefused(q)
      /\ read = [op |-> q.op, q |-> q, todo |-> todo, at |-> at, gate |-> TRUE, got |-> read.got]
  BY <1>0, <1>1 DEF ReadsInv, ReadFits
<1>4. PICK S : read.got \in Seq(S)
  BY <1>1 DEF ReadsInv, ReadFits
<1>5. /\ q.start \in Nat /\ q.nrow \in Nat /\ q.col \in Cols /\ at + 1 \in 1..q.nrow
      /\ Len(todo) = q.nrow /\ r = todo[at + 1].row /\ NRows \in Nat
  <2>1. at # Len(todo) /\ r = todo[at + 1].row
    BY <1>0, <1>1 DEF AllVisited, Next1
  <2>2. Len(todo) = q.nrow
    BY <1>3 DEF TodoFits
  <2>. QED
    BY <1>3, <2>1, <2>2, RequestTypes, TableReadsAssumption
<1>6. CASE r \notin Rows \/ NoDefault(q, r)
  <2>1. read' = None /\ answer' = Answered(q, FALSE, "row", IF r \in Rows THEN NRows ELSE r, <<>>)
    BY <1>0, <1>6 DEF Visit, Refuse
  <2>2. ASSUME \A x \in Rows : <<q.col, x>> \notin Unset
        PROVE  /\ r \notin Rows /\ r \in q.start..(q.start + q.nrow - 1)
               /\ r = Max({q.start, HandleRows(q.on)})
    <3>1. r \notin Rows
      <4>1. ASSUME r \in Rows PROVE cells[q.col][r].set
        BY <1>5, <2>2, <4>1, SetCells DEF ReadsInv
      <4>. QED
        BY <1>6, <4>1 DEF NoDefault
    <3>2. q.on = 0 /\ r = q.start + at
      <4>1. q.on # 0 => \A i \in 1..q.nrow : todo[i].row \in Rows
        BY <1>3 DEF TodoFits
      <4>2. q.on = 0
        BY <1>5, <3>1, <4>1
      <4>3. \A i \in 1..q.nrow : todo[i].row = q.start + i - 1
        BY <1>3, <4>2 DEF TodoFits
      <4>4. todo[at + 1].row = q.start + (at + 1) - 1
        BY <1>5, <4>3
      <4>. QED
        BY <1>3, <1>5, <4>2, <4>4
    <3>3. Max({q.start, HandleRows(q.on)}) = IF q.start >= NRows THEN q.start ELSE NRows
      <4>1. HandleRows(q.on) = NRows
        BY <3>2 DEF HandleRows
      <4>. QED
        BY <1>5, <4>1, MaxOfTwo
    <3>4. r >= NRows
      BY <1>3, <1>5, <3>1, <3>2 DEF Rows
    <3>5. CASE at = 0
      <4>1. r = q.start /\ q.nrow > 0
        BY <1>5, <3>2, <3>5
      <4>. QED
        BY <1>5, <3>1, <3>3, <3>4, <4>1
    <3>6. CASE at # 0
      <4>1. at \in 1..at /\ at \in 1..q.nrow
        BY <1>3, <1>5, <3>6
      <4>2. todo[at].row \in Rows /\ todo[at].row = q.start + at - 1
        BY <1>3, <3>2, <4>1 DEF TodoFits
      <4>3. q.start + at - 1 < NRows
        BY <1>5, <4>2 DEF Rows
      <4>4. at \in Nat /\ at + 1 <= q.nrow
        BY <1>3, <1>5
      <4>5. r = NRows /\ q.start < NRows /\ r \in q.start..(q.start + q.nrow - 1)
        BY <1>5, <3>2, <3>4, <3>6, <4>3, <4>4
      <4>. QED
        BY <1>5, <3>1, <3>3, <4>5
    <3>. QED
      BY <3>5, <3>6
  <2>3. HandleRows(q.on)' = HandleRows(q.on)
    BY <1>1 DEF HandleRows
  <2>4. /\ answer'.q = q /\ answer'.op = q.op /\ answer'.ok = FALSE /\ answer'.why = "row"
        /\ answer'.row = IF r \in Rows THEN NRows ELSE r
    BY <2>1 DEF Answered
  <2>5. AnswerFits'
    BY <1>1, <1>3, <2>2, <2>3, <2>4 DEF AnswerFits, HandleRows
  <2>. QED
    BY <1>2, <2>1, <2>5 DEF ReadsInv, ReadFits, GatesExclude, None
<1>7. CASE r \in Rows /\ ~NoDefault(q, r)
  <2>0. PICK v : v = Cut(q, Seen(cells, q, r))
    OBVIOUS
  <2>1. CASE ~v.ok /\ GatedByCell(q)
    <3>1. read' = None /\ answer' = Answered(q, FALSE, v.why, r, <<>>)
      BY <1>0, <1>7, <2>0, <2>1 DEF Visit, Refuse
    <3>2. v.why # "row"
      BY <2>0, CutNeverNamesARow
    <3>3. answer'.q = q /\ answer'.op = q.op /\ answer'.ok = FALSE /\ answer'.why # "row"
      BY <3>1, <3>2 DEF Answered
    <3>4. AnswerFits'
      BY <1>1, <1>3, <3>3 DEF AnswerFits
    <3>. QED
      BY <1>2, <3>1, <3>4 DEF ReadsInv, ReadFits, GatesExclude, None
  <2>2. CASE ~(~v.ok /\ GatedByCell(q))
    <3>. DEFINE e == [dest |-> todo[at + 1].dest, v |-> v]
    <3>1. /\ UNCHANGED answer
          /\ read' = [read EXCEPT !.at = @ + 1, !.got = Append(@, e), !.gate = ~GatedByCell(q)]
      BY <1>0, <1>7, <2>0, <2>2 DEF Visit, Next1
    <3>2. read' = [op |-> q.op, q |-> q, todo |-> todo, at |-> at + 1,
                   gate |-> ~GatedByCell(q), got |-> Append(read.got, e)]
      BY <1>0, <1>3, <3>1
    <3>3. /\ read'.op = q.op /\ read'.q = q /\ read'.todo = todo /\ read'.at = at + 1
          /\ read'.gate = ~GatedByCell(q) /\ read'.got = Append(read.got, e)
      BY <3>2
    <3>4. /\ read'.got \in Seq(S \cup {e}) /\ Len(read'.got) = at + 1
          /\ read'.got[at + 1] = e /\ \A k \in 1..at : read'.got[k] = read.got[k]
      <4>1. \A T, s, x : s \in Seq(T) =>
              /\ Append(s, x) \in Seq(T \cup {x}) /\ Len(Append(s, x)) = Len(s) + 1
              /\ Append(s, x)[Len(s) + 1] = x /\ \A k \in 1..Len(s) : Append(s, x)[k] = s[k]
        OBVIOUS
      <4>. HIDE DEF e
      <4>. QED
        BY <1>3, <1>4, <3>3, <4>1
    <3>5. \A k \in 1..(at + 1) : read'.got[k].dest = todo[k].dest /\ todo[k].row \in Rows
      <4>. TAKE k \in 1..(at + 1)
      <4>1. CASE k = at + 1
        BY <1>5, <1>7, <3>4, <4>1
      <4>2. CASE k # at + 1
        <5>1. k \in 1..at
          BY <1>3, <1>5, <4>2
        <5>. QED
          BY <1>3, <3>4, <5>1
      <4>. QED
        BY <4>1, <4>2
    <3>6. TodoFits(read.q, read.todo)' /\ InRange(read.q)' /\ (read.q.on \in 0..Len(views))'
      <4>1. TodoFits(read.q, read.todo)'
        <5>1. TodoFits(q, todo)
          BY <1>3
        <5>. QED
          BY <1>1, <3>3, <5>1, TodoStays
      <4>2. InRange(read.q)'
        BY <1>1, <1>3, <3>3 DEF InRange, HandleRows
      <4>. QED
        BY <1>1, <1>3, <3>3, <4>1, <4>2
    <3>7. (read.q.op \in {"raw", "bits"} => RawColumnSupported(read.q.col))' /\ ~RawRefused(read.q)'
      BY <1>1, <1>3, <3>3 DEF RawColumnSupported, IsArray, HasShape, RawRefused
    <3>8. read' = [op |-> read'.op, q |-> read'.q, todo |-> read'.todo, at |-> read'.at,
                   gate |-> read'.gate, got |-> read'.got]
      BY <3>2, <3>3
    <3>9. at + 1 \in 0..q.nrow /\ \E T : read'.got \in Seq(T)
      BY <1>5, <3>4
    <3>10. ReadFits'
      <4>. HIDE DEF RawColumnSupported, RawRefused, TodoFits, InRange, AllVisited
      <4>. QED
        BY <1>3, <3>3, <3>4, <3>5, <3>6, <3>7, <3>8, <3>9 DEF ReadFits
    <3>11. AnswerFits'
      BY <1>1, <3>1, AnswerStays DEF ReadsInv
    <3>12. GatesExclude'
      BY <1>1 DEF ReadsInv, GatesExclude
    <3>. QED
      BY <1>2, <3>10, <3>11, <3>12 DEF ReadsInv
  <2>. QED
    BY <2>1, <2>2
<1>. QED
  BY <1>6, <1>7

LEMMA LeaveStep ==
  ASSUME ReadsInv, Leave
  PROVE  ReadsInv'
<1>0. PICK q, values : q = read.q /\ values = Placed(read.got, Len(read.todo))
  OBVIOUS
<1>1. /\ UNCHANGED <<cells, views, patch, patches>>
      /\ read # None /\ AllVisited /\ read' = None
      /\ answer' = IF \E i \in DOMAIN values : ~values[i].ok
                   THEN Answered(q, FALSE, "slice", 0, <<>>)
                   ELSE Answered(q, TRUE, "", 0, [i \in DOMAIN values |-> values[i].value])
  BY <1>0 DEF Leave
<1>2. ViewsFit' /\ PatchFits' /\ CellsFit'
  BY <1>1, ViewsStay, PatchStays, CellsStay DEF ReadsInv
<1>3. /\ q \in Requests /\ q.on \in 0..Len(views) /\ InRange(q)
      /\ TodoFits(q, read.todo) /\ read.at = q.nrow /\ Len(read.todo) = q.nrow
      /\ \A k \in 1..q.nrow : read.todo[k].row \in Rows
  BY <1>0, <1>1 DEF ReadsInv, ReadFits, AllVisited, TodoFits
<1>4. q.start \in Nat /\ q.nrow \in Nat /\ NRows \in Nat
  BY <1>3, RequestTypes, TableReadsAssumption
<1>5. DOMAIN values = 1..q.nrow
  BY <1>0, <1>3 DEF Placed
<1>6. /\ answer'.q = q /\ answer'.op = q.op /\ answer'.why # "row"
      /\ answer'.ok => answer'.values = [i \in 1..q.nrow |-> values[i].value]
  BY <1>1, <1>5 DEF Answered
<1>7. answer'.ok => DOMAIN answer'.values = 1..q.nrow /\ Len(answer'.values) = q.nrow
  <2>. DEFINE f == [i \in 1..q.nrow |-> values[i].value]
              S == {values[i].value : i \in 1..q.nrow}
  <2>1. f \in [1..q.nrow -> S] /\ DOMAIN f = 1..q.nrow
    OBVIOUS
  <2>2. Len(f) = q.nrow
    <3>. HIDE DEF f, S
    <3>. QED
      BY <1>4, <2>1, FunctionIsSequence
  <2>. QED
    BY <1>6, <2>1, <2>2
<1>8. \A i \in 1..q.nrow : q.start + i - 1 < HandleRows(q.on)
  <2>. TAKE i \in 1..q.nrow
  <2>1. CASE q.on = 0
    <3>1. q.start + i - 1 \in Rows
      <4>1. \A k \in 1..q.nrow : read.todo[k].row = q.start + k - 1
        BY <1>3, <2>1 DEF TodoFits
      <4>. QED
        BY <1>3, <4>1
    <3>. QED
      BY <1>4, <2>1, <3>1 DEF Rows, HandleRows
  <2>2. CASE q.on # 0
    <3>1. q.start + q.nrow <= HandleRows(q.on) /\ HandleRows(q.on) \in Nat
      BY <1>3, <1>4, <2>2, HandleTypes DEF InRange, ReadsInv
    <3>. QED
      BY <1>4, <3>1
  <2>. QED
    BY <2>1, <2>2
<1>9. HandleRows(q.on)' = HandleRows(q.on) /\ InRange(q)' = InRange(q)
  BY <1>1 DEF HandleRows, InRange
<1>10. AnswerFits'
  <2>1. (answer.q \in Requests /\ answer.op = answer.q.op /\ answer.q.on \in 0..Len(views))'
    BY <1>1, <1>3, <1>6
  <2>2. (answer.ok => InRange(answer.q))'
    BY <1>1, <1>3, <1>6 DEF InRange, HandleRows
  <2>3. (answer.ok => \A i \in 1..answer.q.nrow : answer.q.start + i - 1 < HandleRows(answer.q.on))'
    BY <1>1, <1>6, <1>8 DEF HandleRows
  <2>. HIDE DEF InRange, HandleRows
  <2>. QED
    BY <1>6, <1>7, <2>1, <2>2, <2>3 DEF AnswerFits
<1>. QED
  BY <1>1, <1>2, <1>10 DEF ReadsInv, ReadFits, GatesExclude, None

-----------------------------------------------------------------------------
(* The answer, when every flush takes the gate.                            *)

(* The bits of a cell nothing was stored in are its zeros.                 *)
LEMMA BitsAreDefault ==
  ASSUME NEW at, NEW c, NEW r, ~at[c][r].set, HasShape(c),
         Size(Shape[c]) \in Nat, ByteBits \in Nat \ {0}
  PROVE  BitsTaken(BitCell(at, c, r)).data = TsmDefault(c)
<1>. DEFINE n     == Size(Shape[c])
            top   == ((n + ByteBits - 1) \div ByteBits) * ByteBits
            bytes == [i \in 1..top |-> 0]
            zeros == [i \in 1..n |-> 0]
<1>1. BitCell(at, c, r).bytes = bytes /\ BitCell(at, c, r).skip = 0 /\ BitCell(at, c, r).nelem = n
  BY DEF BitCell
<1>2. TsmDefault(c) = zeros
  BY DEF TsmDefault
<1>. HIDE DEF n
<1>3. n \in Nat /\ n <= top /\ top \in Int
  <2>1. n \in Nat
    BY DEF n
  <2>2. ASSUME NEW a \in Nat, NEW b \in Nat \ {0}
        PROVE  ((a + b - 1) \div b) * b \in Int /\ a <= ((a + b - 1) \div b) * b
    <3>1. a + b - 1 \in Nat
      OBVIOUS
    <3>2. /\ a + b - 1 = ((a + b - 1) \div b) * b + ((a + b - 1) % b)
          /\ (a + b - 1) % b \in 0..(b - 1)
      BY <3>1, WholeAndRest
    <3>3. ((a + b - 1) \div b) * b \in Nat
      BY <3>1, WholeIsNatural
    <3>. QED
      BY <3>2, <3>3
  <2>. QED
    BY <2>1, <2>2
<1>. HIDE DEF top
<1>4. SubSeq(bytes, 0 + 1, 0 + n) = zeros
  <2>1. SubSeq(bytes, 0 + 1, 0 + n) = [i \in 1..((0 + n) - (0 + 1) + 1) |-> bytes[i + (0 + 1) - 1]]
    BY <1>3
  <2>2. (0 + n) - (0 + 1) + 1 = n /\ \A i \in 1..n : bytes[i + (0 + 1) - 1] = 0
    BY <1>3
  <2>. QED
    BY <2>1, <2>2
<1>. HIDE DEF bytes, zeros
<1>. QED
  BY <1>1, <1>2, <1>4 DEF BitsTaken

(* A whole cell is what a read of it gives.                                *)
LEMMA SeenIsContent ==
  ASSUME NEW q \in Requests, q.op \in {"cell", "col", "raw", "bits"}, NEW r \in Rows,
         Whole(cells[q.col][r], q.col, r), ~NoDefault(q, r), ~RawRefused(q),
         q.op \in {"raw", "bits"} => RawColumnSupported(q.col)
  PROVE  Seen(cells, q, r).data = ContentOf(cells[q.col], q.col, r)
<1>. DEFINE c == q.col
<1>0. c \in Cols /\ NRows \in Nat /\ ByteBits \in Nat \ {0} /\ Size(Shape[c]) \in Nat
  BY RequestTypes, SizeIsNatural, TableReadsAssumption
<1>1. CASE q.op = "raw"
  <2>1. HasShape(c)
    BY <1>1 DEF RawColumnSupported
  <2>2. Seen(cells, q, r) = RawCell(cells, c, r)
    BY <1>1 DEF Seen
  <2>. QED
    BY <2>1, <2>2 DEF RawCell, ContentOf
<1>2. CASE q.op = "bits"
  <2>1. HasShape(c) /\ Manager[c] = "Tsm" /\ IsArray(c)
    BY <1>2 DEF RawColumnSupported, RawRefused
  <2>2. Seen(cells, q, r) = BitsTaken(BitCell(cells, c, r))
    BY <1>2 DEF Seen
  <2>3. CASE cells[c][r].set
    <3>1. PICK n : cells[c][r] = Stored(c, r, n)
      BY <2>3 DEF Whole, NotStored
    <3>2. Width(c) = Size(Shape[c])
      BY <2>1 DEF Width, CellShape
    <3>3. cells[c][r].data = [i \in 1..Size(Shape[c]) |-> Element(r, i, n)]
      BY <3>1, <3>2 DEF Stored
    <3>4. cells[c][r].data = [i \in 1..Size(Shape[c]) |-> cells[c][r].data[i]]
      BY <3>3
    <3>5. BitsTaken(BitCell(cells, c, r)).data = cells[c][r].data
      BY <1>0, <2>3, <3>4, BitsAreData
    <3>. QED
      BY <2>2, <2>3, <3>5 DEF ContentOf
  <2>4. CASE ~cells[c][r].set
    <3>1. BitsTaken(BitCell(cells, c, r)).data = TsmDefault(c)
      BY <1>0, <2>1, <2>4, BitsAreDefault
    <3>. QED
      BY <2>1, <2>2, <2>4, <3>1 DEF ContentOf
  <2>. QED
    BY <2>3, <2>4
<1>3. CASE q.op \in {"cell", "col"}
  <2>1. Seen(cells, q, r) = ReadCellFrom(cells, c, r)
    BY <1>3 DEF Seen
  <2>2. CASE cells[c][r].set
    <3>1. ReadCellFrom(cells, c, r).data = cells[c][r].data
      BY <2>2 DEF ReadCellFrom
    <3>. QED
      BY <2>1, <2>2, <3>1 DEF ContentOf
  <2>3. CASE ~cells[c][r].set /\ Manager[c] = "Tsm"
    <3>1. ReadCellFrom(cells, c, r).data = TsmDefault(c)
      BY <2>3 DEF ReadCellFrom
    <3>2. HasShape(c)
      BY <1>3, <2>3 DEF NoDefault
    <3>. QED
      BY <2>1, <2>3, <3>1, <3>2 DEF ContentOf
  <2>4. CASE ~cells[c][r].set /\ Manager[c] # "Tsm"
    <3>1. ReadCellFrom(cells, c, r).data = <<>>
      BY <2>4 DEF ReadCellFrom
    <3>2. <<c, r>> \in Unset
      <4>1. \A n : Stored(c, r, n).set = TRUE
        BY DEF Stored
      <4>. HIDE DEF Stored
      <4>. QED
        BY <2>4, <4>1 DEF Whole
    <3>3. ~HasShape(c)
      BY <1>0, <2>4, <3>2, UnsetAssumption DEF HasShape, Rows
    <3>. QED
      BY <2>1, <2>4, <3>1, <3>3 DEF ContentOf
  <2>. QED
    BY <2>2, <2>3, <2>4
<1>. QED
  BY <1>1, <1>2, <1>3

LEMMA GatedVisitStep ==
  ASSUME ReadsInv, GatedInv, Visit
  PROVE  GatedInv'
<1>0. PICK q, todo, at, r : q = read.q /\ todo = read.todo /\ at = read.at /\ r = Next1.row
  OBVIOUS
<1>1. UNCHANGED <<cells, views>> /\ read # None /\ read.gate /\ ~AllVisited
  BY DEF Visit
<1>2. /\ Len(read.got) = at /\ at \in 0..q.nrow /\ Len(todo) = q.nrow /\ q.nrow \in Nat
      /\ read = [op |-> q.op, q |-> q, todo |-> todo, at |-> at, gate |-> TRUE, got |-> read.got]
  BY <1>0, <1>1, RequestTypes DEF ReadsInv, ReadFits, TodoFits
<1>3. PICK S : read.got \in Seq(S)
  BY <1>1 DEF ReadsInv, ReadFits
<1>4. r = todo[at + 1].row
  BY <1>0 DEF Next1
<1>5. CASE r \notin Rows \/ NoDefault(q, r)
  <2>1. read' = None /\ answer' = Answered(q, FALSE, "row", IF r \in Rows THEN NRows ELSE r, <<>>)
    BY <1>0, <1>5 DEF Visit, Refuse
  <2>2. answer'.ok = FALSE
    BY <2>1 DEF Answered
  <2>. QED
    BY <2>1, <2>2 DEF GatedInv, GotFits, AnswerTrue
<1>6. CASE r \in Rows /\ ~NoDefault(q, r)
  <2>0. PICK v : v = Cut(q, Seen(cells, q, r))
    OBVIOUS
  <2>1. CASE ~v.ok /\ GatedByCell(q)
    <3>1. read' = None /\ answer' = Answered(q, FALSE, v.why, r, <<>>)
      BY <1>0, <1>6, <2>0, <2>1 DEF Visit, Refuse
    <3>2. answer'.ok = FALSE
      BY <3>1 DEF Answered
    <3>. QED
      BY <3>1, <3>2 DEF GatedInv, GotFits, AnswerTrue
  <2>2. CASE ~(~v.ok /\ GatedByCell(q))
    <3>. DEFINE e == [dest |-> todo[at + 1].dest, v |-> v]
    <3>1. /\ UNCHANGED answer
          /\ read' = [read EXCEPT !.at = @ + 1, !.got = Append(@, e), !.gate = ~GatedByCell(q)]
      BY <1>0, <1>6, <2>0, <2>2 DEF Visit, Next1
    <3>2. read' = [op |-> q.op, q |-> q, todo |-> todo, at |-> at + 1,
                   gate |-> ~GatedByCell(q), got |-> Append(read.got, e)]
      <4>1. ASSUME NEW op, NEW got, NEW go, NEW x,
                   read = [op |-> op, q |-> q, todo |-> todo, at |-> at, gate |-> TRUE, got |-> got],
                   read' = [read EXCEPT !.at = @ + 1, !.got = Append(@, x), !.gate = go]
            PROVE  read' = [op |-> op, q |-> q, todo |-> todo, at |-> at + 1,
                            gate |-> go, got |-> Append(got, x)]
        BY <4>1
      <4>. HIDE DEF e
      <4>. QED
        BY <1>2, <3>1, <4>1
    <3>3. /\ read'.q = q /\ read'.todo = todo /\ read'.at = at + 1
          /\ read'.gate = ~GatedByCell(q) /\ read'.got = Append(read.got, e)
      BY <3>2
    <3>4. read'.got[at + 1] = e /\ \A k \in 1..at : read'.got[k] = read.got[k]
      <4>1. \A T, s, x : s \in Seq(T) =>
              Append(s, x)[Len(s) + 1] = x /\ \A k \in 1..Len(s) : Append(s, x)[k] = s[k]
        OBVIOUS
      <4>. HIDE DEF e
      <4>. QED
        BY <1>2, <1>3, <3>3, <4>1
    <3>5. ASSUME q.op # "slice"
          PROVE  /\ read'.gate
                 /\ \A k \in 1..(at + 1) : /\ ~NoDefault(q, todo[k].row)
                                           /\ read'.got[k].v = Fine(Seen(cells, q, todo[k].row))
      <4>1. read'.gate
        BY <3>3, <3>5 DEF GatedByCell
      <4>2. v = Fine(Seen(cells, q, r))
        BY <2>0, <3>5 DEF Cut
      <4>3. \A k \in 1..at : ~NoDefault(q, todo[k].row) /\ read.got[k].v = Fine(Seen(cells, q, todo[k].row))
        BY <1>0, <1>1, <3>5 DEF GatedInv, GotFits
      <4>. SUFFICES ASSUME NEW k \in 1..(at + 1)
                    PROVE  ~NoDefault(q, todo[k].row) /\ read'.got[k].v = Fine(Seen(cells, q, todo[k].row))
        BY <4>1
      <4>4. CASE k = at + 1
        BY <1>4, <1>6, <3>4, <4>2, <4>4
      <4>5. CASE k # at + 1
        <5>1. k \in 1..at
          BY <1>2, <4>5
        <5>. QED
          BY <3>4, <4>3, <5>1
      <4>. QED
        BY <4>4, <4>5
    <3>6. GotFits'
      <4>. HIDE DEF NoDefault, Seen, Fine
      <4>1. \A k \in 1..(at + 1) : NoDefault(q, todo[k].row)' = NoDefault(q, todo[k].row)
        BY <1>1 DEF NoDefault, HasShape
      <4>2. cells' = cells
        BY <1>1
      <4>. QED
        BY <3>3, <3>5, <4>1, <4>2 DEF GotFits
    <3>. QED
      BY <1>1, <3>1, <3>6, AnswerTrueStays DEF GatedInv
  <2>. QED
    BY <2>1, <2>2
<1>. QED
  BY <1>5, <1>6

LEMMA GatedLeaveStep ==
  ASSUME Gated, ReadsInv, GatedInv, Leave
  PROVE  GatedInv'
<1>0. PICK q, todo, got, values :
        q = read.q /\ todo = read.todo /\ got = read.got /\ values = Placed(got, Len(todo))
  OBVIOUS
<1>1. /\ UNCHANGED <<cells, views>>
      /\ read # None /\ AllVisited /\ read' = None
      /\ read.gate \/ GatedByCell(q)
      /\ answer' = IF \E i \in DOMAIN values : ~values[i].ok
                   THEN Answered(q, FALSE, "slice", 0, <<>>)
                   ELSE Answered(q, TRUE, "", 0, [i \in DOMAIN values |-> values[i].value])
  BY <1>0 DEF Leave
<1>2. GotFits'
  BY <1>1 DEF GotFits
<1>. SUFFICES ASSUME answer'.ok, answer'.op \in {"cell", "col", "raw", "bits"}
              PROVE  \A i \in 1..answer'.q.nrow :
                       LET r == Resolved(answer'.q, i) IN
                       /\ r \in Rows
                       /\ answer'.values[i].data = ContentOf(answer'.of, answer'.q.col, r)
                       /\ Whole(answer'.of[r], answer'.q.col, r)
  <2>. SUFFICES AnswerTrue'
    BY <1>2 DEF GatedInv
  <2>1. \A q_1, i : Resolved(q_1, i)' = Resolved(q_1, i)
    BY <1>1 DEF Resolved, ViewRow
  <2>. QED
    BY <2>1 DEF AnswerTrue
<1>3. answer' = Answered(q, TRUE, "", 0, [i \in DOMAIN values |-> values[i].value])
  BY <1>1 DEF Answered
<1>4. /\ answer'.q = q /\ answer'.op = q.op /\ answer'.of = cells[q.col]
      /\ answer'.values = [i \in DOMAIN values |-> values[i].value]
  BY <1>3 DEF Answered
<1>5. q.op \in {"cell", "col", "raw", "bits"} /\ q.op # "slice" /\ read.gate
  BY <1>1, <1>4 DEF GatedByCell
<1>6. /\ q \in Requests /\ q.col \in Cols /\ q.nrow \in Nat
      /\ q.op \in {"raw", "bits"} => RawColumnSupported(q.col)
      /\ TodoFits(q, todo) /\ Len(todo) = q.nrow /\ read.at = q.nrow /\ Len(got) = q.nrow
      /\ \A k \in 1..q.nrow : got[k].dest = todo[k].dest /\ todo[k].row \in Rows
      /\ q.nrow > 0 => ~RawRefused(q)
  <2>1. /\ q \in Requests
        /\ q.op \in {"raw", "bits"} => RawColumnSupported(q.col)
        /\ TodoFits(q, todo) /\ Len(got) = read.at
        /\ \A k \in 1..read.at : got[k].dest = todo[k].dest /\ todo[k].row \in Rows
        /\ read.at > 0 => ~RawRefused(q)
    BY <1>0, <1>1 DEF ReadsInv, ReadFits
  <2>2. Len(todo) = q.nrow /\ read.at = q.nrow
    BY <1>0, <1>1, <2>1 DEF AllVisited, TodoFits
  <2>. QED
    BY <2>1, <2>2, RequestTypes
<1>7. \A k \in 1..q.nrow : ~NoDefault(q, todo[k].row) /\ got[k].v = Fine(Seen(cells, q, todo[k].row))
  BY <1>0, <1>1, <1>5, <1>6 DEF GatedInv, GotFits
<1>8. \A c \in Cols, r \in Rows : Whole(cells[c][r], c, r)
  <2>1. patch.todo = <<>>
    <3>1. ~patch.gate
      BY <1>5 DEF ReadsInv, GatesExclude
    <3>2. patch # NoPatch => patch.gate
      BY DEF Gated, ReadsInv, PatchFits
    <3>3. NoPatch.todo = <<>>
      BY DEF NoPatch
    <3>. QED
      BY <3>1, <3>2, <3>3
  <2>. QED
    BY <2>1 DEF ReadsInv, CellsFit, Halved
<1>9. DOMAIN got = 1..q.nrow
  <2>1. PICK S : got \in Seq(S)
    BY <1>0, <1>1 DEF ReadsInv, ReadFits
  <2>. QED
    BY <1>6, <2>1
<1>10. ASSUME NEW i \in 1..q.nrow
       PROVE  \E k \in 1..q.nrow : todo[k].dest = i /\ values[i] = Fine(Seen(cells, q, todo[k].row))
  <2>1. values[i] = got[CHOOSE k \in DOMAIN got : got[k].dest = i].v
    BY <1>0, <1>6 DEF Placed
  <2>2. \E k \in DOMAIN got : got[k].dest = i
    <3>1. \E k \in 1..q.nrow : todo[k].dest = i
      BY <1>6 DEF TodoFits
    <3>. QED
      BY <1>6, <1>9, <3>1
  <2>3. PICK k \in 1..q.nrow : got[k].dest = i /\ values[i] = got[k].v
    BY <1>9, <2>1, <2>2
  <2>. QED
    BY <1>6, <1>7, <2>3
<1>. SUFFICES \A i \in 1..q.nrow :
                LET r == Resolved(q, i) IN
                /\ r \in Rows
                /\ answer'.values[i].data = ContentOf(cells[q.col], q.col, r)
                /\ Whole(cells[q.col][r], q.col, r)
  BY <1>4
<1>. SUFFICES ASSUME NEW i \in 1..q.nrow, NEW r, r = Resolved(q, i)
              PROVE  /\ r \in Rows
                     /\ answer'.values[i].data = ContentOf(cells[q.col], q.col, r)
                     /\ Whole(cells[q.col][r], q.col, r)
  OBVIOUS
<1>11. PICK k \in 1..q.nrow : todo[k].dest = i /\ values[i] = Fine(Seen(cells, q, todo[k].row))
  BY <1>10
<1>12. todo[k].row = r /\ r \in Rows /\ ~NoDefault(q, r)
  <2>1. \A j \in 1..q.nrow : todo[j].row = Resolved(q, todo[j].dest)
    BY <1>6 DEF TodoFits
  <2>2. todo[k].row = r
    BY <1>11, <2>1
  <2>. QED
    BY <1>6, <1>7, <2>2
<1>13. answer'.values[i].data = Seen(cells, q, r).data
  <2>1. DOMAIN values = 1..q.nrow
    BY <1>0, <1>6 DEF Placed
  <2>2. answer'.values[i] = values[i].value
    BY <1>4, <2>1
  <2>3. values[i].value = Seen(cells, q, r)
    <3>1. \A x : Fine(x).value = x
      BY DEF Fine
    <3>. QED
      BY <1>11, <1>12, <3>1
  <2>. QED
    BY <2>2, <2>3
<1>14. Whole(cells[q.col][r], q.col, r)
  BY <1>6, <1>8, <1>12
<1>15. Seen(cells, q, r).data = ContentOf(cells[q.col], q.col, r)
  BY <1>5, <1>6, <1>12, <1>14, SeenIsContent
<1>. QED
  BY <1>12, <1>13, <1>14, <1>15

LEMMA GatedStep ==
  ASSUME Gated, ReadsInv, GatedInv, [Next]_vars
  PROVE  GatedInv'
<1>1. ASSUME NEW h, NEW rows, RowOrder(h, rows) PROVE GatedInv'
  <2>1. read' = None /\ answer' = None
    BY <1>1 DEF RowOrder
  <2>. QED
    BY <2>1 DEF GatedInv, GotFits, AnswerTrue
<1>2. ASSUME NEW q \in Requests, Ask(q) PROVE GatedInv'
  <2>1. UNCHANGED <<cells, views>> /\ read = None /\ answer = None
    BY <1>2 DEF Ask
  <2>2. CASE Refuse(q, "row", ViewRangeRow(q)) /\ UNCHANGED read
    <3>1. answer'.ok = FALSE
      BY <2>2 DEF Refuse, Answered
    <3>. QED
      BY <2>1, <2>2, <3>1 DEF GatedInv, GotFits, AnswerTrue
  <2>3. ASSUME NEW todo, read' = Begun(q, todo), UNCHANGED answer PROVE GatedInv'
    <3>1. read'.at = 0 /\ 1..0 = {} /\ ~(0 > 0)
      BY <2>3 DEF Begun
    <3>. QED
      BY <2>1, <2>3, <3>1 DEF GatedInv, GotFits, AnswerTrue
  <2>. QED
    BY <1>2, <2>2, <2>3 DEF Ask
<1>3. CASE Enter
  <2>1. UNCHANGED <<cells, views>> /\ read # None
    BY <1>3 DEF Enter
  <2>2. CASE RawRefused(read.q) /\ ~AllVisited
    <3>1. read' = None /\ answer'.ok = FALSE
      BY <1>3, <2>2 DEF Enter, Refuse, Answered
    <3>. QED
      BY <3>1 DEF GatedInv, GotFits, AnswerTrue
  <2>3. CASE ~(RawRefused(read.q) /\ ~AllVisited)
    <3>1. UNCHANGED answer /\ read' = [read EXCEPT !.gate = TRUE]
      BY <1>3, <2>3 DEF Enter
    <3>2. read = [op |-> read.op, q |-> read.q, todo |-> read.todo, at |-> read.at,
                  gate |-> read.gate, got |-> read.got]
      BY <2>1 DEF ReadsInv, ReadFits
    <3>3. /\ read'.q = read.q /\ read'.todo = read.todo /\ read'.at = read.at
          /\ read'.gate = TRUE /\ read'.got = read.got
      BY <3>1, <3>2
    <3>4. GotFits'
      BY <2>1, <3>3 DEF GatedInv, GotFits, NoDefault
    <3>. QED
      BY <2>1, <3>1, <3>4, AnswerTrueStays DEF GatedInv
  <2>. QED
    BY <2>2, <2>3
<1>4. CASE Take
  <2>1. UNCHANGED <<cells, read>> /\ answer' = None
    BY <1>4 DEF Take
  <2>. QED
    BY <2>1, GotStays DEF GatedInv, AnswerTrue
<1>5. ASSUME NEW c \in Cols, BeginPatch(c) PROVE GatedInv'
  <2>1. UNCHANGED <<cells, views, read, answer>>
    BY <1>5 DEF BeginPatch
  <2>. QED
    BY <2>1, GotStays, AnswerTrueStays DEF GatedInv
<1>6. CASE PatchWrite
  <2>1. UNCHANGED <<views, read, answer>> /\ patch.todo # <<>>
    BY <1>6 DEF PatchWrite
  <2>2. ~read.gate
    <3>1. NoPatch.todo = <<>>
      BY DEF NoPatch
    <3>2. patch # NoPatch => patch.gate
      BY DEF Gated, ReadsInv, PatchFits
    <3>. QED
      BY <2>1, <3>1, <3>2 DEF ReadsInv, GatesExclude
  <2>3. ASSUME read # None, read.q.op # "slice" PROVE read.at = 0
    <3>1. read.at \in 0..read.q.nrow /\ read.q.nrow \in Nat
      BY <2>3, RequestTypes DEF ReadsInv, ReadFits
    <3>2. ~(read.at > 0)
      BY <2>2, <2>3 DEF GatedInv, GotFits
    <3>. QED
      BY <3>1, <3>2
  <2>4. GotFits'
    <3>1. 1..0 = {} /\ ~(0 > 0)
      OBVIOUS
    <3>. QED
      BY <2>1, <2>3, <3>1 DEF GotFits
  <2>. QED
    BY <2>1, <2>4, AnswerTrueStays DEF GatedInv
<1>7. CASE EndPatch
  <2>1. UNCHANGED <<cells, views, read, answer>>
    BY <1>7 DEF EndPatch
  <2>. QED
    BY <2>1, GotStays, AnswerTrueStays DEF GatedInv
<1>8. CASE UNCHANGED vars
  <2>1. UNCHANGED <<cells, views, read, answer>>
    BY <1>8 DEF vars
  <2>. QED
    BY <2>1, GotStays, AnswerTrueStays DEF GatedInv
<1>. QED
  BY <1>1, <1>2, <1>3, <1>4, <1>5, <1>6, <1>7, <1>8, GatedVisitStep, GatedLeaveStep DEF Next

LEMMA ReadsStep ==
  ASSUME ReadsInv, [Next]_vars
  PROVE  ReadsInv'
<1>1. CASE UNCHANGED vars
  <2>1. UNCHANGED <<cells, views, patch, patches, read, answer>>
    BY <1>1 DEF vars
  <2>. QED
    BY <2>1, ViewsStay, PatchStays, CellsStay, ReadStays, AnswerStays DEF ReadsInv, GatesExclude
<1>. QED
  BY <1>1, RowOrderStep, AskStep, EnterStep, VisitStep, LeaveStep, TakeStep,
     BeginPatchStep, PatchWriteStep, EndPatchStep DEF Next

-----------------------------------------------------------------------------
(* The theorems.                                                           *)

(* Reading from a table and its reference tables keeps the invariant: the  *)
(* lists compose, a read visits what it was resolved to, and the gates of  *)
(* a read and of a flush exclude each other.                               *)
THEOREM ReadsHold == Spec => []ReadsInv
<1>1. Init => ReadsInv
  BY InitReads
<1>2. ReadsInv /\ [Next]_vars => ReadsInv'
  BY ReadsStep
<1>. QED
  BY <1>1, <1>2, PTL DEF Spec

(* A refused read names the first row its handle does not have, and an     *)
(* answered one asked for rows its handle has (table.rs view_rows, getcol).*)
THEOREM ErrorsName == Spec => []ErrorsNameTheRow
<1>1. ReadsInv => ErrorsNameTheRow
  BY DEF ReadsInv, AnswerFits, ErrorsNameTheRow
<1>. QED
  BY <1>1, ReadsHold, PTL

(* What is answered is the rows that were asked for.                       *)
LEMMA AnswerIsAsked ==
  ASSUME ReadsInv, GatedInv, answer # None, answer.ok,
         answer.op \in {"cell", "col", "raw", "bits"}
  PROVE  /\ Len(answer.values) = answer.q.nrow /\ DOMAIN answer.values = 1..answer.q.nrow
         /\ \A i \in 1..answer.q.nrow :
              LET r == AskedRow(answer.q, i) IN
              /\ r \in Rows
              /\ answer.values[i].data = ContentOf(answer.of, answer.q.col, r)
              /\ Whole(answer.of[r], answer.q.col, r)
<1>1. /\ answer.q \in Requests /\ answer.q.on \in 0..Len(views) /\ InRange(answer.q)
      /\ Len(answer.values) = answer.q.nrow /\ DOMAIN answer.values = 1..answer.q.nrow
  BY DEF ReadsInv, AnswerFits
<1>2. \A i \in 1..answer.q.nrow : Resolved(answer.q, i) = AskedRow(answer.q, i)
  BY <1>1, ResolvedIsAsked DEF ReadsInv
<1>. QED
  BY <1>1, <1>2 DEF GatedInv, AnswerTrue

LEMMA GatedHolds == Gated /\ Spec => []GatedInv
<1>1. Init => GatedInv
  BY InitReads
<1>2. Gated /\ ReadsInv /\ GatedInv /\ [Next]_vars => GatedInv'
  BY GatedStep
<1>3. Gated => []Gated
  <2>1. Gated => Gated'
    BY DEF Gated, PatchGate
  <2>. QED
    BY <2>1, PTL
<1>. QED
  BY <1>1, <1>2, <1>3, ReadsHold, PTL DEF Spec

(* If every flush takes the gate, a read of whole cells answers the cell   *)
(* of each row asked for, in its place, as it is when the read ends: a     *)
(* list over a list, a list out of order and a list with a row twice give  *)
(* what reading row by row gives (table.rs view_rows, getcol and its raw   *)
(* and packed forms).                                                      *)
THEOREM AnswersAre == Gated /\ Spec => []AnswersAreTheRows
<1>1. ReadsInv /\ GatedInv => AnswersAreTheRows
  BY AnswerIsAsked DEF AnswersAreTheRows
<1>. QED
  BY <1>1, ReadsHold, GatedHolds, PTL

(* And none of its cells is one a flush has written a half of (flushgate.rs *)
(* flush_read_gate, flush_write_gate).                                     *)
THEOREM AnswersAreWhole == Gated /\ Spec => []CellsAreWhole
<1>1. ASSUME NEW c, NEW r, NEW of, Whole(of[r], c, r)
      PROVE  ContentOf(of, c, r) \in WholeCells(c, r)
  <2>1. CASE of[r] = NotStored /\ <<c, r>> \in Unset
    <3>1. ContentOf(of, c, r) = IF HasShape(c) THEN TsmDefault(c) ELSE <<>>
      BY <2>1 DEF ContentOf, NotStored
    <3>. QED
      BY <2>1, <3>1 DEF WholeCells
  <2>2. CASE \E n \in {k \in 0..MaxPatches : k > 0 \/ <<c, r>> \notin Unset} : of[r] = Stored(c, r, n)
    <3>1. PICK n \in {k \in 0..MaxPatches : k > 0 \/ <<c, r>> \notin Unset} : of[r] = Stored(c, r, n)
      BY <2>2
    <3>2. ContentOf(of, c, r) = Stored(c, r, n).data
      BY <3>1 DEF ContentOf, Stored
    <3>. HIDE DEF Stored
    <3>. QED
      BY <3>1, <3>2 DEF WholeCells
  <2>. QED
    BY <1>1, <2>1, <2>2 DEF Whole
<1>2. ReadsInv /\ GatedInv => CellsAreWhole
  BY <1>1, AnswerIsAsked DEF CellsAreWhole
<1>. QED
  BY <1>2, ReadsHold, GatedHolds, PTL

=============================================================================
