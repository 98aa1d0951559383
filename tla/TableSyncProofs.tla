-------------------------- MODULE TableSyncProofs --------------------------
(***************************************************************************)
(* What TableSync promises, for any number of processes, columns and rows  *)
(* and any length of run: the inductive invariant IInv and its             *)
(* consequences.                                                           *)
(***************************************************************************)
EXTENDS TableSync, NaturalLemmas, FiniteSetTheorems, SequenceTheorems

CellVal == Vals \cup {0}

(* Cells put and not flushed, by column and row.                           *)
ArePuts(p) == DOMAIN p \subseteq Cols \X Nat /\ p \in [DOMAIN p -> CellVal]

IsBacking(h) ==
  /\ ArePuts(h.pend)
  /\ h \in [rows : Nat, cols : Seq(Cols), added : SUBSET Cols, removed : BOOLEAN,
            gone : SUBSET Cols, pend : {h.pend}, mine : {h.mine}, dirty : BOOLEAN,
            seen : Seq(Cols), held : BOOLEAN, doing : {"open", "rest", "flush"}]

IsTable(t) ==
  t \in [cols : Seq(Cols), rows : Nat, file : [ToSet(t.cols) -> DOMAIN file]]

IsSnapshot(t) ==
  /\ IsTable(t.snap)
  /\ t \in [snap : {t.snap}, seen : [rows : Nat, cols : Nat, changes : Nat],
            doing : {"open", "wait", "rest"}, held : {"no", "opened", "failed", "synced"}]

TypeInv ==
  /\ IsTable(table)
  /\ file \in Seq(Seq(CellVal))
  /\ sync \in [rows : Nat, cols : Nat, changes : Nat]
  /\ lock \in [writer : Writers \cup {None}, readers : SUBSET Readers]
  /\ DOMAIN handle = Writers
  /\ \A w \in Writers : handle[w] # None => IsBacking(handle[w])
  /\ DOMAIN reader = Readers
  /\ \A r \in Readers : reader[r] # None => IsSnapshot(reader[r])

(* The sync record is the table's: a flush leaves them together.           *)
RecordFollows == sync.rows = table.rows /\ sync.cols = Len(table.cols)

(* Each column of the table has a file of its own, of the table's rows.    *)
FilesFit ==
  /\ IsInjective(table.file)
  /\ \A c \in ToSet(table.cols) : Len(file[table.file[c]]) = table.rows

(* What a backing remembers it put is what is pending.                     *)
PutsPending ==
  \A w \in Writers : handle[w] # None => handle[w].mine = handle[w].pend

(* The backing that holds the lock has it, and has adopted the table's     *)
(* rows; a careful writer in the middle of a flush is one.                 *)
HolderKnows ==
  \A w \in Writers :
    handle[w] # None =>
      /\ handle[w].held => lock.writer = w /\ handle[w].rows >= table.rows
      /\ w \in Careful /\ handle[w].doing = "flush" => handle[w].held

(* A reader that holds its lock stands in the way of every flush, and, if  *)
(* it resynced, has the rows of the table; the files it has mapped have    *)
(* the rows of its snapshot at all times.                                  *)
ReaderKnows ==
  \A r \in Readers :
    reader[r] # None =>
      /\ reader[r].held # "no" => r \in lock.readers /\ reader[r].doing = "rest"
      /\ reader[r].held = "synced" => reader[r].snap.rows = table.rows
      /\ \A c \in DOMAIN reader[r].snap.file :
           Len(file[reader[r].snap.file[c]]) >= reader[r].snap.rows

IInv ==
  /\ TypeInv
  /\ FilesFit /\ RecordFollows /\ CellsSurvive
  /\ PutsPending /\ HolderKnows /\ RowsSurvive
  /\ ReaderKnows
-----------------------------------------------------------------------------
(* Facts about sequences and the fresh file numbers of a flush.            *)

(* A sequence has finitely many elements.                                  *)
LEMMA ElementsFinite ==
  ASSUME NEW S, NEW s \in Seq(S)
  PROVE  IsFiniteSet(ToSet(s)) /\ ToSet(s) \subseteq S
<1>1. s \in Surjection(1..Len(s), ToSet(s))
  BY DEF Surjection, ToSet
<1>2. IsFiniteSet(1..Len(s))
  BY FS_Interval
<1>. QED
  BY <1>1, <1>2, FS_Surjection DEF ToSet

(* SetToSeq lists a finite set, each element once.                         *)
LEMMA SetToSeqLists ==
  ASSUME NEW S, IsFiniteSet(S)
  PROVE  /\ Cardinality(S) \in Nat
         /\ SetToSeq(S) \in [1..Cardinality(S) -> S]
         /\ IsInjective(SetToSeq(S))
         /\ \A x \in S : \E i \in 1..Cardinality(S) : SetToSeq(S)[i] = x
<1>1. Cardinality(S) \in Nat /\ ExistsBijection(1..Cardinality(S), S)
  BY FS_CardinalityType
<1>2. PICK f \in [1..Cardinality(S) -> S] : IsInjective(f)
  BY <1>1 DEF ExistsBijection, Bijection, Injection
<1>3. SetToSeq(S) \in [1..Cardinality(S) -> S] /\ IsInjective(SetToSeq(S))
  BY <1>2 DEF SetToSeq
<1>4. IsFiniteSet(1..Cardinality(S)) /\ Cardinality(1..Cardinality(S)) = Cardinality(S)
  BY <1>1, FS_Interval
<1>5. SetToSeq(S) \in Injection(1..Cardinality(S), S)
  BY <1>3 DEF Injection
<1>6. SetToSeq(S) \in Surjection(1..Cardinality(S), S)
  BY <1>4, <1>5, FS_Injection
<1>. QED
  BY <1>1, <1>3, <1>6 DEF Surjection

(* A set of numbers that is not empty has a least one.                     *)
LEMMA LeastIsThere ==
  ASSUME NEW I, I \subseteq Nat, I # {}
  PROVE  Min(I) \in I
<1>1. PICK m \in I : \A j \in I : m <= j
  BY Least
<1>. QED
  BY <1>1 DEF Min

(* Where an element of a sequence without repetitions is found.            *)
LEMMA PositionFound ==
  ASSUME NEW n \in Nat, NEW S, NEW s \in [1..n -> S], IsInjective(s),
         NEW i \in 1..n
  PROVE  Place(s[i], s) = i
<1>1. Len(s) = n
  OBVIOUS
<1>2. {k \in 1..Len(s) : s[k] = s[i]} = {i}
  BY <1>1 DEF IsInjective
<1>3. Min({i}) = i
  BY DEF Min
<1>. QED
  BY <1>2, <1>3 DEF Place, SelectInSeq

(* The new files get the next numbers, one each and without a gap.         *)
LEMMA NumberedIsFresh ==
  ASSUME NEW h, IsFiniteSet(Replaced(h)), Len(file) \in Nat
  PROVE  LET ids == Numbered(h)
             n   == Cardinality(Replaced(h))
         IN  /\ n \in Nat
             /\ DOMAIN ids = Replaced(h)
             /\ IsInjective(ids)
             /\ Range(ids) = Len(file) + 1 .. Len(file) + n
<1>. DEFINE order == SetToSeq(Replaced(h))
            n     == Cardinality(Replaced(h))
            ids   == Numbered(h)
<1>1. /\ n \in Nat
      /\ order \in [1..n -> Replaced(h)]
      /\ IsInjective(order)
      /\ \A c \in Replaced(h) : \E i \in 1..n : order[i] = c
  BY SetToSeqLists
<1>2. ids = [c \in Replaced(h) |-> Len(file) + Place(c, order)]
  BY DEF Numbered
<1>. HIDE DEF order, n, ids
<1>3. ASSUME NEW i \in 1..n
      PROVE  Place(order[i], order) = i
  BY <1>1, PositionFound
<1>4. \A i \in 1..n : order[i] \in Replaced(h) /\ ids[order[i]] = Len(file) + i
  BY <1>1, <1>2, <1>3
<1>5. DOMAIN ids = Replaced(h)
  BY <1>2
<1>6. IsInjective(ids)
  BY <1>1, <1>4, <1>5 DEF IsInjective
<1>7. Range(ids) = Len(file) + 1 .. Len(file) + n
  <2>1. ASSUME NEW f \in Range(ids)
        PROVE  f \in Len(file) + 1 .. Len(file) + n
    <3>1. PICK c \in Replaced(h) : f = ids[c]
      BY <1>5 DEF Range
    <3>2. PICK i \in 1..n : order[i] = c
      BY <1>1
    <3>. QED
      BY <1>1, <1>4, <3>1, <3>2
  <2>2. ASSUME NEW f \in Len(file) + 1 .. Len(file) + n
        PROVE  f \in Range(ids)
    <3>1. f - Len(file) \in 1..n /\ Len(file) + (f - Len(file)) = f
      BY <1>1
    <3>. QED
      BY <1>4, <1>5, <3>1 DEF Range
  <2>. QED
    BY <2>1, <2>2
<1>. QED
  BY <1>1, <1>5, <1>6, <1>7 DEF n, ids
-----------------------------------------------------------------------------
(* What a flush does to the files.                                         *)

(* The cells of a backing over those of a file: what is pending, else what *)
(* the file has, else the default.                                         *)
LEMMA OverlaidCells ==
  ASSUME NEW h, IsBacking(h), NEW c \in Cols, NEW cells \in Seq(CellVal)
  PROVE  /\ Overlaid(h, c, cells) \in Seq(CellVal)
         /\ Len(Overlaid(h, c, cells)) = h.rows
         /\ \A i \in 1..h.rows :
              Overlaid(h, c, cells)[i] =
                IF <<c, i>> \in DOMAIN h.pend THEN h.pend[<<c, i>>]
                ELSE IF i <= Len(cells) THEN cells[i] ELSE 0
<1>1. h.rows \in Nat /\ Len(cells) \in Nat /\ DOMAIN cells = 1..Len(cells)
  BY DEF IsBacking
<1>2. \A i \in 1..h.rows :
        Overlaid(h, c, cells)[i] =
          IF <<c, i>> \in DOMAIN h.pend THEN h.pend[<<c, i>>]
          ELSE IF i <= Len(cells) THEN cells[i] ELSE 0
  BY <1>1 DEF Overlaid, PendingRows, Fill
<1>3. \A x \in DOMAIN h.pend : h.pend[x] \in CellVal
  BY DEF IsBacking, ArePuts
<1>4. ASSUME NEW i \in 1..h.rows
      PROVE  Overlaid(h, c, cells)[i] \in CellVal
  <2>1. 0 \in CellVal
    BY DEF CellVal
  <2>2. i <= Len(cells) => cells[i] \in CellVal
    <3>. HIDE DEF CellVal
    <3>. QED
      BY <1>1
  <2>. QED
    BY <1>1, <1>2, <1>3, <2>1, <2>2
<1>5. Overlaid(h, c, cells) \in [1..h.rows -> CellVal]
  BY <1>4 DEF Overlaid
<1>. QED
  BY <1>1, <1>2, <1>5

(* The columns a flush replaces are some of the backing's.                 *)
LEMMA ReplacedColumns ==
  ASSUME NEW h, IsBacking(h)
  PROVE  /\ ToSet(h.cols) \subseteq Cols
         /\ Replaced(h) \subseteq ToSet(h.cols)
         /\ IsFiniteSet(Replaced(h))
<1>1. h.cols \in Seq(Cols)
  BY DEF IsBacking
<1>2. IsFiniteSet(ToSet(h.cols)) /\ ToSet(h.cols) \subseteq Cols
  BY <1>1, ElementsFinite
<1>3. Replaced(h) \subseteq ToSet(h.cols)
  BY DEF Replaced
<1>. QED
  BY <1>2, <1>3, FS_Subset

(* What a rewrite starts a column from is a file of the table's rows, or   *)
(* nothing.                                                                *)
LEMMA FromDiskCells ==
  ASSUME TypeInv, NEW h, NEW c
  PROVE  FromDisk(h, c) \in Seq(CellVal)
<1>1. CASE c \in TakenUp(h)
  <2>1. table.file[c] \in DOMAIN file
    BY <1>1 DEF TypeInv, IsTable, TakenUp
  <2>2. file[table.file[c]] \in Seq(CellVal)
    BY <2>1 DEF TypeInv
  <2>. QED
    BY <1>1, <2>2 DEF FromDisk
<1>2. CASE c \notin TakenUp(h)
  BY <1>2 DEF FromDisk
<1>. QED
  BY <1>1, <1>2

(* The files a flush leaves: the new ones, the table's own overlaid where  *)
(* they stand if it works in place, and the others as they were.           *)
LEMMA FlushedFiles ==
  ASSUME TypeInv, FilesFit, NEW h, IsBacking(h)
  PROVE  LET ids == Numbered(h)
             new == NewFiles(h, ids)
         IN  /\ new \in Seq(Seq(CellVal))
             /\ DOMAIN file \subseteq DOMAIN new
             /\ \A c \in Replaced(h) :
                  /\ ids[c] \in DOMAIN new \ DOMAIN file
                  /\ new[ids[c]] = Overlaid(h, c, FromDisk(h, c))
             /\ InPlace(h) =>
                  \A c \in ToSet(table.cols) :
                    new[table.file[c]] = Overlaid(h, c, file[table.file[c]])
             /\ \A f \in DOMAIN file :
                  \/ new[f] = file[f]
                  \/ InPlace(h) /\ \E c \in ToSet(table.cols) : table.file[c] = f
<1>. DEFINE ids == Numbered(h)
            n   == Cardinality(Replaced(h))
            new == NewFiles(h, ids)
            Owned(f) == InPlace(h) /\ \E c \in ToSet(table.cols) : table.file[c] = f
<1>1. Len(file) \in Nat /\ DOMAIN file = 1..Len(file)
  BY DEF TypeInv
<1>2. /\ n \in Nat
      /\ DOMAIN ids = Replaced(h)
      /\ IsInjective(ids)
      /\ Range(ids) = Len(file) + 1 .. Len(file) + n
  BY <1>1, ReplacedColumns, NumberedIsFresh
<1>3. DOMAIN new = 1..(Len(file) + n)
  BY <1>1, <1>2 DEF NewFiles
<1>4. \A f \in Range(ids) : f \notin DOMAIN file
  BY <1>1, <1>2
<1>. HIDE DEF ids, n
<1>5. ASSUME NEW c \in Replaced(h)
      PROVE  /\ ids[c] \in DOMAIN new \ DOMAIN file
             /\ new[ids[c]] = Overlaid(h, c, FromDisk(h, c))
  <2>1. ids[c] \in Range(ids)
    BY <1>2 DEF Range
  <2>2. Inverse(ids, Replaced(h), Range(ids))[ids[c]] = c
    BY <1>2, <2>1 DEF Inverse, IsInjective
  <2>3. ids[c] \in DOMAIN new \ DOMAIN file
    BY <1>1, <1>2, <1>3, <2>1
  <2>. DEFINE d == Inverse(ids, Replaced(h), Range(ids))[ids[c]]
  <2>4. \A b \in ToSet(table.cols) : table.file[b] # ids[c]
    BY <2>3 DEF TypeInv, IsTable
  <2>5. new[ids[c]] = Overlaid(h, d, FromDisk(h, d))
    BY <2>1, <2>4 DEF NewFiles
  <2>. QED
    BY <2>2, <2>3, <2>5
<1>6. ASSUME NEW f \in DOMAIN file, ~Owned(f)
      PROVE  new[f] = file[f]
  <2>1. f \notin Range(ids) /\ f \in DOMAIN file \cup Range(ids)
    BY <1>4
  <2>. QED
    BY <1>6, <2>1 DEF NewFiles
<1>7. ASSUME InPlace(h), NEW c \in ToSet(table.cols)
      PROVE  /\ table.file[c] \in DOMAIN file
             /\ new[table.file[c]] = Overlaid(h, c, file[table.file[c]])
  <2>. DEFINE f == table.file[c]
  <2>1. f \in DOMAIN file /\ f \notin Range(ids) /\ DOMAIN table.file = ToSet(table.cols)
    BY <1>4 DEF TypeInv, IsTable
  <2>2. (CHOOSE d \in ToSet(table.cols) : table.file[d] = f) = c
    BY <2>1 DEF FilesFit, IsInjective
  <2>3. new[f] = Overlaid(h, CHOOSE d \in ToSet(table.cols) : table.file[d] = f, file[f])
    BY <1>7, <2>1 DEF NewFiles
  <2>. QED
    BY <2>1, <2>2, <2>3
<1>8. \A f \in DOMAIN new : new[f] \in Seq(CellVal)
  <2>. SUFFICES ASSUME NEW f \in DOMAIN new PROVE new[f] \in Seq(CellVal)
    OBVIOUS
  <2>1. CASE f \in Range(ids)
    <3>1. PICK c \in Replaced(h) : f = ids[c]
      BY <1>2, <2>1 DEF Range
    <3>2. c \in Cols
      BY ReplacedColumns
    <3>. QED
      BY <1>5, <3>1, <3>2, FromDiskCells, OverlaidCells
  <2>2. CASE f \in DOMAIN file /\ Owned(f)
    <3>1. PICK c \in ToSet(table.cols) : table.file[c] = f
      BY <2>2
    <3>2. c \in Cols
      BY ElementsFinite DEF TypeInv, IsTable
    <3>3. file[f] \in Seq(CellVal)
      BY <2>2 DEF TypeInv
    <3>. QED
      BY <1>7, <2>2, <3>1, <3>2, <3>3, OverlaidCells
  <2>3. CASE f \in DOMAIN file /\ ~Owned(f)
    <3>1. file[f] \in Seq(CellVal)
      BY <2>3 DEF TypeInv
    <3>. QED
      BY <1>6, <2>3, <3>1
  <2>. QED
    BY <1>1, <1>2, <1>3, <2>1, <2>2, <2>3
<1>9. new \in Seq(Seq(CellVal))
  <2>1. new \in [1..(Len(file) + n) -> Seq(CellVal)]
    BY <1>3, <1>8 DEF NewFiles
  <2>2. Len(file) + n \in Nat
    BY <1>1, <1>2
  <2>. QED
    BY <2>1, <2>2
<1>10. DOMAIN file \subseteq DOMAIN new
  BY <1>1, <1>2, <1>3
<1>. QED
  BY <1>5, <1>6, <1>7, <1>9, <1>10 DEF ids

(* A flush leaves a table of the backing's columns and rows, each column   *)
(* with a file of its own that holds what it must, and the record tells of *)
(* it; no file loses rows.                                                 *)
LEMMA FlushKeepsTable ==
  ASSUME TypeInv, FilesFit, RecordFollows, CellsSurvive,
         NEW h, IsBacking(h), h.mine = h.pend,
         file' = NewFiles(h, Numbered(h)),
         table' = Rewritten(h, Numbered(h)),
         sync' = Recorded(h),
         stored' = Promised(h)
  PROVE  /\ IsTable(table)'
         /\ file' \in Seq(Seq(CellVal))
         /\ sync' \in [rows : Nat, cols : Nat, changes : Nat]
         /\ FilesFit' /\ RecordFollows' /\ CellsSurvive'
         /\ table'.rows = h.rows
         /\ DOMAIN file \subseteq DOMAIN file'
         /\ \A f \in DOMAIN file : Len(file'[f]) >= Len(file[f])
<1>. DEFINE ids == Numbered(h)
            Source(c) == IF c \in Replaced(h) THEN FromDisk(h, c) ELSE file[table.file[c]]
<1>1. h.rows \in Nat /\ h.cols \in Seq(Cols)
  BY DEF IsBacking
<1>2. /\ ToSet(h.cols) \subseteq Cols
      /\ Replaced(h) \subseteq ToSet(h.cols)
      /\ ToSet(table.cols) \subseteq Cols
  BY ReplacedColumns, ElementsFinite DEF TypeInv, IsTable
<1>3. Len(file) \in Nat /\ DOMAIN file = 1..Len(file)
  BY DEF TypeInv
<1>4. DOMAIN ids = Replaced(h) /\ IsInjective(ids)
  BY <1>3, ReplacedColumns, NumberedIsFresh
<1>5. /\ file' \in Seq(Seq(CellVal))
      /\ DOMAIN file \subseteq DOMAIN file'
      /\ \A c \in Replaced(h) :
           /\ ids[c] \in DOMAIN file' \ DOMAIN file
           /\ file'[ids[c]] = Overlaid(h, c, FromDisk(h, c))
      /\ InPlace(h) =>
           \A c \in ToSet(table.cols) :
             file'[table.file[c]] = Overlaid(h, c, file[table.file[c]])
      /\ \A f \in DOMAIN file :
           \/ file'[f] = file[f]
           \/ InPlace(h) /\ \E c \in ToSet(table.cols) : table.file[c] = f
  BY FlushedFiles
<1>. HIDE DEF ids
<1>6. /\ table'.cols = h.cols
      /\ table'.rows = h.rows
      /\ table'.file = [c \in ToSet(h.cols) |-> IF c \in Replaced(h) THEN ids[c] ELSE table.file[c]]
      /\ table' = [cols |-> h.cols, rows |-> h.rows, file |-> table'.file]
  BY <1>4 DEF Rewritten, ids
<1>7. ASSUME NEW c \in ToSet(h.cols) \ Replaced(h)
      PROVE  /\ InPlace(h) /\ c \in ToSet(table.cols)
             /\ table.file[c] \in DOMAIN file
  <2>1. InPlace(h) /\ c \in ToSet(table.cols)
    BY <1>7 DEF Replaced
  <2>. QED
    BY <2>1 DEF TypeInv, IsTable
<1>8. ASSUME NEW c \in ToSet(h.cols)
      PROVE  /\ table'.file[c] \in DOMAIN file'
             /\ c \in Replaced(h) => table'.file[c] \notin DOMAIN file
             /\ c \notin Replaced(h) => table'.file[c] = table.file[c]
             /\ file'[table'.file[c]] = Overlaid(h, c, Source(c))
             /\ Source(c) \in Seq(CellVal)
  <2>1. CASE c \in Replaced(h)
    BY <1>5, <1>6, <2>1, FromDiskCells
  <2>2. CASE c \notin Replaced(h)
    <3>1. InPlace(h) /\ c \in ToSet(table.cols) /\ table.file[c] \in DOMAIN file
      BY <1>7, <2>2
    <3>2. file[table.file[c]] \in Seq(CellVal)
      BY <3>1 DEF TypeInv
    <3>3. table'.file[c] = table.file[c]
      BY <1>6, <2>2
    <3>. QED
      BY <1>5, <2>2, <3>1, <3>2, <3>3
  <2>. QED
    BY <2>1, <2>2
<1>9. IsTable(table)'
  <2>1. table'.file \in [ToSet(h.cols) -> DOMAIN file']
    BY <1>6, <1>8
  <2>. QED
    BY <1>1, <1>6, <2>1 DEF IsTable
<1>10. sync' = [rows |-> h.rows, cols |-> Len(h.cols), changes |-> sync'.changes]
       /\ sync'.changes \in Nat
  <2>1. sync.changes \in Nat
    BY DEF TypeInv
  <2>. QED
    BY <2>1 DEF Recorded
<1>11. sync' \in [rows : Nat, cols : Nat, changes : Nat] /\ RecordFollows'
  <2>1. Len(h.cols) \in Nat
    BY <1>1
  <2>. QED
    BY <1>1, <1>6, <1>10, <2>1 DEF RecordFollows
<1>12. FilesFit'
  <2>1. ASSUME NEW c \in ToSet(h.cols), NEW d \in ToSet(h.cols),
               table'.file[c] = table'.file[d]
        PROVE  c = d
    <3>1. CASE c \in Replaced(h) /\ d \in Replaced(h)
      BY <1>4, <1>6, <2>1, <3>1 DEF IsInjective
    <3>2. CASE c \in Replaced(h) /\ d \notin Replaced(h)
      BY <1>7, <1>8, <2>1, <3>2
    <3>3. CASE c \notin Replaced(h) /\ d \in Replaced(h)
      BY <1>7, <1>8, <2>1, <3>3
    <3>4. CASE c \notin Replaced(h) /\ d \notin Replaced(h)
      <4>1. c \in DOMAIN table.file /\ d \in DOMAIN table.file
        BY <1>7, <3>4 DEF TypeInv, IsTable
      <4>. QED
        BY <1>8, <2>1, <3>4, <4>1 DEF FilesFit, IsInjective
    <3>. QED
      BY <3>1, <3>2, <3>3, <3>4
  <2>2. IsInjective(table.file)'
    BY <1>6, <2>1 DEF IsInjective
  <2>3. \A c \in ToSet(h.cols) : Len(file'[table'.file[c]]) = h.rows
    BY <1>2, <1>8, OverlaidCells
  <2>. QED
    BY <1>6, <2>2, <2>3 DEF FilesFit
<1>13. CellsSurvive'
  <2>1. ASSUME NEW c \in ToSet(h.cols), NEW i \in 1..h.rows
        PROVE  Overlaid(h, c, Source(c))[i] = Promised(h)[c][i]
    <3>1. Overlaid(h, c, Source(c))[i] =
            IF <<c, i>> \in DOMAIN h.pend THEN h.pend[<<c, i>>]
            ELSE IF i <= Len(Source(c)) THEN Source(c)[i] ELSE 0
      BY <1>2, <1>8, OverlaidCells
    <3>2. Promised(h)[c][i] =
            IF <<c, i>> \in DOMAIN h.pend THEN h.pend[<<c, i>>]
            ELSE IF c \in TakenUp(h) /\ i <= table.rows THEN stored[c][i] ELSE 0
      BY DEF Promised
    <3>3. CASE c \in TakenUp(h)
      <4>1. c \in ToSet(table.cols) /\ Source(c) = file[table.file[c]]
        BY <3>3 DEF TakenUp, FromDisk
      <4>2. stored[c] = file[table.file[c]]
        BY <4>1 DEF CellsSurvive
      <4>3. Len(Source(c)) = table.rows
        BY <4>1 DEF FilesFit
      <4>. QED
        BY <3>1, <3>2, <3>3, <4>1, <4>2, <4>3
    <3>4. CASE c \notin TakenUp(h)
      <4>1. c \in Replaced(h)
        BY <1>7, <3>4 DEF TakenUp
      <4>2. Source(c) = <<>>
        BY <3>4, <4>1 DEF FromDisk
      <4>3. ~(i <= Len(Source(c)))
        BY <1>1, <4>2
      <4>. QED
        BY <3>1, <3>2, <3>4, <4>3
    <3>. QED
      BY <3>3, <3>4
  <2>2. ASSUME NEW c \in ToSet(h.cols)
        PROVE  file'[table'.file[c]] = stored'[c]
    <3>1. file'[table'.file[c]] = [i \in 1..h.rows |-> Overlaid(h, c, Source(c))[i]]
      BY <1>8 DEF Overlaid
    <3>2. stored'[c] = [i \in 1..h.rows |-> Promised(h)[c][i]]
      BY DEF Promised
    <3>. QED
      BY <2>1, <3>1, <3>2
  <2>3. stored' = [c \in ToSet(h.cols) |-> stored'[c]]
    BY DEF Promised
  <2>. QED
    BY <1>6, <2>2, <2>3 DEF CellsSurvive
<1>14. ASSUME NEW f \in DOMAIN file
       PROVE  Len(file'[f]) >= Len(file[f])
  <2>1. Len(file[f]) \in Nat
    BY DEF TypeInv
  <2>2. CASE file'[f] = file[f]
    BY <2>1, <2>2
  <2>3. CASE InPlace(h) /\ \E c \in ToSet(table.cols) : table.file[c] = f
    <3>1. PICK c \in ToSet(table.cols) : table.file[c] = f
      BY <2>3
    <3>2. file'[f] = Overlaid(h, c, file[f])
      BY <1>5, <2>3, <3>1
    <3>3. file[f] \in Seq(CellVal)
      BY DEF TypeInv
    <3>4. Len(file'[f]) = h.rows
      BY <1>2, <3>2, <3>3, OverlaidCells
    <3>5. Len(file[f]) = table.rows
      BY <3>1 DEF FilesFit
    <3>6. table.rows <= h.rows
      BY <2>3 DEF InPlace, RecordFollows
    <3>. QED
      BY <1>1, <2>1, <3>4, <3>5, <3>6
  <2>. QED
    BY <1>5, <2>2, <2>3
<1>. QED
  BY <1>5, <1>6, <1>9, <1>11, <1>12, <1>13, <1>14
-----------------------------------------------------------------------------
(* The steps.                                                              *)

(* Nothing pending is well formed.                                         *)
LEMMA NoPutsType == ArePuts(NoPuts)
BY DEF ArePuts, NoPuts

(* A step that only replaces one writer's backing, and takes or gives up   *)
(* the lock in its name, keeps the invariant if the new backing is in      *)
(* order.                                                                  *)
LEMMA BackingKeeps ==
  ASSUME IInv, NEW w \in Writers, NEW x,
         handle' = [handle EXCEPT ![w] = x],
         UNCHANGED <<table, file, sync, reader, stored, dropped>>,
         \/ lock' = lock
         \/ lock.writer \in {None, w} /\ lock' = [lock EXCEPT !.writer = w]
         \/ lock.writer \in {None, w} /\ lock' = [lock EXCEPT !.writer = None],
         x # None =>
           /\ IsBacking(x) /\ x.mine = x.pend
           /\ x.held => lock'.writer = w /\ x.rows >= table.rows
           /\ w \in Careful /\ x.doing = "flush" => x.held
  PROVE  IInv'
<1>1. DOMAIN handle = Writers
  BY DEF IInv, TypeInv
<1>2. handle'[w] = x /\ \A v \in Writers \ {w} : handle'[v] = handle[v]
  BY <1>1
<1>3. lock \in [writer : Writers \cup {None}, readers : SUBSET Readers]
  BY DEF IInv, TypeInv
<1>4. /\ lock' \in [writer : Writers \cup {None}, readers : SUBSET Readers]
      /\ lock'.readers = lock.readers
      /\ \A v \in Writers \ {w} : lock.writer = v => lock'.writer = v
  BY <1>3, TableSyncAssumption
<1>5. TypeInv'
  <2>1. IsTable(table)' /\ (file \in Seq(Seq(CellVal)))'
    BY DEF IInv, TypeInv, IsTable
  <2>2. \A v \in Writers : handle'[v] # None => IsBacking(handle'[v])
    BY <1>2 DEF IInv, TypeInv
  <2>3. DOMAIN handle' = Writers
    BY <1>1
  <2>4. \A r \in Readers : reader'[r] # None => IsSnapshot(reader[r])'
    BY DEF IInv, TypeInv, IsSnapshot, IsTable
  <2>. QED
    BY <1>4, <2>1, <2>2, <2>3, <2>4 DEF IInv, TypeInv, IsBacking, ArePuts
<1>6. FilesFit' /\ RecordFollows' /\ CellsSurvive' /\ RowsSurvive'
  BY DEF IInv, FilesFit, RecordFollows, CellsSurvive, RowsSurvive
<1>7. PutsPending'
  BY <1>2 DEF IInv, PutsPending
<1>8. HolderKnows'
  BY <1>2, <1>4 DEF IInv, HolderKnows
<1>9. ReaderKnows'
  BY <1>4 DEF IInv, ReaderKnows
<1>. QED
  BY <1>5, <1>6, <1>7, <1>8, <1>9 DEF IInv

(* A flush, by a writer that found the lock free or has it, keeps the      *)
(* invariant: no other backing counts on the lock and no reader holds it,  *)
(* and a careful writer's rows are all the table's.                        *)
LEMMA FlushKeeps ==
  ASSUME IInv, NEW w \in Writers, handle[w] # None, Free(w),
         w \in Careful => handle[w].held,
         NEW held \in BOOLEAN, held => handle[w].held,
         DoFlush(w, [handle[w] EXCEPT !.held = held]),
         \/ lock' = lock
         \/ lock' = [lock EXCEPT !.writer = None] /\ ~held,
         reader' = reader
  PROVE  IInv'
<1>. DEFINE h == [handle[w] EXCEPT !.held = held]
            x == Cleared([h EXCEPT !.gone = {}, !.mine = NoPuts, !.doing = "rest"])
<1>1. IsBacking(handle[w]) /\ handle[w].mine = handle[w].pend /\ DOMAIN handle = Writers
  BY DEF IInv, TypeInv, PutsPending
<1>2. /\ IsBacking(h) /\ h.mine = h.pend
      /\ h.rows = handle[w].rows /\ h.held = held
  BY <1>1 DEF IsBacking
<1>. HIDE DEF h
<1>3. /\ file' = NewFiles(h, Numbered(h))
      /\ table' = Rewritten(h, Numbered(h))
      /\ sync' = Recorded(h)
      /\ stored' = Promised(h)
      /\ dropped' = dropped \cup Taken(w, h)
      /\ handle' = [handle EXCEPT ![w] = x]
  BY DEF DoFlush, h
<1>4. /\ IsTable(table)'
      /\ file' \in Seq(Seq(CellVal))
      /\ sync' \in [rows : Nat, cols : Nat, changes : Nat]
      /\ FilesFit' /\ RecordFollows' /\ CellsSurvive'
      /\ table'.rows = h.rows
      /\ DOMAIN file \subseteq DOMAIN file'
      /\ \A f \in DOMAIN file : Len(file'[f]) >= Len(file[f])
  BY <1>2, <1>3, FlushKeepsTable DEF IInv
<1>5. /\ IsBacking(x) /\ x.mine = x.pend
      /\ x.held = held /\ x.rows = h.rows /\ x.doing = "rest"
  <2>1. h \in [rows : Nat, cols : Seq(Cols), added : SUBSET Cols, removed : BOOLEAN,
               gone : SUBSET Cols, pend : {h.pend}, mine : {h.mine}, dirty : BOOLEAN,
               seen : Seq(Cols), held : BOOLEAN, doing : {"open", "rest", "flush"}]
    BY <1>2 DEF IsBacking
  <2>2. /\ x \in [rows : Nat, cols : Seq(Cols), added : SUBSET Cols, removed : BOOLEAN,
                  gone : SUBSET Cols, pend : {NoPuts}, mine : {NoPuts}, dirty : BOOLEAN,
                  seen : Seq(Cols), held : BOOLEAN, doing : {"open", "rest", "flush"}]
        /\ x.held = h.held /\ x.rows = h.rows /\ x.doing = "rest"
    BY <2>1 DEF Cleared
  <2>. QED
    BY <1>2, <2>2, NoPutsType DEF IsBacking
<1>. HIDE DEF x
<1>6. handle'[w] = x /\ \A v \in Writers \ {w} : handle'[v] = handle[v]
  BY <1>1, <1>3
<1>7. /\ lock \in [writer : Writers \cup {None}, readers : SUBSET Readers]
      /\ lock.readers = {}
      /\ \A v \in Writers : lock.writer = v => v = w
  BY TableSyncAssumption DEF IInv, TypeInv, Free
<1>8. /\ lock' \in [writer : Writers \cup {None}, readers : SUBSET Readers]
      /\ held => lock' = lock
  BY <1>7
<1>9. \A r \in Readers : reader[r] # None => reader[r].held = "no"
  BY <1>7 DEF IInv, ReaderKnows
<1>10. TypeInv'
  <2>1. \A v \in Writers : handle'[v] # None => IsBacking(handle'[v])
    BY <1>5, <1>6 DEF IInv, TypeInv
  <2>2. DOMAIN handle' = Writers
    BY <1>1, <1>3
  <2>3. ASSUME NEW r \in Readers, reader[r] # None
        PROVE  IsSnapshot(reader[r])'
    <3>1. IsSnapshot(reader[r])
      BY <2>3 DEF IInv, TypeInv
    <3>. QED
      BY <1>4, <3>1 DEF IsSnapshot, IsTable
  <2>4. DOMAIN reader' = Readers
    BY DEF IInv, TypeInv
  <2>. QED
    BY <1>4, <1>8, <2>1, <2>2, <2>3, <2>4 DEF TypeInv, IsBacking, ArePuts
<1>11. PutsPending'
  BY <1>5, <1>6 DEF IInv, PutsPending
<1>12. HolderKnows'
  <2>1. ASSUME NEW v \in Writers, v # w, handle[v] # None
        PROVE  ~handle[v].held /\ (v \in Careful => handle[v].doing # "flush")
    BY <1>7, <2>1 DEF IInv, HolderKnows
  <2>2. held => lock'.writer = w /\ x.rows >= table'.rows
    <3>1. h.rows \in Nat
      BY <1>2 DEF IsBacking
    <3>. QED
      BY <1>4, <1>5, <1>8, <3>1 DEF IInv, HolderKnows
  <2>. QED
    BY <1>5, <1>6, <2>1, <2>2 DEF HolderKnows
<1>13. RowsSurvive'
  <2>1. w \in Careful => <<"rows", w>> \notin Taken(w, h)
    <3>. SUFFICES ASSUME w \in Careful PROVE <<"rows", w>> \notin Taken(w, h)
      OBVIOUS
    <3>1. h.rows >= table.rows
      BY <1>2 DEF IInv, HolderKnows
    <3>2. h.rows \in Nat /\ table.rows \in Nat
      BY <1>2 DEF IsBacking, IInv, TypeInv, IsTable
    <3>. QED
      BY <3>1, <3>2 DEF Taken
  <2>2. \A v : v # w => <<"rows", v>> \notin Taken(w, h)
    BY DEF Taken
  <2>. QED
    BY <1>3, <2>1, <2>2 DEF IInv, RowsSurvive
<1>14. ReaderKnows'
  <2>. SUFFICES ASSUME NEW r \in Readers, reader[r] # None,
                       NEW c \in DOMAIN reader[r].snap.file
                PROVE  Len(file'[reader[r].snap.file[c]]) >= reader[r].snap.rows
    BY <1>9 DEF ReaderKnows
  <2>. DEFINE f == reader[r].snap.file[c]
  <2>1. IsSnapshot(reader[r])
    BY DEF IInv, TypeInv
  <2>2. f \in DOMAIN file /\ reader[r].snap.rows \in Nat
    BY <2>1 DEF IsSnapshot, IsTable
  <2>3. Len(file[f]) >= reader[r].snap.rows
    BY DEF IInv, ReaderKnows
  <2>4. Len(file[f]) \in Nat /\ Len(file'[f]) \in Nat
    <3>1. file[f] \in Seq(CellVal)
      BY <2>2 DEF IInv, TypeInv
    <3>2. file'[f] \in Seq(CellVal)
      BY <1>4, <2>2
    <3>3. \A s \in Seq(CellVal) : Len(s) \in Nat
      OBVIOUS
    <3>. HIDE DEF f
    <3>. QED
      BY <3>1, <3>2, <3>3
  <2>. QED
    BY <1>4, <2>2, <2>3, <2>4
<1>. QED
  BY <1>4, <1>10, <1>11, <1>12, <1>13, <1>14 DEF IInv

(* A backing stays one, and keeps what else is said of it, when its parts  *)
(* are replaced by others of their type.                                   *)
LEMMA BackingParts ==
  ASSUME NEW h, IsBacking(h)
  PROVE  /\ \A n \in Nat : /\ IsBacking([h EXCEPT !.rows = n])
                           /\ [h EXCEPT !.rows = n].rows = n
         /\ IsBacking([h EXCEPT !.dirty = TRUE])
         /\ IsBacking([h EXCEPT !.held = TRUE])
         /\ IsBacking([h EXCEPT !.doing = "rest"])
         /\ IsBacking([h EXCEPT !.doing = "flush"])
         /\ h.rows \in Nat /\ h.cols \in Seq(Cols) /\ h.held \in BOOLEAN
BY DEF IsBacking

(* A backing read from the directory is in order.                          *)
LEMMA NewHandleType ==
  ASSUME TypeInv
  PROVE  LET h == NewHandle(sync.rows, table.cols)
         IN  /\ IsBacking(h) /\ IsBacking([h EXCEPT !.doing = "open"])
             /\ h.mine = h.pend /\ ~h.held /\ h.doing = "rest"
BY NoPutsType DEF TypeInv, IsTable, NewHandle, IsBacking

(* A new backing holds no lock and has nothing pending.                    *)
LEMMA OpenKeeps ==
  ASSUME IInv, NEW w \in Writers, Open(w)
  PROVE  IInv'
<1>. DEFINE h == NewHandle(sync.rows, table.cols)
            x == [h EXCEPT !.doing = "open"]
<1>1. IsBacking(x) /\ x.mine = x.pend /\ ~x.held /\ x.doing = "open"
  BY NewHandleType DEF IInv, NewHandle
<1>2. handle' = [handle EXCEPT ![w] = x]
  BY DEF Open
<1>. HIDE DEF x
<1>. QED
  BY <1>1, <1>2, BackingKeeps DEF Open

(* The wait for the lock at an open changes nothing else.                  *)
LEMMA OpenedKeeps ==
  ASSUME IInv, NEW w \in Writers, Opened(w)
  PROVE  IInv'
<1>. DEFINE h == handle[w]
            x == [h EXCEPT !.doing = "rest"]
<1>1. IsBacking(h) /\ h.mine = h.pend /\ (h.held => lock.writer = w /\ h.rows >= table.rows)
  BY DEF Opened, IInv, TypeInv, PutsPending, HolderKnows
<1>2. IsBacking(x)
  BY <1>1, BackingParts
<1>3. x.mine = h.mine /\ x.pend = h.pend /\ x.held = h.held /\ x.rows = h.rows /\ x.doing = "rest"
  BY <1>1 DEF IsBacking
<1>4. handle' = [handle EXCEPT ![w] = x]
  BY DEF Opened
<1>5. UNCHANGED <<table, file, sync, lock, reader, stored, dropped>>
  BY DEF Opened
<1>6. IsBacking(x) /\ x.mine = x.pend
  BY <1>1, <1>2, <1>3
<1>7. x.held => lock'.writer = w /\ x.rows >= table.rows
  BY <1>1, <1>3, <1>5
<1>8. w \in Careful /\ x.doing = "flush" => x.held
  BY <1>1, <1>3
<1>. HIDE DEF h, x
<1>. QED
  BY <1>4, <1>5, <1>6, <1>7, <1>8, BackingKeeps

(* The backing read afresh gives up the lock the old one had.              *)
LEMMA ReopenKeeps ==
  ASSUME IInv, NEW w \in Writers, Reopen(w)
  PROVE  IInv'
<1>. DEFINE x == NewHandle(sync.rows, table.cols)
<1>1. IsBacking(x) /\ x.mine = x.pend /\ ~x.held /\ x.doing = "rest"
  BY NewHandleType DEF IInv
<1>2. handle[w].held => lock.writer = w
  BY DEF Reopen, AtRest, IInv, HolderKnows
<1>3. handle' = [handle EXCEPT ![w] = x]
  BY DEF Reopen
<1>. HIDE DEF x
<1>. QED
  BY <1>1, <1>2, <1>3, BackingKeeps DEF Reopen

(* A closed backing leaves the lock to the others.                         *)
LEMMA CloseKeeps ==
  ASSUME IInv, NEW w \in Writers, Close(w)
  PROVE  IInv'
<1>1. handle[w].held => lock.writer = w
  BY DEF Close, AtRest, IInv, HolderKnows
<1>. QED
  BY <1>1, BackingKeeps DEF Close

(* Whoever takes the lock adopts the rows of the record, which are the     *)
(* table's.                                                                *)
LEMMA LockKeeps ==
  ASSUME IInv, NEW w \in Writers, Lock(w)
  PROVE  IInv'
<1>. DEFINE h == handle[w]
            n == IF sync.rows > h.rows THEN sync.rows ELSE h.rows
            x == [Adopted(h) EXCEPT !.held = TRUE]
<1>1. IsBacking(h) /\ h.mine = h.pend /\ h.doing = "rest"
  BY DEF Lock, AtRest, IInv, TypeInv, PutsPending
<1>2. sync.rows = table.rows /\ sync.rows \in Nat /\ h.rows \in Nat
  BY <1>1, BackingParts DEF IInv, RecordFollows, TypeInv
<1>3. n \in Nat /\ n >= table.rows
  BY <1>2
<1>4. Adopted(h) = [h EXCEPT !.rows = n]
  BY DEF Adopted
<1>5. IsBacking(x) /\ x.rows = n /\ x.mine = h.mine /\ x.pend = h.pend /\ x.doing = h.doing
  BY <1>1, <1>3, <1>4 DEF IsBacking
<1>6. handle' = [handle EXCEPT ![w] = x] /\ lock.writer \in {None, w}
  BY DEF Lock, Free
<1>7. lock'.writer = w
  BY DEF Lock, IInv, TypeInv
<1>. HIDE DEF x, h, n
<1>. QED
  BY <1>1, <1>3, <1>5, <1>6, <1>7, BackingKeeps DEF Lock

(* A careful writer begins a flush with the lock held.                     *)
LEMMA BeginFlushKeeps ==
  ASSUME IInv, NEW w \in Writers, BeginFlush(w)
  PROVE  IInv'
<1>. DEFINE h == handle[w]
            x == [h EXCEPT !.doing = "flush"]
<1>1. /\ IsBacking(h) /\ h.mine = h.pend
      /\ h.held => lock.writer = w /\ h.rows >= table.rows
      /\ w \in Careful => h.held
  BY DEF BeginFlush, AtRest, Allowed, IInv, TypeInv, PutsPending, HolderKnows
<1>2. IsBacking(x)
  BY <1>1, BackingParts
<1>3. x.mine = h.mine /\ x.pend = h.pend /\ x.held = h.held /\ x.rows = h.rows
  BY <1>1 DEF IsBacking
<1>4. handle' = [handle EXCEPT ![w] = x]
  BY DEF BeginFlush
<1>5. UNCHANGED <<table, file, sync, lock, reader, stored, dropped>>
  BY DEF BeginFlush
<1>6. IsBacking(x) /\ x.mine = x.pend
  BY <1>1, <1>2, <1>3
<1>7. x.held => lock'.writer = w /\ x.rows >= table.rows
  BY <1>1, <1>3, <1>5
<1>8. w \in Careful /\ x.doing = "flush" => x.held
  BY <1>1, <1>3
<1>. HIDE DEF h, x
<1>. QED
  BY <1>4, <1>5, <1>6, <1>7, <1>8, BackingKeeps

(* The flush that waited for the lock.                                     *)
LEMMA FlushStepKeeps ==
  ASSUME IInv, NEW w \in Writers, Flush(w)
  PROVE  IInv'
<1>. DEFINE held == handle[w].held
<1>1. handle[w] # None /\ Free(w) /\ DoFlush(w, handle[w]) /\ lock' = lock /\ reader' = reader
  BY DEF Flush
<1>2. IsBacking(handle[w])
  BY <1>1 DEF IInv, TypeInv
<1>3. held \in BOOLEAN /\ handle[w] = [handle[w] EXCEPT !.held = held]
  BY <1>2 DEF IsBacking
<1>4. w \in Careful => held
  BY <1>1 DEF Flush, IInv, HolderKnows
<1>5. DoFlush(w, [handle[w] EXCEPT !.held = held])
  BY <1>1, <1>3
<1>. HIDE DEF held
<1>. QED
  BY <1>1, <1>3, <1>4, <1>5, FlushKeeps DEF held

(* The flush of unlock(), which gives the lock up.                         *)
LEMMA UnlockKeeps ==
  ASSUME IInv, NEW w \in Writers, Unlock(w)
  PROVE  IInv'
<1>1. handle[w] # None /\ Free(w) /\ (w \in Careful => handle[w].held)
  BY DEF Unlock, AtRest, Allowed
<1>. QED
  BY <1>1, FlushKeeps DEF Unlock

(* An edit of a backing at rest keeps the invariant if it keeps the        *)
(* backing's hold on the lock and none of its rows go.                     *)
LEMMA EditKeeps ==
  ASSUME IInv, NEW w \in Writers, NEW h, Edit(w, h),
         IsBacking(h), h.mine = h.pend,
         h.held = handle[w].held, h.doing = handle[w].doing,
         h.rows >= handle[w].rows
  PROVE  IInv'
<1>. DEFINE x == [h EXCEPT !.dirty = TRUE]
<1>1. IsBacking(handle[w]) /\ handle[w].doing = "rest"
  BY DEF Edit, AtRest, IInv, TypeInv
<1>2. IsBacking(x)
  BY BackingParts
<1>3. x.mine = h.mine /\ x.pend = h.pend /\ x.held = h.held /\ x.rows = h.rows /\ x.doing = h.doing
  BY DEF IsBacking
<1>4. /\ handle' = [handle EXCEPT ![w] = x]
      /\ UNCHANGED <<table, file, sync, lock, reader, stored, dropped>>
  BY DEF Edit
<1>5. x.held => lock'.writer = w /\ x.rows >= table.rows
  <2>. SUFFICES ASSUME x.held PROVE lock'.writer = w /\ x.rows >= table.rows
    OBVIOUS
  <2>1. lock.writer = w /\ handle[w].rows >= table.rows
    BY <1>3 DEF Edit, AtRest, IInv, HolderKnows
  <2>2. table.rows \in Nat /\ handle[w].rows \in Nat /\ h.rows \in Nat
    BY <1>1, BackingParts DEF IInv, TypeInv, IsTable
  <2>. QED
    BY <1>3, <1>4, <2>1, <2>2
<1>. HIDE DEF x
<1>. QED
  BY <1>1, <1>2, <1>3, <1>4, <1>5, BackingKeeps

(* addrows: the backing has a row more.                                    *)
LEMMA AddRowKeeps ==
  ASSUME IInv, NEW w \in Writers, AddRow(w)
  PROVE  IInv'
<1>. DEFINE h == handle[w]
            x == [h EXCEPT !.rows = h.rows + 1]
<1>1. IsBacking(h) /\ h.mine = h.pend /\ h.rows \in Nat
  BY BackingParts DEF AddRow, IInv, TypeInv, PutsPending
<1>2. IsBacking(x) /\ x.rows = h.rows + 1
  <2>1. h.rows + 1 \in Nat
    BY <1>1
  <2>. HIDE DEF h
  <2>. QED
    BY <1>1, <2>1, BackingParts
<1>3. x.mine = h.mine /\ x.pend = h.pend /\ x.held = h.held /\ x.doing = h.doing
  BY <1>1 DEF IsBacking
<1>4. Edit(w, x)
  BY DEF AddRow
<1>5. x.rows >= h.rows
  BY <1>1, <1>2
<1>. HIDE DEF x
<1>. QED
  BY <1>1, <1>2, <1>3, <1>4, <1>5, EditKeeps

(* Puts stay puts with one more of them, or without those of a column.     *)
LEMMA PutsTypes ==
  ASSUME NEW p, ArePuts(p), NEW c \in Cols
  PROVE  /\ \A i \in Nat, v \in Vals : ArePuts(With(p, <<c, i>>, v))
         /\ ArePuts(Without(p, c))
<1>1. \A x \in DOMAIN p : p[x] \in CellVal /\ x \in Cols \X Nat
  BY DEF ArePuts
<1>2. ASSUME NEW i \in Nat, NEW v \in Vals
      PROVE  ArePuts(With(p, <<c, i>>, v))
  <2>. DEFINE new == With(p, <<c, i>>, v)
  <2>1. DOMAIN new = DOMAIN p \cup {<<c, i>>}
    BY DEF With
  <2>2. \A x \in DOMAIN new : new[x] \in CellVal /\ x \in Cols \X Nat
    BY <1>1, <2>1 DEF With, CellVal
  <2>3. new = [x \in DOMAIN new |-> new[x]]
    BY DEF With
  <2>. HIDE DEF new
  <2>. QED
    BY <2>2, <2>3 DEF ArePuts, new
<1>3. ArePuts(Without(p, c))
  <2>1. Without(p, c) = [x \in {y \in DOMAIN p : y[1] # c} |-> p[x]]
    BY DEF Without, Restrict
  <2>. QED
    BY <1>1, <2>1 DEF ArePuts
<1>. QED
  BY <1>2, <1>3

(* A put is pending, and remembered.                                       *)
LEMMA PutCellKeeps ==
  ASSUME IInv, NEW w \in Writers, NEW c \in Cols, NEW i \in 1..MaxRows, NEW v \in Vals,
         PutCell(w, c, i, v)
  PROVE  IInv'
<1>. DEFINE h == handle[w]
            new == With(h.pend, <<c, i>>, v)
            x == [h EXCEPT !.pend = new, !.mine = new]
<1>1. IsBacking(h) /\ h.mine = h.pend /\ h.rows \in Nat
  BY BackingParts DEF PutCell, IInv, TypeInv, PutsPending
<1>2. i \in Nat
  BY TableSyncAssumption
<1>3. ArePuts(new)
  BY <1>1, <1>2, PutsTypes DEF IsBacking
<1>4. /\ IsBacking(x) /\ x.mine = x.pend
      /\ x.held = h.held /\ x.doing = h.doing /\ x.rows = h.rows
  <2>. HIDE DEF new
  <2>. QED
    BY <1>1, <1>3 DEF IsBacking
<1>5. Edit(w, x)
  BY <1>1 DEF PutCell
<1>. HIDE DEF x
<1>. QED
  BY <1>1, <1>4, <1>5, EditKeeps

(* addcols: the backing's columns stay a list of names.                    *)
LEMMA AddColKeeps ==
  ASSUME IInv, NEW w \in Writers, NEW c \in Cols, AddCol(w, c)
  PROVE  IInv'
<1>. DEFINE h == handle[w]
            x == [h EXCEPT !.cols = Append(@, c), !.added = @ \cup {c}]
<1>1. IsBacking(h) /\ h.mine = h.pend /\ h.rows \in Nat
  BY BackingParts DEF AddCol, IInv, TypeInv, PutsPending
<1>2. Append(h.cols, c) \in Seq(Cols)
  <2>1. h.cols \in Seq(Cols)
    BY <1>1, BackingParts
  <2>. HIDE DEF h
  <2>. QED
    BY <2>1
<1>3. /\ IsBacking(x) /\ x.mine = x.pend
      /\ x.held = h.held /\ x.doing = h.doing /\ x.rows = h.rows
  BY <1>1, <1>2 DEF IsBacking
<1>4. Edit(w, x)
  BY DEF AddCol
<1>. HIDE DEF x
<1>. QED
  BY <1>1, <1>3, <1>4, EditKeeps

(* removecols: so they do with one of them out; its puts are forgotten.    *)
LEMMA RemoveColKeeps ==
  ASSUME IInv, NEW w \in Writers, NEW c \in Cols, RemoveCol(w, c)
  PROVE  IInv'
<1>. DEFINE h == handle[w]
            cols == RemoveFirst(h.cols, c)
            puts == Without(h.pend, c)
            x == [h EXCEPT !.cols = cols, !.removed = TRUE, !.gone = @ \cup {c},
                           !.pend = puts, !.mine = puts]
<1>1. IsBacking(h) /\ h.mine = h.pend /\ h.rows \in Nat /\ h.cols \in Seq(Cols)
  BY BackingParts DEF RemoveCol, IInv, TypeInv, PutsPending
<1>2. cols \in Seq(Cols)
  <2>1. PICK k \in 1..Len(h.cols) : h.cols[k] = c
    BY <1>1 DEF RemoveCol, ToSet
  <2>. DEFINE k0 == SelectInSeq(h.cols, LAMBDA d : d = c)
              I  == {j \in 1..Len(h.cols) : h.cols[j] = c}
  <2>2. k0 = Min(I)
    BY <2>1 DEF SelectInSeq
  <2>3. I \subseteq Nat /\ I # {}
    BY <2>1
  <2>4. k0 \in 1..Len(h.cols)
    BY <2>2, <2>3, LeastIsThere
  <2>5. cols = SubSeq(h.cols, 1, k0 - 1) \o SubSeq(h.cols, k0 + 1, Len(h.cols))
    BY <2>1 DEF RemoveFirst, RemoveAt
  <2>. HIDE DEF k0
  <2>6. SubSeq(h.cols, 1, k0 - 1) \in Seq(Cols) /\ SubSeq(h.cols, k0 + 1, Len(h.cols)) \in Seq(Cols)
    BY <1>1, <2>4
  <2>. QED
    BY <2>5, <2>6
<1>3. ArePuts(puts)
  BY <1>1, PutsTypes DEF IsBacking
<1>4. /\ IsBacking(x) /\ x.mine = x.pend
      /\ x.held = h.held /\ x.doing = h.doing /\ x.rows = h.rows
  <2>. HIDE DEF cols, puts
  <2>. QED
    BY <1>1, <1>2, <1>3 DEF IsBacking
<1>5. Edit(w, x)
  BY <1>1 DEF RemoveCol
<1>. HIDE DEF x
<1>. QED
  BY <1>1, <1>4, <1>5, EditKeeps

(* A step that only replaces one reader's Table, and takes or gives up the *)
(* read lock in its name, keeps the invariant if the new Table is in       *)
(* order.                                                                  *)
LEMMA TableKeeps ==
  ASSUME IInv, NEW r \in Readers, NEW x,
         reader' = [reader EXCEPT ![r] = x],
         UNCHANGED <<table, file, sync, handle, stored, dropped>>,
         \/ lock' = lock
         \/ lock' = [lock EXCEPT !.readers = @ \cup {r}]
         \/ lock' = [lock EXCEPT !.readers = @ \ {r}],
         x # None =>
           /\ IsSnapshot(x)
           /\ x.held # "no" => r \in lock'.readers /\ x.doing = "rest"
           /\ x.held = "synced" => x.snap.rows = table.rows
           /\ \A c \in DOMAIN x.snap.file : Len(file[x.snap.file[c]]) >= x.snap.rows
  PROVE  IInv'
<1>1. DOMAIN reader = Readers
  BY DEF IInv, TypeInv
<1>2. reader'[r] = x /\ \A q \in Readers \ {r} : reader'[q] = reader[q]
  BY <1>1
<1>3. lock \in [writer : Writers \cup {None}, readers : SUBSET Readers]
  BY DEF IInv, TypeInv
<1>4. /\ lock' \in [writer : Writers \cup {None}, readers : SUBSET Readers]
      /\ lock'.writer = lock.writer
      /\ \A q \in Readers \ {r} : q \in lock.readers => q \in lock'.readers
  BY <1>3
<1>5. TypeInv'
  <2>1. IsTable(table)' /\ (file \in Seq(Seq(CellVal)))'
    BY DEF IInv, TypeInv, IsTable
  <2>2. \A w \in Writers : handle'[w] # None => IsBacking(handle[w])'
    BY DEF IInv, TypeInv, IsBacking, ArePuts
  <2>3. \A q \in Readers : reader'[q] # None => IsSnapshot(reader'[q])
    BY <1>2 DEF IInv, TypeInv
  <2>4. \A q \in Readers : reader'[q] # None => IsSnapshot(reader[q])'
    BY <2>3 DEF IsSnapshot, IsTable
  <2>5. DOMAIN reader' = Readers /\ DOMAIN handle' = Writers
    BY <1>1 DEF IInv, TypeInv
  <2>6. (sync \in [rows : Nat, cols : Nat, changes : Nat])'
    BY DEF IInv, TypeInv
  <2>. QED
    BY <1>4, <2>1, <2>2, <2>4, <2>5, <2>6 DEF TypeInv
<1>6. FilesFit' /\ RecordFollows' /\ CellsSurvive' /\ RowsSurvive' /\ PutsPending'
  BY DEF IInv, FilesFit, RecordFollows, CellsSurvive, RowsSurvive, PutsPending
<1>7. HolderKnows'
  BY <1>4 DEF IInv, HolderKnows
<1>8. ReaderKnows'
  BY <1>2, <1>4 DEF IInv, ReaderKnows
<1>. QED
  BY <1>5, <1>6, <1>7, <1>8 DEF IInv

(* What the invariant says of a Table there is.                            *)
LEMMA SnapshotInOrder ==
  ASSUME IInv, NEW r \in Readers, reader[r] # None
  PROVE  /\ IsSnapshot(reader[r])
         /\ reader[r].held # "no" => reader[r].doing = "rest"
         /\ reader[r].held = "synced" => reader[r].snap.rows = table.rows
         /\ reader[r].held \in {"no", "opened", "failed", "synced"}
         /\ \A c \in DOMAIN reader[r].snap.file :
              Len(file[reader[r].snap.file[c]]) >= reader[r].snap.rows
BY DEF IInv, TypeInv, ReaderKnows, IsSnapshot

(* The table on disk makes a snapshot in order.                            *)
LEMMA TableInOrder ==
  ASSUME IInv
  PROVE  /\ IsTable(table)
         /\ sync \in [rows : Nat, cols : Nat, changes : Nat]
         /\ sync.rows = table.rows
         /\ \A c \in DOMAIN table.file : Len(file[table.file[c]]) >= table.rows
<1>1. IsTable(table) /\ DOMAIN table.file = ToSet(table.cols) /\ table.rows \in Nat
  BY DEF IInv, TypeInv, IsTable
<1>. QED
  BY <1>1 DEF IInv, TypeInv, RecordFollows, FilesFit

(* A Table is the table when it was read.                                  *)
LEMMA OpenReadKeeps ==
  ASSUME IInv, NEW r \in Readers, OpenRead(r)
  PROVE  IInv'
<1>. DEFINE x == [snap |-> table, seen |-> sync, doing |-> "open", held |-> "no"]
<1>1. IsSnapshot(x) /\ x.held = "no" /\ x.snap = table
  BY TableInOrder DEF IsSnapshot
<1>2. reader' = [reader EXCEPT ![r] = x]
  BY DEF OpenRead
<1>. HIDE DEF x
<1>. QED
  BY <1>1, <1>2, TableInOrder, TableKeeps DEF OpenRead

(* Reading the record leaves the snapshot alone.                           *)
LEMMA SeenRecordKeeps ==
  ASSUME IInv, NEW r \in Readers, SeenRecord(r)
  PROVE  IInv'
<1>. DEFINE x == [reader[r] EXCEPT !.seen = sync, !.doing = "wait"]
<1>1. reader[r] # None /\ reader[r].doing = "open" /\ reader[r].held = "no" /\ IsSnapshot(reader[r])
  BY SnapshotInOrder DEF SeenRecord
<1>2. IsSnapshot(x) /\ x.held = "no" /\ x.snap = reader[r].snap
  BY <1>1, TableInOrder DEF IsSnapshot
<1>3. reader' = [reader EXCEPT ![r] = x]
  BY DEF SeenRecord
<1>4. UNCHANGED <<table, file, sync, lock, handle, stored, dropped>>
  BY DEF SeenRecord
<1>. HIDE DEF x
<1>. QED
  BY <1>1, <1>2, <1>3, <1>4, SnapshotInOrder, TableKeeps

(* So does the wait for the lock.                                          *)
LEMMA OpenedReadKeeps ==
  ASSUME IInv, NEW r \in Readers, OpenedRead(r)
  PROVE  IInv'
<1>. DEFINE x == [reader[r] EXCEPT !.doing = "rest"]
<1>1. reader[r] # None /\ reader[r].doing = "wait" /\ reader[r].held = "no" /\ IsSnapshot(reader[r])
  BY SnapshotInOrder DEF OpenedRead
<1>2. IsSnapshot(x) /\ x.held = "no" /\ x.snap = reader[r].snap
  BY <1>1 DEF IsSnapshot
<1>3. reader' = [reader EXCEPT ![r] = x]
  BY DEF OpenedRead
<1>4. UNCHANGED <<table, file, sync, lock, handle, stored, dropped>>
  BY DEF OpenedRead
<1>. HIDE DEF x
<1>. QED
  BY <1>1, <1>2, <1>3, <1>4, SnapshotInOrder, TableKeeps

(* A lock that is kept from the open promises the snapshot's rows only.    *)
LEMMA KeptReadKeeps ==
  ASSUME IInv, NEW r \in Readers, KeptRead(r)
  PROVE  IInv'
<1>. DEFINE x == [reader[r] EXCEPT !.doing = "rest", !.held = "opened"]
<1>1. reader[r] # None /\ IsSnapshot(reader[r])
  BY SnapshotInOrder DEF KeptRead
<1>2. IsSnapshot(x) /\ x.held = "opened" /\ x.doing = "rest" /\ x.snap = reader[r].snap
  BY <1>1 DEF IsSnapshot
<1>3. reader' = [reader EXCEPT ![r] = x]
  BY DEF KeptRead
<1>4. UNCHANGED <<table, file, sync, handle, stored, dropped>>
      /\ lock' = [lock EXCEPT !.readers = @ \cup {r}]
  BY DEF KeptRead
<1>5. r \in lock'.readers
  BY <1>4 DEF IInv, TypeInv
<1>. HIDE DEF x
<1>. QED
  BY <1>1, <1>2, <1>3, <1>4, <1>5, SnapshotInOrder, TableKeeps

(* A reader that goes leaves no Table, and takes no lock with it but its   *)
(* own.                                                                    *)
LEMMA ReaderGoes ==
  ASSUME IInv, NEW r \in Readers, RefusedRead(r) \/ CloseRead(r)
  PROVE  IInv'
<1>1. /\ reader' = [reader EXCEPT ![r] = None]
      /\ UNCHANGED <<table, file, sync, handle, stored, dropped>>
      /\ lock' = lock \/ lock' = [lock EXCEPT !.readers = @ \ {r}]
  BY DEF RefusedRead, CloseRead
<1>. QED
  BY <1>1, TableKeeps

(* A resync leaves the rows of the record, with files that have them: its  *)
(* own where the record has not moved, the table's where it has.           *)
LEMMA LockReadKeeps ==
  ASSUME IInv, NEW r \in Readers, LockRead(r)
  PROVE  IInv'
<1>. DEFINE t == reader[r]
            x == Resynced(t)
<1>1. t # None /\ IsSnapshot(t) /\ t.doing = "rest"
      /\ \A c \in DOMAIN t.snap.file : Len(file[t.snap.file[c]]) >= t.snap.rows
  BY SnapshotInOrder DEF LockRead
<1>2. /\ IsTable(table)
      /\ sync \in [rows : Nat, cols : Nat, changes : Nat]
      /\ sync.rows = table.rows
      /\ \A c \in DOMAIN table.file : Len(file[table.file[c]]) >= table.rows
  BY TableInOrder
<1>3. reader' = [reader EXCEPT ![r] = x]
      /\ UNCHANGED <<table, file, sync, handle, stored, dropped>>
      /\ lock' = [lock EXCEPT !.readers = @ \cup {r}]
  BY DEF LockRead
<1>4. r \in lock'.readers
  BY <1>3 DEF IInv, TypeInv
<1>5. /\ IsSnapshot(x) /\ x.doing = "rest"
      /\ x.held = "synced" => x.snap.rows = table.rows
      /\ \A c \in DOMAIN x.snap.file : Len(file[x.snap.file[c]]) >= x.snap.rows
  <2>1. CASE sync.cols # Len(t.snap.cols)
    <3>1. x = [t EXCEPT !.held = "failed"]
      BY <2>1 DEF Resynced
    <3>2. IsSnapshot(x) /\ x.held = "failed" /\ x.doing = "rest" /\ x.snap = t.snap
      BY <1>1, <3>1 DEF IsSnapshot
    <3>. QED
      BY <1>1, <3>2
  <2>2. CASE sync.cols = Len(t.snap.cols)
    <3>. DEFINE snap == IF Moved(t) THEN table ELSE t.snap
    <3>1. x = [t EXCEPT !.held = "synced", !.seen = sync, !.snap = snap]
      BY <2>2 DEF Resynced
    <3>2. /\ IsTable(snap) /\ snap.rows = table.rows
          /\ \A c \in DOMAIN snap.file : Len(file[snap.file[c]]) >= snap.rows
      BY <1>1, <1>2 DEF Moved, IsSnapshot
    <3>. HIDE DEF snap
    <3>3. IsSnapshot(x) /\ x.doing = "rest" /\ x.snap = snap
      BY <1>1, <1>2, <3>1, <3>2 DEF IsSnapshot
    <3>. QED
      BY <3>2, <3>3
  <2>. QED
    BY <2>1, <2>2
<1>. HIDE DEF x
<1>. QED
  BY <1>3, <1>4, <1>5, TableKeeps

(* A Table without the lock promises its own rows only.                    *)
LEMMA UnlockReadKeeps ==
  ASSUME IInv, NEW r \in Readers, UnlockRead(r)
  PROVE  IInv'
<1>. DEFINE x == [reader[r] EXCEPT !.held = "no"]
<1>1. reader[r] # None /\ IsSnapshot(reader[r])
  BY SnapshotInOrder DEF UnlockRead
<1>2. IsSnapshot(x) /\ x.held = "no" /\ x.snap = reader[r].snap
  BY <1>1 DEF IsSnapshot
<1>3. reader' = [reader EXCEPT ![r] = x]
  BY DEF UnlockRead
<1>4. UNCHANGED <<table, file, sync, handle, stored, dropped>>
      /\ lock' = [lock EXCEPT !.readers = @ \ {r}]
  BY DEF UnlockRead
<1>. HIDE DEF x
<1>. QED
  BY <1>1, <1>2, <1>3, <1>4, SnapshotInOrder, TableKeeps
-----------------------------------------------------------------------------
(* The invariant.                                                          *)

(* The invariant holds of the table as created, with nobody at it.         *)
LEMMA InitInvariant == Init => IInv
<1>. SUFFICES ASSUME Init PROVE IInv
  OBVIOUS
<1>. DEFINE n == Len(FirstCols)
<1>1. FirstCols \in Seq(Cols) /\ n \in Nat
  BY TableSyncAssumption
<1>2. ASSUME NEW c \in ToSet(FirstCols)
      PROVE  Place(c, FirstCols) \in 1..n /\ FirstCols[Place(c, FirstCols)] = c
  <2>. DEFINE I == {k \in 1..n : FirstCols[k] = c}
  <2>1. I \subseteq Nat /\ I # {}
    BY <1>1 DEF ToSet
  <2>2. Place(c, FirstCols) = Min(I)
    BY <2>1 DEF Place, SelectInSeq
  <2>. QED
    BY <2>1, <2>2, LeastIsThere
<1>3. /\ table.cols = FirstCols /\ table.rows = 1
      /\ table.file = [c \in ToSet(FirstCols) |-> Place(c, FirstCols)]
      /\ table = [cols |-> FirstCols, rows |-> 1, file |-> table.file]
  BY DEF Init
<1>4. file = [f \in 1..n |-> <<0>>] /\ DOMAIN file = 1..n
  BY DEF Init
<1>5. <<0>> \in Seq(CellVal) /\ Len(<<0>>) = 1
  BY DEF CellVal
<1>6. table.file \in [ToSet(table.cols) -> DOMAIN file] /\ IsTable(table)
  <2>1. table.file \in [ToSet(table.cols) -> DOMAIN file]
    BY <1>2, <1>3, <1>4
  <2>. QED
    BY <1>1, <1>3, <2>1 DEF IsTable
<1>7. file \in Seq(Seq(CellVal))
  BY <1>1, <1>4, <1>5
<1>8. /\ sync \in [rows : Nat, cols : Nat, changes : Nat]
      /\ lock \in [writer : Writers \cup {None}, readers : SUBSET Readers]
      /\ DOMAIN handle = Writers /\ \A w \in Writers : handle[w] = None
      /\ DOMAIN reader = Readers /\ \A r \in Readers : reader[r] = None
  BY <1>1 DEF Init
<1>9. TypeInv /\ PutsPending /\ HolderKnows /\ ReaderKnows
  BY <1>6, <1>7, <1>8 DEF TypeInv, PutsPending, HolderKnows, ReaderKnows
<1>10. FilesFit
  BY <1>2, <1>3, <1>4, <1>5 DEF FilesFit, IsInjective
<1>11. RecordFollows /\ RowsSurvive
  BY <1>3 DEF Init, RecordFollows, RowsSurvive
<1>12. CellsSurvive
  <2>1. stored = [c \in ToSet(FirstCols) |-> <<0>>]
    BY DEF Init
  <2>2. \A c \in ToSet(FirstCols) : file[table.file[c]] = <<0>>
    BY <1>2, <1>3, <1>4
  <2>. QED
    BY <1>3, <2>1, <2>2 DEF CellsSurvive
<1>. QED
  BY <1>9, <1>10, <1>11, <1>12 DEF IInv

(* Every step keeps it.                                                    *)
LEMMA NextInvariant == IInv /\ [Next]_vars => IInv'
<1>. SUFFICES ASSUME IInv, [Next]_vars PROVE IInv'
  OBVIOUS
<1>1. CASE UNCHANGED vars
  <2>1. TypeInv'
    BY <1>1 DEF IInv, vars, TypeInv, IsTable, IsBacking, ArePuts, IsSnapshot
  <2>2. FilesFit' /\ RecordFollows' /\ CellsSurvive' /\ RowsSurvive'
    BY <1>1 DEF IInv, vars, FilesFit, RecordFollows, CellsSurvive, RowsSurvive
  <2>3. PutsPending' /\ HolderKnows' /\ ReaderKnows'
    BY <1>1 DEF IInv, vars, PutsPending, HolderKnows, ReaderKnows
  <2>. QED
    BY <2>1, <2>2, <2>3 DEF IInv
<1>2. ASSUME NEW w \in Writers,
             Open(w) \/ Opened(w) \/ Reopen(w) \/ AddRow(w) \/ Lock(w) \/ Close(w)
      PROVE  IInv'
  BY <1>2, OpenKeeps, OpenedKeeps, ReopenKeeps, AddRowKeeps, LockKeeps, CloseKeeps
<1>3. ASSUME NEW w \in Writers, NEW c \in Cols, NEW i \in 1..MaxRows, NEW v \in Vals,
             PutCell(w, c, i, v)
      PROVE  IInv'
  BY <1>3, PutCellKeeps
<1>4. ASSUME NEW w \in Writers, BeginFlush(w) \/ Flush(w) \/ Unlock(w)
      PROVE  IInv'
  BY <1>4, BeginFlushKeeps, FlushStepKeeps, UnlockKeeps
<1>5. ASSUME NEW w \in Adders, NEW c \in Cols, AddCol(w, c) \/ RemoveCol(w, c)
      PROVE  IInv'
  BY <1>5, AddColKeeps, RemoveColKeeps, TableSyncAssumption
<1>6. ASSUME NEW r \in Readers,
             \/ OpenRead(r) \/ SeenRecord(r) \/ OpenedRead(r) \/ KeptRead(r) \/ RefusedRead(r)
             \/ LockRead(r) \/ UnlockRead(r) \/ CloseRead(r)
      PROVE  IInv'
  BY <1>6, OpenReadKeeps, SeenRecordKeeps, OpenedReadKeeps, KeptReadKeeps, ReaderGoes,
     LockReadKeeps, UnlockReadKeeps
<1>. QED
  BY <1>1, <1>2, <1>3, <1>4, <1>5, <1>6 DEF Next

(* It holds always.                                                        *)
LEMMA InductiveInvariant == Spec => []IInv
<1>1. Init => IInv
  BY InitInvariant
<1>2. IInv /\ [Next]_vars => IInv'
  BY NextInvariant
<1>. QED
  BY <1>1, <1>2, PTL DEF Spec
-----------------------------------------------------------------------------
(* The results.                                                            *)

(* No file ever goes or loses rows, whoever flushes what: a reader's       *)
(* mapping of it stays good for the rows it was made for.                  *)
FilesGrow ==
  \A f \in DOMAIN file : f \in DOMAIN file' /\ Len(file'[f]) >= Len(file[f])

(* A flush writes the rows it finds in a file back, or more, or leaves the *)
(* file alone.                                                             *)
LEMMA FlushGrows ==
  ASSUME IInv, NEW w \in Writers, handle[w] # None, NEW held \in BOOLEAN,
         DoFlush(w, [handle[w] EXCEPT !.held = held])
  PROVE  FilesGrow
<1>. DEFINE h == [handle[w] EXCEPT !.held = held]
<1>1. IsBacking(handle[w]) /\ handle[w].mine = handle[w].pend
  BY DEF IInv, TypeInv, PutsPending
<1>2. IsBacking(h) /\ h.mine = h.pend
  BY <1>1 DEF IsBacking
<1>. HIDE DEF h
<1>3. /\ file' = NewFiles(h, Numbered(h))
      /\ table' = Rewritten(h, Numbered(h))
      /\ sync' = Recorded(h)
      /\ stored' = Promised(h)
  BY DEF DoFlush, h
<1>. QED
  BY <1>2, <1>3, FlushKeepsTable DEF IInv, FilesGrow

(* The files a reader has mapped never shrink under it: flushes grow a     *)
(* file in place or put a new one in its stead (datafile.rs,               *)
(* grow_in_place, create_table).                                           *)
THEOREM FilesOnlyGrow == Spec => [][FilesGrow]_vars
<1>1. ASSUME IInv, [Next]_vars
      PROVE  [FilesGrow]_vars
  <2>1. file' = file => FilesGrow
    <3>1. \A f \in DOMAIN file : Len(file[f]) \in Nat
      BY <1>1 DEF IInv, TypeInv
    <3>. QED
      BY <3>1 DEF FilesGrow
  <2>2. ASSUME NEW w \in Writers, Flush(w)
        PROVE  FilesGrow
    <3>1. IsBacking(handle[w]) /\ handle[w] # None
      BY <1>1, <2>2 DEF Flush, IInv, TypeInv
    <3>2. handle[w].held \in BOOLEAN /\ handle[w] = [handle[w] EXCEPT !.held = handle[w].held]
      BY <3>1 DEF IsBacking
    <3>3. DoFlush(w, [handle[w] EXCEPT !.held = handle[w].held])
      BY <2>2, <3>2 DEF Flush
    <3>. QED
      BY <1>1, <3>1, <3>2, <3>3, FlushGrows
  <2>3. ASSUME NEW w \in Writers, Unlock(w)
        PROVE  FilesGrow
    BY <1>1, <2>3, FlushGrows DEF Unlock, AtRest
  <2>4. ASSUME NEW w \in Writers,
               \/ Open(w) \/ Opened(w) \/ Reopen(w) \/ AddRow(w)
               \/ \E c \in Cols, i \in 1..MaxRows, v \in Vals : PutCell(w, c, i, v)
               \/ BeginFlush(w) \/ Lock(w) \/ Close(w)
        PROVE  file' = file
    BY <2>4 DEF Open, Opened, Reopen, AddRow, PutCell, Edit, BeginFlush, Lock, Close
  <2>5. ASSUME NEW w \in Adders, NEW c \in Cols, AddCol(w, c) \/ RemoveCol(w, c)
        PROVE  file' = file
    BY <2>5 DEF AddCol, RemoveCol, Edit
  <2>6. ASSUME NEW r \in Readers,
               \/ OpenRead(r) \/ SeenRecord(r) \/ OpenedRead(r) \/ KeptRead(r) \/ RefusedRead(r)
               \/ LockRead(r) \/ UnlockRead(r) \/ CloseRead(r)
        PROVE  file' = file
    BY <2>6 DEF OpenRead, SeenRecord, OpenedRead, KeptRead, RefusedRead, LockRead, UnlockRead, CloseRead
  <2>. QED
    BY <1>1, <2>1, <2>2, <2>3, <2>4, <2>5, <2>6 DEF Next
<1>. QED
  BY <1>1, InductiveInvariant, PTL DEF Spec

(* Every cell of the table holds what the flushes put there last, in the   *)
(* order they took the lock, for any number of writers adding, removing    *)
(* and rewriting columns (flush_locked).                                   *)
THEOREM CellsAlwaysSurvive == Spec => []CellsSurvive
<1>1. IInv => CellsSurvive
  BY DEF IInv
<1>. QED
  BY <1>1, InductiveInvariant, PTL

(* A process that edits and flushes under its lock never takes away rows   *)
(* another has added (WritableTable::lock).                                *)
THEOREM RowsAlwaysSurvive == Spec => []RowsSurvive
<1>1. IInv => RowsSurvive
  BY DEF IInv
<1>. QED
  BY <1>1, InductiveInvariant, PTL

(* A reader that resynced has the rows the table has, in files that have   *)
(* them too.                                                               *)
LEMMA LockedFollows == IInv => LockedSeesRows
<1>. SUFFICES ASSUME IInv, NEW r \in Readers, reader[r] # None, reader[r].held = "synced"
              PROVE  SeesRows(reader[r])
  BY DEF LockedSeesRows
<1>. QED
  BY DEF IInv, ReaderKnows, SeesRows

(* A reader that took its lock by lock() never counts on rows its files do *)
(* not have, nor misses rows the table has, as long as it holds it, for    *)
(* any number of writers, and readers that lock otherwise (Table::lock).   *)
THEOREM LockedAlwaysSeesRows == Spec => []LockedSeesRows
BY InductiveInvariant, LockedFollows, PTL
=============================================================================
