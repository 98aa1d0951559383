------------------------------ MODULE TableSync ------------------------------
(***************************************************************************)
(* One table written by several processes under its lock: the writers lock *)
(* by hand (user locking), the readers as they like.                       *)
(*                                                                         *)
(* A writer is the Python binding's shared backing of a directory, with    *)
(* its own idea of the rows and columns (WriteData, WritableTable); a      *)
(* reader is a Table: what it parsed when it was opened, over files it     *)
(* has mapped; if it locks permanently or automatically it keeps the lock  *)
(* its open waits for.  Whoever takes the write lock stores a sync record  *)
(* in the lock file when it lets go: the rows, the columns, and a counter  *)
(* of changes to the table.  Others learn of the change from that record.  *)
(*                                                                         *)
(* A flush that found the lock free is one step here: TableStore takes it  *)
(* apart.  What is read before the wait for the lock, and used after it,   *)
(* is a step of its own.                                                   *)
(***************************************************************************)
EXTENDS Naturals, Sequences, FiniteSets, SequencesExt, FiniteSetsExt, Functions

CONSTANTS
  Writers, Readers, \* the processes
  Cols,             \* the column names
  FirstCols,        \* the columns of the table at the start, in order
  Adders,           \* the writers that add and remove columns
  Careful,          \* the writers that edit, flush and unlock under their lock
  Vals,             \* what is put; 0 is every column's default
  Patched,          \* the columns whose cells are rewritten in their file
  None,
  MaxRows, MaxSteps

ASSUME TableSyncAssumption ==
  /\ {MaxRows, MaxSteps} \subseteq Nat /\ 0 \notin Vals
  /\ FirstCols \in Seq(Cols)
  /\ Adders \cup Careful \subseteq Writers /\ None \notin Writers

VARIABLES
  table,   \* table.dat: the columns in order, the rows, each column's file
  file,    \* what each file holds, whether a name still leads to it or not
  sync,    \* the sync record of table.lock
  lock,    \* the kernel's locks on it: a writer, or readers
  handle,  \* [Writers -> the backing, or None]; mine and gone only remember
           \* the puts and removals since its last flush, for the properties
  reader,  \* [Readers -> the Table, or None]
  stored,  \* the last value put in each cell there is, in the order of the flushes
  dropped, \* the flushes that took something away they were not asked to: <<what, writer>>
  steps

vars == <<table, file, sync, lock, handle, reader, stored, dropped, steps>>

Free(w) == lock.writer \in {None, w} /\ lock.readers = {}
NoWriter == lock.writer = None

-----------------------------------------------------------------------------
(* A flush (WritableTable::flush_locked), with the lock held.              *)

Fill(cells, rows) == [i \in 1..rows |-> IF i \in DOMAIN cells THEN cells[i] ELSE 0]

PendingRows(h, c) == {i \in 1..h.rows : <<c, i>> \in DOMAIN h.pend}

Overlaid(h, c, cells) ==
  [i \in 1..h.rows |-> IF i \in PendingRows(h, c) THEN h.pend[<<c, i>>] ELSE Fill(cells, h.rows)[i]]

(* In place needs the columns on disk to be the handle's first ones, and   *)
(* no more rows than the handle's.                                         *)
InPlace(h) == /\ ~h.removed
              /\ IsPrefix(table.cols, h.cols)
              /\ (IF sync.rows # 0 THEN sync.rows ELSE table.rows) <= h.rows

(* A whole rewrite takes up the columns on disk this handle did not add    *)
(* itself (materialize_all); work in place takes them up as they are, also *)
(* a column of an added one's name that another has brought there          *)
(* meanwhile (materialize_col_from_disk).                                  *)
TakenUp(h) == ToSet(table.cols) \ (IF InPlace(h) THEN {} ELSE h.added)

FromDisk(h, c) == IF c \in TakenUp(h) THEN file[table.file[c]] ELSE <<>>

(* The columns that get a new file: all of them, or those that are new and *)
(* those whose pending cells the manager cannot write in place.            *)
Replaced(h) ==
  IF ~InPlace(h) THEN ToSet(h.cols)
  ELSE (ToSet(h.cols) \ ToSet(table.cols)) \cup {c \in ToSet(h.cols) \ Patched : PendingRows(h, c) # {}}

NewFiles(h, ids) ==
  [f \in DOMAIN file \cup Range(ids) |->
     CASE f \in Range(ids) -> LET c == Inverse(ids, Replaced(h), Range(ids))[f]
                              IN  Overlaid(h, c, FromDisk(h, c))
       [] InPlace(h) /\ \E c \in ToSet(table.cols) : table.file[c] = f ->
            Overlaid(h, CHOOSE c \in ToSet(table.cols) : table.file[c] = f, file[f])
       [] OTHER -> file[f]]

(* Fresh file numbers, and the table over them.                            *)
Place(c, names) == SelectInSeq(names, LAMBDA d : d = c)

Numbered(h) == [c \in Replaced(h) |-> Len(file) + Place(c, SetToSeq(Replaced(h)))]

Rewritten(h, ids) ==
  [cols |-> h.cols, rows |-> h.rows,
   file |-> [c \in ToSet(h.cols) |-> IF c \in DOMAIN ids THEN ids[c] ELSE table.file[c]]]

Recorded(h) ==
  [rows |-> h.rows, cols |-> Len(h.cols),
   changes |-> sync.changes + (IF InPlace(h) /\ Len(h.cols) > Len(table.cols) THEN 1 ELSE 0)]

NoPuts == [at \in {} |-> 0]

(* A faulty version: what was put stays pending after it is on disk.       *)
ClearedButPuts(h) == [h EXCEPT !.added = {}, !.removed = FALSE, !.dirty = FALSE, !.seen = h.cols]

Cleared(h) == [h EXCEPT !.pend = NoPuts, !.added = {}, !.removed = FALSE, !.dirty = FALSE, !.seen = h.cols]

(* What is in the table after the flush, by the puts since the last alone. *)
Promised(h) ==
  [c \in ToSet(h.cols) |->
     [i \in 1..h.rows |->
        IF <<c, i>> \in DOMAIN h.mine THEN h.mine[<<c, i>>]
        ELSE IF c \in TakenUp(h) /\ i <= table.rows THEN stored[c][i] ELSE 0]]

Taken(w, h) ==
  (IF h.rows < table.rows THEN {<<"rows", w>>} ELSE {}) \cup
  (IF ToSet(table.cols) \subseteq ToSet(h.cols) \cup h.gone THEN {} ELSE {<<"columns", w>>})

(* The effect of w's flush; what it has, h, it keeps as Cleared says.      *)
DoFlush(w, h) ==
  LET ids == Numbered(h) IN
  /\ file' = NewFiles(h, ids)
  /\ table' = Rewritten(h, ids)
  /\ sync' = Recorded(h)
  /\ stored' = Promised(h)
  /\ dropped' = dropped \cup Taken(w, h)
  /\ handle' = [handle EXCEPT ![w] = Cleared([h EXCEPT !.gone = {}, !.mine = NoPuts, !.doing = "rest"])]

-----------------------------------------------------------------------------
(* Writers.                                                                *)

Step == steps < MaxSteps /\ steps' = steps + 1

AtRest(w) == handle[w] # None /\ handle[w].doing = "rest"
Allowed(w) == w \in Careful => handle[w].held

NewHandle(rows, cols) ==
  [rows |-> rows, cols |-> cols, added |-> {}, removed |-> FALSE, gone |-> {}, pend |-> NoPuts, mine |-> NoPuts,
   dirty |-> FALSE, seen |-> cols, held |-> FALSE, doing |-> "rest"]

(* table(path, readonly=False): the directory is read, and then the lock   *)
(* waited for that user locking takes and gives back at once.              *)
Open(w) ==
  /\ handle[w] = None
  /\ handle' = [handle EXCEPT ![w] = [NewHandle(sync.rows, table.cols) EXCEPT !.doing = "open"]]
  /\ Step /\ UNCHANGED <<table, file, sync, lock, reader, stored, dropped>>

Opened(w) ==
  /\ handle[w] # None /\ handle[w].doing = "open" /\ NoWriter
  /\ handle' = [handle EXCEPT ![w].doing = "rest"]
  /\ UNCHANGED <<table, file, sync, lock, reader, stored, dropped, steps>>

(* The path opened again: the backing is reused.  It is read afresh if the *)
(* table moved on and nothing is pending: the new backing does not hold    *)
(* the lock, and the old one gives it up.  With something pending over     *)
(* changed columns the open fails and nothing changes.                     *)
Stale(h) == ~h.dirty /\ (sync.rows > h.rows \/ table.cols # h.seen)

Reopen(w) ==
  /\ AtRest(w) /\ Stale(handle[w])
  /\ handle' = [handle EXCEPT ![w] = NewHandle(sync.rows, table.cols)]
  /\ lock' = IF handle[w].held THEN [lock EXCEPT !.writer = None] ELSE lock
  /\ Step /\ UNCHANGED <<table, file, sync, reader, stored, dropped>>

Edit(w, h) == /\ AtRest(w) /\ Allowed(w)
              /\ handle' = [handle EXCEPT ![w] = [h EXCEPT !.dirty = TRUE]]
              /\ Step /\ UNCHANGED <<table, file, sync, lock, reader, stored, dropped>>

AddRow(w) == /\ handle[w] # None /\ handle[w].rows < MaxRows
             /\ Edit(w, [handle[w] EXCEPT !.rows = @ + 1])

With(puts, at, v) == [x \in DOMAIN puts \cup {at} |-> IF x = at THEN v ELSE puts[x]]
Without(puts, c)  == Restrict(puts, {x \in DOMAIN puts : x[1] # c})

PutCell(w, c, i, v) ==
  /\ handle[w] # None /\ c \in ToSet(handle[w].cols) /\ i <= handle[w].rows
  /\ Edit(w, [handle[w] EXCEPT !.pend = With(@, <<c, i>>, v), !.mine = With(@, <<c, i>>, v)])

AddCol(w, c) ==
  /\ handle[w] # None /\ c \notin ToSet(handle[w].cols)
  /\ Edit(w, [handle[w] EXCEPT !.cols = Append(@, c), !.added = @ \cup {c}])

RemoveCol(w, c) ==
  /\ handle[w] # None /\ c \in ToSet(handle[w].cols) /\ Len(handle[w].cols) > 1
  /\ Edit(w, [handle[w] EXCEPT !.cols = RemoveFirst(@, c), !.removed = TRUE,
                               !.gone = @ \cup {c}, !.pend = Without(@, c), !.mine = Without(@, c)])

(* flush(): refused when the columns on disk are not those last seen.      *)
(* Otherwise the lock is waited for, unless it is held.                    *)
BeginFlush(w) ==
  /\ AtRest(w) /\ Allowed(w) /\ handle[w].dirty /\ handle[w].seen = table.cols
  /\ handle' = [handle EXCEPT ![w].doing = "flush"]
  /\ Step /\ UNCHANGED <<table, file, sync, lock, reader, stored, dropped>>

Flush(w) ==
  /\ handle[w] # None /\ handle[w].doing = "flush" /\ Free(w)
  /\ DoFlush(w, handle[w])
  /\ UNCHANGED <<lock, reader, steps>>

(* lock(): the rows of the record, where there are more of them.           *)
(* A faulty version: the handle keeps its own.                             *)
AdoptedNever(h) == h

Adopted(h) == [h EXCEPT !.rows = IF sync.rows > @ THEN sync.rows ELSE @]

Lock(w) ==
  /\ AtRest(w) /\ Free(w)
  /\ lock' = [lock EXCEPT !.writer = w]
  /\ handle' = [handle EXCEPT ![w] = [Adopted(handle[w]) EXCEPT !.held = TRUE]]
  /\ Step /\ UNCHANGED <<table, file, sync, reader, stored, dropped>>

(* unlock(): a flush, whether or not anything is pending or the lock is    *)
(* held, with no look at the columns on disk.                              *)
Unlock(w) ==
  /\ AtRest(w) /\ Allowed(w) /\ Free(w)
  /\ DoFlush(w, [handle[w] EXCEPT !.held = FALSE])
  /\ lock' = [lock EXCEPT !.writer = None]
  /\ Step /\ UNCHANGED reader

(* The last handle on the backing goes: what is pending is lost.           *)
Close(w) ==
  /\ AtRest(w) /\ ~handle[w].dirty
  /\ lock' = IF handle[w].held THEN [lock EXCEPT !.writer = None] ELSE lock
  /\ handle' = [handle EXCEPT ![w] = None]
  /\ Step /\ UNCHANGED <<table, file, sync, reader, stored, dropped>>

-----------------------------------------------------------------------------
(* Readers (Table).                                                        *)

(* The directory is read before the record, and that before the wait.      *)
OpenRead(r) ==
  /\ reader[r] = None
  /\ reader' = [reader EXCEPT ![r] = [snap |-> table, seen |-> sync, doing |-> "open", held |-> "no"]]
  /\ Step /\ UNCHANGED <<table, file, sync, lock, handle, stored, dropped>>

SeenRecord(r) ==
  /\ reader[r] # None /\ reader[r].doing = "open"
  /\ reader' = [reader EXCEPT ![r].seen = sync, ![r].doing = "wait"]
  /\ UNCHANGED <<table, file, sync, lock, handle, stored, dropped, steps>>

(* User locking gives the lock straight back; permanent and auto locking   *)
(* keep it, over what was read before the wait.                            *)
OpenedRead(r) ==
  /\ reader[r] # None /\ reader[r].doing = "wait" /\ NoWriter
  /\ reader' = [reader EXCEPT ![r].doing = "rest"]
  /\ UNCHANGED <<table, file, sync, lock, handle, stored, dropped, steps>>

KeptRead(r) ==
  /\ reader[r] # None /\ reader[r].doing = "wait" /\ NoWriter
  /\ lock' = [lock EXCEPT !.readers = @ \cup {r}]
  /\ reader' = [reader EXCEPT ![r].doing = "rest", ![r].held = "opened"]
  /\ UNCHANGED <<table, file, sync, handle, stored, dropped, steps>>

(* Permanent locking tries once, and its open may fail.                    *)
RefusedRead(r) ==
  /\ reader[r] # None /\ reader[r].doing = "wait" /\ ~NoWriter
  /\ reader' = [reader EXCEPT ![r] = None]
  /\ UNCHANGED <<table, file, sync, lock, handle, stored, dropped, steps>>

(* Table::lock and its resync: an error when the number of columns is not  *)
(* the snapshot's (the lock stays held), else the files are opened again   *)
(* if the change counter or the number of rows moved.  Over a lock that is *)
(* held it returns at once, and changes nothing.                           *)
(* A faulty version: the rows of the record seen last are compared.        *)
MovedOn(t) == sync.changes # t.seen.changes \/ sync.rows # t.seen.rows

Moved(t) == sync.changes # t.seen.changes \/ sync.rows # t.snap.rows

Resynced(t) ==
  IF sync.cols # Len(t.snap.cols) THEN [t EXCEPT !.held = "failed"]
  ELSE [t EXCEPT !.held = "synced", !.seen = sync, !.snap = IF Moved(t) THEN table ELSE @]

LockRead(r) ==
  /\ reader[r] # None /\ reader[r].doing = "rest" /\ reader[r].held = "no" /\ NoWriter
  /\ lock' = [lock EXCEPT !.readers = @ \cup {r}]
  /\ reader' = [reader EXCEPT ![r] = Resynced(@)]
  /\ Step /\ UNCHANGED <<table, file, sync, handle, stored, dropped>>

UnlockRead(r) ==
  /\ reader[r] # None /\ reader[r].held # "no"
  /\ lock' = [lock EXCEPT !.readers = @ \ {r}]
  /\ reader' = [reader EXCEPT ![r].held = "no"]
  /\ Step /\ UNCHANGED <<table, file, sync, handle, stored, dropped>>

(* The Table goes and its lock with it: close, and an auto lock that is    *)
(* yielded, for a Table that is opened anew at the next operation.         *)
CloseRead(r) ==
  /\ reader[r] # None /\ reader[r].doing = "rest"
  /\ lock' = [lock EXCEPT !.readers = @ \ {r}]
  /\ reader' = [reader EXCEPT ![r] = None]
  /\ Step /\ UNCHANGED <<table, file, sync, handle, stored, dropped>>

-----------------------------------------------------------------------------
Init ==
  /\ table = [cols |-> FirstCols, rows |-> 1,
              file |-> [c \in ToSet(FirstCols) |-> Place(c, FirstCols)]]
  /\ file = [f \in 1..Len(FirstCols) |-> <<0>>]
  /\ sync = [rows |-> 1, cols |-> Len(FirstCols), changes |-> 1]
  /\ lock = [writer |-> None, readers |-> {}]
  /\ handle = [w \in Writers |-> None] /\ reader = [r \in Readers |-> None]
  /\ stored = [c \in ToSet(FirstCols) |-> <<0>>]
  /\ dropped = {} /\ steps = 0

Next ==
  \/ \E w \in Writers :
       \/ Open(w) \/ Opened(w) \/ Reopen(w) \/ AddRow(w)
       \/ \E c \in Cols, i \in 1..MaxRows, v \in Vals : PutCell(w, c, i, v)
       \/ BeginFlush(w) \/ Flush(w) \/ Lock(w) \/ Unlock(w) \/ Close(w)
  \/ \E w \in Adders, c \in Cols : AddCol(w, c) \/ RemoveCol(w, c)
  \/ \E r \in Readers :
       \/ OpenRead(r) \/ SeenRecord(r) \/ OpenedRead(r) \/ KeptRead(r) \/ RefusedRead(r)
       \/ LockRead(r) \/ UnlockRead(r) \/ CloseRead(r)

Spec == Init /\ [][Next]_vars

-----------------------------------------------------------------------------
(* The files of the table hold what was put last in every cell, in the     *)
(* order the flushes took the lock: no handle's out-of-date idea of a cell *)
(* comes back over another's flush, whatever was read before the wait.     *)
CellsSurvive == [c \in ToSet(table.cols) |-> file[table.file[c]]] = stored

(* A process that edits and flushes under its lock never takes away rows   *)
(* another has added (WritableTable::lock adopts them).                    *)
RowsSurvive == \A w \in Careful : <<"rows", w>> \notin dropped

(* As long as a reader holds the lock its lock() took and resynced under,  *)
(* it has the rows the table has, and its files have them too, whatever it *)
(* had before and whoever flushed since (Table::lock, resync).             *)
SeesRows(t) ==
  /\ t.snap.rows = table.rows
  /\ \A c \in DOMAIN t.snap.file : Len(file[t.snap.file[c]]) >= table.rows

LockedSeesRows ==
  \A r \in Readers : reader[r] # None /\ reader[r].held = "synced" => SeesRows(reader[r])

(* So has a reader with the lock its open kept: an auto lock is taken      *)
(* again to go on from the freshly written state (auto_tick).  (Found not  *)
(* to hold.)                                                               *)
OpenedSeesRows ==
  \A r \in Readers : reader[r] # None /\ reader[r].held = "opened" => SeesRows(reader[r])

(* A reader that resynced has the cells the table has.  (Found not to      *)
(* hold.)                                                                  *)
LockedSeesCells ==
  \A r \in Readers :
    LET t == reader[r] IN
    t # None /\ t.held = "synced" =>
      \A c \in DOMAIN t.snap.file \cap ToSet(table.cols) : file[t.snap.file[c]] = file[table.file[c]]

(* A write over a backing with an out-of-date description never drops the  *)
(* column another process has added (the refusals of open_or_create and    *)
(* flush_if_dirty).                                                        *)
ColumnsSurvive == \A w \in Careful : <<"columns", w>> \notin dropped
==============================================================================
