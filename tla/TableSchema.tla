----------------------------- MODULE TableSchema -----------------------------
(* The description of a table through its life: one session after the other *)
(* creates or opens it, sets keywords, adds and removes columns and rows and*)
(* flushes (table.rs flush_locked).  Columns that were added get data       *)
(* managers of their own beside the others, whose files come first and      *)
(* table.dat last; any other change of columns writes the table whole,      *)
(* table.dat first.  A flush can fail and the process die between two files,*)
(* and what a growth or a whole rewrite that was cut leaves is not followed *)
(* further.  A table is copied and converted to other managers.  Sessions   *)
(* here do not lock (NoLocking); a lock file that is there has a sync record*)
(* that openers believe before the header.  A data file is its manager's    *)
(* type, its name, the contents it holds, column by column, and its rows.   *)
EXTENDS ColumnDicts

CONSTANTS
  Schemas,      \* the descriptions a table is created with
  Foreign,      \* tables another writer left, as on disk, with what they hold
  Keywords,     \* [name, value] pairs keywords are set to
  ColKeywords,  \* [col, name, value] keywords columns are given
  Additions,    \* [dicts, dminfo] arguments of addcols, dicts a sequence of [name, dict]
  CloneNames,   \* the names copies of columns are added under
  Conversions,  \* the data-manager information tables are converted with
  MaxRows, MaxColumns, MaxSteps

VARIABLES
  disk,   \* the table's directory
  read,   \* what a reader of its table.dat gets
  wt,     \* the writable table of the session
  job,    \* the flush under way
  kept,   \* what was stored last: description, contents and rows; whether
          \* all files are of one flush (whole), with their rows counted (sure),
          \* and whether the column set's count was stored with them (own)
  steps   \* operations so far
vars == <<disk, read, wt, job, kept, steps>>

NoSync   == -1
NoTable  == [dat |-> <<>>, files |-> <<>>, sync |-> NoSync]
NoDesc   == [keywords |-> NoRecord, private |-> NoRecord, columns |-> <<>>]
Idle     == [at |-> "idle", done |-> 0]
Closed   == [open |-> FALSE, desc |-> NoDesc, ids |-> <<>>, like |-> <<>>, rows |-> 0, removed |-> FALSE,
             added |-> {}, meta |-> FALSE, convert |-> FALSE]

OpenRows(d, dat) == IF d.sync \notin {NoSync, 0} THEN d.sync ELSE dat.header.nrow

(* Contents the columns of a table show: each stands in its manager's file  *)
(* where it stands among the manager's columns.                             *)
Shown(d, dat) ==
  [c \in DOMAIN dat.seqs |->
     LET place == Cardinality({k \in 1..c : dat.seqs[k] = dat.seqs[c]})
         held  == IF dat.seqs[c] \in DOMAIN d.files THEN d.files[dat.seqs[c]].cols ELSE <<>>
     IN  IF place \in DOMAIN held THEN held[place] ELSE 0]

NameOf(dm, files) == IF dm.type = SsmType THEN ParseStandardStMan(dm.blob).v.name
                     ELSE IF dm.type = IsmType THEN ParseIsmName(dm.blob).v ELSE files[dm.seq].name

-----------------------------------------------------------------------------
(* Which managers a whole rewrite makes: one per type and name, in the      *)
(* order of first use, numbered from 0; a name that is taken gets a suffix. *)
GroupOf(col) == IF col.dmGroup = "" THEN col.dmType ELSE col.dmGroup
DmKey(col)   == <<col.dmType, GroupOf(col)>>

Suffixed(name, n) == IF n = 0 THEN name ELSE name \o "_" \o ToString(n)

Assigned(cols) ==
  FoldLeft(LAMBDA r, col :
    LET group == GroupOf(col)
        found == SelectInSeq(r.dms, LAMBDA d : d.type = col.dmType /\ d.name = group)
        taken == Len(SelectSeq(r.asked, LAMBDA g : g = group))
    IN  IF found # 0 THEN [r EXCEPT !.seqs = Append(@, found - 1)]
        ELSE [dms   |-> Append(r.dms, [type |-> col.dmType, name |-> Suffixed(group, taken), seq |-> Len(r.dms)]),
              asked |-> Append(r.asked, group),
              seqs  |-> Append(r.seqs, Len(r.dms))],
    [dms |-> <<>>, asked |-> <<>>, seqs |-> <<>>], cols)

(* whether the writers take these columns in one manager of this type *)
Writable(type, cols) ==
  \/ type = SsmType
  \/ type = IsmType /\ \A i \in DOMAIN cols : cols[i].kind = "Scalar" /\ cols[i].type # "String"
  \/ type \in TiledTypes /\ Len(cols) = 1 /\ cols[1].kind = "Array"

ColumnsOf(list, seqs, seq) == LET mine == SelectSeq([c \in DOMAIN seqs |-> c], LAMBDA c : seqs[c] = seq)
                              IN  [i \in DOMAIN mine |-> list[mine[i]]]

CanCreate(cols) ==
  LET to == Assigned(cols)
  IN  /\ \A i \in DOMAIN cols : cols[i].kind # "Record"
      /\ \A d \in ToSet(to.dms) : Writable(d.type, ColumnsOf(cols, to.seqs, d.seq))

(* create_table: every file anew *)
Created(desc, ids, rows, sync) ==
  LET to == Assigned(desc.columns)
  IN  [dat   |-> BuildTableDat(1, rows, desc,
                   [i \in DOMAIN to.dms |->
                      [type |-> to.dms[i].type, seq |-> to.dms[i].seq,
                       blob |-> DmBlob(to.dms[i].type, to.dms[i].name,
                                       Len(ColumnsOf(ids, to.seqs, to.dms[i].seq)))]],
                   to.seqs, Len(to.dms)),
       files |-> [s \in 0..Len(to.dms) - 1 |->
                    [type |-> to.dms[s + 1].type, name |-> to.dms[s + 1].name,
                     cols |-> ColumnsOf(ids, to.seqs, s), rows |-> rows]],
       sync  |-> sync]

-----------------------------------------------------------------------------
(* Where added columns go (plan_add_columns): into a manager of their own,  *)
(* into one an earlier added column opened, or into a StandardStMan that    *)
(* has their group already, which is then rebuilt with them under a new     *)
(* number.  Anything else writes the table whole.                           *)
(* Faulty variant: as many as there are managers *)
FirstSeqCounted(dat) == Len(dat.dms)

FirstSeq(dat) == Max({dat.set.seqCount} \cup {dat.dms[i].seq + 1 : i \in DOMAIN dat.dms})

Supported(col) == \/ col.dmType \in {SsmType} \cup TiledTypes /\ col.kind # "Record"
                  \/ col.dmType = IsmType /\ col.kind = "Scalar" /\ col.type # "String"

Unused(name, names) == Suffixed(name, CHOOSE n \in 0..Cardinality(names) :
                         Suffixed(name, n) \notin names /\ \A m \in 0..n - 1 : Suffixed(name, m) \in names)

(* Faulty variant: the group is opened once more for the added column alone *)
JoinsAlone(r, dat, cols, c) ==
  [r EXCEPT !.dms = Append(@, [type |-> cols[c].dmType, name |-> Unused(GroupOf(cols[c]), r.names), seq |-> r.next,
                               cols |-> <<c>>, replaces |-> <<>>]),
            !.next = @ + 1]

Joins(r, dat, cols, c) ==
  LET seq  == dat.seqs[SelectInSeq(cols, LAMBDA col : DmKey(col) = DmKey(cols[c]))]
      dm   == SelectSeq(dat.dms, LAMBDA d : d.seq = seq)
      at   == SelectInSeq(r.dms, LAMBDA d : d.replaces = <<seq>>)
      mine == SelectSeq([k \in DOMAIN dat.seqs |-> k], LAMBDA k : dat.seqs[k] = seq)
  IN  IF dm = <<>> \/ dm[1].type # SsmType \/ cols[c].dmType # SsmType THEN [r EXCEPT !.ok = FALSE]
      ELSE IF at # 0 THEN [r EXCEPT !.dms[at].cols = Append(@, c)]
      ELSE [r EXCEPT !.dms = Append(@, [type |-> SsmType, name |-> ParseStandardStMan(dm[1].blob).v.name,
                                        seq |-> r.next, cols |-> Append(mine, c), replaces |-> <<seq>>]),
                     !.next = @ + 1]

Opens(r, cols, c) ==
  LET at == SelectInSeq(r.dms, LAMBDA d : d.replaces = <<>> /\ DmKey(cols[d.cols[1]]) = DmKey(cols[c]))
      name == Unused(GroupOf(cols[c]), r.names)
  IN  IF at # 0 /\ cols[c].dmType \in TiledTypes THEN [r EXCEPT !.ok = FALSE]
      ELSE IF at # 0 THEN [r EXCEPT !.dms[at].cols = Append(@, c)]
      ELSE [r EXCEPT !.dms = Append(@, [type |-> cols[c].dmType, name |-> name, seq |-> r.next,
                                        cols |-> <<c>>, replaces |-> <<>>]),
                     !.next = @ + 1, !.names = @ \cup {name}]

PlanAddColumns(d, dat, cols) ==
  LET known == Len(dat.seqs)
      One(r, c) ==
        IF ~r.ok \/ ~Supported(cols[c]) THEN [r EXCEPT !.ok = FALSE]
        ELSE IF \E k \in 1..known : DmKey(cols[k]) = DmKey(cols[c]) THEN Joins(r, dat, cols, c)
        ELSE Opens(r, cols, c)
  IN  FoldLeft(One, [ok |-> dat.header.format = 1, dms |-> <<>>, next |-> FirstSeq(dat),
                     names |-> {NameOf(dat.dms[i], d.files) : i \in DOMAIN dat.dms}],
               [i \in 1..Len(cols) - known |-> known + i])

SamePrefix(old, new) ==
  Len(old) <= Len(new) /\ \A i \in DOMAIN old :
    /\ old[i].name = new[i].name /\ old[i].type = new[i].type
    /\ old[i].dmType = new[i].dmType /\ old[i].dmGroup = new[i].dmGroup

(* desc_equal_on_disk: everything but the tile shape *)
Untiled(desc) == [desc EXCEPT !.columns = [i \in DOMAIN @ |-> [@[i] EXCEPT !.tile = <<>>]]]

-----------------------------------------------------------------------------
(* what a table created from dictionaries is described as *)
Asked(dicts) == [i \in DOMAIN dicts |-> ColumnAsked(dicts[i].name, dicts[i].dict)]
Good(asked)  == [i \in DOMAIN asked |-> asked[i][1]]

Described(s) == [keywords |-> ThroughJson(RecordOf(s.keywords)).rec, private |-> NoRecord,
                 columns  |-> ApplyDminfo(s.dminfo, Good(Asked(s.dicts))).cols]

Opened(desc, ids, like, rows) == [Closed EXCEPT !.open = TRUE, !.desc = desc, !.ids = ids, !.like = like, !.rows = rows]

Kept(desc, ids, rows) == [desc |-> desc, ids |-> ids, like |-> <<>>, rows |-> rows, whole |-> TRUE, sure |-> TRUE, own |-> TRUE]

Init ==
  /\ job = Idle /\ steps = 0
  /\ \/ \E s \in Schemas : /\ disk = NoTable /\ kept = Kept(NoDesc, <<>>, 0)
                           /\ wt = Opened(Described(s), [c \in DOMAIN s.dicts |-> c], <<>>, 0)
     \/ \E t \in Foreign :
          /\ disk = t.disk /\ wt = Closed
          /\ kept = [Kept(t.desc, t.ids, t.rows) EXCEPT !.own = ParseTableDat(t.disk.dat).v.set.nrow = t.rows]
  /\ read = ParseTableDat(disk.dat)

(* the file was replaced or patched *)
Reread == read' = ParseTableDat(disk'.dat)

Counted == steps < MaxSteps /\ steps' = steps + 1

(* an edit of the session's description or rows; contents added now are new *)
Edit(new) == /\ wt.open /\ ~wt.convert /\ job = Idle /\ Counted
             /\ wt' = new /\ UNCHANGED <<disk, read, job, kept>>

Columns == DOMAIN wt.desc.columns
NewId(i) == 100 * (steps + 1) + i

PutKeyword(w) == Edit([wt EXCEPT !.desc.keywords = Set(@, w.name, w.value)])

RemoveKeyword(name) == /\ Has(wt.desc.keywords, name)
                       /\ Edit([wt EXCEPT !.desc.keywords = RemoveField(@, name)])

PutColKeyword(c, w) ==
  c \in Columns /\ Edit([wt EXCEPT !.desc.columns[c].keywords = Set(@, w.name, w.value), !.meta = TRUE])

RemoveColKeyword(c, name) ==
  /\ c \in Columns /\ Has(wt.desc.columns[c].keywords, name)
  /\ Edit([wt EXCEPT !.desc.columns[c].keywords = RemoveField(@, name), !.meta = TRUE])

Unknown(name) == \A c \in Columns : wt.desc.columns[c].name # name

(* addcols: nothing is added when one column or the dminfo is bad *)
Adds(dicts, to) ==
  to.ok /\ Edit([wt EXCEPT !.desc.columns = @ \o to.cols, !.ids = @ \o [i \in DOMAIN dicts |-> NewId(i)],
                           !.added = @ \cup {dicts[i].name : i \in DOMAIN dicts}])
AddsAsked(a, asked) ==
  (\A i \in DOMAIN asked : asked[i] # <<>>) /\ Adds(a.dicts, ApplyDminfo(a.dminfo, Good(asked)))

AddColumns(a) ==
  /\ Len(wt.desc.columns) + Len(a.dicts) <= MaxColumns
  /\ \A i \in DOMAIN a.dicts : Unknown(a.dicts[i].name)
  /\ AddsAsked(a, Asked(a.dicts))

(* addcols of what getcoldesc says of a column, under another name *)
AddCopy(c, name) ==
  /\ c \in Columns /\ Unknown(name) /\ Len(wt.desc.columns) < MaxColumns
  /\ Edit([wt EXCEPT
             !.desc.columns = Append(@, ColumnAsked(name, NormalizeColdesc(name, SelfColdesc(@[c])))[1]),
             !.ids = Append(@, NewId(1)), !.added = @ \cup {name},
             !.like = Append(@, [id |-> NewId(1), col |-> wt.desc.columns[c]])])

RemoveColumn(c) ==
  /\ c \in Columns
  /\ Edit([wt EXCEPT !.desc.columns = RemoveAt(@, c), !.ids = RemoveAt(@, c), !.removed = TRUE])

AddRow == wt.rows < MaxRows /\ Edit([wt EXCEPT !.rows = @ + 1])

-----------------------------------------------------------------------------
(* The flush.                                                               *)
Dat        == read.v
Plan       == PlanAddColumns(disk, Dat, wt.desc.columns)
Extends    == Len(wt.desc.columns) > Len(Dat.seqs)
DiskRows   == OpenRows(disk, Dat)

(* whether the files can stay: what is on disk are the first columns *)
Stays ==
  /\ disk.dat # <<>> /\ ~wt.removed
  /\ read.at # 0
  /\ SamePrefix(Dat.desc.columns, wt.desc.columns)
  /\ Extends => Plan.ok

(* no manager's files can take more rows when a tiled one has two columns; *)
(* whether the others can is their layout's matter                         *)
Growable(fields) ==
  /\ DiskRows < wt.rows /\ Fits(disk.dat, fields, wt.rows)
  /\ \A q \in ToSet(Dat.seqs) : disk.files[q].rows = DiskRows
  /\ \A i \in DOMAIN Dat.dms : Dat.dms[i].type \in TiledTypes =>
         Len(SelectSeq(Dat.seqs, LAMBDA q : q = Dat.dms[i].seq)) = 1

Synced(sync) == IF sync = NoSync THEN NoSync ELSE wt.rows

Flushed == [wt EXCEPT !.open = ~wt.convert, !.convert = FALSE, !.removed = FALSE, !.added = {}, !.meta = FALSE]
Stored  == [desc |-> wt.desc, ids |-> wt.ids, like |-> wt.like, rows |-> wt.rows,
            whole |-> TRUE, sure |-> TRUE, own |-> TRUE]

Flushing == wt.open /\ job = Idle

AfterGrowth == [at |-> IF Extends THEN "write" ELSE "meta", done |-> 0]

(* as many rows as there are leave the files alone *)
FlushInPlace ==
  /\ Flushing /\ Stays
  /\ \/ DiskRows = wt.rows /\ job' = AfterGrowth
     \/ Growable(RowFields(disk.dat)) /\ job' = [at |-> "grow", done |-> 0]
  /\ UNCHANGED <<disk, read, wt, kept, steps>>

(* grow_in_place: manager after manager, the counts in table.dat, and the   *)
(* sync record                                                              *)
GrowManager ==
  /\ job.at = "grow" /\ job.done < Len(Dat.dms)
  /\ LET q == Dat.dms[job.done + 1].seq IN
     disk' = IF q \in ToSet(Dat.seqs) THEN [disk EXCEPT !.files[q].rows = wt.rows] ELSE disk
  /\ kept' = [kept EXCEPT !.sure = FALSE]
  /\ job' = [job EXCEPT !.done = @ + 1]
  /\ UNCHANGED <<read, wt, steps>>

GrowDat ==
  /\ job.at = "grow" /\ job.done = Len(Dat.dms)
  /\ disk' = [disk EXCEPT !.dat = PatchRows(@, RowFields(@), wt.rows)]
  /\ job' = [job EXCEPT !.at = "grown"]
  /\ Reread /\ kept' = [kept EXCEPT !.sure = FALSE]
  /\ UNCHANGED <<wt, steps>>

GrowSync ==
  /\ job.at = "grown"
  /\ disk' = [disk EXCEPT !.sync = Synced(@)]
  /\ job' = AfterGrowth
  /\ kept' = [kept EXCEPT !.rows = wt.rows, !.sure = TRUE, !.own = TRUE]
  /\ UNCHANGED <<read, wt, steps>>

(* The record gets the session's rows, whatever the files have.             *)
GrowFails ==
  /\ job.at \in {"grow", "grown"} /\ ~kept.sure /\ Counted
  /\ disk' = [disk EXCEPT !.sync = Synced(@)]
  /\ job' = Idle /\ wt' = Closed
  /\ UNCHANGED <<read, kept>>

Rewrites == Flushing /\ (Stays => DiskRows # wt.rows)

(* the whole table: a column's contents are those of the column on disk     *)
(* with its name and type, unless it was added in this session              *)
Contents ==
  LET Twin(col) == IF disk.dat = <<>> \/ col.name \in wt.added \/ wt.convert THEN 0
                   ELSE SelectInSeq(Dat.desc.columns, LAMBDA o : o.name = col.name /\ o.type = col.type)
  IN  [c \in Columns |-> LET t == Twin(wt.desc.columns[c])
                         IN  IF t = 0 THEN wt.ids[c] ELSE Shown(disk, Dat)[t]]

(* create_table: the files that are not written again go, table.dat is      *)
(* replaced, then each manager's files are, for which no more is said of    *)
(* the table until the last                                                 *)
FlushWhole ==
  /\ Rewrites /\ CanCreate(wt.desc.columns) /\ Representable(wt.rows)
  /\ \E new \in {Created(wt.desc, Contents, wt.rows, disk.sync)} :
       /\ disk' = [disk EXCEPT !.files = Restrict(@, DOMAIN @ \cap DOMAIN new.files)]
       /\ job' = [at |-> "whole", done |-> 0, new |-> new]
  /\ kept' = [kept EXCEPT !.whole = FALSE, !.sure = FALSE]
  /\ UNCHANGED <<read, wt, steps>>

WholeDat ==
  /\ job.at = "whole"
  /\ disk' = [disk EXCEPT !.dat = job.new.dat]
  /\ job' = [job EXCEPT !.at = "files"]
  /\ Reread /\ kept' = [Stored EXCEPT !.whole = FALSE, !.sure = FALSE]
  /\ UNCHANGED <<wt, steps>>

WholeFile ==
  /\ job.at = "files" /\ job.done \in DOMAIN job.new.files
  /\ disk' = [disk EXCEPT !.files = (job.done :> job.new.files[job.done]) @@ @]
  /\ job' = [job EXCEPT !.done = @ + 1]
  /\ UNCHANGED <<read, wt, kept, steps>>

WholeEnds ==
  /\ job.at = "files" /\ job.done \notin DOMAIN job.new.files
  /\ disk' = [disk EXCEPT !.sync = Synced(@)]
  /\ job' = Idle /\ wt' = Flushed /\ kept' = Stored
  /\ UNCHANGED <<read, steps>>

WholeFails ==
  /\ job.at \in {"whole", "files"} /\ Counted
  /\ disk' = [disk EXCEPT !.sync = Synced(@)]
  /\ job' = Idle /\ wt' = Closed
  /\ UNCHANGED <<read, kept>>

(* A flush that is refused leaves the files; the sync record, if there is   *)
(* one, gets the session's rows all the same.  Nothing of this model        *)
(* follows when those are not the files' rows.                              *)
FlushRefused ==
  /\ Rewrites /\ ~CanCreate(wt.desc.columns) /\ Counted
  /\ disk' = [disk EXCEPT !.sync = Synced(@)]
  /\ kept' = [kept EXCEPT !.sure = disk.sync = NoSync \/ wt.rows = kept.rows]
  /\ wt' = IF wt.convert \/ ~kept'.sure THEN Closed ELSE wt
  /\ UNCHANGED <<job, read>>

WriteManager ==
  /\ job.at = "write" /\ job.done < Len(Plan.dms)
  /\ LET d    == Plan.dms[job.done + 1]
         cols == [i \in DOMAIN d.cols |-> wt.desc.columns[d.cols[i]]]
         held == [i \in DOMAIN d.cols |-> IF d.cols[i] \in DOMAIN Dat.seqs THEN Shown(disk, Dat)[d.cols[i]]
                                          ELSE wt.ids[d.cols[i]]]
         file == [type |-> d.type, name |-> d.name, cols |-> held, rows |-> wt.rows]
     IN  /\ Writable(d.type, cols)
         /\ disk' = [disk EXCEPT !.files = (d.seq :> file) @@ @]
  /\ job' = [job EXCEPT !.done = @ + 1]
  /\ UNCHANGED <<wt, read, kept, steps>>

(* a data file, or table.dat, could not be written: those written are removed *)
WriteFails ==
  /\ job.at = "write" /\ Counted
  /\ LET written == {Plan.dms[i].seq : i \in {k \in DOMAIN Plan.dms : k <= job.done + 1}}
     IN  disk' = [disk EXCEPT !.files = Restrict(@, DOMAIN @ \ written), !.sync = Synced(@)]
  /\ job' = Idle /\ UNCHANGED <<wt, read, kept>>

ManagerOf(dat, c) == LET at == SelectInSeq(Plan.dms, LAMBDA d : Contains(d.cols, c))
                     IN  IF at = 0 THEN dat.seqs[c] ELSE Plan.dms[at].seq

SwapTableDat ==
  /\ job.at = "write" /\ job.done = Len(Plan.dms) /\ Representable(wt.rows)
  /\ LET old  == SelectSeq(ExistingDmBlobs(Dat), LAMBDA b : \A i \in DOMAIN Plan.dms : Plan.dms[i].replaces # <<b.seq>>)
         new  == [i \in DOMAIN Plan.dms |-> [type |-> Plan.dms[i].type, seq |-> Plan.dms[i].seq,
                    blob |-> DmBlob(Plan.dms[i].type, Plan.dms[i].name, Len(Plan.dms[i].cols))]]
     IN  /\ disk' = [disk EXCEPT !.dat = BuildTableDat(Dat.header.format, wt.rows, wt.desc, old \o new,
                                           [c \in Columns |-> ManagerOf(Dat, c)], Plan.next)]
         /\ job' = [at |-> "drop", done |-> 0,
                    gone |-> UNION {ToSet(Plan.dms[i].replaces) : i \in DOMAIN Plan.dms}]
  /\ kept' = Stored /\ Reread
  /\ UNCHANGED <<wt, steps>>

DropSuperseded ==
  /\ job.at = "drop"
  /\ disk' = [disk EXCEPT !.files = Restrict(@, DOMAIN @ \ job.gone)]
  /\ job' = [at |-> "meta", done |-> 0]
  /\ UNCHANGED <<wt, read, kept, steps>>

Differs == wt.meta \/ Untiled(Dat.desc) # Untiled(wt.desc)

RewriteTableDat ==
  /\ job.at = "meta" /\ Differs /\ Representable(wt.rows)
  /\ disk' = [disk EXCEPT
                !.dat  = BuildTableDat(Dat.header.format, wt.rows, wt.desc, ExistingDmBlobs(Dat), Dat.seqs,
                                       Max({Dat.set.seqCount, Len(Dat.dms)})),
                !.sync = Synced(@)]
  /\ job' = Idle /\ wt' = Flushed /\ kept' = Stored
  /\ Reread /\ UNCHANGED steps

NothingToRewrite ==
  /\ job.at = "meta" /\ ~Differs
  /\ disk' = [disk EXCEPT !.sync = Synced(@)]
  /\ job' = Idle /\ wt' = Flushed /\ kept' = [Stored EXCEPT !.own = kept.own]
  /\ UNCHANGED <<read, steps>>

RewriteFails == /\ job.at = "meta" /\ Differs /\ Counted
                /\ job' = Idle /\ UNCHANGED <<disk, read, wt, kept>>

(* a column set cannot say so many rows: the writer panics, and the session *)
(* is over                                                                  *)
FlushPanics ==
  /\ \/ Rewrites /\ CanCreate(wt.desc.columns)
     \/ job.at = "write" /\ job.done = Len(Plan.dms)
     \/ job.at = "meta" /\ Differs
  /\ ~Representable(wt.rows)
  /\ wt' = Closed /\ job' = Idle /\ UNCHANGED <<disk, read, kept, steps>>

-----------------------------------------------------------------------------
(* Between sessions.                                                        *)
SessionEnds == wt.open /\ wt' = Closed /\ job' = Idle /\ UNCHANGED <<disk, read, kept, steps>>

(* open_for_update *)
OpenTable ==
  /\ ~wt.open /\ kept.sure /\ disk.dat # <<>> /\ read.at # 0 /\ Counted
  /\ wt' = Opened(Dat.desc, Shown(disk, Dat), kept.like, DiskRows)
  /\ UNCHANGED <<disk, read, job, kept>>

(* tablecopy: the lock file stays behind, and the copy's header takes the   *)
(* rows an opener sees; with data-manager information the copy is written   *)
(* from its own columns under the changed description                       *)
TableCopy(dminfo) ==
  LET copy == [disk EXCEPT !.dat = PatchCopyNrow(@, DiskRows), !.sync = NoSync]
      to   == ApplyDminfo(dminfo, Dat.desc.columns)
      new  == Opened([Dat.desc EXCEPT !.columns = to.cols], Shown(disk, Dat), kept.like, DiskRows)
  IN  /\ ~wt.open /\ kept.sure /\ disk.dat # <<>> /\ read.at # 0 /\ Counted
      /\ disk' = copy /\ Reread
      /\ wt' = IF dminfo # NoRecord /\ to.ok THEN [new EXCEPT !.convert = TRUE] ELSE wt
      /\ UNCHANGED <<job, kept>>

Next ==
  \/ \E w \in Keywords : PutKeyword(w) \/ RemoveKeyword(w.name)
  \/ \E w \in ColKeywords : PutColKeyword(w.col, w) \/ RemoveColKeyword(w.col, w.name)
  \/ \E a \in Additions : AddColumns(a)
  \/ \E c \in 1..MaxColumns : RemoveColumn(c) \/ \E name \in CloneNames : AddCopy(c, name)
  \/ AddRow
  \/ FlushInPlace \/ FlushWhole \/ FlushRefused \/ FlushPanics
  \/ GrowManager \/ GrowDat \/ GrowSync \/ GrowFails
  \/ WholeDat \/ WholeFile \/ WholeEnds \/ WholeFails
  \/ WriteManager \/ WriteFails \/ SwapTableDat \/ DropSuperseded
  \/ RewriteTableDat \/ NothingToRewrite \/ RewriteFails
  \/ SessionEnds \/ OpenTable \/ \E dm \in Conversions \cup {NoRecord} : TableCopy(dm)

Spec == Init /\ [][Next]_vars

-----------------------------------------------------------------------------
RECURSIVE Seen(_)
Seen(rec) ==
  [i \in DOMAIN rec.desc |->
     LET v == rec.values[i]
     IN  [name |-> rec.desc[i].name, type |-> v.type, scalar |-> v.scalar, shape |-> v.shape, elems |-> v.elems,
          fields |-> Seen(v.rec)]]

SeenColumn(col) ==
  [name |-> col.name, type |-> col.type, dmType |-> col.dmType, dmGroup |-> col.dmGroup, options |-> col.options,
   ndim |-> col.ndim, shape |-> OrElse(col.shape, <<>>), kind |-> col.kind, default |-> col.default,
   keywords |-> Seen(col.keywords)]

SeenDesc(desc) == [keywords |-> Seen(desc.keywords), private |-> Seen(desc.private),
                   columns  |-> [i \in DOMAIN desc.columns |-> SeenColumn(desc.columns[i])]]

(* table.dat can be read at every moment, and what it says, keywords and    *)
(* columns, is what the last flush that replaced it was asked to store:     *)
(* values, their types, nested and empty records included.                  *)
SchemaReadsBack ==
  disk.dat # <<>> => /\ read.at = Len(disk.dat) + 1
                     /\ SeenDesc(Dat.desc) = SeenDesc(kept.desc)

Rank(dat, seq) == Len(SelectSeq(dat.seqs, LAMBDA q : q = seq))

(* Each manager's files are there, of its type, hold exactly the columns    *)
(* bound to it, and each column shows the contents it was stored with,      *)
(* never another column's.                                                  *)
FilesBound ==
  LET dat == Dat
      d   == disk
  IN  /\ \A i \in DOMAIN dat.dms :
           LET m == dat.dms[i]
           IN  /\ m.seq \in DOMAIN d.files
               /\ d.files[m.seq].type = m.type /\ Len(d.files[m.seq].cols) = Rank(dat, m.seq)
      /\ Shown(d, dat) = kept.ids

(* At every moment, each column table.dat lists has one manager, of the     *)
(* type its description says, whose specification has a place for each of   *)
(* its columns; and the managers' files are those (FilesBound): between any *)
(* two files of a flush that adds columns beside the others or grows, and   *)
(* after it failed or died there - but not from the first to the last file  *)
(* of a flush that writes the table whole, nor after one that was cut.      *)
BindingsHold ==
  disk.dat # <<>> =>
    LET dat == Dat
    IN  /\ \A i, j \in DOMAIN dat.dms : dat.dms[i].seq = dat.dms[j].seq => i = j
        /\ \A c \in DOMAIN dat.seqs : \E i \in DOMAIN dat.dms :
             dat.dms[i].seq = dat.seqs[c] /\ dat.dms[i].type = dat.desc.columns[c].dmType
        /\ \A i \in DOMAIN dat.dms :
             LET m == dat.dms[i]
             IN  /\ m.seq < dat.set.seqCount
                 /\ m.type = SsmType => Len(ParseStandardStMan(m.blob).v.offsets) = Rank(dat, m.seq)
        /\ kept.whole => FilesBound

(* Found not to hold: the files are bound at every moment.  A whole rewrite *)
(* that dies or fails after create_table replaced table.dat leaves columns  *)
(* bound to files that are missing or another column's (table.rs 508).      *)
AlwaysBound == disk.dat # <<>> => FilesBound

(* The rows an opener sees - the lock file's record if there is one, else   *)
(* the header - are the rows the flush stored and the rows every manager's  *)
(* file holds: for an old table whose header was never updated, after it    *)
(* was copied without its lock file, and when growth met a count too small  *)
(* for it.  So is the count in the column set, except in an old table whose *)
(* counts were never updated, which keeps it until a flush stores one.      *)
(* Nothing is said from the first file of a growth or of a whole rewrite to *)
(* the last, or after one that was cut.                                     *)
CountsAgree ==
  disk.dat # <<>> /\ kept.sure =>
    /\ DiskRows = kept.rows
    /\ \A q \in ToSet(Dat.seqs) : disk.files[q].rows = kept.rows
    /\ kept.own => Dat.set.nrow = kept.rows

(* Found not to hold: a table copied without its lock file has its rows in  *)
(* both counts of table.dat, "self-consistent without relying on the lock"  *)
(* (table.rs 116).  patch_copy_nrow leaves the column set's as it was; no   *)
(* reader of this program looks at it.                                      *)
CopiesAreConsistent ==
  disk.dat # <<>> /\ kept.sure /\ disk.sync = NoSync => Dat.set.nrow = Dat.header.nrow

(* Columns of one group stand in one manager, and no others with them,      *)
(* whether they were created together, came one by one, survived a removal  *)
(* or were converted - unless a group's name is used with two types of      *)
(* manager, which the suffixes of a rewrite then split.  A tiled manager    *)
(* keeps one column.                                                        *)
KeyedTogether ==
  disk.dat # <<>> =>
    LET cols == Dat.desc.columns
        seqs == Dat.seqs
        Clean(c) == \A k \in DOMAIN cols : GroupOf(cols[k]) = GroupOf(cols[c]) => cols[k].dmType = cols[c].dmType
    IN  \A a, b \in {c \in DOMAIN cols : Clean(c)} : seqs[a] = seqs[b] <=> DmKey(cols[a]) = DmKey(cols[b])

Alike(new, old) ==
  /\ new.type = old.type /\ new.kind = old.kind /\ new.ndim = old.ndim /\ new.options = old.options
  /\ OrElse(new.shape, <<>>) = OrElse(old.shape, <<>>)

(* A column added as a copy of another - through its dictionary, JSON and   *)
(* the description that is written - is stored with its type, its kind, its *)
(* dimensions and its shape.                                                *)
ClonesAreAlike ==
  disk.dat # <<>> =>
    \A c \in DOMAIN kept.ids : \A i \in DOMAIN kept.like :
      kept.like[i].id = kept.ids[c] => Alike(Dat.desc.columns[c], kept.like[i].col)
=============================================================================
