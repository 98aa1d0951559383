-------------------------------- MODULE Taql --------------------------------
(***************************************************************************)
(* TaQL statements on tables that may also be open in Python.              *)
(*                                                                         *)
(* crates/casacure/src/taql.rs parses and runs a statement on the tables   *)
(* on disk.  crates/casacure-python/src/table.rs keeps, for every directory*)
(* opened for writing, one backing with the writes not yet flushed and a   *)
(* snapshot of the files, and brings it up to date after a statement.      *)
(*                                                                         *)
(* Actions: Taql (the module-level function), Query (table.query: a view   *)
(* where it can be one), OpenWrite, Put, AddRow and Flush of a handle.     *)
(***************************************************************************)
EXTENDS TaqlEval, TaqlText

CONSTANTS
  Dirs,          \* the table directories
  StartTables,   \* [Dirs -> tables on disk at the start, or NoTable]
  Statements,    \* the statements a program runs, as trees
  Probes,        \* statements it runs first of all, and nothing after
  Queries,       \* the SELECTs it asks of a handle, as reference tables
  Listings,      \* the lists of tables it gives: directories, or "view"
  PutCells,      \* the cells it puts: <<column, row, cell>>
  Careful,       \* whether it keeps to what IsCareful asks
  None,          \* no statement, no answer, no view
  MaxSteps

VARIABLES
  disk,   \* the table in each directory
  back,   \* the registered backing of each directory (WriteData)
  put,    \* of each directory: the accepted puts that are to be found there
  said,   \* the statement last run, as the user meant it
  heard,  \* as it was parsed
  env,    \* what it was evaluated on
  answer, \* what it answered
  view,   \* a reference table: the order of its rows in a snapshot of files
  shown,  \* what the query answered when the view was made, and of what
  steps

vars == <<disk, back, put, said, heard, env, answer, view, shown, steps>>

NoBack == [cols |-> <<>>]

-----------------------------------------------------------------------------
(* Columns and whole tables.                                               *)

Default(col) ==
  <<IF col.array THEN "Array" ELSE col.type,
    IF col.array \/ col.type = "String" THEN <<>> ELSE IF col.type = "Bool" THEN FALSE ELSE 0>>

(* A column of the DDL (parse_column_spec): NDIM makes it an array.        *)
SpecColumn(spec) == [name |-> spec.name, type |-> spec.type, array |-> spec.ndim # <<>>]

ZeroArray(spec) ==
  <<"Array", [i \in 1..ProductSeq(spec.shape[1]) |-> Default([SpecColumn(spec) EXCEPT !.array = FALSE])]>>

Twin(old, col) == SelectInSeq(old.cols, LAMBDA c : c.name = col.name /\ c.type = col.type)

(* A faulty version: what is put in rows the files do not have is lost.    *)
FlushedShort(old, cols, kw, rows, pend) ==
  [cols |-> cols, kw |-> kw,
   cells |-> [c \in DOMAIN cols |->
                [r \in 1..rows |->
                   CASE <<cols[c].name, r>> \in DOMAIN pend /\ r <= NRows(old) -> pend[<<cols[c].name, r>>]
                     [] Twin(old, cols[c]) # 0 /\ r <= NRows(old) -> old.cells[Twin(old, cols[c])][r]
                     [] OTHER -> Default(cols[c])]]]

(* What a flush leaves on disk: in every row the cell put there, else the  *)
(* one the column of that name and type has on disk, else the default.     *)
Flushed(old, cols, kw, rows, pend) ==
  [cols |-> cols, kw |-> kw,
   cells |-> [c \in DOMAIN cols |->
                [r \in 1..rows |->
                   CASE <<cols[c].name, r>> \in DOMAIN pend -> pend[<<cols[c].name, r>>]
                     [] Twin(old, cols[c]) # 0 /\ r <= NRows(old) -> old.cells[Twin(old, cols[c])][r]
                     [] OTHER -> Default(cols[c])]]]

Resized(t, rows) == Flushed(t, t.cols, t.kw, rows, [x \in {} |-> 0])

Storable(t) == \A c \in DOMAIN t.cols : t.cols[c].array => \A r \in DOMAIN t.cells[c] : t.cells[c][r][1] = "Array"

-----------------------------------------------------------------------------
(* Statements: [disk, touched, answer].                                    *)

Done == <<"done">>
Outcome(d, dirs, a) == [disk |-> d, touched |-> dirs, answer |-> a]
Answered(e, a) == Outcome(e.disk, {}, a)
Failed(e) == Answered(e, Err)
AnswerOr(e, a) == IF a = Err THEN Failed(e) ELSE Answered(e, <<"rows", a>>)

(* The directory a reference names; the tables given have theirs.          *)
Named(ref, e) == IF ref[1] = "table" THEN e.dirs[ref[2]] ELSE Dir(ref[2])

(* Query results cannot be written (writable_edit).                        *)
Editable(ref, e) == Resolve(ref, e) # Err /\ (ref[1] = "table" => ~e.views[ref[2]])

(* The edited copy is flushed over the table.  What a column cannot store  *)
(* stops the flush after it has added the rows.                            *)
Saved(e, dir, t) ==
  IF Storable(t) THEN Outcome([e.disk EXCEPT ![dir] = t], {dir}, Done)
  ELSE Outcome([e.disk EXCEPT ![dir] = IF @ = NoTable \/ NRows(t) <= NRows(@) THEN @ ELSE Resized(@, NRows(t))],
               {dir}, Err)

On(e, ref) == [e EXCEPT !.t = Resolve(ref, e)]

(* The cells of one assignment in the rows selected.                       *)
Stored(t, c, rows, vs) == [i \in DOMAIN vs |-> <<c, rows[i] + 1, CoerceTo(t.cols[c].type, ToRecord(vs[i]))>>]

Assigned(e, t, rows, assign) ==
  IF Column(t, assign[1]) = 0 THEN Err
  ELSE AllOk([i \in DOMAIN rows |-> Eval(assign[2], e, <<rows[i]>>, FALSE)],
             LAMBDA vs : Stored(t, Column(t, assign[1]), rows, vs))

WithCells(t, puts) ==
  [t EXCEPT !.cells = [c \in DOMAIN t.cells |->
     [r \in DOMAIN t.cells[c] |->
        LET here == {i \in DOMAIN puts : puts[i][1] = c /\ puts[i][2] = r}
        IN  IF here = {} THEN t.cells[c][r] ELSE puts[Max(here)][3]]]]

(* A faulty version, on the table as the assignments before left it.       *)
UpdatedInTurn(e, t, rows, assigns) ==
  IF rows = Err THEN Err
  ELSE FoldLeft(LAMBDA x, a : IF x = Err THEN Err
                              ELSE IfOk(Assigned([e EXCEPT !.t = x], x, rows, a), LAMBDA puts : WithCells(x, puts)),
                t, assigns)

(* Every expression is evaluated on the table as it was.                   *)
Updated(e, t, rows, assigns) ==
  IF rows = Err THEN Err
  ELSE AllOk([a \in DOMAIN assigns |-> Assigned(e, t, rows, assigns[a])], LAMBDA ps : WithCells(t, FlattenSeq(ps)))

(* A new table is saved where a statement may write the table it names.    *)
SavedAs(new, ref, e) == IF new = Err \/ ~Editable(ref, e) THEN Failed(e) ELSE Saved(e, Named(ref, e), new)

UpdateOn(s, e) == SavedAs(Updated(e, e.t, SelectedRows(s[4], e), s[3]), s[2], e)
RunUpdate(s, e) == IF Resolve(s[2], e) = Err THEN Failed(e) ELSE UpdateOn(s, On(e, s[2]))

(* The rows left by a deletion, in their order.                            *)
RowsLeft(t, gone) == SelectSeq([r \in 1..NRows(t) |-> r], LAMBDA r : r - 1 \notin ToSet(gone))

DeleteOn(s, e) == SavedAs(IfOk(SelectedRows(s[3], e), LAMBDA gone : TakeRows(e.t, RowsLeft(e.t, gone))), s[2], e)
RunDelete(s, e) == IF Resolve(s[2], e) = Err THEN Failed(e) ELSE DeleteOn(s, On(e, s[2]))

(* The columns the results go to: those named, or the first ones.          *)
Targets(t, names, result) ==
  [i \in DOMAIN result.cols |->
     IF names = <<>> THEN IF i \in DOMAIN t.cols THEN i ELSE 0
     ELSE IF i \in DOMAIN names[1] THEN Column(t, names[1][i]) ELSE 0]

(* Column c of t with what the columns of the result that go to it hold.   *)
Extended(t, c, target, result) ==
  LET from == {i \in DOMAIN target : target[i] = c}
  IN  t.cells[c] \o [r \in 1..NRows(result) |->
                       IF from = {} THEN Default(t.cols[c])
                       ELSE CoerceTo(t.cols[c].type, result.cells[Max(from)][r])]

Inserted(t, target, result) ==
  IF 0 \in ToSet(target) THEN Err
  ELSE [t EXCEPT !.cells = [c \in DOMAIN t.cells |-> Extended(t, c, target, result)]]

(* A faulty version: the rows are added before the columns are looked up.  *)
InsertEager(ref, names, result, e) ==
  CASE result = Err \/ ~Editable(ref, e) -> Failed(e)
    [] result.cols = <<>> -> Answered(e, Done)
    [] 0 \in ToSet(Targets(e.t, names, result)) ->
         Outcome([e.disk EXCEPT ![Named(ref, e)] = Resized(@, NRows(@) + NRows(result))], {Named(ref, e)}, Err)
    [] OTHER -> SavedAs(Inserted(e.t, Targets(e.t, names, result), result), ref, e)

(* The rows are added once it is known which columns they go to.           *)
Insert(ref, names, result, e) ==
  CASE result = Err \/ ~Editable(ref, e) -> Failed(e)
    [] result.cols = <<>> -> Answered(e, Done)
    [] OTHER -> SavedAs(Inserted(e.t, Targets(e.t, names, result), result), ref, e)

RunInsert(s, e) ==
  IF Resolve(s[2], e) = Err THEN Failed(e) ELSE Insert(s[2], s[3], RunSelect(s[4], e), On(e, s[2]))

(* The tables are removed one after another.                               *)
RECURSIVE RunDrop(_, _, _)
RunDrop(refs, e, dirs) ==
  CASE refs = <<>> -> Outcome(e.disk, dirs, Done)
    [] refs # <<>> /\ (refs[1][1] # "path" \/ Resolve(refs[1], e) = Err) -> Outcome(e.disk, dirs, Err)
    [] OTHER -> RunDrop(Tail(refs), [e EXCEPT !.disk[Dir(refs[1][2])] = NoTable], dirs \cup {Dir(refs[1][2])})

(* One operation of ALTER TABLE on a copy of the table.                    *)
WithoutColumn(t, c) == [t EXCEPT !.cols = RemoveAt(@, c), !.cells = RemoveAt(@, c)]

(* A keyword takes a literal.                                              *)
KeywordCell(expr) ==
  IF expr[1] # "lit" THEN Err ELSE ToRecord(expr[2])

Altered(t, op) ==
  CASE op[1] = "add" ->
         IF Column(t, op[2].name) # 0 THEN Err
         ELSE [t EXCEPT !.cols = Append(@, SpecColumn(op[2])),
                        !.cells = Append(@, [r \in 1..NRows(t) |-> Default(SpecColumn(op[2]))])]
    [] op[1] = "drop"   -> IF Column(t, op[2]) = 0 THEN Err ELSE WithoutColumn(t, Column(t, op[2]))
    [] op[1] = "rename" -> IF Column(t, op[2]) = 0 THEN Err ELSE [t EXCEPT !.cols[Column(t, op[2])].name = op[3]]
    [] op[1] = "set"    -> IF KeywordCell(op[3]) = Err THEN Err ELSE [t EXCEPT !.kw = (op[2] :> KeywordCell(op[3])) @@ @]
    [] op[1] = "remove" -> [t EXCEPT !.kw = [k \in DOMAIN @ \ {op[2]} |-> @[k]]]

(* Each operation is flushed before the next, which starts from the table  *)
(* the reference names: on disk, or as it was given.                       *)
RECURSIVE RunOps(_, _, _, _)
RunOps(ref, ops, e, dirs) ==
  CASE ops = <<>> -> Outcome(e.disk, dirs, Done)
    [] ops # <<>> /\ ~Editable(ref, e) -> Outcome(e.disk, dirs, Err)
    [] ops # <<>> /\ Editable(ref, e) /\ Altered(Resolve(ref, e), ops[1]) = Err ->
         Outcome(e.disk, dirs \cup {Named(ref, e)}, Err)
    [] OTHER -> RunOps(ref, Tail(ops), [e EXCEPT !.disk[Named(ref, e)] = Altered(Resolve(ref, e), ops[1])],
                       dirs \cup {Named(ref, e)})

RunCount(s, e) ==
  IF Resolve(s[2], e) = Err THEN Failed(e)
  ELSE Answered(e, <<"rows", Table(<<"count">>, <<<<<<"Int64", Len(WhereRows(s[3], On(e, s[2])))>>>>>>, <<>>)>>)

RunCalc(s, e) ==
  IF Resolve(s[3], e) = Err THEN Failed(e)
  ELSE AnswerOr(e, AllOk(EvalAll(s[2], On(e, s[3]), <<0>>, FALSE),
                         LAMBDA vs : Table([i \in DOMAIN vs |-> "col"], [i \in DOMAIN vs |-> <<ToRecord(vs[i])>>], <<>>)))

(* One row for each column; without a table, a text.                       *)
Described(t) ==
  Table(<<"name", "datatype", "ndim">>,
        <<[c \in DOMAIN t.cols |-> <<"String", t.cols[c].name>>],
          [c \in DOMAIN t.cols |-> <<"String", t.cols[c].type>>],
          [c \in DOMAIN t.cols |-> <<"Int64", IF t.cols[c].array THEN 1 ELSE -1>>]>>, <<>>)

RunShow(s, e) ==
  CASE s[2] = <<>> -> Answered(e, Done)
    [] s[2] # <<>> /\ Resolve(s[2][1], e) = Err -> Failed(e)
    [] OTHER -> Answered(e, <<"rows", Described(Resolve(s[2][1], e))>>)

(* The columns of a stored result: each of the type of its first cell.     *)
ResultColumns(t) ==
  [c \in DOMAIN t.cols |->
     LET sample == IF t.cells[c] = <<>> THEN <<"Int64", 0>> ELSE t.cells[c][1]
     IN  [name |-> t.cols[c].name, array |-> sample[1] = "Array",
          type |-> CASE sample[1] # "Array" -> sample[1]
                     [] sample[1] = "Array" /\ sample[2] # <<>> -> sample[2][1][1]
                     [] OTHER -> "Double"]]

(* A stored cell of another type than its column's reads as zero.          *)
StoredAs(col, cell) ==
  IF cell[1] = (IF col.array THEN "Array" ELSE col.type) THEN cell ELSE Default(col)

StoredTable(out, cols) ==
  [cols |-> cols, kw |-> <<>>,
   cells |-> [c \in DOMAIN cols |-> [r \in DOMAIN out.cells[c] |-> StoredAs(cols[c], out.cells[c][r])]]]

StoreResult(dir, out, e) ==
  IF out = Err THEN Failed(e)
  ELSE Outcome([e.disk EXCEPT ![dir] = StoredTable(out, ResultColumns(out))], {dir}, <<"created", dir>>)

Selected(sel, out, e) == IF sel.into = <<>> THEN AnswerOr(e, out) ELSE StoreResult(Dir(sel.into[1]), out, e)

(* CREATE TABLE is a flush of a new table with nothing put in it but the   *)
(* zeros of arrays of fixed shape: over a table that is there already, the *)
(* columns of the same name keep its cells.                                *)
CreateZeros(c) ==
  [at \in {<<c.cols[i].name, r>> : i \in {i \in DOMAIN c.cols : c.cols[i].shape # <<>> /\ c.cols[i].ndim # <<>>}, r \in 1..c.limit} |->
     ZeroArray(c.cols[CHOOSE i \in DOMAIN c.cols : c.cols[i].name = at[1]])]

RunCreate(c, e) ==
  Outcome([e.disk EXCEPT ![Dir(c.path)] =
             Flushed(@, [i \in DOMAIN c.cols |-> SpecColumn(c.cols[i])],
                     [k \in {c.kws[i][1] : i \in DOMAIN c.kws} |->
                        c.kws[CHOOSE i \in DOMAIN c.kws : c.kws[i][1] = k /\ \A j \in (i + 1)..Len(c.kws) : c.kws[j][1] # k][2]],
                     c.limit, CreateZeros(c))],
          {Dir(c.path)}, <<"created", Dir(c.path)>>)

Execute(s, e) ==
  CASE s[1] = "select"    -> Selected(s[2], RunSelect(s[2], e), e)
    [] s[1] = "count"     -> RunCount(s, e)
    [] s[1] = "update"    -> RunUpdate(s, e)
    [] s[1] = "delete"    -> RunDelete(s, e)
    [] s[1] = "insert"    -> RunInsert(s, e)
    [] s[1] = "droptable" -> RunDrop(s[2], e, {})
    [] s[1] = "alter"     -> RunOps(s[2], s[3], e, {})
    [] s[1] = "show"      -> RunShow(s, e)
    [] s[1] = "calc"      -> RunCalc(s, e)
    [] s[1] = "create"    -> RunCreate(s[2], e)
    [] OTHER              -> Failed(e)

-----------------------------------------------------------------------------
(* Python: the backings of the tables open for writing.                    *)

NoPuts == [at \in {} |-> 0]

Fresh(t) == [cols |-> t.cols, kw |-> t.kw, rows |-> NRows(t), pend |-> NoPuts, dirty |-> FALSE,
             seen |-> Names(t), read |-> t]

Dirty(b) == b # NoBack /\ b.dirty

(* A flush refuses when the columns on disk are no longer those seen.      *)
Refused(t, b) == Dirty(b) /\ (t = NoTable \/ Names(t) # b.seen)

FlushedDisk(t, b) == IF Dirty(b) THEN Flushed(t, b.cols, b.kw, b.rows, b.pend) ELSE t
FlushedBack(t, b) ==
  IF Dirty(b) THEN [b EXCEPT !.read = t, !.seen = [c \in DOMAIN b.cols |-> b.cols[c].name],
                             !.dirty = FALSE, !.pend = NoPuts]
  ELSE b

(* A faulty version: only a directory that is gone is noticed.             *)
RefreshedIfGone(t, b) == IF b = NoBack \/ t = NoTable THEN NoBack ELSE b

(* refresh_write: a backing is made anew from the files, or dropped with   *)
(* them.                                                                   *)
Refreshed(t, b) == CASE b = NoBack -> b [] t = NoTable -> NoBack [] OTHER -> Fresh(t)

-----------------------------------------------------------------------------
(* A view keeps a snapshot, and that maps the files: a write in place shows*)
(* through, one that replaces a file does not, and a mapping of a replaced *)
(* file sees no later write.  All columns are in one file here; which of   *)
(* the two a write is depends on its values, so both are tried.            *)
ViewTable(v) == TakeRows(v.base, [i \in DOMAIN v.rows |-> v.rows[i] + 1])

Follows(old, new) == new # NoTable /\ new.cols = old.cols /\ NRows(new) >= NRows(old)

Mapped(base, new) == [base EXCEPT !.cells = Resized(new, NRows(base)).cells]

ViewAfter(old, new) ==
  CASE view = None -> {None}
    [] view # None /\ (~view.live \/ old[view.dir] = new[view.dir]) -> {view}
    [] OTHER -> {[view EXCEPT !.live = FALSE]}
                \cup {[view EXCEPT !.base = Mapped(@, n)] : n \in {n \in {new[view.dir]} : Follows(old[view.dir], n)}}

-----------------------------------------------------------------------------
Init ==
  /\ disk = StartTables
  /\ back = [d \in Dirs |-> NoBack]
  /\ put = [d \in Dirs |-> NoPuts]
  /\ said = None /\ heard = None /\ env = None /\ answer = None
  /\ view = None /\ shown = None
  /\ steps = 0

Step  == steps < MaxSteps /\ steps' = steps + 1
Quiet == /\ said' = None /\ heard' = None /\ env' = None /\ answer' = None
         /\ view' \in ViewAfter(disk, disk')
         /\ UNCHANGED shown

(* A handle of the directory is opened for writing, or a stale backing     *)
(* with nothing pending found and renewed.                                 *)
OpenWrite(d) ==
  /\ Step /\ disk[d] # NoTable
  /\ back[d] # NoBack => ~back[d].dirty /\ (Names(disk[d]) # back[d].seen \/ NRows(disk[d]) > back[d].rows)
  /\ back' = [back EXCEPT ![d] = Fresh(disk[d])]
  /\ UNCHANGED <<disk, put>> /\ Quiet

Put(d, c, r, cell) ==
  /\ Step /\ back[d] # NoBack /\ r <= back[d].rows
  /\ \E i \in DOMAIN back[d].cols :
       back[d].cols[i].name = c /\ ~back[d].cols[i].array /\ back[d].cols[i].type = cell[1]
  /\ back' = [back EXCEPT ![d].pend = (<<c, r>> :> cell) @@ @, ![d].dirty = TRUE]
  /\ put' = [put EXCEPT ![d] = (<<c, r>> :> cell) @@ @]
  /\ UNCHANGED disk /\ Quiet

AddRow(d) ==
  /\ Step /\ back[d] # NoBack
  /\ back' = [back EXCEPT ![d].rows = @ + 1, ![d].dirty = TRUE]
  /\ UNCHANGED <<disk, put>> /\ Quiet

Flush(d) ==
  /\ Step /\ Dirty(back[d]) /\ ~Refused(disk[d], back[d])
  /\ disk' = [disk EXCEPT ![d] = FlushedDisk(@, back[d])]
  /\ back' = [back EXCEPT ![d] = FlushedBack(disk'[d], @)]
  /\ UNCHANGED put /\ Quiet

-----------------------------------------------------------------------------
(* A statement, with a list of handles for $1, $2, ...  Those open for     *)
(* writing are flushed and give their snapshot, others the files; a view   *)
(* gives its rows.                                                         *)

Given(name, d, b) ==
  CASE name = "view" -> ViewTable(view) [] b[name] # NoBack -> b[name].read [] OTHER -> d[name]

Env(d, b, list) ==
  [t |-> NoTable, given |-> [i \in DOMAIN list |-> Given(list[i], d, b)],
   dirs |-> list, views |-> [i \in DOMAIN list |-> list[i] = "view"], disk |-> d]

Listable(list) ==
  \A i \in DOMAIN list : IF list[i] = "view" THEN view # None
                          ELSE disk[list[i]] # NoTable /\ ~Refused(disk[list[i]], back[list[i]])

AfterFlush(list) == [d \in Dirs |-> IF d \in ToSet(list) THEN FlushedDisk(disk[d], back[d]) ELSE disk[d]]
BackAfter(list, d) == [x \in Dirs |-> IF x \in ToSet(list) THEN FlushedBack(d[x], back[x]) ELSE back[x]]

Targets1(s) ==
  CASE s[1] \in {"update", "delete", "insert", "alter"} -> <<s[2]>>
    [] s[1] = "droptable" -> s[2]
    [] s[1] = "create"    -> <<<<"path", s[2].path>>>>
    [] s[1] = "select" /\ s[2].into # <<>> -> <<<<"path", s[2].into[1]>>>>
    [] OTHER -> <<>>

(* What a careful program sees to: nothing is pending for a directory it   *)
(* names as a path, a table of several operations or removals is not open, *)
(* rows are not inserted beside array columns, and a table is created      *)
(* where there is none.                                                    *)
IsCareful(s, d, b) ==
  /\ \A i \in DOMAIN Targets1(s) :
       Targets1(s)[i][1] = "path" => ~Dirty(b[Dir(Targets1(s)[i][2])])
  /\ ((s[1] = "alter" /\ Len(s[3]) > 1) \/ s[1] = "droptable") => \A x \in Dirs : b[x] = NoBack
  /\ s[1] = "insert" => \A x \in Dirs : \A c \in DOMAIN d[x].cols : ~d[x].cols[c].array
  /\ s[1] = "create" => d[Dir(s[2].path)] = NoTable

(* A backing is brought up to date when the statement wrote its directory  *)
(* and did not fail: a failure leaves before that.  The table created is   *)
(* answered as a handle open for writing.                                  *)
BackingAfter(x, o, b) ==
  CASE o.answer = Err -> b
    [] o.answer = <<"created", x>> /\ b = NoBack -> Fresh(o.disk[x])
    [] x \in o.touched -> Refreshed(o.disk[x], b)
    [] OTHER -> b

(* The puts a statement read, and may have changed, are not looked for     *)
(* any more; those pending still are.                                      *)
PutsAfter(x, o, d, b) == IF o.disk[x] # d[x] /\ ~Dirty(b) THEN NoPuts ELSE put[x]

Settle(o, d, b) ==
  /\ disk' = o.disk /\ answer' = o.answer
  /\ back' = [x \in Dirs |-> BackingAfter(x, o, b[x])]
  /\ put'  = [x \in Dirs |-> PutsAfter(x, o, d, b[x])]

(* What the parser makes of the text of a statement.                       *)
Understood ==
  [s \in Statements \cup Probes |-> LET r == Parse(Text(s)) IN IF r = Bad THEN Bad ELSE r[2]]
Run(tree, e) == IF tree = Bad THEN Failed(e) ELSE Execute(tree, e)

Call(s, list) ==
  /\ Listable(list)
  /\ \E d \in {AfterFlush(list)} : \E b \in {BackAfter(list, d)} :
       /\ Careful => IsCareful(s, d, b)
       /\ \E tree \in {Understood[s]} : \E e \in {Env(d, b, list)} :
            /\ said' = s /\ heard' = tree /\ env' = e
            /\ \E o \in {Run(tree, e)} : Settle(o, d, b)
  /\ view' \in ViewAfter(disk, disk')
  /\ UNCHANGED shown

Taql(s, list) ==
  /\ steps < MaxSteps
  /\ steps' = IF steps = 0 /\ s \in Probes THEN MaxSteps ELSE steps + 1
  /\ Call(s, list)

(* Probes stand alone.                                                     *)
Asking == IF steps = 0 THEN (Statements \X Listings) \cup (Probes \X {<<>>}) ELSE Statements \X Listings

(* A query of a handle, or of the view: a view of the rows where it only   *)
(* picks rows, else a table of its own.                                    *)
Source(from, d) == IF from = "view" THEN ViewTable(view) ELSE d[from]

(* A faulty version: the rows of a view are taken for those of its table.  *)
ViewedFlat(from, rows, t) ==
  IF from = "view" THEN [view EXCEPT !.rows = rows] ELSE [base |-> t, dir |-> from, live |-> TRUE, rows |-> rows]

Viewed(from, rows, t) ==
  IF from = "view" THEN [view EXCEPT !.rows = [i \in DOMAIN rows |-> view.rows[rows[i] + 1]]]
  ELSE [base |-> t, dir |-> from, live |-> TRUE, rows |-> rows]

Asked(sel, from, t, e) ==
  \E order \in {RowOrder(sel, e)} :
    /\ view'  = IF order \in {<<>>, Err} THEN None ELSE Viewed(from, order[1], t)
    /\ shown' = IF order \in {<<>>, Err} THEN None ELSE [cells |-> RunSelect(sel, e).cells, of |-> view'.base]

Query(sel, from) ==
  /\ Step /\ Listable(<<from>>)
  /\ disk' = AfterFlush(<<from>>) /\ back' = BackAfter(<<from>>, disk')
  /\ \E t \in {Source(from, disk')} :
       Asked(sel, from, t, [t |-> NoTable, given |-> <<t>>, dirs |-> <<"">>, views |-> <<TRUE>>, disk |-> disk'])
  /\ said' = None /\ heard' = None /\ env' = None /\ answer' = None
  /\ UNCHANGED put

Next ==
  \/ \E d \in Dirs : OpenWrite(d) \/ AddRow(d) \/ Flush(d)
  \/ \E d \in Dirs : \E p \in PutCells : Put(d, p[1], p[2], p[3])
  \/ \E q \in Asking : Taql(q[1], q[2])
  \/ \E sel \in Queries : \E from \in Dirs \cup {"view"} : Query(sel, from)

-----------------------------------------------------------------------------
(* Properties.                                                             *)

Answered1 == answer # Err /\ heard # None /\ heard # Bad /\ answer # None
Asks(what) == heard # None /\ heard # Bad /\ heard[1] = what

(* What the parser makes of a statement is what its author meant: the      *)
(* precedence and grouping of operators and the order of clauses are those *)
(* the statement was written with.                                         *)
ParsesBack == heard = said

(* A statement UPDATE, DELETE or INSERT that fails has changed no table.   *)
(* (For careful programs: an INSERT beside array columns may fail after it *)
(* has added its rows, see IsCareful.)                                     *)
FailedLeavesAlone ==
  answer = Err /\ (Asks("update") \/ Asks("delete") \/ Asks("insert")) => disk = env.disk

(* The rows the WHERE of a statement holds on, before it.                  *)
Hit(ref, where) ==
  {r \in 1..NRows(Resolve(ref, env)) : where = <<>> \/ Holds(where[1], On(env, ref), <<r - 1>>, FALSE)}

Unpaged(t) == t.limit = <<>> /\ t.offset = <<>>

CellAfter(ref, assigns, c, r) ==
  LET t  == Resolve(ref, env)
      by == {i \in DOMAIN assigns : assigns[i][1] = t.cols[c].name}
  IN  IF by = {} THEN t.cells[c][r]
      ELSE CoerceTo(t.cols[c].type, ToRecord(Eval(assigns[Max(by)][2], On(env, ref), <<r - 1>>, FALSE)))

UpdateIsExact(ref, assigns, tail, new) ==
  LET t == Resolve(ref, env)
      changed == {r \in 1..NRows(t) : \E c \in DOMAIN t.cols : new.cells[c][r] # t.cells[c][r]}
  IN  /\ NRows(new) = NRows(t) /\ changed \subseteq Hit(ref, tail.where)
      /\ tail.limit # <<>> => Cardinality(changed) <= tail.limit[1]
      /\ \A c \in DOMAIN t.cols : \A r \in IF Unpaged(tail) THEN Hit(ref, tail.where) ELSE changed :
           new.cells[c][r] = CellAfter(ref, assigns, c, r)

DeleteIsExact(ref, tail, new) ==
  LET t    == Resolve(ref, env)
      kept == SelectSeq([r \in 1..NRows(t) |-> r], LAMBDA r : r \notin Hit(ref, tail.where))
  IN  IF Unpaged(tail) THEN new = TakeRows(t, kept)
      ELSE tail.offset = <<>> => NRows(t) - NRows(new) = Min({tail.limit[1], Cardinality(Hit(ref, tail.where))})

InsertIsExact(ref, sel, new) ==
  LET t == Resolve(ref, env)
  IN  /\ Resized(new, NRows(t)) = t
      /\ NRows(new) = NRows(t) + NRows(RunSelect(sel, env))

(* UPDATE gives every selected row the values the expressions have on the  *)
(* table as it was, and changes no other cell; DELETE removes the selected *)
(* rows and leaves the others in their order; INSERT leaves the rows there *)
(* are and appends those of its SELECT.                                    *)
EditsAreExact ==
  answer = Done =>
    /\ Asks("update") => UpdateIsExact(heard[2], heard[3], heard[4], disk[Named(heard[2], env)])
    /\ Asks("delete") => DeleteIsExact(heard[2], heard[3], disk[Named(heard[2], env)])
    /\ Asks("insert") => InsertIsExact(heard[2], heard[4], disk[Named(heard[2], env)])

(* The cells of the first column of an answer.                             *)
FirstColumn == answer[2].cells[1]
FirstIs(f) == /\ Answered1 /\ Asks("select") /\ heard[2].into = <<>> /\ heard[2].columns # <<>>
              /\ heard[2].columns[1][1][1] = <<"call", f, <<>>>>

(* Row a may stand before row b: at the first key that tells them apart    *)
(* the order is the one asked for.  Once a descending key ties, later keys *)
(* are not looked at when `all' is FALSE.                                  *)
InOrder(a, b, all) ==
  LET keys == heard[2].orderby
      On1(k, row) == Eval(keys[k].expr, On(env, heard[2].table), <<row>>, FALSE)
      Way(k) == Compare(On1(k, a), On1(k, b))
      first == {k \in DOMAIN keys : Way(k) # 0 /\ \A j \in 1..(k - 1) : Way(j) = 0 /\ (all \/ ~keys[j].desc)}
  IN  \A k \in first : (Way(k) < 0) # keys[k].desc

Ordered(all) ==
  FirstIs("rowid") /\ heard[2].groupby = <<>> /\ ~heard[2].unique =>
    /\ \A i, j \in DOMAIN FirstColumn : i < j =>
         FirstColumn[i] # FirstColumn[j] /\ InOrder(FirstColumn[i][2], FirstColumn[j][2], all)
    /\ Unpaged(heard[2]) =>
         {FirstColumn[i][2] + 1 : i \in DOMAIN FirstColumn} = Hit(heard[2].table, heard[2].where)

(* A query answers the rows its WHERE holds on, each once, in the order of *)
(* its ORDERBY keys up to the first descending one.                        *)
RowsAreOrdered == Ordered(FALSE)

(* ... in the order of all its keys.  (Found not to hold.)                 *)
OrderedByKeys == Ordered(TRUE)

(* The groups of a grouped query without HAVING or LIMIT part the rows its *)
(* WHERE holds on, two rows being together exactly when all their keys are *)
(* equal.                                                                  *)
GroupsPartition ==
  FirstIs("growid") /\ heard[2].groupby # <<>> /\ heard[2].having = <<>> /\ Unpaged(heard[2]) =>
    LET groups == [g \in DOMAIN FirstColumn |-> {FirstColumn[g][2][i][2] : i \in DOMAIN FirstColumn[g][2]}]
        keys(r) == EvalAll(heard[2].groupby, On(env, heard[2].table), <<r>>, FALSE)
    IN  /\ UNION {groups[g] : g \in DOMAIN groups} = {r - 1 : r \in Hit(heard[2].table, heard[2].where)}
        /\ \A g, h \in DOMAIN groups : \A r \in groups[g] : \A q \in groups[h] : (g = h) <=> (keys(r) = keys(q))

(* The text and the pattern of a probe CALC 'text' LIKE 'pattern'.         *)
IsLit(e) == e[1] = "lit" /\ e[2][1] = "str"
PatternKind(m) ==
  CASE m[2][2] \in {"like", "ilike"} -> "sqlpattern" [] IsLit(m[4]) -> "regex" [] OTHER -> m[4][2]
PatternText(m) == IF IsLit(m[4]) THEN m[4][2][2] ELSE m[4][3][1][2][2]
Folded(m, s) == IF m[2][2] = "ilike" THEN Lower(s) ELSE s

MatchIsMeant(m, said1) ==
  LET means == Meant(Folded(m, m[3][2][2]), PatternKind(m), Folded(m, PatternText(m)))
      found == said1 = (m[2][1] = "")
  IN  /\ found => means
      /\ PatternKind(m) = "regex" => (means /\ Straight(ParseRegex(PatternText(m))[2]) => found)
      /\ PatternKind(m) # "regex" => (means => found)

(* LIKE and glob patterns match exactly the texts that can be cut up as    *)
(* the pattern says.  A regular expression matches only what it means, and *)
(* all of it when no group or alternative stands before anything else.     *)
PatternsAreExact ==
  Answered1 /\ Asks("calc") /\ heard[2][1][1] = "match" /\ IsLit(heard[2][1][3]) =>
    MatchIsMeant(heard[2][1], FirstColumn[1][2])

(* Each row of a reference table stands for one row of the table it was    *)
(* made from, the one the query's written-out answer has in that place:    *)
(* the cells of that row were the answer's when it was made, and are what  *)
(* the view shows now, written over in place or not.  That goes for a      *)
(* query of a reference table too.                                         *)
ViewShowsRows ==
  view # None =>
    LET now == ViewTable(view).cells
    IN  \A i \in DOMAIN view.rows : \E r \in 1..NRows(view.base) : \A c \in DOMAIN view.base.cols :
          /\ shown.cells[c][i] = shown.of.cells[c][r]
          /\ now[c][i] = view.base.cells[c][r]

(* A backing with nothing pending agrees with the files: columns, rows,    *)
(* keywords and cells.  A later flush of it takes no statement back.       *)
BackingIsCurrent ==
  \A d \in Dirs : back[d] # NoBack /\ ~back[d].dirty =>
    disk[d] # NoTable /\ back[d] = Fresh(disk[d])

(* An accepted put is pending or in the files.                             *)
PutsReachDisk ==
  \A d \in Dirs : \A at \in DOMAIN put[d] :
    \/ back[d] # NoBack /\ at \in DOMAIN back[d].pend /\ back[d].pend[at] = put[d][at]
    \/ disk[d] # NoTable /\ Column(disk[d], at[1]) # 0 /\ at[2] <= NRows(disk[d])
       /\ disk[d].cells[Column(disk[d], at[1])][at[2]] = put[d][at]

(* A table just created holds nothing but defaults and zeros.  (Holds only *)
(* where there was no table before.)                                       *)
CreatedIsNew ==
  Answered1 /\ Asks("create") =>
    LET t == disk[Dir(heard[2].path)]
    IN  \A c \in DOMAIN t.cols : \A r \in DOMAIN t.cells[c] :
          t.cells[c][r] = (IF heard[2].cols[c].shape = <<>> \/ ~t.cols[c].array THEN Default(t.cols[c]) ELSE ZeroArray(heard[2].cols[c]))

Spec == Init /\ [][Next]_vars
=============================================================================
