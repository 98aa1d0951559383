------------------------------ MODULE TableDat ------------------------------
(* table.dat, the file a table is opened by: its header, the description of *)
(* its columns (tabledesc.rs), the data managers and which of them keeps    *)
(* which column (columnset.rs).  How it is written, how it is read, and the *)
(* two writers that change a row count inside it.  Names, versions and      *)
(* comments of the description are left out.  An optional value is a        *)
(* sequence of none or one.                                                 *)
EXTENDS Records

CONSTANT WordMax      \* the largest number four bytes hold
ASSUME WordMaxAssumption == WordMax \in Nat \ {0}

-----------------------------------------------------------------------------
(* The description of a column; its tile shape is never written.            *)
ColumnDesc(name, type, dmType, dmGroup, options, ndim, shape, keywords, kind) ==
  [name |-> name, type |-> type, dmType |-> dmType, dmGroup |-> dmGroup, options |-> options,
   ndim |-> ndim, shape |-> shape, keywords |-> keywords, kind |-> kind, tile |-> <<>>,
   default |-> Scalar(type, IF type = "String" THEN "" ELSE "0")]

ClassName(col) == IF col.kind = "Array" THEN "ArrayColumnDesc"
                  ELSE IF col.type = "Record" THEN "ScalarRecordColumnDesc" ELSE "ScalarColumnDesc"

ColumnTypeCode(type) == IF IsArray(type) /\ type # "ArrayInt64" THEN 13 ELSE DataTypeCode(type)

PutColumnDesc(col) ==
  PutWord(1) \o PutString(ClassName(col)) \o PutWord(1)
    \o PutString(col.name) \o PutString(col.dmType) \o PutString(col.dmGroup)
    \o PutWord(ColumnTypeCode(col.type)) \o PutWord(col.options) \o PutWord(col.ndim)
    \o (IF col.kind = "Array" THEN PutIPosition(OrElse(col.shape, <<>>)) ELSE <<>>)
    \o WriteTableRecord(col.keywords) \o PutWord(1)
    \o (IF col.kind = "Array" THEN PutBool(FALSE)
        ELSE IF col.kind = "Scalar" THEN WriteScalarValue(col.type, col.default) ELSE <<>>)

(* The head: versions, class, name, manager and group, the type's code, the *)
(* options and the number of dimensions; behind it the shape of an array,   *)
(* the keywords and a scalar's default.                                     *)
KindOf(class) == IF class = "ArrayColumnDesc" THEN "Array" ELSE IF class = "ScalarColumnDesc" THEN "Scalar" ELSE "Record"

DescFrom(h, type, shape, words, last) ==
  Read([ColumnDesc(h.v[4], type, h.v[5], h.v[6], h.v[8], h.v[9], shape.v, words.v, KindOf(h.v[2]))
          EXCEPT !.default = IF KindOf(h.v[2]) = "Scalar" THEN last.v ELSE @],
       last.at)

DefaultFrom(s, h, type, shape, words) ==
  DescFrom(h, type, shape, words,
    IF KindOf(h.v[2]) = "Scalar" THEN ReadScalarValue(s, Skip(s, words.at, 1), type)
    ELSE Read(Scalar(type, ""), Skip(s, words.at, IF KindOf(h.v[2]) = "Array" THEN 2 ELSE 1)))

WordsFrom(s, h, type, shape) == DefaultFrom(s, h, type, shape, ReadTableRecord(s, shape.at))

ShapeFrom(p) == Read(<<p.v>>, p.at)

ColumnFrom(s, h) ==
  WordsFrom(s, h, IF h.v[7] + 1 \in DOMAIN DataTypes THEN DataTypes[h.v[7] + 1] ELSE "Other",
            IF h.v[7] + 1 \notin DOMAIN DataTypes THEN Failed(<<>>)
            ELSE IF KindOf(h.v[2]) = "Array" THEN ShapeFrom(ReadIPosition(s, h.at)) ELSE Read(<<>>, h.at))

ReadColumnDesc(s, at) ==
  ColumnFrom(s, ReadAll(s, at, <<"w4", "str", "w4", "str", "str", "str", "w4", "w4", "w4">>))

PutTableDesc(desc) ==
  PutObject("TableDesc", 2,
    WriteTableRecord(desc.keywords) \o WriteTableRecord(desc.private)
      \o PutWord(Len(desc.columns)) \o PutAll(PutColumnDesc, desc.columns))

TableDescFrom(words, private, cols) ==
  Read([keywords |-> words.v, private |-> private.v, columns |-> cols.v], cols.at)
ColumnsFrom(s, words, private) == TableDescFrom(words, private, ReadCounted(ReadColumnDesc, s, private.at))
PrivateFrom(s, version, words) ==
  ColumnsFrom(s, words, IF version # 1 THEN ReadTableRecord(s, words.at) ELSE Read(NoRecord, words.at))

ReadTableDesc(s, at) ==
  LET o == ReadObject(s, at, "TableDesc") IN PrivateFrom(s, o.v, ReadTableRecord(s, o.at))

-----------------------------------------------------------------------------
(* A data manager's specification: a StandardStMan's name and the places of *)
(* its columns in a bucket, an IncrementalStMan's name; a tiled manager     *)
(* keeps its own in its header file.                                        *)
PutBlock(list) == PutObject("Block", 1, PutWord(Len(list)) \o PutAll(PutWord, list))

ReadBlock(s, at) == ReadCounted(ReadWord, s, ReadObject(s, at, "Block").at)

WriteStandardStMan(spec) ==
  PutRootObject("SSM", 2, PutString(spec.name) \o PutBlock(spec.offsets) \o PutBlock(spec.map))

SsmSpec(name, offsets, map) == Read([name |-> name.v, offsets |-> offsets.v, map |-> map.v], map.at)
SsmMap(blob, name, offsets) == SsmSpec(name, offsets, ReadBlock(blob, offsets.at))
SsmBlocks(blob, name) == SsmMap(blob, name, ReadBlock(blob, name.at))
ParseStandardStMan(blob) ==
  LET o == ReadObjectStart(blob, 1, "root")
  IN  SsmBlocks(blob, ReadString(blob, IF o.v.type = "SSM" THEN o.at ELSE 0))

WriteIsmBlob(name) == PutRootObject("ISM", 3, PutString(name))

ParseIsmName(blob) ==
  LET o == ReadObjectStart(blob, 1, "root") IN ReadString(blob, IF o.v.type = "ISM" THEN o.at ELSE 0)

(* what a writer of n columns leaves behind its name *)
DmBlob(type, name, n) ==
  LET places == [i \in 1..n |-> i - 1]
  IN  IF type = "StandardStMan" THEN WriteStandardStMan([name |-> name, offsets |-> places, map |-> places])
      ELSE IF type = "IncrementalStMan" THEN WriteIsmBlob(name) ELSE <<>>

(* a StandardStMan's specification is written anew from what was read of it *)
ExistingDmBlobs(dat) ==
  [i \in DOMAIN dat.dms |->
     IF dat.dms[i].type = "StandardStMan"
     THEN [dat.dms[i] EXCEPT !.blob = WriteStandardStMan(ParseStandardStMan(@).v)] ELSE dat.dms[i]]

-----------------------------------------------------------------------------
(* Which manager keeps which column: `seqs` gives each column's manager.    *)
PutColumnSet(nrow, seqCount, dms, cols, seqs) ==
  LET Binding(i) == PutWord(2) \o PutString(cols[i].name) \o PutWord(1) \o PutWord(seqs[i])
                      \o (IF cols[i].kind = "Array"
                          THEN PutBool(TRUE) \o PutIPosition(OrElse(cols[i].shape, <<>>)) ELSE <<>>)
      Manager(d) == PutString(d.type) \o PutWord(d.seq)
      Blob(d)    == PutOpaque(d.blob)
  IN  PutWord(-2) \o PutWord(nrow) \o PutWord(seqCount) \o PutWord(Len(dms)) \o PutAll(Manager, dms)
        \o FlattenSeq([i \in DOMAIN cols |-> Binding(i)]) \o PutAll(Blob, dms)

(* where the row count stands, and what follows it: a first word that is    *)
(* not negative is itself the count of an ancient table                     *)
CountField(s, at) ==
  LET v == ReadWord(s, at)
  IN  IF v.v >= 0 THEN [at |-> at, kind |-> "w4", version |-> 1]
      ELSE [at |-> v.at, kind |-> IF v.v >= -2 THEN "w4" ELSE "w8", version |-> -v.v]

Manager(m) == Read([type |-> m.v[1], seq |-> m.v[2]], m.at)
ReadManager(s, at) == Manager(ReadAll(s, at, <<"str", "w4">>))

(* a column's binding is read as its description says: with a shape for an  *)
(* array that is marked to have one                                         *)
BindingFrom(b, shape) == Read([name |-> b.v[2], seq |-> b.v[4], shape |-> shape.v], shape.at)
ShapedFrom(s, b, col, marked) ==
  BindingFrom(b, IF col.kind # "Array" THEN Read(<<>>, b.at)
                 ELSE IF marked THEN ShapeFrom(ReadIPosition(s, b.at + 1)) ELSE Read(<<>>, Skip(s, b.at, 1)))
MarkedFrom(s, b, col) ==
  IF b.at = 0 \/ b.v[1] # 2 \/ (col.kind = "Array" /\ ~At(s, b.at, "w1")) THEN Failed([name |-> "", seq |-> 0, shape |-> <<>>])
  ELSE ShapedFrom(s, b, col, col.kind = "Array" /\ s[b.at].num = 1)
ReadBinding(s, at, col) == MarkedFrom(s, ReadAll(s, at, <<"w4", "str", "w4", "w4">>), col)

ReadBindings(s, at, cols) ==
  FoldLeft(LAMBDA r, c : IF r.at = 0 THEN r ELSE Appended(r, ReadBinding(s, r.at, c)), Read(<<>>, at), cols)

(* the managers take their specifications, which must decode *)
SetFrom(nrow, count, dms, bound, blobs) ==
  LET ok == /\ blobs.at # 0 /\ Len(blobs.v) = Len(dms.v)
            /\ \A i \in DOMAIN dms.v : dms.v[i].type = "StandardStMan" => ParseStandardStMan(blobs.v[i]).at # 0
  IN  Read([nrow |-> nrow, seqCount |-> count, columns |-> bound.v,
            dms  |-> IF ok THEN [i \in DOMAIN dms.v |-> [type |-> dms.v[i].type, seq |-> dms.v[i].seq, blob |-> blobs.v[i]]]
                           ELSE <<>>],
           IF ok THEN blobs.at ELSE 0)
BlobsFrom(s, nrow, count, dms, bound) == SetFrom(nrow, count, dms, bound, ReadMany(ReadOpaque, s, bound.at, Len(dms.v)))
BindingsFrom(s, nrow, count, dms, cols) == BlobsFrom(s, nrow, count, dms, ReadBindings(s, dms.at, cols))
ManagersFrom(s, nrow, count, cols) == BindingsFrom(s, nrow.v, count.v, ReadCounted(ReadManager, s, count.at), cols)
CountsFrom(s, field, nrow, cols) ==
  ManagersFrom(s, nrow, ReadWord(s, IF field.version >= 3 THEN Skip(s, nrow.at, 2) ELSE nrow.at), cols)
FieldFrom(s, field, cols) == CountsFrom(s, field, ReadNumber(s, field.at, field.kind), cols)
ReadColumnSet(s, at, cols) == FieldFrom(s, CountField(s, at), cols)

-----------------------------------------------------------------------------
(* The whole file.  A count past a word needs the newer header; the column  *)
(* set has no such form: the writer panics first (Representable).           *)
Representable(nrow) == nrow <= WordMax

BuildTableDat(format, nrow, desc, dms, seqs, seqCount) ==
  PutRootObject("Table", 2, PutWord(nrow) \o PutWord(format) \o PutString("PlainTable")
                              \o PutTableDesc(desc) \o PutColumnSet(nrow, seqCount, dms, desc.columns, seqs))

FormatFrom(nrow, format) ==
  Read([nrow |-> nrow, format |-> format.v[1]], IF format.v[1] \in {0, 1} THEN format.at ELSE 0)
HeaderFrom(s, nrow) == FormatFrom(nrow.v, ReadAll(s, nrow.at, <<"w4", "str">>))
ReadTableHeader(s) ==
  LET o     == ReadObjectStart(s, 1, "root")
      known == o.v.type = "Table" /\ o.v.version \in {2, 3}
  IN  HeaderFrom(s, ReadNumber(s, IF known THEN o.at ELSE 0, IF o.v.version = 2 THEN "w4" ELSE "w8"))

ParsedFrom(header, desc, set) ==
  Read([header |-> header, desc |-> desc, set |-> set.v, dms |-> set.v.dms,
        seqs   |-> [i \in DOMAIN set.v.columns |-> set.v.columns[i].seq]], set.at)
SetAfter(s, header, desc) == ParsedFrom(header, desc.v, ReadColumnSet(s, desc.at, desc.v.columns))
DescAfter(s, header)      == SetAfter(s, header.v, ReadTableDesc(s, header.at))
ParseTableDat(s)          == DescAfter(s, ReadTableHeader(s))

-----------------------------------------------------------------------------
(* Changing a row count inside the file: growth patches the header's and    *)
(* the column set's and only when both hold it, a copied table only the     *)
(* header's, whatever is lost of it.                                        *)
FieldsOf(count) == {2, count.at}
RowFields(s)    == FieldsOf(CountField(s, ReadTableDesc(s, ReadTableHeader(s).at).at))

Fits(s, fields, nrow) == \A at \in fields : s[at].kind = "w8" \/ nrow <= WordMax

PatchRows(s, fields, nrow) ==
  [at \in DOMAIN s |-> IF at \in fields THEN [s[at] EXCEPT !.num = nrow] ELSE s[at]]

(* Faulty variant: the copy keeps the count of the original's header *)
PatchCopyNrowNever(s, nrow) == s

PatchCopyNrow(s, nrow) ==
  [s EXCEPT ![2].num = IF s[2].kind = "w8" THEN nrow ELSE nrow % (WordMax + 1)]
=============================================================================
