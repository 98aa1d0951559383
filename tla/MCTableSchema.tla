--------------------------- MODULE MCTableSchema ---------------------------
(* Tables of up to four columns: scalars and arrays in each kind of storage *)
(* manager, described by dictionaries as Python gives them; a big-endian    *)
(* table whose counts were never updated and one in the newest format, with  *)
(* eight-byte counts.  Two is the largest number of four bytes.             *)
EXTENDS TableSchema

MCNumbers == -1..9
MCNumeral(n) == ToString(n)
MCWhole(text) == text # "1.5"
MCLower(name) == IF name = "T2" THEN "t2" ELSE IF name = "A2" THEN "a2" ELSE name

ScalarDict(type, dm, group) ==
  Dict(<< <<"valueType", Text(type)>>, <<"dataManagerType", Text(dm)>>, <<"dataManagerGroup", Text(group)>>,
          <<"option", IntOf(0)>> >>)
ArrayDict(type, dm, group, shape) ==
  Dict(<< <<"valueType", Text(type)>>, <<"dataManagerType", Text(dm)>>, <<"dataManagerGroup", Text(group)>>,
          <<"option", IntOf(0)>>, <<"ndim", IntOf(Len(shape))>>, <<"shape", IntList(shape)>> >>)
OpenDict(type, dm, group) ==
  Dict(<< <<"valueType", Text(type)>>, <<"dataManagerType", Text(dm)>>, <<"dataManagerGroup", Text(group)>>,
          <<"ndim", IntOf(-1)>> >>)
Named(name, dict) == [name |-> name, dict |-> dict]

Flat(type, name) == Dict(<< <<"TYPE", Text(type)>>, <<"NAME", Text(name)>> >>)
Mapped(key, type, name, cols) ==
  Dict(<< <<key, RecordOf(Dict(<< <<"TYPE", Text(type)>>, <<"NAME", Text(name)>>,
            <<"SPEC", RecordOf(Dict(<< <<"BUCKETSIZE", IntOf(2)>> >>))>>,
            <<"COLUMNS", ArrayOf("ArrayString", <<Len(cols)>>, cols)>> >>))>> >>)
Tiles(key, shape) == Dict(<< <<key, RecordOf(Dict(<< <<"DEFAULTTILESHAPE", IntList(shape)>> >>))>> >>)

Nested == RecordOf(Dict(<< <<"none", RecordOf(NoRecord)>>,
                           <<"deep", RecordOf(Dict(<< <<"none", RecordOf(NoRecord)>>, <<"s", Text("x")>> >>))>> >>))

MCKeywords == {[name |-> "k", value |-> IntOf(1)], [name |-> "k", value |-> Nested]}
MCColKeywords == {[col |-> 2, name |-> "u", value |-> ArrayOf("ArrayDouble", <<1>>, <<"1.5">>)]}

MCSchemas == {
  [keywords |-> Dict(<< <<"sub", Scalar("Table", "A")>>, <<"f", Scalar("Double", "1.5")>> >>),
   dminfo   |-> Tiles("tg", <<2, 3, 1>>),
   dicts    |-> <<Named("A", ScalarDict("Int", "", "")), Named("T", ArrayDict("Float", "TiledColumnStMan", "tg", <<2, 3>>))>>],
  [keywords |-> NoRecord, dminfo |-> NoRecord,
   dicts    |-> <<Named("A", ScalarDict("String", SsmType, "g")), Named("B", ScalarDict("Int", IsmType, "h")),
                  Named("V", OpenDict("Bool", "TiledCellStMan", "g"))>>]}

MCAdditions == {
  [dicts |-> <<Named("C", ScalarDict("Double", "", ""))>>, dminfo |-> NoRecord],
  [dicts |-> <<Named("D", ScalarDict("Int", SsmType, "g")), Named("E", ScalarDict("Int", IsmType, "g"))>>,
   dminfo |-> NoRecord],
  [dicts |-> <<Named("F", ArrayDict("Int", "TiledShapeStMan", "fg", <<2>>))>>, dminfo |-> Flat("TiledColumnStMan", "fg")],
  [dicts |-> <<Named("R", ScalarDict("Record", "", ""))>>, dminfo |-> NoRecord]}

MCCloneNames == {"T2"}

MCConversions == {Flat(IsmType, "all"), Mapped("*1", SsmType, "mine", <<"A">>), Tiles("tg", <<1, 1, 1>>)}

(* what another writer left behind *)
PlainDesc(cols) == [keywords |-> NoRecord, private |-> NoRecord, columns |-> cols]
PlainCols == <<ColumnDesc("A", "Int", SsmType, SsmType, 0, -1, <<>>, NoRecord, "Scalar"),
               ColumnDesc("P", "Double", SsmType, SsmType, FixedShape, 1, <<<<2>>>>, NoRecord, "Array")>>
PlainDms  == <<[type |-> SsmType, seq |-> 0, blob |-> DmBlob(SsmType, SsmType, 2)]>>

OldDat == BuildTableDat(0, 0, PlainDesc(PlainCols), PlainDms, <<0, 0>>, 1)

ColumnSet3(nrow) ==
  LET two == PutColumnSet(nrow, 1, PlainDms, PlainCols, <<0, 0>>)
  IN  PutWord(-3) \o PutLong(nrow) \o PutWord(0) \o PutWord(0) \o SubSeq(two, 3, Len(two))
NewDat == PutRootObject("Table", 3, PutLong(2) \o PutWord(1) \o PutString("PlainTable")
                                      \o PutTableDesc(PlainDesc(PlainCols)) \o ColumnSet3(2))

PlainFiles(rows) == [s \in {0} |-> [type |-> SsmType, name |-> SsmType, cols |-> <<1, 2>>, rows |-> rows]]
MCForeign == {
  [disk |-> [dat |-> OldDat, files |-> PlainFiles(1), sync |-> 1], desc |-> PlainDesc(PlainCols), ids |-> <<1, 2>>, rows |-> 1],
  [disk |-> [dat |-> NewDat, files |-> PlainFiles(2), sync |-> NoSync], desc |-> PlainDesc(PlainCols), ids |-> <<1, 2>>, rows |-> 2]}
=============================================================================
