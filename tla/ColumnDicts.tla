----------------------------- MODULE ColumnDicts -----------------------------
(* Columns as Python describes them: the dictionary of a column and the     *)
(* column a dictionary asks for (tabledesc.rs column_from_desc_dict, the    *)
(* binding's self_coldesc and normalize_coldesc), and the data-manager      *)
(* information that moves columns to other managers (apply_dminfo).  A      *)
(* dictionary is a record, and every description goes through JSON.         *)
EXTENDS TableDat, FiniteSets

CONSTANT Lower(_)     \* a name in lower case

CONSTANT Numbers      \* the numbers descriptions use
Number(text) == CHOOSE n \in Numbers : Numeral(n) = text

SsmType == "StandardStMan"
IsmType == "IncrementalStMan"
TiledTypes       == {"TiledColumnStMan", "TiledShapeStMan"}
SupportedDmTypes == {SsmType, IsmType} \cup TiledTypes

Direct     == 1
FixedShape == 4
HasBit(options, bit) == (options \div bit) % 2 = 1
WithBit(options, bit) == IF HasBit(options, bit) THEN options ELSE options + bit

IntOf(n)   == Scalar("Int", Numeral(n))
IntList(list) == ArrayOf("ArrayInt", <<Len(list)>>, [i \in DOMAIN list |-> Numeral(list[i])])
Text(s)  == Scalar("String", s)

(* a dictionary of named values, one after the other *)
Dict(pairs) == FoldLeft(LAMBDA r, p : Set(r, p[1], p[2]), NoRecord, pairs)

(* the text of a field, none when it is missing or no text *)
FieldStr(rec, key) ==
  IF Has(rec, key) /\ Get(rec, key).type = "String" THEN <<Get(rec, key).scalar>> ELSE <<>>

NumberOr(rec, key, default) ==
  IF Has(rec, key) /\ Get(rec, key).type \in {"Int", "Int64"} THEN Number(Get(rec, key).scalar) ELSE default

-----------------------------------------------------------------------------
(* Faulty variant: the shape as it is stored *)
SelfColdescStored(col) ==
  Dict(<< <<"valueType", Text(col.type)>>, <<"dataManagerType", Text(col.dmType)>>,
          <<"dataManagerGroup", Text(col.dmGroup)>>, <<"option", IntOf(col.options)>> >>
       \o (IF col.kind = "Array" THEN << <<"ndim", IntOf(col.ndim)>> >> ELSE <<>>)
       \o (IF col.kind = "Array" /\ OrElse(col.shape, <<>>) # <<>>
           THEN << <<"shape", IntList(col.shape[1])>> >> ELSE <<>>)
       \o << <<"keywords", RecordOf(col.keywords)>> >>)

(* the dictionary of a column: its shape in row-major order *)
SelfColdesc(col) ==
  Dict(<< <<"valueType", Text(col.type)>>, <<"dataManagerType", Text(col.dmType)>>,
          <<"dataManagerGroup", Text(col.dmGroup)>>, <<"option", IntOf(col.options)>> >>
       \o (IF col.kind = "Array" THEN << <<"ndim", IntOf(col.ndim)>> >> ELSE <<>>)
       \o (IF col.kind = "Array" /\ OrElse(col.shape, <<>>) # <<>>
           THEN << <<"shape", IntList(Reverse(col.shape[1]))>> >> ELSE <<>>)
       \o << <<"keywords", RecordOf(col.keywords)>> >>)

(* a copy of a tiled column needs a data-manager group of its own *)
NormalizeColdesc(name, dict) ==
  IF OrElse(FieldStr(dict, "dataManagerType"), "") \in TiledTypes /\ OrElse(FieldStr(dict, "dataManagerGroup"), "") # ""
  THEN Set(dict, "dataManagerGroup", Text(Lower(name))) ELSE dict

(* the elements of the shape, as a list or behind the record of an array *)
ShapeElems(rec) ==
  LET array == IF ~Has(rec, "shape") THEN <<>>
               ELSE IF IsArray(Get(rec, "shape").type) THEN <<Get(rec, "shape")>>
               ELSE IF Get(rec, "shape").type = "Record" /\ Has(Get(rec, "shape").rec, "array")
               THEN <<Get(Get(rec, "shape").rec, "array")>> ELSE <<>>
  IN  IF array = <<>> \/ ~IsArray(array[1].type) THEN <<>>
      ELSE <<[i \in DOMAIN array[1].elems |->
                IF array[1].type \in {"ArrayInt", "ArrayInt64"} THEN Number(array[1].elems[i]) ELSE 0]>>

ValueTypes == {"Bool", "UChar", "Short", "UShort", "Int", "UInt", "Int64", "Float", "Double",
               "Complex", "DComplex", "String", "Record"}

NonEmptyOr(option, default) == IF OrElse(option, "") = "" THEN default ELSE option[1]

(* managers the storage engine has no writer for are StandardStMan *)
StoredDmType(type, shape) ==
  IF (type = "TiledShapeStMan" /\ shape = <<>>) \/ type \in {"TiledCellStMan", "TSMBoundedStMan", "TSMExpStMan"}
  THEN SsmType ELSE type

GivenOptions(options, shape) ==
  IF OrElse(shape, <<>>) # <<>> \/ HasBit(options, Direct) THEN WithBit(options, FixedShape) ELSE options

(* the column a dictionary describes; none without a value type *)
ColumnFromDict(name, dict) ==
  LET type    == OrElse(FieldStr(dict, "valueType"), "")
      elems   == ShapeElems(dict)
      shape   == IF elems = <<>> THEN <<>> ELSE <<Reverse(elems[1])>>
      words   == IF Has(dict, "keywords") /\ Get(dict, "keywords").type = "Record"
                 THEN Get(dict, "keywords").rec ELSE NoRecord
  IN  IF type \notin ValueTypes THEN <<>>
      ELSE <<ColumnDesc(name, type,
               StoredDmType(NonEmptyOr(FieldStr(dict, "dataManagerType"), SsmType), elems),
               NonEmptyOr(FieldStr(dict, "dataManagerGroup"), SsmType),
               GivenOptions(NumberOr(dict, "option", 0), shape), NumberOr(dict, "ndim", -1), shape, words,
               IF type = "Record" THEN "Record" ELSE IF Has(dict, "ndim") THEN "Array" ELSE "Scalar")>>

(* what becomes of a dictionary handed to addcols *)
ColumnAsked(name, dict) == ColumnFromDict(name, ThroughJson(RecordOf(dict)).rec)

-----------------------------------------------------------------------------
(* apply_dminfo: a flat record is for every column, a mapping has a record  *)
(* per manager.  A bad record refuses the call; the columns of the records  *)
(* before it are changed all the same.                                      *)
IgnoredSpec == {"MaxCacheSize", "MAXIMUMCACHESIZE", "BUCKETSIZE", "PERSCACHESIZE", "IndexLength", "IndexSize",
                "DEFAULTCUBESHAPE"}

TileOf(spec) ==
  IF Has(spec, "DEFAULTTILESHAPE") /\ Get(spec, "DEFAULTTILESHAPE").type \in {"ArrayInt", "ArrayInt64"}
  THEN <<[i \in DOMAIN Get(spec, "DEFAULTTILESHAPE").elems |-> Number(Get(spec, "DEFAULTTILESHAPE").elems[i])]>>
  ELSE <<>>

GoodSpec(spec, type) ==
  \A i \in DOMAIN spec.desc :
    \/ spec.desc[i].name \in IgnoredSpec
    \/ /\ spec.desc[i].name = "DEFAULTTILESHAPE"
       /\ Len(OrElse(TileOf(spec), <<>>)) >= 2 /\ \A j \in DOMAIN TileOf(spec)[1] : TileOf(spec)[1][j] > 0
       /\ type \notin {<<SsmType>>, <<IsmType>>}

ApplyDmRecord(rec, type, name, targets, isSpec, cols) ==
  LET spec   == IF Has(rec, "SPEC") /\ Get(rec, "SPEC").type = "Record" THEN Get(rec, "SPEC").rec
                ELSE IF isSpec THEN rec ELSE NoRecord
      bad    == \/ type # <<>> /\ type[1] \notin SupportedDmTypes
                \/ Has(rec, "SPEC") /\ Get(rec, "SPEC").type # "Record"
                \/ ~GoodSpec(spec, type)
      newType(c) == OrElse(type, c.dmType)
  IN  IF bad THEN [ok |-> FALSE, cols |-> cols]
      ELSE [ok |-> TRUE,
            cols |-> [i \in DOMAIN cols |->
              IF i \notin targets THEN cols[i]
              ELSE [cols[i] EXCEPT !.dmType = newType(cols[i]), !.dmGroup = OrElse(name, newType(cols[i])),
                                   !.tile = TileOf(spec)]]]

(* the columns a record of a mapping is for; none when it names a stranger *)
Targets(key, rec, cols) ==
  LET declared == {i \in DOMAIN cols : cols[i].dmGroup = key}
      names    == ToSet(Get(rec, "COLUMNS").elems)
      all      == DOMAIN cols
  IN  IF ~Has(rec, "COLUMNS")
      THEN <<IF Has(rec, "TYPE") \/ declared = {} THEN all ELSE declared>>
      ELSE IF Get(rec, "COLUMNS").type # "ArrayString" \/ ~(names \subseteq {cols[i].name : i \in all}) THEN <<>>
      ELSE <<{i \in all : cols[i].name \in names}>>

ApplyDminfo(dminfo, cols) ==
  IF dminfo.desc = <<>> \/ cols = <<>> THEN [ok |-> TRUE, cols |-> cols]
  ELSE IF Has(dminfo, "TYPE")
  THEN ApplyDmRecord(dminfo, FieldStr(dminfo, "TYPE"), FieldStr(dminfo, "NAME"), DOMAIN cols, FALSE, cols)
  ELSE FoldLeft(LAMBDA r, i :
         LET v  == dminfo.values[i]
             to == IF v.type = "Record" THEN Targets(dminfo.desc[i].name, v.rec, cols) ELSE <<>>
         IN  IF ~r.ok \/ to = <<>> THEN [r EXCEPT !.ok = FALSE]
             ELSE ApplyDmRecord(v.rec, FieldStr(v.rec, "TYPE"),
                                <<OrElse(FieldStr(v.rec, "NAME"), dminfo.desc[i].name)>>, to[1],
                                ~Has(v.rec, "TYPE") /\ ~Has(v.rec, "COLUMNS"), r.cols),
         [ok |-> TRUE, cols |-> cols], [i \in DOMAIN dminfo.desc |-> i])
=============================================================================
