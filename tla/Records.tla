------------------------------- MODULE Records -------------------------------
(* Keyword records (record.rs): how a record is written into table.dat and  *)
(* read back, how a field is set and removed, and what a record is after    *)
(* the JSON text every description from Python goes through.  Field         *)
(* comments are empty, Bool arrays are left out.  An optional value is a    *)
(* sequence of none or one.                                                 *)
EXTENDS AipsIO

DataTypes == <<"Bool", "Char", "UChar", "Short", "UShort", "Int", "UInt", "Float", "Double", "Complex",
               "DComplex", "String", "Table", "ArrayBool", "ArrayChar", "ArrayUChar", "ArrayShort",
               "ArrayUShort", "ArrayInt", "ArrayUInt", "ArrayFloat", "ArrayDouble", "ArrayComplex",
               "ArrayDComplex", "ArrayString", "Record", "Other", "Quantity", "ArrayQuantity", "Int64",
               "ArrayInt64">>

Elements == [ArrayBool |-> "Bool", ArrayChar |-> "Char", ArrayUChar |-> "UChar", ArrayShort |-> "Short",
             ArrayUShort |-> "UShort", ArrayInt |-> "Int", ArrayUInt |-> "UInt", ArrayFloat |-> "Float",
             ArrayDouble |-> "Double", ArrayComplex |-> "Complex", ArrayDComplex |-> "DComplex",
             ArrayString |-> "String", ArrayInt64 |-> "Int64"]
IsArray(type) == type \in DOMAIN Elements \cup {"ArrayQuantity"}

DataTypeCode(type) == SelectInSeq(DataTypes, LAMBDA t : t = type) - 1

-----------------------------------------------------------------------------
(* A value is tagged with its type; a record is its description, its        *)
(* Fixed/Variable kind and its values, field by field.                      *)
NoRecord == [desc |-> <<>>, kind |-> 0, values |-> <<>>]

Value(type, scalar, shape, elems, rec) ==
  [type |-> type, scalar |-> scalar, shape |-> shape, elems |-> elems, rec |-> rec]
Scalar(type, v)           == Value(type, v, <<>>, <<>>, NoRecord)
ArrayOf(type, shape, els) == Value(type, "", shape, els, NoRecord)
RecordOf(rec)             == Value("Record", "", <<>>, <<>>, rec)

Field(name, type, sub) == [name |-> name, type |-> type, sub |-> sub, shape |-> <<>>, table |-> <<>>]

IndexOf(rec, name) == SelectInSeq(rec.desc, LAMBDA f : f.name = name)
Has(rec, name)     == IndexOf(rec, name) # 0
Get(rec, name)     == rec.values[IndexOf(rec, name)]

SubDesc(v) == IF v.type = "Record" THEN <<v.rec.desc>> ELSE <<>>

(* Faulty variant: a replaced field keeps the type it was described with *)
SetKeepsType(rec, name, v) ==
  LET i == IndexOf(rec, name)
  IN  IF i # 0 THEN [rec EXCEPT !.values[i] = v]
      ELSE [rec EXCEPT !.desc = Append(@, Field(name, v.type, SubDesc(v))), !.values = Append(@, v)]

(* putkeyword: the type follows the value; the description a replaced       *)
(* record had, and a field's shape, stay until a record replaces them       *)
Set(rec, name, v) ==
  LET i == IndexOf(rec, name)
  IN  IF i # 0
      THEN [rec EXCEPT !.desc[i].type = v.type,
                       !.desc[i].sub  = IF v.type = "Record" THEN SubDesc(v) ELSE @,
                       !.values[i]    = v]
      ELSE [rec EXCEPT !.desc = Append(@, Field(name, v.type, SubDesc(v))), !.values = Append(@, v)]

RemoveField(rec, name) ==
  IF Has(rec, name)
  THEN [rec EXCEPT !.desc = RemoveAt(@, IndexOf(rec, name)), !.values = RemoveAt(@, IndexOf(rec, name))]
  ELSE rec

-----------------------------------------------------------------------------
(* One value of a scalar type: its width, and the types it is written from; *)
(* anything else is written as zero.                                        *)
Width(type) == IF type \in {"Bool", "Char", "UChar"} THEN "w1"
               ELSE IF type \in {"Short", "UShort"} THEN "w2"
               ELSE IF type \in {"Int", "UInt", "Float", "Complex"} THEN "w4"
               ELSE IF type \in {"String", "Table"} THEN "str"
               ELSE "w8"

Accepts(type) ==
  IF type = "Bool" THEN {"Bool", "UChar", "Int"}
  ELSE IF type \in {"Char", "UChar"} THEN {"UChar", "Bool", "Int", "Short"}
  ELSE IF type = "Short" THEN {"Short", "Int", "UShort"}
  ELSE IF type = "UShort" THEN {"UShort", "Short", "UInt", "Int"}
  ELSE IF type = "Int" THEN {"Int", "Short", "UShort", "UChar", "Bool"}
  ELSE IF type = "UInt" THEN {"UInt", "Int"}
  ELSE IF type = "Int64" THEN {"Int", "Int64"}
  ELSE IF type \in {"Float", "Double"} THEN {"Float", "Double"}
  ELSE IF type \in {"Complex", "DComplex"} THEN {"Complex", "DComplex"}
  ELSE {"String", "Table"}

(* a complex number is two words, real part first *)
Words(type, v) ==
  LET one == <<Token(Width(type), 0, v)>> IN IF type \in {"Complex", "DComplex"} THEN one \o one ELSE one

WriteScalarValue(type, v) ==
  Words(type, IF v.type \in Accepts(type) THEN v.scalar
              ELSE IF Accepts(type) = {"String", "Table"} THEN "" ELSE "0")

ReadScalarValue(s, at, type) ==
  LET n == IF type \in {"Complex", "DComplex"} THEN 2 ELSE 1
  IN  IF type \in {"Table", "Record", "Other", "Quantity"} \/ IsArray(type) \/ ~At(s, at, Width(type))
      THEN Failed(Scalar(type, ""))
      ELSE Read(Scalar(IF type = "Char" THEN "UChar" ELSE type, s[at].text), Skip(s, at, n))

WriteArrayValue(v) ==
  PutObject("Array<void>", 3,
    PutWord(Len(v.shape)) \o PutAll(PutWord, v.shape) \o PutWord(Len(v.elems))
      \o FlattenSeq([i \in 1..Len(v.elems) |-> Words(Elements[v.type], v.elems[i])]))

(* versions before 3 hold an origin per axis, passed over *)
ScalarOnly(x) == Read(x.v.scalar, x.at)
ArrayFrom(type, dims, els) == Read(ArrayOf(type, dims.v, els.v), els.at)
ArrayData(s, type, version, dims) ==
  ArrayFrom(type, dims,
    ReadCounted(LAMBDA t, a : ScalarOnly(ReadScalarValue(t, a, Elements[type])), s,
                IF version < 3 THEN Skip(s, dims.at, Len(dims.v)) ELSE dims.at))
ReadArray(s, at, type) ==
  LET o == ReadObjectStart(s, at, "obj")
  IN  ArrayData(s, type, o.v.version,
                ReadCounted(ReadWord, s, IF o.v.type \in {"Array<void>", "Array"} THEN o.at ELSE 0))

-----------------------------------------------------------------------------
(* Writing.  The description written for a nested record is the one of the  *)
(* value: it may have gained fields since it was set.  A nested record is   *)
(* framed like a record of its own exactly when that description is empty;  *)
(* otherwise only its values follow.                                        *)
RECURSIVE SyncedDesc(_)
SyncedDesc(rec) ==
  [i \in DOMAIN rec.desc |->
     IF rec.values[i].type = "Record" THEN [rec.desc[i] EXCEPT !.sub = <<SyncedDesc(rec.values[i].rec)>>]
     ELSE rec.desc[i]]

OrElse(option, default) == IF option = <<>> THEN default ELSE option[1]

RECURSIVE WriteRecordDesc(_)
WriteRecordDesc(desc) ==
  LET Put(f) == PutString(f.name) \o PutWord(DataTypeCode(f.type))
                  \o (IF f.type = "Record" THEN WriteRecordDesc(OrElse(f.sub, <<>>))
                      ELSE IF f.type = "Table" THEN PutString(OrElse(f.table, ""))
                      ELSE IF IsArray(f.type) THEN PutIPosition(OrElse(f.shape, <<>>))
                      ELSE <<>>)
                  \o PutString("")
  IN  PutObject("RecordDesc", 2, PutWord(Len(desc)) \o PutAll(Put, desc))

RECURSIVE WriteTableRecord(_), WriteRecordDataValues(_)
WriteTableRecord(rec) ==
  LET desc == SyncedDesc(rec)
      Put(f) == LET v == Get(rec, f.name)
                IN  IF IsArray(f.type) THEN WriteArrayValue(v)
                    ELSE IF f.type # "Record" THEN WriteScalarValue(f.type, v)
                    ELSE IF OrElse(f.sub, <<>>) = <<>> THEN WriteTableRecord(v.rec)
                    ELSE WriteRecordDataValues(v.rec)
  IN  PutObject("TableRecord", 1, WriteRecordDesc(desc) \o PutWord(rec.kind) \o PutAll(Put, desc))

WriteRecordDataValues(rec) ==
  LET Put(f) == LET v == Get(rec, f.name)
                IN  IF v.type = "Record"
                    THEN IF v.rec.desc = <<>> THEN WriteTableRecord(v.rec) ELSE WriteRecordDataValues(v.rec)
                    ELSE IF IsArray(v.type) /\ IsArray(f.type) THEN WriteArrayValue(v)
                    ELSE WriteScalarValue(f.type, v)
  IN  PutAll(Put, rec.desc)

(* Reading: the description in the stream says what follows, for each      *)
(* field behind its name and the code of its type.                          *)
Commented(s, version, f) == Read(f.v, IF version > 1 THEN ReadString(s, f.at).at ELSE f.at)

TypeOf(head) == IF head.v[2] + 1 \in DOMAIN DataTypes THEN DataTypes[head.v[2] + 1] ELSE "Other"

WithSub(name, d)         == Read(Field(name, "Record", <<d.v>>), d.at)
WithTable(name, t)       == Read([Field(name, "Table", <<>>) EXCEPT !.table = <<t.v>>], t.at)
WithShape(name, type, p) == Read([Field(name, type, <<>>) EXCEPT !.shape = <<p.v>>], p.at)

RECURSIVE ReadRecordDesc(_, _)
ReadRecordDesc(s, at) ==
  LET FieldFrom(head, type) ==
        IF type = "Record" THEN WithSub(head.v[1], ReadRecordDesc(s, head.at))
        ELSE IF type = "Table" THEN WithTable(head.v[1], ReadString(s, head.at))
        ELSE IF IsArray(type) THEN WithShape(head.v[1], type, ReadIPosition(s, head.at))
        ELSE Read(Field(head.v[1], type, <<>>), IF head.v[2] + 1 \in DOMAIN DataTypes THEN head.at ELSE 0)
      Typed(head)  == FieldFrom(head, TypeOf(head))
      FieldsOf(o)  == ReadCounted(LAMBDA t, a : Commented(t, o.v, Typed(ReadAll(t, a, <<"str", "w4">>))), s, o.at)
  IN  FieldsOf(ReadObject(s, at, "RecordDesc"))

(* what stands before the values: nothing when the description is known *)
Framed(d, k) == [at |-> k.at, kind |-> k.v, desc |-> d.v]
FrameFrom(s, d) == Framed(d, ReadWord(s, d.at))
ReadFrame(s, at) == FrameFrom(s, ReadRecordDesc(s, ReadObject(s, at, "TableRecord").at))

WithValues(frame, r) == Read([desc |-> frame.desc, kind |-> frame.kind, values |-> r.v], r.at)
AsRecord(r)          == Read(RecordOf(r.v), r.at)
AsTable(r)           == Read(Scalar("Table", r.v), r.at)

(* read_record_data; a nested record without a described field is framed *)
RECURSIVE ReadRecordData(_, _)
ReadRecordData(s, frame) ==
  LET ReadFieldValue(at, f) ==
        IF f.type = "Table" THEN AsTable(ReadString(s, at))
        ELSE IF IsArray(f.type) THEN ReadArray(s, at, f.type)
        ELSE IF f.type # "Record" THEN ReadScalarValue(s, at, f.type)
        ELSE AsRecord(ReadRecordData(s, IF OrElse(f.sub, <<>>) = <<>> THEN ReadFrame(s, at)
                                        ELSE [at |-> at, kind |-> 0, desc |-> f.sub[1]]))
  IN  WithValues(frame, FoldLeft(LAMBDA r, f : IF r.at = 0 THEN r ELSE Appended(r, ReadFieldValue(r.at, f)),
                                 Read(<<>>, frame.at), frame.desc))

ReadTableRecord(s, at) == ReadRecordData(s, ReadFrame(s, at))

-----------------------------------------------------------------------------
(* Through JSON: a subtable link is its name, an array a record of its      *)
(* shape and its elements in one list, a whole Double prints without a      *)
(* point and is an Int again; every integer type is Int, every other number *)
(* Double, a complex number the list of its parts.                          *)
CONSTANT Whole(_)     \* whether a printed number has neither point nor exponent

JsonScalar(type, v) ==
  IF type \in {"String", "Table"} THEN Scalar("String", v)
  ELSE IF type = "Bool" THEN Scalar("Bool", v)
  ELSE IF type \in {"Complex", "DComplex"}
       THEN ArrayOf(IF Whole(v) THEN "ArrayInt" ELSE "ArrayDouble", <<2>>, <<v, v>>)
  ELSE Scalar(IF Whole(v) THEN "Int" ELSE "Double", v)

(* the list takes its type from its elements; an empty one is of strings *)
JsonArray(type, els) ==
  ArrayOf(IF els = <<>> THEN "ArrayString"
          ELSE LET t == JsonScalar(Elements[type], els[1]).type
               IN  IF t = "Bool" THEN "ArrayBool" ELSE IF t = "String" THEN "ArrayString"
                   ELSE IF t = "Int" THEN "ArrayInt" ELSE "ArrayDouble",
          <<Len(els)>>, els)

CONSTANT Numeral(_)   \* a number as it is printed

RECURSIVE ThroughJson(_)
ThroughJson(v) ==
  IF v.type = "Record"
  THEN RecordOf(FoldLeft(LAMBDA r, i : Set(r, v.rec.desc[i].name, ThroughJson(v.rec.values[i])),
                         NoRecord, [i \in DOMAIN v.rec.desc |-> i]))
  ELSE IF IsArray(v.type)
  THEN RecordOf(Set(Set(NoRecord, "shape", JsonArray("ArrayInt", [i \in DOMAIN v.shape |-> Numeral(v.shape[i])])),
                    "array", JsonArray(v.type, v.elems)))
  ELSE JsonScalar(v.type, v.scalar)
=============================================================================
