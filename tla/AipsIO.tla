------------------------------- MODULE AipsIO -------------------------------
(* The canonical byte stream of table.dat (aipsio.rs), value by value: a    *)
(* token stands for the bytes of one put, `kind` for their width, `num` or  *)
(* `text` for what they hold.  A value read with another width than it was  *)
(* written with is a failed read: from there on the reader is out of step.  *)
(* An object's length word is written and never consulted, so the token of  *)
(* an object's start stands for its length, its type name and its version.  *)
EXTENDS Integers, Sequences, SequencesExt

Token(kind, num, text) == [kind |-> kind, num |-> num, text |-> text]

PutWord(n)   == <<Token("w4", n, "")>>
PutLong(n)   == <<Token("w8", n, "")>>
PutBool(b)   == <<Token("w1", IF b THEN 1 ELSE 0, "")>>
PutString(s) == <<Token("str", 0, s)>>

PutObject(type, version, body)     == <<Token("obj", version, type)>> \o body
PutRootObject(type, version, body) == <<Token("root", version, type)>> \o body

(* a block of bytes behind its length: a stream of its own *)
PutOpaque(body) == PutWord(Len(body)) \o body

PutAll(Put(_), list) == FlattenSeq([i \in 1..Len(list) |-> Put(list[i])])

PutIPosition(dims) == PutObject("IPosition", 1, PutWord(Len(dims)) \o PutAll(PutWord, dims))

-----------------------------------------------------------------------------
(* Reading: what was read, and where the reader stands: 0 once it failed.   *)
Read(v, at) == [v |-> v, at |-> at]
Failed(v)   == Read(v, 0)

At(s, at, kind) == at \in 1..Len(s) /\ s[at].kind = kind

ReadNumber(s, at, kind) == IF At(s, at, kind) THEN Read(s[at].num, at + 1) ELSE Failed(0)
ReadWord(s, at)         == ReadNumber(s, at, "w4")
ReadLong(s, at)         == ReadNumber(s, at, "w8")
ReadString(s, at)       == IF At(s, at, "str") THEN Read(s[at].text, at + 1) ELSE Failed("")

(* values of these kinds, one after the other *)
ReadAll(s, at, kinds) ==
  LET Held(i) == at # 0 /\ At(s, at + i - 1, kinds[i])
  IN  Read([i \in DOMAIN kinds |-> IF kinds[i] = "str" THEN IF Held(i) THEN s[at + i - 1].text ELSE ""
                                   ELSE IF Held(i) THEN s[at + i - 1].num ELSE 0],
           IF \A i \in DOMAIN kinds : Held(i) THEN at + Len(kinds) ELSE 0)

Skip(s, at, n) == IF at # 0 /\ at + n <= Len(s) + 1 THEN at + n ELSE 0

(* type name and version of the object that starts here *)
ReadObjectStart(s, at, kind) ==
  IF At(s, at, kind) THEN Read([type |-> s[at].text, version |-> s[at].num], at + 1)
                     ELSE Failed([type |-> "", version |-> 0])

(* the version of the object of this type that starts here *)
ReadObject(s, at, type) ==
  IF At(s, at, "obj") /\ s[at].text = type THEN Read(s[at].num, at + 1) ELSE Failed(0)

OpaqueFrom(s, n) ==
  LET e == Skip(s, n.at, n.v) IN Read(IF e = 0 THEN <<>> ELSE SubSeq(s, n.at, e - 1), e)
ReadOpaque(s, at) == OpaqueFrom(s, ReadWord(s, at))

(* n values one after the other; ReadCounted reads how many there are first *)
Appended(r, x) == IF r.at = 0 THEN r ELSE Read(Append(r.v, x.v), x.at)

ReadMany(One(_, _), s, at, n) ==
  FoldLeft(LAMBDA r, i : Appended(r, One(s, r.at)), Read(<<>>, at), [i \in 1..n |-> i])

Many(One(_, _), s, n)      == ReadMany(One, s, n.at, n.v)
ReadCounted(One(_, _), s, at) == Many(One, s, ReadWord(s, at))

Dimensions(s, o) ==
  IF o.v = 1 THEN ReadCounted(ReadWord, s, o.at)
  ELSE IF o.v = 2 THEN ReadCounted(ReadLong, s, o.at)
  ELSE Failed(<<>>)
ReadIPosition(s, at) == Dimensions(s, ReadObject(s, at, "IPosition"))
=============================================================================
