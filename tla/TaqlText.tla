------------------------------ MODULE TaqlText ------------------------------
(***************************************************************************)
(* How a user writes a statement down: the tokens of a statement tree,     *)
(* with no more brackets than the precedence of the operators in           *)
(* crates/casacure/src/taql.rs asks for.  What the parser makes of those   *)
(* tokens is to be the tree again.                                         *)
(***************************************************************************)
EXTENDS Naturals, Sequences, SequencesExt

W(word) == <<<<"id", word>>>>
O(op)   == <<<<"op", op>>>>

(* The pieces, with a mark between them.                                   *)
Joined(pieces, mark) ==
  FlattenSeq([i \in DOMAIN pieces |-> IF i = 1 THEN pieces[i] ELSE mark \o pieces[i]])

Optional(part, F(_)) == IF part = <<>> THEN <<>> ELSE F(part[1])

(* The strength with which an expression holds together.                   *)
Strength(e) ==
  CASE e[1] = "binary" -> CASE e[2] = "or" -> 1 [] e[2] = "and" -> 2
                            [] e[2] \in {"+", "-"} -> 4 [] e[2] \in {"*", "/", "%"} -> 5 [] OTHER -> 3
    [] e[1] = "match"  -> 3
    [] e[1] = "unary"  -> 6
    [] OTHER           -> 7

OpToken(op) == IF op \in {"or", "and"} THEN W(op) ELSE O(op)

RECURSIVE Expression(_), SelectText(_)

Within(e, strength) ==
  IF Strength(e) < strength THEN O("(") \o Expression(e) \o O(")") ELSE Expression(e)

List(es) == Joined([i \in DOMAIN es |-> Expression(es[i])], O(","))

(* An operator of one level groups to the left; comparisons do not chain.  *)
Expression(e) ==
  LET n == Strength(e)
  IN  CASE e[1] = "lit"      -> <<e[2]>>
        [] e[1] = "name"     -> W(e[2])
        [] e[1] = "call"     -> W(e[2]) \o O("(") \o List(e[3]) \o O(")")
        [] e[1] = "unary"    -> (IF e[2] = "neg" THEN O("-") ELSE W("not")) \o Within(e[3], 6)
        [] e[1] = "binary"   -> Within(e[3], IF n = 3 THEN 4 ELSE n) \o OpToken(e[2]) \o Within(e[4], n + 1)
        [] e[1] = "match" /\ e[2][2] = "regex" ->
             Within(e[3], 4) \o O(IF e[2][1] = "" THEN "~" ELSE "!~") \o Within(e[4], 4)
        [] e[1] = "match"    -> Within(e[3], 4) \o (IF e[2][1] = "" THEN <<>> ELSE W("not")) \o W(e[2][2])
                                \o Within(e[4], 6)
        [] e[1] = "set"      -> O("(") \o List(e[2]) \o O(")")
        [] e[1] = "index"    -> Within(e[2], 7) \o O("[") \o Expression(e[3]) \o O("]")
        [] e[1] = "subquery" -> O("[") \o SelectText(e[2]) \o O("]")

PathText(p) == [i \in DOMAIN p |-> IF p[i] \in {"/", "-", ".", ":"} THEN <<"op", p[i]>> ELSE <<"id", p[i]>>]
RefText(ref) == IF ref[1] = "table" THEN <<<<"dollar", ref[2]>>>> ELSE PathText(ref[2])

KeyText(k) == Expression(k.expr) \o (IF k.desc THEN W("desc") ELSE <<>>)

TailText(t) ==
  Optional(t.where, LAMBDA e : W("where") \o Expression(e))
  \o (IF t.orderby = <<>> THEN <<>>
      ELSE W("orderby") \o Joined([i \in DOMAIN t.orderby |-> KeyText(t.orderby[i])], O(",")))
  \o Optional(t.limit, LAMBDA n : W("limit") \o <<<<"int", n>>>>)
  \o Optional(t.offset, LAMBDA n : W("offset") \o <<<<"int", n>>>>)

ColumnText(c) == Expression(c[1]) \o Optional(c[2], LAMBDA a : W("as") \o W(a))

SelectText(s) ==
  W("select") \o (IF s.unique THEN W("unique") ELSE <<>>)
  \o (IF s.columns = <<>> THEN O("*")
      ELSE Joined([i \in DOMAIN s.columns[1] |-> ColumnText(s.columns[1][i])], O(",")))
  \o Optional(s.into, LAMBDA p : W("into") \o PathText(p))
  \o W("from") \o RefText(s.table)
  \o (IF s.groupby = <<>> THEN <<>> ELSE W("groupby") \o List(s.groupby))
  \o Optional(s.having, LAMBDA e : W("having") \o Expression(e))
  \o TailText(s)

AssignText(a) == W(a[1]) \o O("=") \o Expression(a[2])

(* A fixed shape is written in the order opposite to the stored one.       *)
TypeWord == [Bool |-> "bool", UChar |-> "uchar", Short |-> "short", Int |-> "int", Int64 |-> "i8",
             Double |-> "double", String |-> "string"]

SpecText(spec) ==
  W(spec.name) \o W(TypeWord[spec.type])
  \o Optional(spec.ndim, LAMBDA n : W("ndim") \o O("=") \o <<<<"int", n>>>>)
  \o Optional(spec.shape, LAMBDA s : W("shape") \o O("=") \o O("[")
                                     \o Joined([i \in DOMAIN s |-> <<<<"int", Reverse(s)[i]>>>>], O(",")) \o O("]"))

OpText(op) ==
  CASE op[1] = "add"    -> W("add") \o W("column") \o SpecText(op[2])
    [] op[1] = "drop"   -> W("drop") \o W("column") \o W(op[2])
    [] op[1] = "rename" -> W("rename") \o W("column") \o W(op[2]) \o W("to") \o W(op[3])
    [] op[1] = "set"    -> W("set") \o W(op[2]) \o O("=") \o Expression(op[3])
    [] op[1] = "remove" -> W("remove") \o W("keyword") \o W(op[2])

LiteralText(v) ==
  CASE v[1] = "Int" -> <<<<"int", v[2]>>>> [] v[1] = "String" -> <<<<"str", v[2]>>>>

CreateText(c) ==
  W("create") \o W("table") \o PathText(c.path)
  \o (IF c.cols = <<>> THEN <<>>
      ELSE O("[") \o Joined([i \in DOMAIN c.cols |-> SpecText(c.cols[i])], O(",")) \o O("]"))
  \o (IF c.limit = 0 THEN <<>> ELSE W("limit") \o <<<<"int", c.limit>>>>)
  \o (IF c.kws = <<>> THEN <<>>
      ELSE W("keywords") \o Joined([i \in DOMAIN c.kws |-> W(c.kws[i][1]) \o O("=") \o LiteralText(c.kws[i][2])], O(",")))

Text(s) ==
  CASE s[1] = "select" -> SelectText(s[2])
    [] s[1] = "count"  -> W("count") \o O("*") \o W("from") \o RefText(s[2])
                          \o Optional(s[3], LAMBDA e : W("where") \o Expression(e))
    [] s[1] = "update" -> W("update") \o RefText(s[2]) \o W("set")
                          \o Joined([i \in DOMAIN s[3] |-> AssignText(s[3][i])], O(",")) \o TailText(s[4])
    [] s[1] = "delete" -> W("delete") \o W("from") \o RefText(s[2]) \o TailText(s[3])
    [] s[1] = "insert" -> W("insert") \o W("into") \o RefText(s[2])
                          \o Optional(s[3], LAMBDA ns : O("(") \o Joined([i \in DOMAIN ns |-> W(ns[i])], O(",")) \o O(")"))
                          \o SelectText(s[4])
    [] s[1] = "droptable" -> W("droptable") \o Joined([i \in DOMAIN s[2] |-> RefText(s[2][i])], O(","))
    [] s[1] = "alter"  -> W("alter") \o W("table") \o RefText(s[2])
                          \o FlattenSeq([i \in DOMAIN s[3] |-> OpText(s[3][i])])
    [] s[1] = "show"   -> W("show") \o Optional(s[2], LAMBDA ref : W("table") \o RefText(ref))
    [] s[1] = "calc"   -> W("calc") \o List(s[2]) \o W("from") \o RefText(s[3])
    [] s[1] = "create" -> CreateText(s[2])
=============================================================================
