------------------------------ MODULE TaqlEval ------------------------------
(***************************************************************************)
(* The evaluation of TaQL expressions and of SELECT                        *)
(* (crates/casacure/src/taql.rs).                                          *)
(*                                                                         *)
(* A cell is <<type, v>>, a runtime value <<kind, v>> with kind "int",     *)
(* "float", "bool", "str", "arr", "sub" or "regex".  A float stands for a  *)
(* whole number: the functions with other results are left out.            *)
(* A table is [cols, cells, kw]: cols a sequence of [name, type, array],   *)
(* type that of an element; cells has a sequence of rows for each column;  *)
(* kw are its keywords.                                                    *)
(* An environment is [t, given, disk]: the table the expression is         *)
(* evaluated on, the tables given as $1, $2, ... and those on disk, by     *)
(* directory.                                                              *)
(***************************************************************************)
EXTENDS Integers, Sequences, FiniteSets, SequencesExt, FiniteSetsExt, TaqlGrammar, TaqlPatterns

CONSTANT Err \* what an expression or a statement that fails gives

NoTable == [cols |-> <<>>]

IfOk(v, F(_)) == IF v = Err THEN Err ELSE F(v)

(* The values of several expressions, or Err where one has none.           *)
AllOk(vs, F(_)) == IF \E i \in DOMAIN vs : vs[i] = Err THEN Err ELSE F(vs)

NRows(t) == IF t.cols = <<>> THEN 0 ELSE Len(t.cells[1])
Names(t) == [c \in DOMAIN t.cols |-> t.cols[c].name]
Column(t, name) == SelectInSeq(t.cols, LAMBDA c : c.name = name)

-----------------------------------------------------------------------------
(* Cells to values and back: integers widen to 64 bits, floats to double.  *)

Kind == [ty \in {"UChar", "Short", "Int", "Int64"} |-> "int"] @@ [ty \in {"Double"} |-> "float"]
        @@ [ty \in {"Bool"} |-> "bool"] @@ [ty \in {"String"} |-> "str"]

RECURSIVE CellValue(_), ToRecord(_)
CellValue(c) ==
  IF c[1] = "Array" THEN <<"arr", [i \in DOMAIN c[2] |-> CellValue(c[2][i])]>> ELSE <<Kind[c[1]], c[2]>>

ToRecord(v) ==
  CASE v[1] = "int"   -> <<"Int64", v[2]>>
    [] v[1] = "float" -> <<"Double", v[2]>>
    [] v[1] = "bool"  -> <<"Bool", v[2]>>
    [] v[1] = "str"   -> <<"String", v[2]>>
    [] v[1] = "arr"   -> <<"Array", [i \in DOMAIN v[2] |-> ToRecord(v[2][i])]>>
    [] OTHER          -> <<"Int64", 0>>

Truthy(v) == CASE v[1] = "bool" -> v[2] [] v[1] \in {"int", "float"} -> v[2] # 0 [] OTHER -> TRUE

(* The number in a value; <<>> for what is none.                           *)
Number(v) ==
  CASE v[1] \in {"int", "float"} -> <<v[2]>>
    [] v[1] = "bool" -> <<IF v[2] THEN 1 ELSE 0>>
    [] OTHER -> <<>>

IsInt(v) == v[1] \in {"int", "bool"}
IntOr0(v) == IF Number(v) = <<>> THEN 0 ELSE Number(v)[1]

(* The text of a value.                                                    *)
Decimal == <<"0", "1", "2", "3", "4", "5", "6", "7", "8", "9">>

RECURSIVE Digits(_)
Digits(n) == IF n < 0 THEN <<"-">> \o Digits(-n)
             ELSE (IF n < 10 THEN <<>> ELSE Digits(n \div 10)) \o <<Decimal[(n % 10) + 1]>>

Stringify(v) ==
  CASE v[1] = "str"  -> v[2]
    [] v[1] = "bool" -> IF v[2] THEN <<"t", "r", "u", "e">> ELSE <<"f", "a", "l", "s", "e">>
    [] v[1] \in {"int", "float"} -> Digits(v[2])
    [] OTHER -> <<"[", "a", "r", "r", "a", "y", "]">>

(* The value a column of type ty stores: narrower integers wrap around.    *)
Wrapped(n, ty) ==
  CASE ty = "UChar" -> n % 256
    [] ty = "Short" -> ((n + 32768) % 65536) - 32768
    [] OTHER -> n

(* Of an array column ty is the type of an element: an array becomes one   *)
(* number all the same.                                                    *)
Coerced(ty, v) ==
  CASE ty = "Bool"   -> <<ty, IF v[1] = "bool" THEN v[2] ELSE IntOr0(v) # 0>>
    [] ty = "String" -> <<ty, Stringify(v)>>
    [] OTHER         -> <<ty, Wrapped(IntOr0(v), ty)>>

CoerceTo(ty, cell) == Coerced(ty, CellValue(cell))

-----------------------------------------------------------------------------
(* Comparison: -1, 0 or 1.  What cannot be compared counts as equal, and   *)
(* strings come before numbers.                                            *)

Sign(n) == IF n < 0 THEN -1 ELSE IF n > 0 THEN 1 ELSE 0

CompareStr(a, b) ==
  LET diff == {i \in 1..Len(a) \cap 1..Len(b) : a[i] # b[i]}
  IN  IF diff = {} THEN Sign(Len(a) - Len(b))
      ELSE Sign(Rank(a[Min(diff)]) - Rank(b[Min(diff)]))

BoolRank(b) == IF b THEN 1 ELSE 0

Compare(l, r) ==
  CASE l[1] \in {"int", "float"} /\ r[1] \in {"int", "float"} -> Sign(l[2] - r[2])
    [] l[1] = "str" /\ r[1] = "str"   -> CompareStr(l[2], r[2])
    [] l[1] = "bool" /\ r[1] = "bool" -> BoolRank(l[2]) - BoolRank(r[2])
    [] l[1] = "arr" /\ r[1] = "arr"   -> Sign(Len(l[2]) - Len(r[2]))
    [] l[1] = "str" /\ r[1] # "str"   -> -1
    [] l[1] # "str" /\ r[1] = "str"   -> 1
    [] l[1] = "sub" /\ r[1] = "sub"   -> Sign(NRows(l[2]) - NRows(r[2]))
    [] OTHER -> 0

Relation(op, c) ==
  CASE op = "==" -> c = 0 [] op = "!=" -> c # 0 [] op = "<" -> c < 0
    [] op = "<=" -> c <= 0 [] op = ">" -> c > 0 [] op = ">=" -> c >= 0

(* The quotient of integers is Euclid's, the remainder takes the sign of   *)
(* the dividend.                                                           *)
DivEuclid(a, b) == IF b > 0 THEN a \div b ELSE -(a \div (-b))
Remainder(a, b) == LET m == (IF a < 0 THEN -a ELSE a) % (IF b < 0 THEN -b ELSE b) IN IF a < 0 THEN -m ELSE m

Arithmetic(op, l, r) ==
  IF Number(l) = <<>> \/ Number(r) = <<>> \/ (op \in {"/", "%"} /\ Number(r)[1] = 0) THEN Err
  ELSE LET a == Number(l)[1]
           b == Number(r)[1]
       IN  <<IF IsInt(l) /\ IsInt(r) THEN "int" ELSE "float",
             CASE op = "+" -> a + b [] op = "-" -> a - b [] op = "*" -> a * b
               [] op = "/" -> DivEuclid(a, b) [] op = "%" -> Remainder(a, b)>>

BinaryValue(op, l, r) ==
  CASE op = "or"  -> <<"bool", Truthy(l) \/ Truthy(r)>>
    [] op = "and" -> <<"bool", Truthy(l) /\ Truthy(r)>>
    [] op \in {"+", "-", "*", "/", "%"} -> Arithmetic(op, l, r)
    [] OTHER -> <<"bool", Relation(op, Compare(l, r))>>

UnaryValue(op, v) ==
  CASE op = "not" -> <<"bool", ~Truthy(v)>>
    [] op = "neg" /\ v[1] \in {"int", "float"} -> <<v[1], -v[2]>>
    [] OTHER -> Err

(* An element, counted from the end when negative, or a row of a subquery; *)
(* 0 where there is none.                                                  *)
ElementAt(s, i) == IF i + 1 \in DOMAIN s THEN s[i + 1] ELSE <<"int", 0>>

IndexValue(base, idx) ==
  CASE idx[1] \notin {"int", "float"} -> Err
    [] base[1] = "arr" -> ElementAt(base[2], IF idx[2] < 0 THEN Len(base[2]) + idx[2] ELSE idx[2])
    [] base[1] = "sub" -> IF base[2].cols = <<>> THEN Err
                          ELSE ElementAt([i \in DOMAIN base[2].cells[1] |-> CellValue(base[2].cells[1][i])], idx[2])
    [] OTHER -> Err

-----------------------------------------------------------------------------
(* The function library, for whole-number and string results.              *)

Flat(v) == IF v[1] = "arr" THEN v[2] ELSE <<v>>
FlatAll(vs) == FlattenSeq([i \in DOMAIN vs |-> Flat(vs[i])])

SumSeq(s)     == FoldSeq(LAMBDA x, y : x + y, 0, s)
ProductSeq(s) == FoldSeq(LAMBDA x, y : x * y, 1, s)

Tally(s, P(_)) == <<"int", Len(SelectSeq(s, P))>>

LogicStats  == {"any", "all", "ntrue", "nfalse"}
NumberStats == {"min", "max", "sum", "product", "sumsqr"}

Logic(f, vs) ==
  CASE f = "any"    -> <<"bool", \E i \in DOMAIN vs : Truthy(vs[i])>>
    [] f = "all"    -> <<"bool", vs # <<>> /\ \A i \in DOMAIN vs : Truthy(vs[i])>>
    [] f = "ntrue"  -> Tally(vs, Truthy)
    [] f = "nfalse" -> Tally(vs, LAMBDA v : ~Truthy(v))

(* The numbers of a statistic's arguments (stat_input).                    *)
Numbers(vs) ==
  IF \E i \in DOMAIN vs : Number(vs[i]) = <<>> THEN Err
  ELSE <<"ok", [i \in DOMAIN vs |-> Number(vs[i])[1]], \A i \in DOMAIN vs : IsInt(vs[i])>>

Aggregate(f, x, whole) ==
  LET kind == IF whole THEN "int" ELSE "float"
  IN  CASE f = "min" -> IF x = <<>> THEN <<"int", 0>> ELSE <<kind, Min(ToSet(x))>>
        [] f = "max" -> IF x = <<>> THEN <<"int", 0>> ELSE <<kind, Max(ToSet(x))>>
        [] f = "sum" -> <<kind, SumSeq(x)>>
        [] f = "product" -> <<kind, ProductSeq(x)>>
        [] f = "sumsqr"  -> <<kind, SumSeq([i \in DOMAIN x |-> x[i] * x[i]])>>

Stats(f, args) ==
  IF f \in LogicStats THEN Logic(f, FlatAll(args))
  ELSE IfOk(Numbers(FlatAll(args)), LAMBDA n : Aggregate(f, n[2], n[3]))

(* sums, mins, ...: element by element, single values taken throughout.    *)
Plural(f) == CASE f = "sums" -> "sum" [] f = "mins" -> "min" [] f = "maxs" -> "max"
               [] f = "anys" -> "any" [] f = "alls" -> "all" [] OTHER -> ""

Longest(cols) == Max({0} \cup {Len(cols[i]) : i \in DOMAIN cols})

StatsOf(f, cols, len) ==
  IF \E i \in DOMAIN cols : Len(cols[i]) \notin {1, len} THEN Err
  ELSE AllOk([k \in 1..len |-> Stats(f, [i \in DOMAIN cols |-> cols[i][IF Len(cols[i]) = 1 THEN 1 ELSE k]])],
             LAMBDA vs : <<"arr", vs>>)

StatsEach(f, cols) == StatsOf(f, cols, Longest(cols))
StatsMulti(f, args) == StatsEach(f, [i \in DOMAIN args |-> Flat(args[i])])

(* runningsum, boxedmin, ...: of every beginning of the array.             *)
Running(f) == CASE f = "runningsum" -> "sum" [] f = "runningmin" -> "min" [] f = "runningmax" -> "max" [] OTHER -> ""

StatsSoFar(f, vs) ==
  IF Numbers(vs) = Err THEN Err
  ELSE AllOk([k \in DOMAIN vs |-> Stats(f, SubSeq(vs, 1, k))], LAMBDA xs : <<"arr", xs>>)

StatsCumulative(f, args) == StatsSoFar(f, FlatAll(args))

WhiteSpace == {" "}

(* The part of s between what is cut off either side.                      *)
Trim(s, left, right, cut) ==
  LET kept == {i \in DOMAIN s : s[i] \notin cut}
      from == IF left THEN Min(kept) ELSE 1
      to   == IF right THEN Max(kept) ELSE Len(s)
  IN  IF kept = {} THEN <<>> ELSE SubSeq(s, from, to)

Clamp(i, n) == IF i < 0 THEN 0 ELSE IF i > n - 1 THEN n - 1 ELSE i

(* Both ends count, from the end of the string when negative.              *)
SubStr(s, start, end) ==
  LET at(i) == Clamp(IF i < 0 THEN Len(s) + i ELSE i, Len(s))
  IN  IF s = <<>> THEN s ELSE SubSeq(s, at(start) + 1, at(end) + 1)

StringFunc(f, a) ==
  LET s == a[1][2]
      cut == IF Len(a) = 2 THEN ToSet(a[2][2]) ELSE {}
  IN  CASE \E i \in DOMAIN a : a[i][1] # (IF f = "substr" /\ i > 1 THEN "int" ELSE "str") -> Err
        [] f = "strlength"     -> <<"int", Len(s)>>
        [] f = "downcase"      -> <<"str", Lower(s)>>
        [] f = "reversestring" -> <<"str", Reverse(s)>>
        [] f \in {"trim", "ltrim", "rtrim"} ->
             <<"str", Trim(s, f # "rtrim", f # "ltrim", IF cut = {} THEN WhiteSpace ELSE cut)>>
        [] f = "substr" /\ Len(a) \in {2, 3} -> <<"str", SubStr(s, a[2][2], IF Len(a) = 3 THEN a[3][2] ELSE Len(s) - 1)>>
        [] f \in {"regex", "pattern", "sqlpattern"} -> <<"regex", <<f, s>>>>
        [] OTHER -> Err

StringFuncs == {"strlength", "downcase", "reversestring", "trim", "ltrim", "rtrim", "substr",
                "regex", "pattern", "sqlpattern"}

ArrayFunc(f, a) ==
  CASE f = "array"   -> <<"arr", a>>
    [] f = "flatten" -> <<"arr", FlatAll(a)>>
    [] f = "shape"   -> <<"arr", IF a # <<>> /\ a[1][1] = "arr" THEN <<<<"int", Len(a[1][2])>>>> ELSE <<>>>>
    [] f = "ndim"    -> <<"int", IF a # <<>> /\ a[1][1] = "arr" THEN 1 ELSE 0>>
    [] f = "nelements"    -> <<"int", IF a = <<>> THEN 0 ELSE IF a[1][1] \in {"arr", "str"} THEN Len(a[1][2]) ELSE 1>>
    [] f = "reversearray" -> IF a = <<>> THEN <<"int", 0>>
                             ELSE IF a[1][1] = "arr" THEN <<"arr", Reverse(a[1][2])>> ELSE a[1]

ArrayFuncs == {"array", "flatten", "shape", "ndim", "nelements", "reversearray"}

NumberFunc(f, n, kind) ==
  CASE f = "abs"    -> <<kind, IF n < 0 THEN -n ELSE n>>
    [] f = "square" -> <<kind, n * n>>
    [] f = "cube"   -> <<kind, n * n * n>>
    [] f = "int"    -> <<"int", n>>

ScalarFunc(f, a) ==
  CASE Plural(f) # ""  -> StatsMulti(Plural(f), a)
    [] Running(f) # "" -> StatsCumulative(Running(f), a)
    [] f \in LogicStats \cup NumberStats -> Stats(f, a)
    [] f \in StringFuncs -> IF a = <<>> THEN Err ELSE StringFunc(f, a)
    [] f \in ArrayFuncs  -> ArrayFunc(f, a)
    [] f = "iif" -> IF Len(a) # 3 THEN Err ELSE IF Truthy(a[1]) THEN a[2] ELSE a[3]
    [] f = "sign" -> IF Len(a) # 1 THEN Err ELSE <<"int", Sign(IntOr0(a[1]))>>
    [] f \in {"abs", "square", "cube", "int"} ->
         IF Len(a) # 1 \/ Number(a[1]) = <<>> \/ (f = "abs" /\ a[1][1] = "bool") THEN Err
         ELSE NumberFunc(f, Number(a[1])[1], IF a[1][1] = "int" THEN "int" ELSE "float")
    [] OTHER -> Err

-----------------------------------------------------------------------------
(* Expressions, on one row (rows = <<row>>) or on a group of rows.         *)

InColumn(env, name, row) ==
  LET cells == env.t.cells[Column(env.t, name)]
  IN  IF row + 1 \in DOMAIN cells THEN CellValue(cells[row + 1]) ELSE <<"int", 0>>

NameValue(name, env, rows, group) ==
  CASE name = "rowid"  -> IF group THEN Err ELSE <<"int", rows[1]>>
    [] name = "growid" /\ group -> Err
    [] Column(env.t, name) = 0  -> Err
    [] OTHER -> InColumn(env, name, IF rows = <<>> THEN 0 ELSE rows[1])

(* A function of the table, not of values.                                 *)
TableFuncs == {"rowid", "rownumber", "rownr", "iscolumn", "iskeyword"}

NameArg(args) ==
  CASE args # <<>> /\ args[1][1] = "name" -> <<args[1][2]>>
    [] OTHER -> <<>>

TableFunc(f, args, env, row) ==
  CASE f \notin {"iscolumn", "iskeyword"} -> <<"int", row>>
    [] f \in {"iscolumn", "iskeyword"} /\ NameArg(args) = <<>> -> Err
    [] f = "iscolumn"  -> <<"bool", Column(env.t, NameArg(args)[1]) # 0>>
    [] f = "iskeyword" -> <<"bool", NameArg(args)[1] \in DOMAIN env.t.kw>>

(* The aggregates of a group's column.                                     *)
GroupLogic   == [g \in {"gany", "gall", "gntrue", "gnfalse"} |->
                   CASE g = "gany" -> "any" [] g = "gall" -> "all" [] g = "gntrue" -> "ntrue" [] OTHER -> "nfalse"]
GroupNumbers == [g \in {"gmin", "gmax", "gsum", "gsumsqr", "gproduct"} |->
                   CASE g = "gmin" -> "min" [] g = "gmax" -> "max" [] g = "gsum" -> "sum"
                     [] g = "gsumsqr" -> "sumsqr" [] OTHER -> "product"]

GroupAgg(f, items) ==
  CASE f = "gaggr"  -> <<"arr", items>>
    [] f = "gfirst" -> IF items = <<>> THEN <<"int", 0>> ELSE items[1]
    [] f = "glast"  -> IF items = <<>> THEN <<"int", 0>> ELSE Last(items)
    [] f \in DOMAIN GroupLogic   -> Logic(GroupLogic[f], items)
    [] f \in DOMAIN GroupNumbers -> IfOk(Numbers(FlatAll(items)), LAMBDA n : Aggregate(GroupNumbers[f], n[2], n[3]))

GroupFuncs == {"gaggr", "gfirst", "glast"} \cup DOMAIN GroupLogic \cup DOMAIN GroupNumbers

GroupFunc(f, args, env, rows) ==
  CASE f = "growid" -> <<"arr", [i \in DOMAIN rows |-> <<"int", rows[i]>>]>>
    [] f = "gcount" -> <<"int", Len(rows)>>
    [] f \in GroupFuncs /\ (NameArg(args) = <<>> \/ Column(env.t, NameArg(args)[1]) = 0) -> Err
    [] OTHER -> GroupAgg(f, [i \in DOMAIN rows |-> InColumn(env, NameArg(args)[1], rows[i])])

(* LIKE, IN and ~ (like_in).                                               *)
MatchValue(tag, l, r) ==
  LET op    == tag[2]
      text  == IF l[1] = "str" THEN l[2] ELSE <<>>
      found == CASE op \in {"like", "ilike"} -> SqlLike(text, r[2], op = "ilike")
                 [] op = "in" -> \E i \in DOMAIN r[2] : Compare(r[2][i], l) = 0
                 [] OTHER -> IF r[1] = "str" THEN RegexMatches(text, "regex", r[2])
                                             ELSE RegexMatches(text, r[2][1], r[2][2])
      fits  == CASE op \in {"like", "ilike"} -> r[1] = "str"
                 [] op = "in" -> r[1] = "arr"
                 [] OTHER -> r[1] \in {"str", "regex"}
  IN  IF fits THEN <<"bool", found = (tag[1] = "")>> ELSE Err

RECURSIVE Eval(_, _, _, _), RunSelect(_, _)

Both(l, r, env, rows, group, F(_, _)) ==
  IfOk(Eval(l, env, rows, group), LAMBDA x : IfOk(Eval(r, env, rows, group), LAMBDA y : F(x, y)))

EvalAll(es, env, rows, group) == [i \in DOMAIN es |-> Eval(es[i], env, rows, group)]

CallValue(f, args, env, rows, group) ==
  CASE f \in TableFuncs -> TableFunc(f, args, env, IF rows = <<>> THEN 0 ELSE rows[1])
    [] group /\ f \in GroupFuncs \cup {"growid", "gcount"} -> GroupFunc(f, args, env, rows)
    [] OTHER -> AllOk(EvalAll(args, env, rows, group), LAMBDA vs : ScalarFunc(f, vs))

Eval(e, env, rows, group) ==
  CASE e[1] = "lit"    -> e[2]
    [] e[1] = "name"   -> NameValue(e[2], env, rows, group)
    [] e[1] = "call"   -> CallValue(e[2], e[3], env, rows, group)
    [] e[1] = "unary"  -> IfOk(Eval(e[3], env, rows, group), LAMBDA v : UnaryValue(e[2], v))
    [] e[1] = "binary" -> Both(e[3], e[4], env, rows, group, LAMBDA x, y : BinaryValue(e[2], x, y))
    [] e[1] = "match"  -> IF e[2][2] = "in" /\ e[4][1] # "set" THEN Err
                          ELSE Both(e[3], e[4], env, rows, group, LAMBDA x, y : MatchValue(e[2], x, y))
    [] e[1] = "index"  -> Both(e[2], e[3], env, rows, group, IndexValue)
    [] e[1] = "subquery" -> IfOk(RunSelect(e[2], env), LAMBDA out : <<"sub", out>>)
    [] e[1] = "set"    -> AllOk(EvalAll(e[2], env, rows, group), LAMBDA vs : <<"arr", vs>>)

IsTrue(v) == v # Err /\ Truthy(v)
Holds(e, env, rows, group) == IsTrue(Eval(e, env, rows, group))

-----------------------------------------------------------------------------
(* WHERE, ORDERBY, OFFSET and LIMIT.                                       *)

(* A row whose condition has no value is left out.                         *)
WhereRows(where, env) ==
  SelectSeq([i \in 1..NRows(env.t) |-> i - 1],
            LAMBDA r : where = <<>> \/ Holds(where[1], env, <<r>>, FALSE))

(* A faulty version: every key goes the way of the first.                  *)
BeforeOneWay(keys, desc, a, b) ==
  LET deciding == {k \in DOMAIN desc : Compare(keys[k][a], keys[k][b]) # 0}
  IN  IF deciding = {} THEN a < b ELSE (Compare(keys[Min(deciding)][a], keys[Min(deciding)][b]) < 0) # desc[1]

(* Whether item a comes before item b, given the values of their keys: at  *)
(* the first key that differs, or is descending.  A tie there turns the    *)
(* items round.                                                            *)
Before(keys, desc, a, b) ==
  LET deciding == {k \in DOMAIN desc : desc[k] \/ Compare(keys[k][a], keys[k][b]) # 0}
      k == Min(deciding)
      c == Compare(keys[k][a], keys[k][b])
  IN  CASE deciding = {} -> a < b
        [] deciding # {} /\ c = 0 -> a > b
        [] OTHER -> (c < 0) # desc[k]

Arranged(items, keys, desc) ==
  IF \E k \in DOMAIN keys : \E i \in DOMAIN items : keys[k][i] = Err THEN Err
  ELSE LET order == SortSeq([i \in DOMAIN items |-> i], LAMBDA a, b : Before(keys, desc, a, b))
       IN  [i \in DOMAIN items |-> items[order[i]]]

(* Every key is evaluated for every item before any is moved.              *)
Sorted(items, orderby, env, group) ==
  Arranged(items,
           [k \in DOMAIN orderby |->
              [i \in DOMAIN items |-> Eval(orderby[k].expr, env, IF group THEN items[i] ELSE <<items[i]>>, group)]],
           [k \in DOMAIN orderby |-> orderby[k].desc])

From(items, offset) == IF offset = <<>> THEN items ELSE SubSeq(items, offset[1] + 1, Len(items))
UpTo(items, limit)  == IF limit = <<>> THEN items ELSE SubSeq(items, 1, Min({limit[1], Len(items)}))
Page(items, offset, limit) == UpTo(From(items, offset), limit)

SelectedRows(tail, env) ==
  IfOk(Sorted(WhereRows(tail.where, env), tail.orderby, env, FALSE),
       LAMBDA rows : Page(rows, tail.offset, tail.limit))

-----------------------------------------------------------------------------
(* SELECT.                                                                 *)

(* Computed columns without a name are numbered in the program, which here *)
(* they are not.                                                           *)
OutColumns(sel, t) ==
  IF sel.columns = <<>> THEN [c \in DOMAIN t.cols |-> <<<<"name", t.cols[c].name>>, t.cols[c].name>>]
  ELSE [i \in DOMAIN sel.columns[1] |->
          LET e     == sel.columns[1][i][1]
              alias == sel.columns[1][i][2]
          IN  <<e, IF alias # <<>> THEN alias[1] ELSE IF e[1] = "name" THEN e[2] ELSE "col">>]

Table(names, cells, kw) ==
  [cols |-> [c \in DOMAIN names |-> [name |-> names[c], type |-> "", array |-> FALSE]], cells |-> cells, kw |-> kw]

(* The cell of a bare column is taken as it is stored.                     *)
Bare(e) == e[1] = "name" /\ e[2] # "rowid"

Projected(e, env, row) ==
  IF ~Bare(e) THEN IfOk(Eval(e, env, <<row>>, FALSE), ToRecord)
  ELSE IF Column(env.t, e[2]) = 0 THEN Err ELSE env.t.cells[Column(env.t, e[2])][row + 1]

Made(cols, cells, kw) ==
  AllOk([c \in DOMAIN cells |-> AllOk(cells[c], LAMBDA vs : <<"ok", vs>>)],
        LAMBDA good : Table([c \in DOMAIN cols |-> cols[c][2]], [c \in DOMAIN good |-> good[c][2]], kw))

RowsOf(cols, env, rows) ==
  Made(cols, [c \in DOMAIN cols |-> [i \in DOMAIN rows |-> Projected(cols[c][1], env, rows[i])]], env.t.kw)

ProjectRows(sel, env, rows) ==
  RowsOf(OutColumns(sel, env.t), env, rows)

(* The first of every set of equal rows.                                   *)
RowAt(t, i) == [c \in DOMAIN t.cells |-> t.cells[c][i]]
TakeRows(t, rows) == [t EXCEPT !.cells = [c \in DOMAIN t.cells |-> [k \in DOMAIN rows |-> t.cells[c][rows[k]]]]]

UniqueRows(t) ==
  TakeRows(t, SelectSeq([i \in 1..NRows(t) |-> i], LAMBDA i : \A j \in 1..(i - 1) : RowAt(t, j) # RowAt(t, i)))

Positions(n, P(_)) == SelectSeq([i \in 1..n |-> i], P)

(* A faulty version: only the first key counts.                            *)
GroupsByFirst(rows, keys) ==
  [g \in 1..Cardinality({keys[i][1] : i \in DOMAIN keys}) |->
     LET first == Positions(Len(rows), LAMBDA i : \A j \in 1..(i - 1) : keys[j][1] # keys[i][1])[g]
         same  == Positions(Len(rows), LAMBDA i : keys[i][1] = keys[first][1])
     IN  [k \in DOMAIN same |-> rows[same[k]]]]

(* Rows with equal keys, of equal kinds, in the order they first appear.   *)
Groups(rows, keys) ==
  [g \in 1..Cardinality(ToSet(keys)) |->
     LET first == Positions(Len(rows), LAMBDA i : \A j \in 1..(i - 1) : keys[j] # keys[i])[g]
         same  == Positions(Len(rows), LAMBDA i : keys[i] = keys[first])
     IN  [k \in DOMAIN same |-> rows[same[k]]]]

(* The cell of a bare column is kept as it is when the group has one row.  *)
GroupCell(e, env, rows) ==
  IF Bare(e) /\ Len(rows) = 1 THEN Projected(e, env, rows[1]) ELSE IfOk(Eval(e, env, rows, TRUE), ToRecord)

GroupsOf(cols, env, groups) ==
  Made(cols, [c \in DOMAIN cols |-> [g \in DOMAIN groups |-> GroupCell(cols[c][1], env, groups[g])]], env.t.kw)

GroupedBy(rows, keys) == IF \E i \in DOMAIN keys : Err \in ToSet(keys[i]) THEN Err ELSE Groups(rows, keys)

GroupedRows(sel, env, rows) == GroupedBy(rows, [i \in DOMAIN rows |-> EvalAll(sel.groupby, env, <<rows[i]>>, FALSE)])

Having(sel, env, groups) == SelectSeq(groups, LAMBDA g : sel.having = <<>> \/ Holds(sel.having[1], env, g, TRUE))

(* The groups of a grouped query, paged; UNIQUE has no effect.             *)
RunGroup(sel, env) ==
  IfOk(GroupedRows(sel, env, WhereRows(sel.where, env)), LAMBDA all :
  IfOk(Sorted(Having(sel, env, all), sel.orderby, env, TRUE), LAMBDA groups :
    GroupsOf(OutColumns(sel, env.t), env, Page(groups, sel.offset, sel.limit))))

SelectRows(sel, env) ==
  IfOk(SelectedRows(sel, env),
       LAMBDA rows : IfOk(ProjectRows(sel, env, rows), LAMBDA t : IF sel.unique THEN UniqueRows(t) ELSE t))

(* The directory a path names, written in full or from the working one.    *)
Dir(path) == Last(path)

(* The table a reference names: one given, or one on disk.                 *)
Resolve(ref, env) ==
  CASE ref[1] = "table" -> IF ref[2] \in DOMAIN env.given THEN env.given[ref[2]] ELSE Err
    [] ref[1] = "path"  -> IF Dir(ref[2]) \notin DOMAIN env.disk \/ env.disk[Dir(ref[2])] = NoTable THEN Err
                           ELSE env.disk[Dir(ref[2])]

(* HAVING without GROUPBY is not looked at.                                *)
SelectOn(t, sel, env) ==
  CASE t = Err           -> Err
    [] sel.groupby = <<>> -> SelectRows(sel, [env EXCEPT !.t = t])
    [] OTHER             -> RunGroup(sel, [env EXCEPT !.t = t])

RunSelect(sel, env) == SelectOn(Resolve(sel.table, env), sel, env)

-----------------------------------------------------------------------------
(* A SELECT that only picks rows of $1 is answered as the order of those   *)
(* rows (execute_row_order); <<>> when it is not one.                      *)

IdentityProjection(sel, t) ==
  sel.columns # <<>> =>
    sel.columns[1] = [c \in DOMAIN t.cols |-> <<<<"name", t.cols[c].name>>, <<>>>>]

RowOrder(sel, env) ==
  LET t == Resolve(sel.table, env)
  IN  IF sel.into # <<>> \/ sel.unique \/ sel.groupby # <<>> \/ sel.having # <<>> \/ sel.table # <<"table", 1>> THEN <<>>
      ELSE IF t = Err THEN Err
      ELSE IF ~IdentityProjection(sel, t) THEN <<>>
      ELSE IfOk(SelectedRows(sel, [env EXCEPT !.t = t]), LAMBDA rows : <<rows>>)
=============================================================================
