----------------------------- MODULE TaqlGrammar -----------------------------
(***************************************************************************)
(* The recursive-descent parser of crates/casacure/src/taql.rs, over       *)
(* tokens: <<"id", w>>, <<"dollar", n>> ($n), <<"op", o>>, <<"int", n>>,   *)
(* <<"float", n>> and <<"str", s>>.  Words are taken in lower case.        *)
(*                                                                         *)
(* A parser takes the tokens left and answers <<"ok", what, left>> or Bad. *)
(* Optional parts are sequences of length at most one.                     *)
(***************************************************************************)
EXTENDS Naturals, Sequences, SequencesExt

Bad == <<"bad">>
Ok(x, ts) == <<"ok", x, ts>>
Then(r, F(_, _)) == IF r = Bad THEN Bad ELSE F(r[2], r[3])

IsOp(ts, os)   == ts # <<>> /\ ts[1][1] = "op" /\ ts[1][2] \in os
IsWord(ts, ws) == ts # <<>> /\ ts[1][1] = "id" /\ ts[1][2] \in ws
IsKind(ts, k)  == ts # <<>> /\ ts[1][1] = k

ExpectOp(ts, o)   == IF IsOp(ts, {o}) THEN Ok(o, Tail(ts)) ELSE Bad
ExpectWord(ts, w) == IF IsWord(ts, {w}) THEN Ok(w, Tail(ts)) ELSE Bad
ExpectIdent(ts)   == IF IsKind(ts, "id") THEN Ok(ts[1][2], Tail(ts)) ELSE Bad
ExpectInt(ts)     == IF IsKind(ts, "int") THEN Ok(<<ts[1][2]>>, Tail(ts)) ELSE Bad
Skip(ts, ws)      == IF IsWord(ts, ws) THEN Tail(ts) ELSE ts

(* Words that end an unquoted table path.                                  *)
ClauseWords ==
  {"where", "orderby", "groupby", "having", "limit", "offset", "as", "unique", "desc", "asc",
   "from", "and", "or", "not", "into", "set", "add", "drop", "rename", "remove", "insert",
   "update", "delete", "select", "count", "calc", "show", "help", "alter", "create", "table",
   "droptable", "values", "column", "keyword", "keywords", "comment", "ndim", "shape",
   "option", "maxlen"}

PathMarks == {"/", "-", ".", ":"}

RECURSIVE Rule(_, _), Several(_, _, _), Chain(_, _, _)

(* Items of one kind with commas between them.                             *)
Several(kind, ts, done) ==
  Then(Rule(kind, ts), LAMBDA x, r : IF IsOp(r, {","}) THEN Several(kind, Tail(r), Append(done, x))
                                     ELSE Ok(Append(done, x), r))

OrOp(ts)  == IF IsOp(ts, {"||", "|"}) \/ IsWord(ts, {"or"}) THEN "or" ELSE ""
AndOp(ts) == IF IsOp(ts, {"&&", "&"}) \/ IsWord(ts, {"and"}) THEN "and" ELSE ""
AddOp(ts) == IF IsOp(ts, {"+", "-"}) THEN ts[1][2] ELSE ""
MulOp(ts) == IF IsOp(ts, {"*", "/", "%"}) THEN ts[1][2] ELSE ""
CmpOp(ts) ==
  CASE IsOp(ts, {"==", "="})  -> "=="
    [] IsOp(ts, {"!=", "<>"}) -> "!="
    [] IsOp(ts, {"<", "<=", ">", ">=", "~", "!~"}) -> ts[1][2]
    [] OTHER -> ""

LevelOp(level, ts) ==
  CASE level = "or" -> OrOp(ts) [] level = "and" -> AndOp(ts)
    [] level = "add" -> AddOp(ts) [] level = "mul" -> MulOp(ts)

(* A faulty version: operators of one level associate to the right.        *)
OperandRight(level) ==
  CASE level = "or" -> "expr" [] level = "and" -> "and" [] level = "add" -> "add" [] level = "mul" -> "mul"

(* The rule of the right operand of an operator.                           *)
Operand(level) ==
  CASE level = "or" -> "and" [] level = "and" -> "cmp" [] level = "add" -> "mul" [] level = "mul" -> "unary"

(* Operators of one level associate to the left.                           *)
Chain(level, left, ts) ==
  IF LevelOp(level, ts) = "" THEN Ok(left, ts)
  ELSE Then(Rule(Operand(level), Tail(ts)),
            LAMBDA right, r : Chain(level, <<"binary", LevelOp(level, ts), left, right>>, r))

-----------------------------------------------------------------------------
(* The expressions up to the closing bracket.                              *)
ParseItems(ts, close) ==
  IF IsOp(ts, {close}) THEN Ok(<<>>, Tail(ts))
  ELSE Then(Several("expr", ts, <<>>),
            LAMBDA es, r : Then(ExpectOp(r, close), LAMBDA o, q : Ok(es, q)))

ParseNamed(name, ts) ==
  CASE IsOp(ts, {"("}) -> Then(ParseItems(Tail(ts), ")"), LAMBDA args, r : Ok(<<"call", name, args>>, r))
    [] name = "true"   -> Ok(<<"lit", <<"int", 1>>>>, ts)
    [] name = "false"  -> Ok(<<"lit", <<"int", 0>>>>, ts)
    [] OTHER           -> Ok(<<"name", name>>, ts)

ParsePrimary(ts) ==
  CASE ts = <<>> -> Bad
    [] ts # <<>> /\ ts[1][1] \in {"int", "float", "str"} -> Ok(<<"lit", ts[1]>>, Tail(ts))
    [] IsKind(ts, "id")     -> ParseNamed(ts[1][2], Tail(ts))
    [] IsKind(ts, "dollar") -> Ok(<<"name", "$">>, Tail(ts))
    [] IsOp(ts, {"("}) ->
         Then(Rule("expr", Tail(ts)), LAMBDA e, r : Then(ExpectOp(r, ")"), LAMBDA o, q : Ok(e, q)))
    [] IsOp(ts, {"["}) ->
         Then(Rule("select", Tail(ts)),
              LAMBDA sel, r : Then(ExpectOp(r, "]"), LAMBDA o, q : Ok(<<"subquery", sel>>, q)))
    [] OTHER -> Bad

RECURSIVE ParseIndexes(_, _)
ParseIndexes(e, ts) ==
  IF ~IsOp(ts, {"["}) THEN Ok(e, ts)
  ELSE Then(Rule("expr", Tail(ts)),
            LAMBDA i, r : Then(ExpectOp(r, "]"), LAMBDA o, q : ParseIndexes(<<"index", e, i>>, q)))

ParsePostfix(ts) == Then(ParsePrimary(ts), ParseIndexes)

ParseUnary(ts) ==
  CASE IsOp(ts, {"-"}) -> Then(Rule("unary", Tail(ts)), LAMBDA e, r : Ok(<<"unary", "neg", e>>, r))
    [] IsOp(ts, {"!", "~"}) \/ IsWord(ts, {"not"}) ->
         Then(Rule("unary", Tail(ts)), LAMBDA e, r : Ok(<<"unary", "not", e>>, r))
    [] OTHER -> ParsePostfix(ts)

ParseMul(ts) == Then(Rule("unary", ts), LAMBDA e, r : Chain("mul", e, r))
ParseAdd(ts) == Then(Rule("mul", ts), LAMBDA e, r : Chain("add", e, r))

(* [NOT] LIKE, ILIKE and IN stand where a comparison operator does; a NOT  *)
(* before anything else is left alone.                                     *)
AfterNot(ts) == Skip(ts, {"not"})
WordOp(ts)   == IF IsWord(AfterNot(ts), {"like", "ilike", "in"}) THEN AfterNot(ts)[1][2] ELSE ""

Worded(left, ts, op) ==
  LET tag  == IF IsWord(ts, {"not"}) THEN <<"not", op>> ELSE <<"", op>>
      rest == Tail(AfterNot(ts))
      Made(right, r) == Ok(<<"match", tag, left, right>>, r)
  IN  IF op # "in" THEN Then(Rule("unary", rest), Made)
      ELSE IF ~IsOp(rest, {"(", "["}) THEN Bad
      ELSE Then(ParseItems(Tail(rest), IF rest[1][2] = "(" THEN ")" ELSE "]"),
                LAMBDA es, r : Made(<<"set", es>>, r))

Compared(left, ts) ==
  CASE WordOp(ts) # "" -> Worded(left, ts, WordOp(ts))
    [] CmpOp(ts) \in {"~", "!~"} ->
         Then(Rule("add", Tail(ts)),
              LAMBDA right, r : Ok(<<"match", <<IF CmpOp(ts) = "~" THEN "" ELSE "not", "regex">>,
                                     left, right>>, r))
    [] CmpOp(ts) = "" -> Ok(left, ts)
    [] OTHER -> Then(Rule("add", Tail(ts)), LAMBDA right, r : Ok(<<"binary", CmpOp(ts), left, right>>, r))

ParseCmp(ts)  == Then(Rule("add", ts), Compared)
ParseAnd(ts)  == Then(Rule("cmp", ts), LAMBDA e, r : Chain("and", e, r))
ParseExpr(ts) == Then(Rule("and", ts), LAMBDA e, r : Chain("or", e, r))

-----------------------------------------------------------------------------
(* Table references, and the clauses of SELECT and of the write statements.*)

RECURSIVE PathParts(_, _)
PathParts(ts, done) ==
  IF IsOp(ts, PathMarks) \/ IsKind(ts, "int") \/ (IsKind(ts, "id") /\ ts[1][2] \notin ClauseWords)
    THEN PathParts(Tail(ts), Append(done, ts[1][2]))
    ELSE Ok(done, ts)

ParsePath(ts) ==
  CASE IsKind(ts, "str") -> Ok(<<ts[1][2]>>, Tail(ts))
    [] IsOp(ts, PathMarks) \/ IsKind(ts, "id") -> PathParts(Tail(ts), <<ts[1][2]>>)
    [] OTHER -> Bad

ParseRef(ts) ==
  IF IsKind(ts, "dollar")
    THEN IF ts[1][2] = 0 THEN Bad ELSE Ok(<<"table", ts[1][2]>>, Tail(ts))
    ELSE Then(ParsePath(ts), LAMBDA p, r : Ok(<<"path", p>>, r))

ParseKey(ts) ==
  Then(Rule("expr", ts), LAMBDA e, r : Ok([expr |-> e, desc |-> IsWord(r, {"desc"})], Skip(r, {"desc", "asc"})))

ParseColumn(ts) ==
  Then(Rule("expr", ts),
       LAMBDA e, r : IF IsWord(r, {"as"})
                       THEN Then(ExpectIdent(Tail(r)), LAMBDA a, q : Ok(<<e, <<a>>>>, q))
                       ELSE Ok(<<e, <<>>>>, r))

NoTail == [where |-> <<>>, orderby |-> <<>>, limit |-> <<>>, offset |-> <<>>]

(* A clause may stand in any order and more than once: the last WHERE,     *)
(* LIMIT and OFFSET count, the keys of every ORDERBY are taken together.   *)
RECURSIVE ParseClauses(_, _, _)
ParseClauses(t, ts, grouped) ==
  CASE IsWord(ts, {"where"}) ->
         Then(Rule("expr", Tail(ts)), LAMBDA e, r : ParseClauses([t EXCEPT !.where = <<e>>], r, grouped))
    [] IsWord(ts, {"order", "orderby"}) ->
         Then(Several("key", IF ts[1][2] = "order" THEN Skip(Tail(ts), {"by"}) ELSE Tail(ts), <<>>),
              LAMBDA ks, r : ParseClauses([t EXCEPT !.orderby = @ \o ks], r, grouped))
    [] IsWord(ts, {"limit"}) ->
         Then(ExpectInt(Tail(ts)), LAMBDA n, r : ParseClauses([t EXCEPT !.limit = n], r, grouped))
    [] IsWord(ts, {"offset"}) ->
         Then(ExpectInt(Tail(ts)), LAMBDA n, r : ParseClauses([t EXCEPT !.offset = n], r, grouped))
    [] grouped /\ IsWord(ts, {"groupby"}) ->
         Then(Several("expr", Tail(ts), <<>>),
              LAMBDA gs, r : ParseClauses([t EXCEPT !.groupby = @ \o gs], r, grouped))
    [] grouped /\ IsWord(ts, {"having"}) ->
         Then(Rule("expr", Tail(ts)), LAMBDA e, r : ParseClauses([t EXCEPT !.having = <<e>>], r, grouped))
    [] OTHER -> Ok(t, ts)

ParseTail(ts) == ParseClauses(NoTail, ts, FALSE)

NoSelect ==
  [unique |-> FALSE, columns |-> <<>>, into |-> <<>>, table |-> <<>>, where |-> <<>>,
   orderby |-> <<>>, groupby |-> <<>>, having |-> <<>>, limit |-> <<>>, offset |-> <<>>]

SelectFrom(sel, ts) ==
  Then(ExpectWord(ts, "from"),
       LAMBDA w, r : Then(ParseRef(r), LAMBDA ref, q : ParseClauses([sel EXCEPT !.table = ref], q, TRUE)))

SelectInto(sel, ts) ==
  IF IsWord(ts, {"into"})
    THEN Then(ParsePath(Tail(ts)), LAMBDA p, r : SelectFrom([sel EXCEPT !.into = <<p>>], r))
    ELSE SelectFrom(sel, ts)

SelectColumns(sel, ts) ==
  IF IsOp(ts, {"*"}) THEN SelectInto(sel, Tail(ts))
  ELSE Then(Several("column", ts, <<>>),
            LAMBDA cs, r : SelectInto([sel EXCEPT !.columns = <<cs>>], r))

ParseSelect(ts) ==
  Then(ExpectWord(ts, "select"),
       LAMBDA w, r : SelectColumns([NoSelect EXCEPT !.unique = IsWord(r, {"unique"})],
                                   Skip(r, {"unique"})))

-----------------------------------------------------------------------------
(* The statements, after their first word.  Only SELECT looks for tokens   *)
(* left over.                                                              *)

ParseQuery(ts) ==
  Then(Rule("select", ts),
       LAMBDA sel, r : IF sel.into # <<>> \/ Skip(r, {";"}) = <<>> THEN Ok(<<"select", sel>>, <<>>) ELSE Bad)

CountFrom(ts) ==
  Then(ExpectWord(ts, "from"),
       LAMBDA w, r : Then(ParseRef(r),
         LAMBDA ref, q : IF IsWord(q, {"where"})
                           THEN Then(Rule("expr", Tail(q)), LAMBDA e, z : Ok(<<"count", ref, <<e>>>>, z))
                           ELSE Ok(<<"count", ref, <<>>>>, q)))

ParseCount(ts) ==
  CASE IsOp(ts, {"*"})       -> CountFrom(Tail(ts))
    [] IsWord(ts, {"from"})  -> CountFrom(ts)
    [] OTHER -> Then(Several("column", ts, <<>>), LAMBDA cs, r : CountFrom(r))

ParseAssign(ts) ==
  Then(ExpectIdent(ts),
       LAMBDA c, r : Then(ExpectOp(r, "="), LAMBDA o, q : Then(Rule("expr", q), LAMBDA e, z : Ok(<<c, e>>, z))))

ParseUpdate(ts) ==
  Then(ParseRef(ts), LAMBDA ref, r :
  Then(ExpectWord(r, "set"), LAMBDA w, q :
  Then(Several("assign", q, <<>>), LAMBDA as, z :
  Then(ParseTail(z), LAMBDA tail, left : Ok(<<"update", ref, as, tail>>, left)))))

ParseDelete(ts) ==
  Then(ExpectWord(ts, "from"), LAMBDA w, r :
  Then(ParseRef(r), LAMBDA ref, q :
  Then(ParseTail(q), LAMBDA tail, left : Ok(<<"delete", ref, tail>>, left))))

InsertSelect(ref, names, ts) ==
  Then(Rule("select", ts), LAMBDA sel, left : Ok(<<"insert", ref, names, sel>>, left))

ParseInsert(ts) ==
  Then(ExpectWord(ts, "into"), LAMBDA w, r :
  Then(ParseRef(r), LAMBDA ref, q :
    IF ~IsOp(q, {"("}) THEN InsertSelect(ref, <<>>, q)
    ELSE Then(Several("ident", Tail(q), <<>>), LAMBDA ns, z :
         Then(ExpectOp(z, ")"), LAMBDA o, left : InsertSelect(ref, <<ns>>, left)))))

(* The tables are removed as they are read: a reference that cannot be     *)
(* read ends the list.                                                     *)
RECURSIVE DropList(_, _)
DropList(one, done) ==
  CASE one = Bad           -> Ok(<<"droptable", Append(done, <<"none">>)>>, <<>>)
    [] one # Bad /\ IsOp(one[3], {","}) -> DropList(ParseRef(Tail(one[3])), Append(done, one[2]))
    [] OTHER               -> Ok(<<"droptable", Append(done, one[2])>>, one[3])

ParseDrop(ts) == DropList(ParseRef(ts), <<>>)

ParseCalc(ts) ==
  Then(Several("expr", ts, <<>>), LAMBDA es, r :
  Then(ExpectWord(r, "from"), LAMBDA w, q :
  Then(ParseRef(q), LAMBDA ref, left : Ok(<<"calc", es, ref>>, left))))

ParseShow(ts) ==
  IF IsWord(ts, {"table"}) THEN Then(ParseRef(Tail(ts)), LAMBDA ref, r : Ok(<<"show", <<ref>>>>, r))
  ELSE Ok(<<"show", <<>>>>, ts)

-----------------------------------------------------------------------------
(* Columns and tables of the DDL.                                          *)

DdlType ==
  [w \in {"boolean", "bool", "b"} |-> "Bool"] @@ [w \in {"uchar", "char", "u1"} |-> "UChar"]
  @@ [w \in {"short", "i2", "sh"} |-> "Short"] @@ [w \in {"int", "i", "i4"} |-> "Int"]
  @@ [w \in {"int64", "i8"} |-> "Int64"] @@ [w \in {"uint", "u4"} |-> "UInt"]
  @@ [w \in {"float", "r4", "f"} |-> "Float"] @@ [w \in {"double", "r8", "d"} |-> "Double"]
  @@ [w \in {"complex", "c", "c4", "cf"} |-> "Complex"] @@ [w \in {"dcomplex", "c8", "cd"} |-> "DComplex"]
  @@ [w \in {"string", "s"} |-> "String"]

NoSpec == [name |-> "", type |-> "", ndim |-> <<>>, shape |-> <<>>]

(* A word, = and a number.                                                 *)
ParseSetting(ts) == Then(ExpectOp(Tail(ts), "="), LAMBDA o, r : ExpectInt(r))

ParseShape(ts) ==
  Then(ExpectOp(Tail(ts), "="), LAMBDA o, r :
  Then(ExpectOp(r, "["), LAMBDA b, q :
  Then(Several("int", q, <<>>), LAMBDA ds, z :
  Then(ExpectOp(z, "]"), LAMBDA c, left : Ok(Reverse([d \in DOMAIN ds |-> ds[d][1]]), left)))))

RECURSIVE ParseModifiers(_, _, _)
ParseModifiers(spec, ts, bracketed) ==
  CASE bracketed /\ IsOp(ts, {"]"}) -> Ok(spec, Tail(ts))
    [] bracketed /\ IsOp(ts, {","}) -> ParseModifiers(spec, Tail(ts), bracketed)
    [] IsWord(ts, {"ndim"}) ->
         Then(ParseSetting(ts), LAMBDA n, r : ParseModifiers([spec EXCEPT !.ndim = n], r, bracketed))
    [] IsWord(ts, {"option", "maxlen"}) -> Then(ParseSetting(ts), LAMBDA n, r : ParseModifiers(spec, r, bracketed))
    [] IsWord(ts, {"shape"}) ->
         Then(ParseShape(ts), LAMBDA ds, r : ParseModifiers([spec EXCEPT !.shape = <<ds>>], r, bracketed))
    [] IsWord(ts, {"comment"}) ->
         Then(ExpectOp(Tail(ts), "="),
              LAMBDA o, r : ParseModifiers(spec, IF r = <<>> THEN r ELSE Tail(r), bracketed))
    [] OTHER -> Ok(spec, ts)

(* NDIM makes an array column, of fixed shape where SHAPE is given.        *)
ParseColumnSpec(ts) ==
  Then(ExpectIdent(ts), LAMBDA name, r :
  Then(ExpectIdent(r), LAMBDA type, q :
    IF type \notin DOMAIN DdlType THEN Bad
    ELSE LET spec == [NoSpec EXCEPT !.name = name, !.type = DdlType[type]]
         IN  IF IsOp(q, {"["}) THEN ParseModifiers(spec, Tail(q), TRUE) ELSE ParseModifiers(spec, q, FALSE)))

ParseLiteral(ts) ==
  CASE IsKind(ts, "int")    -> Ok(<<"Int", ts[1][2]>>, Tail(ts))
    [] IsKind(ts, "float")  -> Ok(<<"Double", ts[1][2]>>, Tail(ts))
    [] IsKind(ts, "str")    -> Ok(<<"String", ts[1][2]>>, Tail(ts))
    [] IsWord(ts, {"true", "false"}) -> Ok(<<"Bool", ts[1][2] = "true">>, Tail(ts))
    [] OTHER -> Bad

ParseKeyword(ts) ==
  Then(ExpectIdent(ts), LAMBDA name, r :
  Then(ExpectOp(r, "="), LAMBDA o, q :
  Then(ParseLiteral(q), LAMBDA v, z : Ok(<<name, v>>, z))))

(* The last LIMIT counts, and the last KEYWORDS list.                      *)
RECURSIVE CreateClauses(_, _)
CreateClauses(c, ts) ==
  CASE IsWord(ts, {"limit"}) ->
         Then(ExpectInt(Tail(ts)), LAMBDA n, r : CreateClauses([c EXCEPT !.limit = n[1]], r))
    [] IsWord(ts, {"keywords"}) ->
         Then(Several("keyword", Tail(ts), <<>>), LAMBDA ks, r : CreateClauses([c EXCEPT !.kws = ks], r))
    [] OTHER -> Ok(<<"create", c>>, ts)

CreateColumns(c, ts) ==
  IF ~IsOp(ts, {"["}) THEN CreateClauses(c, ts)
  ELSE Then(Several("spec", Tail(ts), <<>>), LAMBDA cs, r :
       Then(ExpectOp(r, "]"), LAMBDA o, q : CreateClauses([c EXCEPT !.cols = cs], q)))

(* The path's first word may be any.                                       *)
ParseCreate(ts) ==
  Then(ExpectWord(ts, "table"), LAMBDA w, r :
  Then(CASE IsKind(r, "str") -> Ok(<<r[1][2]>>, Tail(r))
         [] IsKind(r, "id")  -> PathParts(Tail(r), <<r[1][2]>>)
         [] OTHER            -> PathParts(r, <<>>),
       LAMBDA path, q : IF path = <<>> THEN Bad
                        ELSE CreateColumns([path |-> path, cols |-> <<>>, limit |-> 0, kws |-> <<>>], q)))

ParseNameAfter(word, ts) == ExpectIdent(Skip(Tail(ts), {word}))

ParseOp(ts) ==
  CASE IsWord(ts, {"add"}) ->
         Then(ParseColumnSpec(Skip(Tail(ts), {"column"})), LAMBDA s, r : Ok(<<"add", s>>, r))
    [] IsWord(ts, {"drop"}) -> Then(ParseNameAfter("column", ts), LAMBDA c, r : Ok(<<"drop", c>>, r))
    [] IsWord(ts, {"rename"}) ->
         Then(ParseNameAfter("column", ts), LAMBDA from, r :
         Then(IF IsWord(r, {"to"}) THEN Ok("to", Tail(r)) ELSE ExpectOp(r, "="), LAMBDA o, q :
         Then(ExpectIdent(q), LAMBDA to, z : Ok(<<"rename", from, to>>, z))))
    [] IsWord(ts, {"set", "create"}) ->
         Then(ExpectIdent(Tail(ts)), LAMBDA k, r :
         Then(ExpectOp(r, "="), LAMBDA o, q : Then(Rule("expr", q), LAMBDA e, z : Ok(<<"set", k, e>>, z))))
    [] IsWord(ts, {"remove", "delete"}) -> Then(ParseNameAfter("keyword", ts), LAMBDA k, r : Ok(<<"remove", k>>, r))
    [] OTHER -> Bad

AlterWords == {"add", "drop", "rename", "set", "create", "remove", "delete"}

RECURSIVE ParseOps(_, _)
ParseOps(ts, done) ==
  IF IsWord(ts, AlterWords) THEN Then(ParseOp(ts), LAMBDA op, r : ParseOps(r, Append(done, op)))
  ELSE Ok(done, ts)

ParseAlter(ts) ==
  Then(ExpectWord(ts, "table"), LAMBDA w, r :
  Then(ParseRef(r), LAMBDA ref, q :
  Then(ParseOps(q, <<>>), LAMBDA ops, left : IF ops = <<>> THEN Bad ELSE Ok(<<"alter", ref, ops>>, left))))

(* A command is dispatched on its first word.                              *)
Statement(ts) ==
  CASE IsWord(ts, {"create"})       -> ParseCreate(Tail(ts))
    [] IsWord(ts, {"count"})        -> ParseCount(Tail(ts))
    [] IsWord(ts, {"update"})       -> ParseUpdate(Tail(ts))
    [] IsWord(ts, {"delete"})       -> ParseDelete(Tail(ts))
    [] IsWord(ts, {"insert"})       -> ParseInsert(Tail(ts))
    [] IsWord(ts, {"droptable"})    -> ParseDrop(Tail(ts))
    [] IsWord(ts, {"alter"})        -> ParseAlter(Tail(ts))
    [] IsWord(ts, {"show", "help"}) -> ParseShow(Tail(ts))
    [] IsWord(ts, {"calc"})         -> ParseCalc(Tail(ts))
    [] OTHER                        -> ParseQuery(ts)
(* The rules of the grammar that refer to each other.                      *)
Rule(kind, ts) ==
  CASE kind = "statement" -> Statement(ts) [] kind = "select" -> ParseSelect(ts)
    [] kind = "expr" -> ParseExpr(ts) [] kind = "and" -> ParseAnd(ts)
    [] kind = "cmp" -> ParseCmp(ts) [] kind = "add" -> ParseAdd(ts)
    [] kind = "mul" -> ParseMul(ts) [] kind = "unary" -> ParseUnary(ts)
    [] kind = "key" -> ParseKey(ts) [] kind = "column" -> ParseColumn(ts)
    [] kind = "assign" -> ParseAssign(ts) [] kind = "ident" -> ExpectIdent(ts)
    [] kind = "int" -> ExpectInt(ts) [] kind = "spec" -> ParseColumnSpec(ts)
    [] kind = "keyword" -> ParseKeyword(ts)

Parse(ts) == Rule("statement", ts)
=============================================================================
