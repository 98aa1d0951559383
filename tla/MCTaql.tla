------------------------------- MODULE MCTaql -------------------------------
(* Tables, statements, queries and patterns for TLC.                       *)
EXTENDS Taql

N(name) == <<"name", name>>
I(n)    == <<"lit", <<"int", n>>>>
S(s)    == <<"lit", <<"str", s>>>>
B(op, l, r) == <<"binary", op, l, r>>
F(f, args)  == <<"call", f, args>>
P(d)  == <<"path", <<"/", d>>>>
T1    == <<"table", 1>>

MCAlphabet == <<"-", "0", "1", "2", "A", "a", "b", "c">>
MCLowerOf == [A |-> "a"]

Scalar(name, type) == [name |-> name, type |-> type, array |-> FALSE]
Cells(type, vs) == [i \in DOMAIN vs |-> <<type, vs[i]>>]

(* Two ties, a third key that tells them apart, and strings.               *)
TableP ==
  [cols |-> <<Scalar("a", "Int"), Scalar("b", "Short"), Scalar("s", "String")>>,
   cells |-> <<Cells("Int", <<2, 1, 2>>), Cells("Short", <<1, 1, 2>>), Cells("String", <<<<"a">>, <<"a", "b">>, <<"A">>>>)>>,
   kw |-> [k |-> <<"Int", 7>>]]

MCStart == [d \in {"p", "q"} |-> IF d = "p" THEN TableP ELSE NoTable]

Where(e) == [NoTail EXCEPT !.where = <<e>>]
Key(e, d) == [expr |-> e, desc |-> d]
Rows(d) == [NoSelect EXCEPT !.table = P(d)]
One == [NoSelect EXCEPT !.table = T1]

Conditions == {B("==", N("a"), I(2)), B("<", N("b"), N("a")), B("and", B("==", N("a"), I(2)), B(">", N("b"), I(1)))}

Swap == <<<<"a", N("b")>>, <<"b", N("a")>>>>

Updates == {<<"update", ref, Swap, NoTail>> : ref \in {P("p"), T1}}
           \cup {<<"update", T1, <<<<"a", B("%", N("a"), B("-", N("b"), I(1)))>>>>, NoTail>>,
                 <<"update", P("p"), <<<<"b", B("+", N("a"), I(40000))>>>>, Where(B("==", N("a"), I(2)))>>,
                 <<"update", T1, <<<<"b", I(3)>>, <<"nope", I(1)>>>>, NoTail>>}
Deletes == {<<"delete", ref, tail>> :
              ref \in {P("p"), T1},
              tail \in {Where(B("<", N("b"), N("a"))),
                        [NoTail EXCEPT !.orderby = <<Key(N("a"), TRUE)>>, !.limit = <<1>>]}}
Inserts == {<<"insert", P("p"), names, sel>> :
              names \in {<<>>, <<<<"b", "a">>>>, <<<<"b", "nope">>>>},
              sel \in {[Rows("p") EXCEPT !.columns = <<<<<<N("b"), <<>>>>, <<B("*", N("a"), I(3)), <<"x">>>>>>>>, !.limit = <<1>>]}}
Spec2 == [NoSpec EXCEPT !.name = "c", !.type = "Int"]
Alters == {<<"alter", ref, <<op>>>> :
             ref \in {P("p"), T1},
             op \in {<<"add", Spec2>>, <<"drop", "b">>, <<"rename", "a", "z">>}}
          \cup {<<"alter", P("p"), <<<<"set", "k", I(3)>>, <<"drop", "nope">>>>>>, <<"alter", T1, <<<<"remove", "k">>>>>>}
Spec3 == [NoSpec EXCEPT !.name = "v", !.type = "Int", !.ndim = <<1>>, !.shape = <<<<2>>>>]
CreateQ == <<"create", [path |-> <<"/", "q">>, cols |-> <<Spec2, Spec3>>, limit |-> 2, kws |-> <<<<"k", <<"Int", 1>>>>>>]>>
Others == {<<"droptable", <<P("p")>>>>, <<"droptable", <<P("q"), T1>>>>, CreateQ,
           <<"update", P("q"), <<<<"v", N("v")>>>>, NoTail>>,
           <<"select", [Rows("p") EXCEPT !.into = <<<<"/", "q">>>>, !.groupby = <<N("a")>>,
                          !.columns = <<<<<<N("a"), <<>>>>, <<F("gsum", <<N("b")>>), <<"t">>>>>>>>]>>,
           <<"count", P("p"), <<B("==", N("a"), I(2))>>>>,
           <<"show", <<P("p")>>>>, <<"calc", <<N("a")>>, P("q")>>}

MCStatements == Updates \cup Deletes \cup Inserts \cup Alters \cup Others
MCListings == {<<>>, <<"p">>, <<"view">>}
MCPuts == {<<"a", 1, <<"Int", 9>>>>, <<"b", 4, <<"Short", 5>>>>}

MCQueries == {[One EXCEPT !.where = <<B("==", N("a"), I(2))>>],
              [One EXCEPT !.orderby = <<Key(N("b"), TRUE)>>],
              [One EXCEPT !.limit = <<1>>, !.offset = <<1>>],
              [One EXCEPT !.columns = <<<<<<N("b"), <<>>>>, <<N("a"), <<>>>>, <<N("s"), <<>>>>>>>>],
              [One EXCEPT !.unique = TRUE]}

(* Expressions with two operators, each way round.                         *)
Ops == {"or", "and", "==", "<=", "+", "-", "*", "%"}
Leaf == N("a")
Inner == {B(op, N("b"), I(1)) : op \in Ops} \cup {<<"unary", op, N("b")>> : op \in {"neg", "not"}}
         \cup {<<"match", <<tag, "in">>, N("b"), <<"set", <<I(1), N("a")>>>>>> : tag \in {"", "not"}}
         \cup {<<"match", <<"", "like">>, N("s"), S(<<"%", "b">>)>>, <<"index", F("array", <<N("a"), N("b")>>), I(1)>>,
               <<"index", <<"subquery", Rows("p")>>, I(0)>>, F("iif", <<B("<", N("a"), I(2)), N("a"), N("b")>>)}
Expressions == Inner \cup {B(op, e, Leaf) : op \in Ops, e \in Inner} \cup {B(op, Leaf, e) : op \in Ops, e \in Inner}
               \cup {<<"unary", op, e>> : op \in {"neg", "not"}, e \in Inner}
               \cup {<<"match", <<"not", "in">>, e, <<"set", <<e>>>>>> : e \in Inner}
               \cup {F("sums", <<F("array", <<e, Leaf>>), I(1)>>) : e \in Inner}

RowId == F("rowid", <<>>)
KeySets == {<<>>} \cup {<<Key(N(x), d)>> : x \in {"a", "b", "s"}, d \in BOOLEAN}
           \cup {<<Key(N(x), d), Key(N(y), e)>> : x \in {"a", "b"}, y \in {"b", "s"}, d \in BOOLEAN, e \in BOOLEAN}
RowProbes == {<<"select", [Rows("p") EXCEPT !.columns = <<<<<<RowId, <<>>>>, <<N("a"), <<"x">>>>>>>>, !.where = w, !.orderby = ks, !.limit = l]>> :
                w \in {<<>>} \cup {<<c>> : c \in Conditions}, ks \in KeySets, l \in {<<>>, <<2>>}}
GroupProbes == {<<"select", [Rows("p") EXCEPT !.columns = <<<<<<F("growid", <<>>), <<>>>>, <<F("gcount", <<>>), <<"n">>>>, <<F("gmax", <<N("b")>>), <<>>>>, <<F("gaggr", <<N("s")>>), <<>>>>>>>>,
                               !.groupby = g, !.having = h, !.orderby = ks]>> :
                  g \in {<<N("a")>>, <<N("b")>>, <<N("a"), N("b")>>, <<B("%", N("a"), N("b"))>>, <<B("<", N("a"), N("b"))>>},
                  h \in {<<>>, <<B(">", F("gcount", <<>>), I(1))>>},
                  ks \in {<<>>, <<Key(F("gsum", <<N("b")>>), TRUE)>>, <<Key(N("a"), FALSE)>>}}
UniqueProbes == {<<"select", [Rows("p") EXCEPT !.columns = <<<<<<N("a"), <<>>>>>>>>, !.unique = TRUE]>>}

Texts == UNION {[1..n -> {"a", "b", "A"}] : n \in 0..2} \cup {<<"a", "b", "a">>, <<"a", "b", "b">>, <<"a", "b", "c">>}
LikePatterns == {<<>>, <<"%">>, <<"_">>, <<"a", "%">>, <<"%", "b">>, <<"%", "a", "%">>, <<"_", "%">>, <<"\\", "%">>, <<"a", "_", "a">>}
GlobPatterns == {<<"*">>, <<"?">>, <<"a", "*">>, <<"*", "b">>, <<"?", "*", "b">>, <<"*", "a", "*">>}
Regexes == {<<"a">>, <<"^", "a">>, <<"a", "$">>, <<"^", "$">>, <<"a", "*", "b">>, <<"a", "+", "$">>, <<".", "b">>, <<"^", "[", "a", "-", "b", "]", "+", "$">>,
            <<"[", "^", "a", "]">>, <<"a", "?", "a", "b">>, <<"a", "|", "b", "b">>, <<"^", "(", "a", "|", "a", "b", ")", "$">>,
            <<"(", "a", "|", "a", "b", ")", "c">>, <<"(", "a", "b", ")", "+", "$">>, <<"\\", ".">>, <<"(", "a">>, <<".", "*", "a", "$">>, <<"b", "?", "$">>}
Matches == {<<"match", <<"", op>>, S(t), S(p)>> : op \in {"like", "ilike"}, t \in Texts, p \in LikePatterns}
           \cup {<<"match", <<"not", "regex">>, S(t), F("pattern", <<S(p)>>)>> : t \in Texts, p \in GlobPatterns}
           \cup {<<"match", <<"", "regex">>, S(t), S(p)>> : t \in Texts, p \in Regexes}

MCProbes == RowProbes \cup GroupProbes \cup UniqueProbes
            \cup {<<"calc", <<m>>, P("p")>> : m \in Matches}
            \cup {<<"select", [Rows("p") EXCEPT !.columns = <<<<<<e, <<"x">>>>>>>>, !.where = <<e>>]>> : e \in Expressions}

(* Where the documentation and the code part.                              *)
MCNone == {}
MCOrder == {p \in RowProbes : Len(p[2].orderby) = 2}
MCCreateOver == {<<"create", [path |-> <<"/", "p">>, cols |-> <<[Spec2 EXCEPT !.name = "a"], Spec2>>, limit |-> 2, kws |-> <<>>]>>}
MCHalfAltered == {<<"alter", P("p"), <<<<"set", "k", I(3)>>, <<"drop", "nope">>>>>>}
=============================================================================
