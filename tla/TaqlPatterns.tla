---------------------------- MODULE TaqlPatterns ----------------------------
(***************************************************************************)
(* Matching of strings in crates/casacure/src/taql.rs: LIKE and the glob   *)
(* patterns by dynamic programming, regular expressions by a small         *)
(* backtracking engine.  A string is a sequence of one-letter strings.     *)
(***************************************************************************)
EXTENDS Integers, Sequences, FiniteSets, SequencesExt

CONSTANTS
  Alphabet, \* the characters, in their order
  LowerOf   \* the lower-case letter of each upper-case one

Rank(c)    == CHOOSE i \in DOMAIN Alphabet : Alphabet[i] = c
Lower(s)   == [i \in DOMAIN s |-> IF s[i] \in DOMAIN LowerOf THEN LowerOf[s[i]] ELSE s[i]]

-----------------------------------------------------------------------------
(* LIKE: % stands for any run, _ for one character, \ takes the next       *)
(* character for what it is.  A glob has * and ? and no escape.            *)

RECURSIVE LikeMarks(_)
LikeMarks(p) ==
  CASE p = <<>>       -> <<>>
    [] p # <<>> /\ p[1] = "%" -> <<<<"run">>>> \o LikeMarks(Tail(p))
    [] p # <<>> /\ p[1] = "_" -> <<<<"one">>>> \o LikeMarks(Tail(p))
    [] Len(p) > 1 /\ p[1] = "\\" -> <<<<"lit", p[2]>>>> \o LikeMarks(SubSeq(p, 3, Len(p)))
    [] OTHER          -> <<<<"lit", p[1]>>>> \o LikeMarks(Tail(p))

GlobMarks(p) ==
  [i \in DOMAIN p |-> CASE p[i] = "*" -> <<"run">> [] p[i] = "?" -> <<"one">> [] OTHER -> <<"lit", p[i]>>]

MarkMatch(t, marks) ==
  LET dp[ij \in (0..Len(t)) \X (0..Len(marks))] ==
        LET i == ij[1]
            j == ij[2]
        IN  CASE j = 0 -> i = 0
              [] j > 0 /\ marks[j][1] = "run" -> dp[<<i, j - 1>>] \/ (i > 0 /\ dp[<<i - 1, j>>])
              [] OTHER -> /\ i > 0
                          /\ marks[j][1] = "one" \/ t[i] = marks[j][2]
                          /\ dp[<<i - 1, j - 1>>]
  IN  dp[<<Len(t), Len(marks)>>]

SqlLike(t, p, insensitive) ==
  IF insensitive THEN MarkMatch(Lower(t), LikeMarks(Lower(p))) ELSE MarkMatch(t, LikeMarks(p))

PatternStar(t, p) == MarkMatch(t, GlobMarks(p))

-----------------------------------------------------------------------------
(* Parsing a regular expression: <<"ok", what, left>> or NoRegex.          *)

NoRegex == <<"none">>
Some(x, cs) == <<"ok", x, cs>>
Next1(r, F(_, _)) == IF r = NoRegex THEN NoRegex ELSE F(r[2], r[3])
Starts(cs, set) == cs # <<>> /\ cs[1] \in set

Quantified(atom, cs) ==
  CASE Starts(cs, {"*"}) -> Some(<<"star", atom>>, Tail(cs))
    [] Starts(cs, {"+"}) -> Some(<<"plus", atom>>, Tail(cs))
    [] Starts(cs, {"?"}) -> Some(<<"opt", atom>>, Tail(cs))
    [] OTHER             -> Some(atom, cs)

Escaped(cs) == IF cs = <<>> THEN NoRegex ELSE Some(cs[1], Tail(cs))

(* The characters of a class, up to its bracket.                           *)
RECURSIVE ClassRanges(_, _)
ClassRanges(cs, done) ==
  CASE cs = <<>> -> NoRegex
    [] Starts(cs, {"]"}) -> Some(done, Tail(cs))
    [] OTHER ->
         Next1(IF cs[1] = "\\" THEN Escaped(Tail(cs)) ELSE Some(cs[1], Tail(cs)),
               LAMBDA lo, r : IF Len(r) > 1 /\ r[1] = "-" /\ r[2] # "]"
                                THEN ClassRanges(SubSeq(r, 3, Len(r)), Append(done, <<lo, r[2]>>))
                                ELSE ClassRanges(r, Append(done, <<lo, lo>>)))

RECURSIVE ParseAlt(_), MoreAlts(_, _), ParseSeq(_, _)

ParseAtom(c, cs) ==
  CASE c = "^" -> Some(<<"start">>, cs)
    [] c = "$" -> Some(<<"end">>, cs)
    [] c = "." -> Some(<<"any">>, cs)
    [] c = "[" -> LET negated == Starts(cs, {"^"})
                  IN  Next1(ClassRanges(IF negated THEN Tail(cs) ELSE cs, <<>>),
                            LAMBDA ranges, r : Some(<<"class", negated, ranges>>, r))
    [] c = "(" -> Next1(ParseAlt(cs), LAMBDA sub, r : IF Starts(r, {")"}) THEN Some(<<"group", sub>>, Tail(r))
                                                      ELSE NoRegex)
    [] c = "\\" -> Next1(Escaped(cs), LAMBDA e, r : Some(<<"lit", e>>, r))
    [] OTHER -> Some(<<"lit", c>>, cs)

ParseSeq(cs, done) ==
  IF cs = <<>> \/ Starts(cs, {")", "|"}) THEN Some(done, cs)
  ELSE Next1(ParseAtom(cs[1], Tail(cs)), LAMBDA atom, r :
       Next1(Quantified(atom, r), LAMBDA q, z : ParseSeq(z, Append(done, q))))

MoreAlts(left, cs) ==
  IF ~Starts(cs, {"|"}) THEN Some(left, cs)
  ELSE Next1(ParseSeq(Tail(cs), <<>>), LAMBDA right, r : MoreAlts(<<<<"alt", left, right>>>>, r))

ParseAlt(cs) == Next1(ParseSeq(cs, <<>>), MoreAlts)

ParseRegex(p) == Next1(ParseAlt(p), LAMBDA ns, left : IF left # <<>> THEN NoRegex ELSE Some(ns, left))

-----------------------------------------------------------------------------
(* Matching from position s (0..Len(t)): the end, or NoEnd.                *)

NoEnd == -1
OrElse(e, f) == IF e # NoEnd THEN e ELSE f

ClassHas(c, negated, ranges) ==
  (\E i \in DOMAIN ranges : Rank(ranges[i][1]) <= Rank(c) /\ Rank(c) <= Rank(ranges[i][2])) # negated

(* A node that takes one character, or that takes none.                    *)
Single(n, t, s) ==
  CASE n[1] = "lit"   -> IF s < Len(t) /\ t[s + 1] = n[2] THEN s + 1 ELSE NoEnd
    [] n[1] = "any"   -> IF s < Len(t) THEN s + 1 ELSE NoEnd
    [] n[1] = "class" -> IF s < Len(t) /\ ClassHas(t[s + 1], n[2], n[3]) THEN s + 1 ELSE NoEnd
    [] n[1] = "start" -> IF s = 0 THEN s ELSE NoEnd
    [] n[1] = "end"   -> IF s = Len(t) THEN s ELSE NoEnd

RECURSIVE MatchNode(_, _, _), MatchSeq(_, _, _), Greedy(_, _, _), FirstEnd(_, _, _)

(* The ends of one, two, ... matches of n on end.  On an n that matches    *)
(* without taking a character the program loops for ever.                  *)
GreedyFrom(e, n, t) == IF e = NoEnd THEN <<>> ELSE <<e>> \o Greedy(n, t, e)
Greedy(n, t, s) == GreedyFrom(MatchNode(n, t, s), n, t)

MatchNode(n, t, s) ==
  CASE n[1] = "group" -> MatchSeq(n[2], t, s)
    [] n[1] = "alt"   -> OrElse(MatchSeq(n[2], t, s), MatchSeq(n[3], t, s))
    [] n[1] = "opt"   -> OrElse(MatchNode(n[2], t, s), s)
    [] n[1] \in {"star", "plus"} -> Last(<<s>> \o Greedy(n[2], t, s))
    [] OTHER          -> Single(n, t, s)

(* A faulty version: only the longest is tried.                            *)
LongestEnd(rest, t, es) == IF es = <<>> THEN NoEnd ELSE MatchSeq(rest, t, Last(es))

(* The rest after the longest of the ends it can follow.                   *)
FirstEnd(rest, t, es) ==
  IF es = <<>> THEN NoEnd ELSE OrElse(MatchSeq(rest, t, Last(es)), FirstEnd(rest, t, Front(es)))

After(rest, t, e) == IF e = NoEnd THEN NoEnd ELSE MatchSeq(rest, t, e)

MatchSeq(ns, t, s) ==
  IF ns = <<>> THEN s
  ELSE LET n    == ns[1]
           rest == Tail(ns)
       IN  CASE n[1] = "star" -> FirstEnd(rest, t, <<s>> \o Greedy(n[2], t, s))
             [] n[1] = "plus" -> FirstEnd(rest, t, Greedy(n[2], t, s))
             [] n[1] = "opt"  -> OrElse(After(rest, t, MatchNode(n[2], t, s)), MatchSeq(rest, t, s))
             [] OTHER         -> After(rest, t, MatchNode(n, t, s))

(* Where the match may start.                                              *)
Origins(ns, t) == IF ns # <<>> /\ ns[1][1] = "start" THEN {0} ELSE 0..Len(t)

RegexSearch(t, p) ==
  \E r \in {ParseRegex(p)} : r # NoRegex /\ \E s \in Origins(r[2], t) : MatchSeq(r[2], t, s) # NoEnd

RegexMatches(t, kind, p) ==
  CASE kind = "regex" -> RegexSearch(t, p) [] kind = "sqlpattern" -> SqlLike(t, p, FALSE)
    [] kind = "pattern" -> PatternStar(t, p)

-----------------------------------------------------------------------------
(* What the patterns mean, said without a search order.                    *)

(* Cuts of the text, one piece for each mark.                              *)
MarksMean(t, marks) ==
  \E cut \in [0..Len(marks) -> 0..Len(t)] :
    /\ cut[0] = 0 /\ cut[Len(marks)] = Len(t)
    /\ \A j \in 1..Len(marks) :
         CASE marks[j][1] = "run" -> cut[j - 1] <= cut[j]
           [] marks[j][1] = "one" -> cut[j] = cut[j - 1] + 1
           [] OTHER -> cut[j] = cut[j - 1] + 1 /\ t[cut[j]] = marks[j][2]

(* All the ends of a node, of a sequence, and of any number of nodes.      *)
RECURSIVE NodeEnds(_, _, _), SeqEnds(_, _, _), Repeats(_, _, _)
Repeats(n, t, from) ==
  LET more == from \cup UNION {NodeEnds(n, t, s) : s \in from}
  IN  IF more = from THEN from ELSE Repeats(n, t, more)

NodeEnds(n, t, s) ==
  CASE n[1] = "group" -> SeqEnds(n[2], t, s)
    [] n[1] = "alt"   -> SeqEnds(n[2], t, s) \cup SeqEnds(n[3], t, s)
    [] n[1] = "opt"   -> {s} \cup NodeEnds(n[2], t, s)
    [] n[1] = "star"  -> Repeats(n[2], t, {s})
    [] n[1] = "plus"  -> Repeats(n[2], t, NodeEnds(n[2], t, s))
    [] OTHER          -> {Single(n, t, s)} \ {NoEnd}

SeqEnds(ns, t, s) ==
  IF ns = <<>> THEN {s} ELSE UNION {SeqEnds(Tail(ns), t, e) : e \in NodeEnds(ns[1], t, s)}

RegexMeans(t, p) == \E s \in 0..Len(t) : SeqEnds(ParseRegex(p)[2], t, s) # {}

(* No group or alternative stands before something else: the engine takes  *)
(* the first way through one and does not come back to it.                 *)
RECURSIVE Straight(_)
Straight(ns) ==
  \A i \in DOMAIN ns :
    CASE ns[i][1] = "group" -> i = Len(ns) /\ Straight(ns[i][2])
      [] ns[i][1] = "alt"   -> i = Len(ns) /\ Straight(ns[i][2]) /\ Straight(ns[i][3])
      [] ns[i][1] \in {"star", "plus", "opt"} -> ns[i][2][1] \notin {"group", "alt"}
      [] OTHER -> TRUE

Meant(t, kind, p) ==
  CASE kind = "regex" -> ParseRegex(p) # NoRegex /\ RegexMeans(t, p)
    [] kind = "sqlpattern" -> MarksMean(t, LikeMarks(p))
    [] kind = "pattern" -> MarksMean(t, GlobMarks(p))
=============================================================================
