------------------------- MODULE StandardStManProofs ------------------------
(***************************************************************************)
(* What StandardStMan says of a StandardStMan's file, proved for any       *)
(* columns, buckets and strings.                                           *)
(*                                                                         *)
(* An index is read back from the buckets it was split over.  A growth is  *)
(* a list of single writes after each of which the index reads as the old  *)
(* one, the new one or not at all, and every row is where it was.  A patch *)
(* and a whole new file leave the file whole.                              *)
(***************************************************************************)
EXTENDS StandardStMan, NaturalLemmas, FiniteSetTheorems, SequenceTheorems, TLAPS

-----------------------------------------------------------------------------
(* Numbers and sequences.                                                  *)

LEMMA MinOfTwo ==
  ASSUME NEW a \in Int, NEW b \in Int
  PROVE  Min({a, b}) = IF a <= b THEN a ELSE b
<1>1. \E x \in {a, b} : \A y \in {a, b} : x <= y
  OBVIOUS
<1>2. Min({a, b}) \in {a, b} /\ \A y \in {a, b} : Min({a, b}) <= y
  BY <1>1 DEF Min
<1>. QED
  BY <1>2

LEMMA MaxOfPair ==
  ASSUME NEW a \in Int, NEW b \in Int
  PROVE  Max({a, b}) = IF a >= b THEN a ELSE b
<1>1. \E x \in {a, b} : \A y \in {a, b} : x >= y
  OBVIOUS
<1>2. Max({a, b}) \in {a, b} /\ \A y \in {a, b} : Max({a, b}) >= y
  BY <1>1 DEF Max
<1>. QED
  BY <1>2

LEMMA Smallest ==
  ASSUME NEW S, S \subseteq Nat, S # {}
  PROVE  Min(S) \in S /\ \A k \in S : Min(S) <= k
<1>1. \E x \in S : \A y \in S : x <= y
  BY Least
<1>. QED
  BY <1>1 DEF Min

(* How many pieces of size cap hold n things.                              *)
Count(n, cap) == (n + cap - 1) \div cap

LEMMA CountHolds ==
  ASSUME NEW n \in Nat, NEW cap \in Nat \ {0}
  PROVE  /\ Count(n, cap) \in Nat
         /\ n <= Count(n, cap) * cap
         /\ n > 0 => Count(n, cap) >= 1 /\ (Count(n, cap) - 1) * cap < n
<1>. DEFINE m == Count(n, cap)
            r == (n + cap - 1) % cap
<1>1. n + cap - 1 \in Nat
  OBVIOUS
<1>2. n + cap - 1 = m * cap + r /\ r \in 0..(cap - 1)
  BY <1>1, WholeAndRest DEF Count
<1>3. m \in Nat
  BY <1>1 DEF Count
<1>. HIDE DEF m, r
<1>4. m * cap \in Nat /\ (m - 1) * cap = m * cap - cap
  BY <1>3
<1>5. n <= m * cap
  BY <1>2, <1>4
<1>6. ASSUME n > 0 PROVE m >= 1 /\ (m - 1) * cap < n
  <2>1. m # 0
    BY <1>6, <1>5
  <2>2. (m - 1) * cap < n
    BY <1>2, <1>4
  <2>. QED
    BY <2>1, <2>2, <1>3
<1>. QED
  BY <1>3, <1>5, <1>6 DEF m

LEMMA StepsOf ==
  ASSUME NEW j \in Nat, NEW k \in Nat, NEW cap \in Nat \ {0}, j <= k
  PROVE  j * cap \in Nat /\ k * cap \in Nat /\ j * cap <= k * cap /\ (k + 1) * cap = k * cap + cap
<1>1. j * cap \in Nat /\ k * cap \in Nat /\ (k + 1) * cap = k * cap + cap
  OBVIOUS
<1>2. CASE j = k
  BY <1>1, <1>2
<1>3. CASE j < k
  BY <1>1, <1>3, RowsBefore
<1>. QED
  BY <1>1, <1>2, <1>3

(* More things, no fewer pieces.                                           *)
LEMMA CountGrows ==
  ASSUME NEW a \in Nat, NEW b \in Nat, a <= b, NEW cap \in Nat \ {0}
  PROVE  Count(a, cap) <= Count(b, cap)
<1>. DEFINE m == Count(a, cap)
            n == Count(b, cap)
<1>1. m \in Nat /\ n \in Nat /\ b <= n * cap /\ (a > 0 => m >= 1 /\ (m - 1) * cap < a)
  BY CountHolds
<1>2. a = 0 => m = 0
  BY CountHolds, WholeAndRest DEF Count
<1>. HIDE DEF m, n
<1>3. SUFFICES ASSUME m > n PROVE FALSE
  BY <1>1 DEF m, n
<1>4. a > 0 /\ m - 1 \in Nat /\ n <= m - 1
  BY <1>1, <1>2, <1>3
<1>5. n * cap \in Nat /\ (m - 1) * cap \in Nat /\ n * cap <= (m - 1) * cap
  BY <1>1, <1>4, StepsOf
<1>. QED
  BY <1>1, <1>4, <1>5

-----------------------------------------------------------------------------
(* A sequence cut into pieces and put together again.                      *)

(* Where the k-th piece ends.                                              *)
PieceEnds(n, cap, k) == IF k < Count(n, cap) THEN k * cap ELSE n

LEMMA PieceBounds ==
  ASSUME NEW n \in Nat, NEW cap \in Nat \ {0}, NEW k \in 1..Count(n, cap)
  PROVE  /\ PieceEnds(n, cap, k) = Min({k * cap, n})
         /\ (k - 1) * cap \in Nat /\ (k - 1) * cap < PieceEnds(n, cap, k)
         /\ PieceEnds(n, cap, k) \in 1..n
         /\ PieceEnds(n, cap, k) <= (k - 1) * cap + cap
         /\ k > 1 => PieceEnds(n, cap, k - 1) = (k - 1) * cap
<1>. DEFINE m == Count(n, cap)
<1>1. m \in Nat /\ n <= m * cap /\ (n > 0 => m >= 1 /\ (m - 1) * cap < n)
  BY CountHolds
<1>. HIDE DEF m
<1>2. k \in 1..m
  BY DEF m
<1>3. n > 0
  <2>1. n = 0 => m = 0
    BY CountHolds, WholeAndRest DEF Count, m
  <2>. QED
    BY <2>1, <1>2
<1>4. k - 1 \in Nat /\ k \in Nat /\ m - 1 \in Nat /\ k - 1 <= m - 1
  BY <1>1, <1>2
<1>5. (k - 1) * cap \in Nat /\ (m - 1) * cap \in Nat /\ (k - 1) * cap <= (m - 1) * cap /\ k * cap = (k - 1) * cap + cap
  <2>1. ((k - 1) + 1) * cap = (k - 1) * cap + cap
    BY <1>4, StepsOf
  <2>2. (k - 1) + 1 = k
    BY <1>4
  <2>. QED
    BY <1>4, <2>1, <2>2, StepsOf
<1>6. k * cap \in Nat
  BY <1>5
<1>7. CASE k < m
  <2>1. k <= m - 1
    BY <1>7, <1>4, <1>1
  <2>2. k * cap <= (m - 1) * cap
    BY <1>4, <2>1, StepsOf
  <2>3. PieceEnds(n, cap, k) = k * cap
    BY <1>7 DEF PieceEnds, m
  <2>4. k * cap < n
    BY <1>1, <1>3, <1>5, <1>6, <2>2
  <2>5. Min({k * cap, n}) = k * cap
    BY <2>4, <1>6, MinOfTwo
  <2>6. k > 1 => PieceEnds(n, cap, k - 1) = (k - 1) * cap
    <3>1. k - 1 < m /\ k - 1 \in Nat
      BY <1>1, <1>4, <1>7
    <3>. QED
      BY <3>1 DEF PieceEnds, m
  <2>. QED
    BY <2>3, <2>4, <2>5, <2>6, <1>5, <1>6
<1>8. CASE k = m
  <2>1. PieceEnds(n, cap, k) = n
    BY <1>8, <1>4 DEF PieceEnds, m
  <2>2. (k - 1) * cap < n /\ n <= k * cap
    BY <1>1, <1>3, <1>8
  <2>3. Min({k * cap, n}) = n
    BY <2>2, <1>6, MinOfTwo
  <2>4. k > 1 => PieceEnds(n, cap, k - 1) = (k - 1) * cap
    <3>1. k - 1 < m
      BY <1>1, <1>4, <1>8
    <3>. QED
      BY <3>1 DEF PieceEnds, m
  <2>. QED
    BY <2>1, <2>2, <2>3, <2>4, <1>3, <1>5
<1>. QED
  BY <1>1, <1>2, <1>7, <1>8

LEMMA PiecesAre ==
  ASSUME NEW S, NEW s \in Seq(S), NEW cap \in Nat \ {0}
  PROVE  /\ Pieces(s, cap) \in Seq(Seq(S))
         /\ Len(Pieces(s, cap)) = Count(Len(s), cap)
         /\ \A k \in 1..Count(Len(s), cap) :
              Pieces(s, cap)[k] = SubSeq(s, (k - 1) * cap + 1, PieceEnds(Len(s), cap, k))
<1>1. Len(s) \in Nat /\ Count(Len(s), cap) \in Nat
  BY CountHolds
<1>2. Pieces(s, cap) = [k \in 1..Count(Len(s), cap) |-> SubSeq(s, (k - 1) * cap + 1, PieceEnds(Len(s), cap, k))]
  BY <1>1, PieceBounds DEF Pieces, Count
<1>3. \A k \in 1..Count(Len(s), cap) : SubSeq(s, (k - 1) * cap + 1, PieceEnds(Len(s), cap, k)) \in Seq(S)
  <2>. TAKE k \in 1..Count(Len(s), cap)
  <2>. DEFINE i == (k - 1) * cap + 1
              j == PieceEnds(Len(s), cap, k)
  <2>0. (k - 1) * cap \in Nat /\ (k - 1) * cap < j /\ j \in 1..Len(s)
    BY <1>1, PieceBounds
  <2>1. i \in 1..Len(s) /\ j \in 1..Len(s)
    <3>. DEFINE x == (k - 1) * cap
    <3>. HIDE DEF x, j
    <3>1. x \in Nat /\ x < j /\ j \in 1..Len(s)
      BY <2>0 DEF x
    <3>2. x + 1 \in 1..Len(s)
      BY <3>1, <1>1
    <3>. QED
      BY <3>1, <3>2 DEF x
  <2>. HIDE DEF i, j
  <2>2. SubSeq(s, i, j) \in Seq(S)
    BY <2>1
  <2>. QED
    BY <2>2 DEF i, j
<1>. DEFINE F == [k \in 1..Count(Len(s), cap) |-> SubSeq(s, (k - 1) * cap + 1, PieceEnds(Len(s), cap, k))]
<1>4. F \in [1..Count(Len(s), cap) -> Seq(S)]
  BY <1>3
<1>5. \A k \in 1..Count(Len(s), cap) : F[k] = SubSeq(s, (k - 1) * cap + 1, PieceEnds(Len(s), cap, k))
  OBVIOUS
<1>6. Pieces(s, cap) = F
  BY <1>2
<1>. HIDE DEF F
<1>7. F \in Seq(Seq(S)) /\ Len(F) = Count(Len(s), cap)
  BY <1>1, <1>4, FunctionIsSequence
<1>. QED
  BY <1>5, <1>6, <1>7

LEMMA SubSeqsJoin ==
  ASSUME NEW S, NEW s \in Seq(S), NEW i \in 1..Len(s), NEW j \in i..Len(s)
  PROVE  SubSeq(s, 1, i) \o SubSeq(s, i + 1, j) = SubSeq(s, 1, j)
OBVIOUS

LEMMA Joined ==
  ASSUME NEW S, NEW u \in Seq(S), NEW v \in Seq(S)
  PROVE  /\ u \o v \in Seq(S) /\ Len(u \o v) = Len(u) + Len(v)
         /\ \A k \in 1..Len(u) : (u \o v)[k] = u[k]
         /\ \A k \in 1..Len(v) : (u \o v)[Len(u) + k] = v[k]
OBVIOUS

LEMMA Taking ==
  ASSUME NEW S, NEW u \in Seq(S), NEW i \in 0..Len(u), NEW j \in i..Len(u)
  PROVE  /\ SubSeq(u, i + 1, j) \in Seq(S) /\ Len(SubSeq(u, i + 1, j)) = j - i
         /\ \A k \in 1..(j - i) : SubSeq(u, i + 1, j)[k] = u[i + k]
OBVIOUS

LEMMA SameSequence ==
  ASSUME NEW S, NEW u \in Seq(S), NEW v \in Seq(S), Len(u) = Len(v),
         \A k \in 1..Len(u) : u[k] = v[k]
  PROVE  u = v
OBVIOUS

(* What is taken step by step from a can be tabled.                        *)
StepsFrom(g, n, a, step) == g[0] = a /\ \A k \in 1..n : g[k] = step[k][g[k - 1]]

LEMMA Iterates ==
  ASSUME NEW n \in Nat, NEW T, NEW a \in T, NEW step \in [1..n -> [T -> T]]
  PROVE  \E g \in [0..n -> T] : StepsFrom(g, n, a, step)
<1>. DEFINE Tabled == {m \in 0..n : \E g \in [0..m -> T] :
                         g[0] = a /\ \A k \in 1..m : g[k] = step[k][g[k - 1]]}
<1>1. 0 \in Tabled
  <2>. DEFINE g == [k \in 0..0 |-> a]
  <2>1. g \in [0..0 -> T] /\ g[0] = a /\ \A k \in 1..0 : g[k] = step[k][g[k - 1]]
    OBVIOUS
  <2>. HIDE DEF g
  <2>. QED
    BY <2>1
<1>2. ASSUME NEW m \in 0..(n - 1), m \in Tabled PROVE m + 1 \in Tabled
  <2>1. PICK f \in [0..m -> T] : f[0] = a /\ \A k \in 1..m : f[k] = step[k][f[k - 1]]
    BY <1>2
  <2>. DEFINE g == [k \in 0..(m + 1) |-> IF k <= m THEN f[k] ELSE step[m + 1][f[m]]]
  <2>2. step[m + 1][f[m]] \in T
    <3>1. m + 1 \in 1..n /\ f[m] \in T
      OBVIOUS
    <3>. QED
      BY <3>1
  <2>3. g \in [0..(m + 1) -> T] /\ g[0] = a
    BY <2>1, <2>2
  <2>4. \A k \in 1..(m + 1) : g[k] = step[k][g[k - 1]]
    BY <2>1
  <2>5. m + 1 \in 0..n
    OBVIOUS
  <2>. HIDE DEF g
  <2>. QED
    BY <2>3, <2>4, <2>5
<1>3. n \in Tabled
  <2>1. \A m \in 0..(n - 1) : m \in Tabled => m + 1 \in Tabled
    BY <1>2
  <2>. HIDE DEF Tabled
  <2>2. \A m \in 0..n : m \in Tabled
    BY <1>1, <2>1, UpTo
  <2>. QED
    BY <2>2
<1>. QED
  BY <1>3 DEF StepsFrom

(* Pieces put together one by one.                                         *)
LEMMA Flattens ==
  ASSUME NEW S, NEW p \in Seq(Seq(S)), Len(p) >= 1
  PROVE  \E g \in [1..Len(p) -> Seq(S)] :
           /\ FlattenSeq(p) = g[Len(p)] /\ g[1] = p[1]
           /\ \A i \in 2..Len(p) : g[i] = g[i - 1] \o p[i]
<1>. DEFINE n == Len(p)
            step == [k \in 1..n |-> [t \in Seq(S) |-> IF k = 1 THEN p[1] ELSE t \o p[k]]]
            flat == CHOOSE f : f = [i \in 1..n |-> IF i = 1 THEN p[i] ELSE f[i - 1] \o p[i]]
<1>1. n \in Nat /\ n >= 1 /\ \A k \in 1..n : p[k] \in Seq(S)
  OBVIOUS
<1>. HIDE DEF n
<1>2. step \in [1..n -> [Seq(S) -> Seq(S)]]
  BY <1>1
<1>3. PICK h \in [0..n -> Seq(S)] : StepsFrom(h, n, <<>>, step)
  <2>1. <<>> \in Seq(S) /\ n \in Nat
    BY <1>1
  <2>. DEFINE T == Seq(S)
  <2>2. step \in [1..n -> [T -> T]] /\ <<>> \in T
    BY <1>2, <2>1
  <2>. HIDE DEF step, T
  <2>3. \E h \in [0..n -> T] : StepsFrom(h, n, <<>>, step)
    BY <2>1, <2>2, Iterates
  <2>. QED
    BY <2>3 DEF T
<1>. DEFINE g == [i \in 1..n |-> h[i]]
<1>4. g \in [1..n -> Seq(S)] /\ \A i \in 1..n : g[i] = IF i = 1 THEN p[i] ELSE g[i - 1] \o p[i]
  <2>1. g \in [1..n -> Seq(S)]
    OBVIOUS
  <2>2. ASSUME NEW i \in 1..n PROVE g[i] = IF i = 1 THEN p[i] ELSE g[i - 1] \o p[i]
    <3>0. i - 1 \in 0..n /\ h[i - 1] \in Seq(S)
      BY <1>1
    <3>1. h[i] = step[i][h[i - 1]]
      <4>. HIDE DEF step
      <4>. QED
        BY <1>3 DEF StepsFrom
    <3>2. h[i] = IF i = 1 THEN p[1] ELSE h[i - 1] \o p[i]
      BY <3>0, <3>1
    <3>. QED
      BY <3>2, <1>1
  <2>. QED
    BY <2>1, <2>2
<1>5. g = [i \in 1..n |-> IF i = 1 THEN p[i] ELSE g[i - 1] \o p[i]]
  BY <1>4
<1>. HIDE DEF g
<1>6. flat = [i \in 1..n |-> IF i = 1 THEN p[i] ELSE flat[i - 1] \o p[i]]
  BY <1>5
<1>61. \A i \in 1..n : flat[i] = IF i = 1 THEN p[i] ELSE flat[i - 1] \o p[i]
  <2>. HIDE DEF flat
  <2>. QED
    BY <1>6
<1>7. FlattenSeq(p) = flat[n]
  BY <1>1 DEF FlattenSeq, n
<1>. HIDE DEF flat
<1>8. flat \in [1..n -> Seq(S)]
  <2>. DEFINE Good == {0} \cup {i \in 1..n : flat[i] \in Seq(S)}
  <2>1. ASSUME NEW i \in 0..(n - 1), i \in Good PROVE i + 1 \in Good
    <3>0. i + 1 \in 1..n /\ p[i + 1] \in Seq(S)
      BY <1>1
    <3>1. flat[i + 1] = IF i + 1 = 1 THEN p[i + 1] ELSE flat[i] \o p[i + 1]
      <4>1. (i + 1) - 1 = i
        OBVIOUS
      <4>2. flat[i + 1] = IF i + 1 = 1 THEN p[i + 1] ELSE flat[(i + 1) - 1] \o p[i + 1]
        BY <3>0, <1>61
      <4>. QED
        BY <4>1, <4>2
    <3>2. i # 0 => flat[i] \in Seq(S)
      BY <2>1
    <3>3. flat[i + 1] \in Seq(S)
      <4>1. CASE i = 0
        BY <3>0, <3>1, <4>1
      <4>2. CASE i # 0
        <5>1. i + 1 # 1
          BY <4>2, <1>1
        <5>. QED
          BY <3>0, <3>1, <3>2, <4>2, <5>1
      <4>. QED
        BY <4>1, <4>2
    <3>. QED
      BY <3>0, <3>3
  <2>2. \A i \in 0..n : i \in Good
    <3>. HIDE DEF Good
    <3>1. 0 \in Good
      BY DEF Good
    <3>2. \A i \in 0..(n - 1) : i \in Good => i + 1 \in Good
      BY <2>1
    <3>. QED
      BY <3>1, <3>2, <1>1, UpTo
  <2>3. \A i \in 1..n : flat[i] \in Seq(S)
    BY <2>2
  <2>. QED
    BY <2>3, <1>6
<1>9. \A i \in 2..n : flat[i] = flat[i - 1] \o p[i]
  <2>1. \A i \in 2..n : i \in 1..n /\ i # 1
    BY <1>1
  <2>. QED
    BY <1>6, <2>1
<1>10. flat[1] = p[1]
  BY <1>1, <1>6
<1>. QED
  BY <1>7, <1>8, <1>9, <1>10 DEF n

(* The pieces of a sequence are the sequence.                              *)
LEMMA PiecesFlatten ==
  ASSUME NEW S, NEW s \in Seq(S), Len(s) >= 1, NEW cap \in Nat \ {0}
  PROVE  FlattenSeq(Pieces(s, cap)) = s
<1>. DEFINE p == Pieces(s, cap)
            m == Count(Len(s), cap)
            e(k) == PieceEnds(Len(s), cap, k)
<1>1. Len(s) \in Nat /\ m \in Nat /\ m >= 1
  <2>1. Len(s) \in Nat /\ Len(s) > 0
    OBVIOUS
  <2>. QED
    BY <2>1, CountHolds
<1>2. p \in Seq(Seq(S)) /\ Len(p) = m /\ \A k \in 1..m : p[k] = SubSeq(s, (k - 1) * cap + 1, e(k))
  BY PiecesAre
<1>3. \A k \in 1..m : e(k) \in 1..Len(s) /\ (k - 1) * cap \in Nat /\ (k - 1) * cap < e(k) /\ (k > 1 => e(k - 1) = (k - 1) * cap)
  BY <1>1, PieceBounds
<1>4. e(m) = Len(s)
  BY <1>1 DEF PieceEnds
<1>. HIDE DEF p, m, e
<1>5. PICK g \in [1..m -> Seq(S)] :
         FlattenSeq(p) = g[m] /\ g[1] = p[1] /\ \A i \in 2..m : g[i] = g[i - 1] \o p[i]
  <2>1. \E g \in [1..Len(p) -> Seq(S)] :
           /\ FlattenSeq(p) = g[Len(p)] /\ g[1] = p[1]
           /\ \A i \in 2..Len(p) : g[i] = g[i - 1] \o p[i]
    BY <1>1, <1>2, Flattens
  <2>. QED
    BY <1>2, <2>1
<1>. DEFINE Good == {0} \cup {i \in 1..m : g[i] = SubSeq(s, 1, e(i))}
<1>6. ASSUME NEW i \in 0..(m - 1), i \in Good PROVE i + 1 \in Good
  <2>1. CASE i = 0
    <3>1. g[1] = SubSeq(s, (1 - 1) * cap + 1, e(1))
      BY <1>1, <1>2, <1>5
    <3>. QED
      BY <2>1, <3>1, <1>1
  <2>2. CASE i # 0
    <3>1. i \in 1..m /\ i + 1 \in 2..m /\ i + 1 \in 1..m /\ (i + 1) - 1 = i /\ i + 1 > 1
      BY <1>1, <2>2
    <3>2. g[i] = SubSeq(s, 1, e(i))
      BY <1>6, <2>2
    <3>3. e(i) = i * cap /\ e(i) < e(i + 1)
      BY <1>3, <3>1
    <3>4. p[i + 1] = SubSeq(s, e(i) + 1, e(i + 1))
      BY <1>2, <3>1, <3>3
    <3>5. g[i + 1] = g[i] \o p[i + 1]
      BY <1>5, <3>1
    <3>6. e(i) \in 1..Len(s) /\ e(i + 1) \in e(i)..Len(s)
      BY <1>1, <1>3, <3>1, <3>3
    <3>7. SubSeq(s, 1, e(i)) \o SubSeq(s, e(i) + 1, e(i + 1)) = SubSeq(s, 1, e(i + 1))
      BY <3>6, SubSeqsJoin
    <3>. QED
      BY <3>1, <3>2, <3>4, <3>5, <3>7
  <2>. QED
    BY <2>1, <2>2
<1>7. \A i \in 0..m : i \in Good
  <2>. HIDE DEF Good
  <2>1. 0 \in Good
    BY DEF Good
  <2>2. \A i \in 0..(m - 1) : i \in Good => i + 1 \in Good
    BY <1>6
  <2>. QED
    BY <2>1, <2>2, <1>1, UpTo
<1>8. g[m] = SubSeq(s, 1, Len(s))
  BY <1>1, <1>4, <1>7
<1>9. SubSeq(s, 1, Len(s)) = s
  OBVIOUS
<1>. QED
  BY <1>5, <1>8, <1>9 DEF p

(* What is put together begins as its first piece does.                    *)
LEMMA FlattenBegins ==
  ASSUME NEW S, NEW p \in Seq(Seq(S)), Len(p) >= 1, p[1] # <<>>
  PROVE  FlattenSeq(p) \in Seq(S) /\ Len(FlattenSeq(p)) >= 1 /\ FlattenSeq(p)[1] = p[1][1]
<1>. DEFINE n == Len(p)
<1>1. n \in Nat /\ n >= 1 /\ \A k \in 1..n : p[k] \in Seq(S)
  OBVIOUS
<1>2. PICK g \in [1..n -> Seq(S)] :
         FlattenSeq(p) = g[n] /\ g[1] = p[1] /\ \A i \in 2..n : g[i] = g[i - 1] \o p[i]
  BY Flattens
<1>. HIDE DEF n
<1>3. p[1] \in Seq(S) /\ Len(p[1]) >= 1
  BY <1>1
<1>. DEFINE Good == {0} \cup {i \in 1..n : Len(g[i]) >= 1 /\ g[i][1] = p[1][1]}
<1>4. ASSUME NEW i \in 0..(n - 1), i \in Good PROVE i + 1 \in Good
  <2>1. CASE i = 0
    BY <2>1, <1>1, <1>2, <1>3
  <2>2. CASE i # 0
    <3>0. i \in 1..n /\ i + 1 \in 2..n /\ (i + 1) - 1 = i /\ i + 1 \in 1..n
      BY <1>1, <2>2
    <3>1. p[i + 1] \in Seq(S) /\ g[i] \in Seq(S)
      BY <1>1, <3>0
    <3>2. g[i + 1] = g[i] \o p[i + 1]
      BY <1>2, <3>0
    <3>3. Len(g[i]) >= 1 /\ g[i][1] = p[1][1]
      BY <1>4, <2>2
    <3>4. Len(g[i + 1]) >= 1 /\ g[i + 1][1] = g[i][1]
      <4>1. \A u, v \in Seq(S) : Len(u) >= 1 => Len(u \o v) >= 1 /\ (u \o v)[1] = u[1]
        OBVIOUS
      <4>. QED
        BY <3>1, <3>2, <3>3, <4>1
    <3>. QED
      BY <3>0, <3>3, <3>4
  <2>. QED
    BY <2>1, <2>2
<1>5. \A i \in 0..n : i \in Good
  <2>. HIDE DEF Good
  <2>1. 0 \in Good
    BY DEF Good
  <2>2. \A i \in 0..(n - 1) : i \in Good => i + 1 \in Good
    BY <1>4
  <2>. QED
    BY <2>1, <2>2, <1>1, UpTo
<1>. QED
  BY <1>1, <1>2, <1>5

-----------------------------------------------------------------------------
(* The index.                                                              *)

LEMMA StreamIs ==
  ASSUME NEW ix, IndexSound(ix)
  PROVE  LET s == IndexStream(ix)
             n == Len(ix.last)
         IN  /\ n \in Nat /\ s \in Seq(Nat) /\ Len(s) = 2 + 2 * n
             /\ s[1] = n /\ s[2] = ix.rpb
             /\ \A k \in 1..n : s[2 + k] = ix.last[k] /\ s[2 + n + k] = ix.number[k]
<1>. DEFINE n == Len(ix.last)
<1>1. ix.last \in Seq(Nat) /\ ix.number \in Seq(Nat) /\ Len(ix.number) = n /\ n \in Nat /\ ix.rpb \in Nat
  BY DEF IndexSound
<1>2. <<n, ix.rpb>> \in Seq(Nat) /\ Len(<<n, ix.rpb>>) = 2 /\ <<n, ix.rpb>>[1] = n /\ <<n, ix.rpb>>[2] = ix.rpb
  BY <1>1
<1>. DEFINE h == <<n, ix.rpb>>
<1>. HIDE DEF h, n
<1>3. h \in Seq(Nat) /\ Len(h) = 2 /\ h[1] = n /\ h[2] = ix.rpb
  BY <1>2 DEF h
<1>4. IndexStream(ix) = h \o ix.last \o ix.number
  BY DEF IndexStream, h, n
<1>. DEFINE a == h \o ix.last
<1>5. a \in Seq(Nat) /\ Len(a) = 2 + n /\ a[1] = n /\ a[2] = ix.rpb /\ \A k \in 1..n : a[2 + k] = ix.last[k]
  <2>0. /\ a \in Seq(Nat) /\ Len(a) = Len(h) + Len(ix.last)
        /\ \A k \in 1..Len(h) : a[k] = h[k]
        /\ \A k \in 1..Len(ix.last) : a[Len(h) + k] = ix.last[k]
    <3>1. h \in Seq(Nat) /\ ix.last \in Seq(Nat)
      BY <1>1, <1>3
    <3>. QED
      BY <3>1, Joined
  <2>. HIDE DEF a
  <2>1. /\ a \in Seq(Nat) /\ Len(a) = 2 + Len(ix.last)
        /\ \A k \in 1..2 : a[k] = h[k]
        /\ \A j \in 1..Len(ix.last) : a[2 + j] = ix.last[j]
    BY <1>3, <2>0
  <2>2. a[1] = h[1] /\ a[2] = h[2]
    BY <2>1
  <2>. QED
    BY <1>3, <2>1, <2>2 DEF n
<1>. HIDE DEF a
<1>6. IndexStream(ix) = a \o ix.number
  BY <1>4 DEF a
<1>7. /\ a \o ix.number \in Seq(Nat) /\ Len(a \o ix.number) = (2 + n) + n
      /\ \A k \in 1..(2 + n) : (a \o ix.number)[k] = a[k]
      /\ \A k \in 1..n : (a \o ix.number)[(2 + n) + k] = ix.number[k]
  <2>1. /\ a \o ix.number \in Seq(Nat) /\ Len(a \o ix.number) = Len(a) + Len(ix.number)
        /\ \A k \in 1..Len(a) : (a \o ix.number)[k] = a[k]
        /\ \A k \in 1..Len(ix.number) : (a \o ix.number)[Len(a) + k] = ix.number[k]
    <3>1. a \in Seq(Nat) /\ ix.number \in Seq(Nat)
      BY <1>1, <1>5
    <3>. QED
      BY <3>1
  <2>. QED
    BY <1>1, <1>5, <2>1
<1>8. 1 \in 1..(2 + n) /\ 2 \in 1..(2 + n) /\ \A k \in 1..n : 2 + k \in 1..(2 + n)
  BY <1>1
<1>9. (2 + n) + n = 2 + 2 * n
  BY <1>1
<1>. QED
  BY <1>1, <1>5, <1>6, <1>7, <1>8, <1>9 DEF n

(* An index parses back from the stream it is written as.                  *)
LEMMA IndexParses ==
  ASSUME NEW ix, IndexSound(ix)
  PROVE  ParseIndex(IndexStream(ix)) = Found(ix)
<1>. DEFINE s == IndexStream(ix)
            n == Len(ix.last)
<1>1. /\ n \in Nat /\ s \in Seq(Nat) /\ Len(s) = 2 + 2 * n /\ s[1] = n /\ s[2] = ix.rpb
      /\ \A k \in 1..n : s[2 + k] = ix.last[k] /\ s[2 + n + k] = ix.number[k]
  BY StreamIs
<1>2. ix.last \in Seq(Nat) /\ ix.number \in Seq(Nat) /\ Len(ix.number) = Len(ix.last) /\ ix = Index(ix.rpb, ix.last, ix.number)
  BY DEF IndexSound
<1>. HIDE DEF s
<1>. HIDE DEF n
<1>3. SubSeq(s, 3, 2 + n) = ix.last
  <2>0. 2 \in 0..Len(s) /\ 2 + n \in 2..Len(s) /\ (2 + n) - 2 = n /\ 2 + 1 = 3
    BY <1>1
  <2>1. SubSeq(s, 3, 2 + n) \in Seq(Nat) /\ Len(SubSeq(s, 3, 2 + n)) = n /\ \A k \in 1..n : SubSeq(s, 3, 2 + n)[k] = s[2 + k]
    <3>1. s \in Seq(Nat)
      BY <1>1
    <3>2. /\ SubSeq(s, 2 + 1, 2 + n) \in Seq(Nat) /\ Len(SubSeq(s, 2 + 1, 2 + n)) = (2 + n) - 2
          /\ \A k \in 1..((2 + n) - 2) : SubSeq(s, 2 + 1, 2 + n)[k] = s[2 + k]
      BY <2>0, <3>1, Taking
    <3>. QED
      BY <2>0, <3>2
  <2>2. Len(ix.last) = n /\ \A k \in 1..n : SubSeq(s, 3, 2 + n)[k] = ix.last[k]
    BY <1>1, <2>1 DEF n
  <2>. QED
    BY <1>2, <2>1, <2>2, SameSequence
<1>4. SubSeq(s, 3 + n, 2 + 2 * n) = ix.number
  <2>0. 2 + n \in 0..Len(s) /\ 2 + 2 * n \in (2 + n)..Len(s) /\ (2 + 2 * n) - (2 + n) = n /\ (2 + n) + 1 = 3 + n
    BY <1>1
  <2>1. /\ SubSeq(s, 3 + n, 2 + 2 * n) \in Seq(Nat) /\ Len(SubSeq(s, 3 + n, 2 + 2 * n)) = n
        /\ \A k \in 1..n : SubSeq(s, 3 + n, 2 + 2 * n)[k] = s[2 + n + k]
    <3>1. s \in Seq(Nat)
      BY <1>1
    <3>. DEFINE x == 2 + n
                y == 2 + 2 * n
    <3>2. x \in 0..Len(s) /\ y \in x..Len(s) /\ y - x = n /\ x + 1 = 3 + n
      BY <2>0
    <3>. HIDE DEF x, y
    <3>3. /\ SubSeq(s, x + 1, y) \in Seq(Nat) /\ Len(SubSeq(s, x + 1, y)) = y - x
          /\ \A k \in 1..(y - x) : SubSeq(s, x + 1, y)[k] = s[x + k]
      BY <3>1, <3>2, Taking
    <3>4. /\ SubSeq(s, 3 + n, y) \in Seq(Nat) /\ Len(SubSeq(s, 3 + n, y)) = n
          /\ \A k \in 1..n : SubSeq(s, 3 + n, y)[k] = s[x + k]
      BY <3>2, <3>3
    <3>. QED
      BY <3>4 DEF x, y
  <2>2. Len(ix.number) = n /\ \A k \in 1..n : SubSeq(s, 3 + n, 2 + 2 * n)[k] = ix.number[k]
    BY <1>1, <1>2, <2>1 DEF n
  <2>. QED
    BY <1>2, <2>1, <2>2, SameSequence
<1>5. ParseIndex(s) = Found(Index(s[2], SubSeq(s, 3, 2 + s[1]), SubSeq(s, 3 + s[1], 2 + 2 * s[1])))
  BY <1>1 DEF ParseIndex
<1>. QED
  BY <1>1, <1>2, <1>3, <1>4, <1>5 DEF s, n

(* Following the links gives the chain.                                    *)
LinksOf(f, chain) ==
  /\ chain \in Seq(Nat) /\ Len(chain) >= 1
  /\ f.hdr.nrIdx = Len(chain) /\ f.hdr.first = chain[1]
  /\ \A k \in DOMAIN chain :
       chain[k] \in DOMAIN f.bucket /\ (k < Len(chain) => f.bucket[chain[k]][2] = chain[k + 1])

LEMMA ChainFollows ==
  ASSUME NEW f, NEW chain, LinksOf(f, chain)
  PROVE  IndexChain(f) = chain
<1>. DEFINE n == Len(chain)
            Link(b) == IF b \in DOMAIN f.bucket THEN f.bucket[b][2] ELSE -1
            at == CHOOSE a : a = [k \in 1..n |-> IF k = 1 THEN f.hdr.first ELSE Link(a[k - 1])]
            used == {k \in DOMAIN at : \A j \in 1..k : at[j] >= 0}
<1>0. /\ chain \in Seq(Nat) /\ Len(chain) >= 1
      /\ f.hdr.nrIdx = Len(chain) /\ f.hdr.first = chain[1]
      /\ \A k \in DOMAIN chain :
           chain[k] \in DOMAIN f.bucket /\ (k < Len(chain) => f.bucket[chain[k]][2] = chain[k + 1])
  BY DEF LinksOf
<1>1. n \in Nat /\ n >= 1 /\ DOMAIN chain = 1..n /\ \A k \in 1..n : chain[k] \in Nat
  BY <1>0
<1>2. IndexChain(f) = [k \in 1..Cardinality(used) |-> at[k]]
  BY <1>0 DEF IndexChain
<1>. HIDE DEF n
<1>3. chain = [k \in 1..n |-> IF k = 1 THEN f.hdr.first ELSE Link(chain[k - 1])]
  <2>1. ASSUME NEW k \in 1..n PROVE chain[k] = IF k = 1 THEN f.hdr.first ELSE Link(chain[k - 1])
    <3>1. CASE k = 1
      BY <1>0, <3>1
    <3>2. CASE k # 1
      <4>1. k - 1 \in 1..n /\ k - 1 < n /\ (k - 1) + 1 = k
        BY <1>1, <3>2
      <4>2. chain[k - 1] \in DOMAIN f.bucket /\ f.bucket[chain[k - 1]][2] = chain[k]
        BY <1>0, <1>1, <4>1 DEF n
      <4>. QED
        BY <3>2, <4>2
    <3>. QED
      BY <3>1, <3>2
  <2>. QED
    BY <1>0, <1>1, <2>1
<1>. HIDE DEF Link
<1>4. at = [k \in 1..n |-> IF k = 1 THEN f.hdr.first ELSE Link(at[k - 1])]
  BY <1>3
<1>. HIDE DEF at
<1>5. \A k \in 1..n : at[k] = chain[k]
  <2>. DEFINE Same == {0} \cup {k \in 1..n : at[k] = chain[k]}
  <2>1. ASSUME NEW k \in 0..(n - 1), k \in Same PROVE k + 1 \in Same
    <3>1. k + 1 \in 1..n /\ (k + 1) - 1 = k
      BY <1>1
    <3>2. at[k + 1] = IF k + 1 = 1 THEN f.hdr.first ELSE Link(at[k])
      BY <1>4, <3>1
    <3>3. chain[k + 1] = IF k + 1 = 1 THEN f.hdr.first ELSE Link(chain[k])
      BY <1>3, <3>1
    <3>4. k + 1 = 1 \/ at[k] = chain[k]
      BY <2>1
    <3>. QED
      BY <3>1, <3>2, <3>3, <3>4
  <2>2. \A k \in 0..n : k \in Same
    <3>. HIDE DEF Same
    <3>1. 0 \in Same
      BY DEF Same
    <3>2. \A k \in 0..(n - 1) : k \in Same => k + 1 \in Same
      BY <2>1
    <3>. QED
      BY <3>1, <3>2, <1>1, UpTo
  <2>. QED
    BY <2>2
<1>6. used = 1..n
  <2>1. DOMAIN at = 1..n
    BY <1>4
  <2>2. \A k \in 1..n : \A j \in 1..k : at[j] >= 0
    BY <1>1, <1>5
  <2>. QED
    BY <2>1, <2>2
<1>7. Cardinality(1..n) = n
  BY <1>1, FS_Interval
<1>8. [k \in 1..n |-> at[k]] = chain
  BY <1>0, <1>1, <1>5
<1>. QED
  BY <1>2, <1>6, <1>7, <1>8

(* A handle finds in the files the index that was written to them, over    *)
(* however many buckets it had to be split: read_index follows the links   *)
(* and parses what it has joined.                                          *)
THEOREM IndexReadsBack ==
  ASSUME NEW f, NEW ix, NEW chain, IdxCap \in Nat \ {0}, IndexSound(ix), ChainSound(f, ix, chain)
  PROVE  IndexChain(f) = chain /\ ReadIndex(f) = Found(ix)
<1>. DEFINE s == IndexStream(ix)
            p == Pieces(s, IdxCap)
            text == FlattenSeq([k \in DOMAIN chain |-> f.bucket[chain[k]][3]])
<1>1. s \in Seq(Nat) /\ Len(s) \in Nat /\ Len(s) >= 2
  BY StreamIs
<1>2. p \in Seq(Seq(Nat)) /\ Len(p) = Count(Len(s), IdxCap)
  BY <1>1, PiecesAre
<1>3. Len(p) >= 1
  BY <1>1, <1>2, CountHolds
<1>4. /\ chain \in Seq(Nat) /\ Len(chain) = Len(p) /\ f.hdr.nrIdx = Len(p)
      /\ f.hdr.first = chain[1] /\ f.hdr.idxLen = Len(s)
      /\ \A k \in DOMAIN chain :
           /\ chain[k] \in DOMAIN f.bucket
           /\ f.bucket[chain[k]][1] = "index" /\ f.bucket[chain[k]][3] = p[k]
           /\ k < Len(chain) => f.bucket[chain[k]][2] = chain[k + 1]
  BY DEF ChainSound
<1>. HIDE DEF s, p
<1>5. IndexChain(f) = chain
  <2>1. LinksOf(f, chain)
    BY <1>3, <1>4 DEF LinksOf
  <2>. QED
    BY <2>1, ChainFollows
<1>6. [k \in DOMAIN chain |-> f.bucket[chain[k]][3]] = p
  BY <1>2, <1>4
<1>7. text = s
  <2>1. text = FlattenSeq(p)
    BY <1>6
  <2>. QED
    BY <1>1, <2>1, PiecesFlatten DEF p
<1>8. Min({Len(s), Len(s)}) = Len(s)
  BY <1>1, MinOfTwo
<1>9. SubSeq(text, 1, Min({Len(text), f.hdr.idxLen})) = s
  <2>1. SubSeq(s, 1, Len(s)) = s
    BY <1>1
  <2>. HIDE DEF text
  <2>. QED
    BY <1>4, <1>7, <1>8, <2>1
<1>10. ReadChain(f, chain) = ParseIndex(s)
  <2>. HIDE DEF text
  <2>1. ~\E k \in DOMAIN chain : chain[k] \notin DOMAIN f.bucket \/ f.bucket[chain[k]][1] # "index"
    BY <1>4
  <2>. QED
    BY <1>9, <2>1 DEF ReadChain, text
<1>. QED
  BY <1>5, <1>10, IndexParses DEF ReadIndex, s

-----------------------------------------------------------------------------
(* The index of a growth.                                                  *)

(* How many rows an index counts.                                          *)
Rows(ix) == IF ix.last = <<>> THEN 0 ELSE Last(ix.last) + 1

(* What the index ix becomes when rows are added to its old ones: the same *)
(* buckets, the last of them with more rows, and fresh ones behind it.     *)
IndexGrows(ix, nix, old, next, fresh) ==
  LET used == Len(ix.last)
  IN  /\ IndexSound(nix) /\ nix.rpb = ix.rpb /\ fresh \in Nat
      /\ Len(nix.last) = used + fresh /\ Len(nix.number) = used + fresh
      /\ \A k \in 1..used : /\ nix.number[k] = ix.number[k]
                            /\ k # used => nix.last[k] = ix.last[k]
      /\ used > 0 => nix.last[used] >= old - 1
      /\ \A j \in 1..fresh : nix.number[used + j] = next + j - 1

LEMMA SamePlace ==
  ASSUME NEW a \in Int, NEW n \in Int, NEW j \in Int, NEW k \in Int, a + (j - n) - 1 = a + (k - n) - 1
  PROVE  j = k
OBVIOUS

Continues(u, w, n, fresh, next) ==
  /\ n \in Nat /\ fresh \in Nat /\ next \in Nat /\ DOMAIN w = 1..(n + fresh)
  /\ \A k \in 1..n : u[k] \in Nat /\ u[k] < next /\ w[k] = u[k]
  /\ \A j, k \in 1..n : u[j] = u[k] => j = k
  /\ \A j \in 1..fresh : w[n + j] = next + j - 1

LEMMA RunsOn ==
  ASSUME NEW u, NEW w, NEW n, NEW fresh, NEW next, Continues(u, w, n, fresh, next)
  PROVE  \A j, k \in DOMAIN w : w[j] = w[k] => j = k
<1>0. /\ n \in Nat /\ fresh \in Nat /\ next \in Nat /\ DOMAIN w = 1..(n + fresh)
      /\ \A k \in 1..n : u[k] \in Nat /\ u[k] < next /\ w[k] = u[k]
      /\ \A j, k \in 1..n : u[j] = u[k] => j = k
      /\ \A j \in 1..fresh : w[n + j] = next + j - 1
  BY DEF Continues
<1>1. ASSUME NEW k \in 1..(n + fresh)
      PROVE  (k <= n /\ w[k] = u[k] /\ w[k] < next) \/ (k > n /\ w[k] = next + (k - n) - 1 /\ w[k] >= next)
  <2>1. CASE k <= n
    BY <1>0, <2>1
  <2>2. CASE k > n
    <3>1. k - n \in 1..fresh /\ n + (k - n) = k
      BY <1>0, <2>2
    <3>2. w[n + (k - n)] = next + (k - n) - 1
      BY <1>0, <3>1
    <3>. QED
      BY <1>0, <2>2, <3>1, <3>2
  <2>. QED
    BY <1>0, <2>1, <2>2
<1>. SUFFICES ASSUME NEW j \in 1..(n + fresh), NEW k \in 1..(n + fresh), w[j] = w[k] PROVE j = k
  BY <1>0
<1>2. CASE j <= n /\ k <= n
  BY <1>0, <1>2
<1>3. CASE j > n /\ k > n
  <2>1. next + (j - n) - 1 = next + (k - n) - 1
    <3>1. w[j] = next + (j - n) - 1 /\ w[k] = next + (k - n) - 1
      BY <1>0, <1>1, <1>3
    <3>. QED
      BY <3>1
  <2>. QED
    BY <1>0, <2>1, SamePlace
<1>4. CASE j <= n /\ k > n
  <2>1. w[j] \in Nat /\ w[j] < next
    BY <1>0, <1>4
  <2>2. w[k] >= next
    BY <1>0, <1>1, <1>4
  <2>. QED
    BY <1>0, <2>1, <2>2
<1>5. CASE j > n /\ k <= n
  <2>1. w[k] \in Nat /\ w[k] < next
    BY <1>0, <1>5
  <2>2. w[j] >= next
    BY <1>0, <1>1, <1>5
  <2>. QED
    BY <1>0, <2>1, <2>2
<1>. QED
  BY <1>0, <1>2, <1>3, <1>4, <1>5

LEMMA PlanGrows ==
  ASSUME NEW ix, IndexSound(ix), NEW next \in Nat, \A k \in DOMAIN ix.number : ix.number[k] < next,
         NEW old \in Nat, NEW new \in Nat, old < new, Rows(ix) = old
  PROVE  LET plan == PlanFrom(next, ix, old, new)
         IN  /\ IndexGrows(ix, plan.index, old, next, plan.fresh)
             /\ plan.next = next
             /\ plan.topUp => /\ Len(ix.last) > 0
                              /\ plan.start \in Nat /\ old - plan.start < ix.rpb
                              /\ plan.end \in Nat /\ plan.end <= plan.start + ix.rpb
                              /\ plan.start = IF Len(ix.last) >= 2 THEN ix.last[Len(ix.last) - 1] + 1 ELSE 0
<1>. DEFINE plan  == PlanFrom(next, ix, old, new)
            used  == Len(ix.last)
            start == IF used >= 2 THEN ix.last[used - 1] + 1 ELSE 0
            end   == Min({start + ix.rpb, new})
            topUp == used > 0 /\ old < end
            from  == IF topUp THEN end ELSE old
            fresh == Count(new - from, ix.rpb)
            base  == IF topUp THEN Append(Front(ix.last), end - 1) ELSE ix.last
            ends  == [j \in 1..fresh |-> Min({from + j * ix.rpb, new}) - 1]
            nums  == [j \in 1..fresh |-> next + j - 1]
<1>1. /\ ix.rpb \in Nat \ {0} /\ ix.last \in Seq(Nat) /\ ix.number \in Seq(Nat)
      /\ used \in Nat /\ Len(ix.last) = used /\ Len(ix.number) = used
      /\ \A j, k \in DOMAIN ix.number : ix.number[j] = ix.number[k] => j = k
  BY DEF IndexSound
<1>2. plan = [start |-> start, end |-> end, topUp |-> topUp, from |-> from, fresh |-> fresh, next |-> next,
              index |-> Index(ix.rpb, base \o ends, ix.number \o nums)]
  BY DEF PlanFrom, Count
<1>3. used > 0 => ix.last[used] = old - 1
  BY <1>1 DEF Rows, Last
<1>4. start \in Nat
  <2>. HIDE DEF used
  <2>1. used >= 2 => used - 1 \in 1..used
    BY <1>1
  <2>2. used >= 2 => ix.last[used - 1] \in Nat
    <3>1. ix.last \in Seq(Nat) /\ Len(ix.last) = used
      BY <1>1
    <3>. QED
      BY <2>1, <3>1
  <2>3. CASE used >= 2
    BY <2>2, <2>3
  <2>4. CASE ~(used >= 2)
    BY <2>4
  <2>. QED
    BY <2>3, <2>4
<1>5. end \in Nat /\ end <= new /\ end <= start + ix.rpb
  <2>. HIDE DEF start
  <2>. DEFINE e == start + ix.rpb
  <2>1. e \in Nat /\ new \in Nat
    BY <1>1, <1>4
  <2>2. end = Min({e, new})
    OBVIOUS
  <2>. HIDE DEF e, end
  <2>3. Min({e, new}) = IF e <= new THEN e ELSE new
    BY <2>1, MinOfTwo
  <2>4. end \in Nat /\ end <= new /\ end <= e
    BY <2>1, <2>2, <2>3
  <2>. QED
    BY <2>4 DEF e
<1>. HIDE DEF start, end, used
<1>6. from \in Nat /\ new - from \in Nat
  BY <1>5
<1>7. fresh \in Nat
  BY <1>1, <1>6, CountHolds
<1>. HIDE DEF fresh
<1>8. base \in Seq(Nat) /\ Len(base) = used /\ (\A k \in 1..used : k # used => base[k] = ix.last[k])
      /\ (used > 0 => base[used] >= old - 1)
  <2>1. CASE topUp
    <3>1. used \in Nat \ {0} /\ end - 1 \in Nat /\ used - 1 \in 0..used
      BY <1>1, <1>5, <2>1
    <3>2. /\ SubSeq(ix.last, 0 + 1, used - 1) \in Seq(Nat) /\ Len(SubSeq(ix.last, 0 + 1, used - 1)) = (used - 1) - 0
          /\ \A k \in 1..((used - 1) - 0) : SubSeq(ix.last, 0 + 1, used - 1)[k] = ix.last[0 + k]
      <4>1. 0 \in 0..used /\ used - 1 \in 0..used
        BY <3>1
      <4>2. ix.last \in Seq(Nat) /\ 0 \in 0..Len(ix.last) /\ used - 1 \in 0..Len(ix.last)
        BY <1>1, <4>1
      <4>. QED
        BY <4>2, Taking
    <3>. DEFINE u == Front(ix.last)
    <3>3. u = SubSeq(ix.last, 0 + 1, used - 1)
      BY <1>1 DEF Front
    <3>. HIDE DEF u
    <3>4. u \in Seq(Nat) /\ Len(u) = used - 1 /\ \A k \in 1..(used - 1) : u[k] = ix.last[k]
      BY <3>1, <3>2, <3>3
    <3>5. base = Append(u, end - 1)
      BY <2>1 DEF u
    <3>. HIDE DEF base
    <3>6. base \in Seq(Nat) /\ Len(base) = used /\ base[used] = end - 1 /\ \A k \in 1..(used - 1) : base[k] = u[k]
      BY <3>1, <3>4, <3>5
    <3>7. end - 1 >= old - 1
      BY <1>5, <2>1
    <3>8. \A k \in 1..used : k # used => k \in 1..(used - 1)
      BY <3>1
    <3>. QED
      BY <3>4, <3>6, <3>7, <3>8
  <2>2. CASE ~topUp
    BY <1>1, <1>3, <2>2
  <2>. QED
    BY <2>1, <2>2
<1>9. ends \in Seq(Nat) /\ Len(ends) = fresh
  <2>1. ASSUME NEW j \in 1..fresh PROVE Min({from + j * ix.rpb, new}) - 1 \in Nat
    <3>1. j * ix.rpb \in Nat /\ j * ix.rpb >= 1
      <4>1. j \in Nat /\ 1 \in Nat /\ 1 <= j /\ ix.rpb \in Nat \ {0}
        BY <1>1, <1>7
      <4>. DEFINE r == ix.rpb
      <4>2. r \in Nat \ {0}
        BY <4>1
      <4>. HIDE DEF r
      <4>3. 1 * r <= j * r /\ j * r \in Nat /\ 1 * r = r
        BY <4>1, <4>2, StepsOf
      <4>4. j * r \in Nat /\ j * r >= 1
        BY <4>2, <4>3
      <4>. QED
        BY <4>4 DEF r
    <3>2. from + j * ix.rpb \in Nat /\ from + j * ix.rpb >= 1
      BY <1>6, <3>1
    <3>. QED
      <4>1. from + j * ix.rpb \in Int /\ new \in Int
        BY <3>2
      <4>. DEFINE e == from + j * ix.rpb
      <4>2. Min({e, new}) = IF e <= new THEN e ELSE new
        BY <4>1, MinOfTwo
      <4>. QED
        BY <3>2, <4>2
  <2>2. ends \in [1..fresh -> Nat]
    <3>. HIDE DEF from
    <3>. QED
      BY <2>1
  <2>. HIDE DEF ends
  <2>. QED
    BY <1>7, <2>2, FunctionIsSequence
<1>10. nums \in Seq(Nat) /\ Len(nums) = fresh /\ \A j \in 1..fresh : nums[j] = next + j - 1
  <2>1. nums \in [1..fresh -> Nat] /\ \A j \in 1..fresh : nums[j] = next + j - 1
    BY <1>7
  <2>. HIDE DEF nums
  <2>. QED
    BY <1>7, <2>1, FunctionIsSequence
<1>. DEFINE last == base \o ends
            number == ix.number \o nums
<1>. HIDE DEF base, ends, nums, from
<1>11. /\ last \in Seq(Nat) /\ Len(last) = used + fresh
       /\ \A k \in 1..used : last[k] = base[k]
  <2>1. /\ base \o ends \in Seq(Nat) /\ Len(base \o ends) = Len(base) + Len(ends)
        /\ \A k \in 1..Len(base) : (base \o ends)[k] = base[k]
    <3>1. base \in Seq(Nat) /\ ends \in Seq(Nat)
      BY <1>8, <1>9
    <3>. QED
      BY <3>1
  <2>. QED
    BY <1>8, <1>9, <2>1
<1>12. /\ number \in Seq(Nat) /\ Len(number) = used + fresh
       /\ \A k \in 1..used : number[k] = ix.number[k]
       /\ \A j \in 1..fresh : number[used + j] = next + j - 1
  <2>1. /\ ix.number \o nums \in Seq(Nat) /\ Len(ix.number \o nums) = Len(ix.number) + Len(nums)
        /\ \A k \in 1..Len(ix.number) : (ix.number \o nums)[k] = ix.number[k]
        /\ \A k \in 1..Len(nums) : (ix.number \o nums)[Len(ix.number) + k] = nums[k]
    <3>1. ix.number \in Seq(Nat) /\ nums \in Seq(Nat)
      BY <1>1, <1>10
    <3>. QED
      BY <3>1
  <2>. QED
    BY <1>1, <1>10, <2>1
<1>. HIDE DEF last, number
<1>13. \A j, k \in DOMAIN number : number[j] = number[k] => j = k
  <2>1. DOMAIN number = 1..(used + fresh)
    BY <1>12
  <2>. DEFINE held == ix.number
  <2>2. \A k \in 1..used : held[k] \in Nat /\ held[k] < next /\ number[k] = held[k]
    <3>. SUFFICES ASSUME NEW k \in 1..used PROVE held[k] \in Nat /\ held[k] < next /\ number[k] = held[k]
      OBVIOUS
    <3>1. ix.number \in Seq(Nat) /\ Len(ix.number) = used
      BY <1>1
    <3>2. k \in DOMAIN ix.number /\ ix.number[k] \in Nat
      BY <3>1
    <3>3. number[k] = ix.number[k]
      BY <1>12
    <3>. QED
      BY <3>2, <3>3
  <2>3. \A j, k \in 1..used : held[j] = held[k] => j = k
    BY <1>1
  <2>4. \A j \in 1..fresh : number[used + j] = next + j - 1
    BY <1>12
  <2>. HIDE DEF held
  <2>. QED
    <3>1. used \in Nat /\ fresh \in Nat /\ next \in Nat
      BY <1>1, <1>7
    <3>2. Continues(held, number, used, fresh, next)
      BY <2>1, <2>2, <2>3, <2>4, <3>1 DEF Continues
    <3>. QED
      BY <3>2, RunsOn
<1>14. IndexGrows(ix, plan.index, old, next, plan.fresh)
  <2>1. plan.index = Index(ix.rpb, last, number) /\ plan.fresh = fresh
    BY <1>2 DEF last, number
  <2>2. Index(ix.rpb, last, number).rpb = ix.rpb /\ Index(ix.rpb, last, number).last = last /\ Index(ix.rpb, last, number).number = number
    BY DEF Index
  <2>3. IndexSound(Index(ix.rpb, last, number))
    <3>1. Len(last) = Len(number)
      BY <1>11, <1>12
    <3>. QED
      BY <1>1, <1>11, <1>12, <1>13, <2>2, <3>1 DEF IndexSound
  <2>. DEFINE nix == Index(ix.rpb, last, number)
  <2>. HIDE DEF nix, plan
  <2>4. \A k \in 1..used : nix.number[k] = ix.number[k] /\ (k # used => nix.last[k] = ix.last[k])
    BY <1>8, <1>11, <1>12, <2>2 DEF nix
  <2>5. used > 0 => nix.last[used] >= old - 1
    <3>1. used > 0 => used \in 1..used
      BY <1>1
    <3>. QED
      BY <1>8, <1>11, <2>2, <3>1 DEF nix
  <2>6. nix.rpb = ix.rpb /\ fresh \in Nat /\ Len(nix.last) = used + fresh /\ Len(nix.number) = used + fresh
    BY <1>7, <1>11, <1>12, <2>2 DEF nix
  <2>7. \A j \in 1..fresh : nix.number[used + j] = next + j - 1
    BY <1>12, <2>2 DEF nix
  <2>8. IndexSound(nix)
    BY <2>3 DEF nix
  <2>9. IndexGrows(ix, nix, old, next, fresh)
    BY <2>4, <2>5, <2>6, <2>7, <2>8 DEF IndexGrows, used
  <2>. QED
    BY <2>1, <2>9 DEF nix
<1>15. topUp => used > 0 /\ start \in Nat /\ old - start < ix.rpb
  BY <1>1, <1>4, <1>5
<1>16. plan.next = next /\ plan.topUp = topUp /\ plan.start = start /\ plan.end = end
  BY <1>2
<1>17. start = IF used >= 2 THEN ix.last[used - 1] + 1 ELSE 0
  BY DEF start
<1>18. used = Len(ix.last)
  BY <1>1
<1>. HIDE DEF plan, topUp
<1>. QED
  BY <1>5, <1>14, <1>15, <1>16, <1>17, <1>18 DEF plan

(* The first of the ascending rows that is not before a row.              *)
Covers(last, nlast, used, m, row) ==
  /\ used \in Nat \ {0} /\ m \in Nat /\ used <= m /\ row \in Nat
  /\ DOMAIN last = 1..used /\ DOMAIN nlast = 1..m
  /\ \A j \in 1..used : last[j] \in Nat /\ nlast[j] \in Nat /\ (j # used => nlast[j] = last[j])
  /\ last[used] >= row /\ nlast[used] >= row

Hits(last, row) == {j \in DOMAIN last : last[j] >= row}

LEMMA FirstHit ==
  ASSUME NEW last, NEW nlast, NEW used, NEW m, NEW row, Covers(last, nlast, used, m, row)
  PROVE  \E k \in 1..used :
           /\ k = Min(Hits(last, row)) /\ k = Min(Hits(nlast, row))
           /\ Hits(last, row) # {} /\ Hits(nlast, row) # {}
           /\ k # 1 => k - 1 \in 1..used /\ nlast[k - 1] = last[k - 1] /\ last[k - 1] < row
<1>. DEFINE hits  == Hits(last, row)
            nhits == Hits(nlast, row)
<1>0. /\ used \in Nat \ {0} /\ m \in Nat /\ used <= m /\ row \in Nat
      /\ DOMAIN last = 1..used /\ DOMAIN nlast = 1..m
      /\ \A i \in 1..used : last[i] \in Nat /\ nlast[i] \in Nat /\ (i # used => nlast[i] = last[i])
      /\ last[used] >= row /\ nlast[used] >= row
  BY DEF Covers
<1>1. used \in hits /\ used \in nhits /\ hits \subseteq Nat /\ nhits \subseteq Nat
  BY <1>0 DEF Hits
<1>2. \A j \in 1..used : j \in hits <=> j \in nhits
  <2>. TAKE j \in 1..used
  <2>1. j \in DOMAIN last /\ j \in DOMAIN nlast
    BY <1>0 DEF Hits
  <2>2. CASE j = used
    BY <1>0, <1>1, <2>2 DEF Hits
  <2>3. CASE j # used
    BY <1>0, <2>1, <2>3 DEF Hits
  <2>. QED
    BY <2>2, <2>3
<1>3. hits \subseteq 1..used /\ \A j \in hits : last[j] >= row
  BY <1>0 DEF Hits
<1>4. \A j \in 1..used : j \notin hits => last[j] < row
  BY <1>0 DEF Hits
<1>. HIDE DEF hits, nhits
<1>5. PICK k \in hits : Min(hits) = k /\ \A j \in hits : k <= j
  BY <1>1, Smallest
<1>6. PICK n \in nhits : Min(nhits) = n /\ \A j \in nhits : n <= j
  BY <1>1, Smallest
<1>7. k \in 1..used
  BY <1>3
<1>8. n = k
  <2>1. k \in nhits /\ n <= k
    BY <1>2, <1>6, <1>7
  <2>2. n \in 1..used
    <3>1. n \in Nat /\ n <= used
      BY <1>0, <1>1, <1>6
    <3>2. n # 0
      BY <1>0 DEF nhits, Hits
    <3>. QED
      BY <1>0, <3>1, <3>2
  <2>3. n \in hits /\ k <= n
    BY <1>2, <1>5, <2>2
  <2>. QED
    BY <1>7, <2>1, <2>2, <2>3
<1>9. k # 1 => k - 1 \in 1..used /\ nlast[k - 1] = last[k - 1] /\ last[k - 1] < row
  <2>. SUFFICES ASSUME k # 1 PROVE k - 1 \in 1..used /\ nlast[k - 1] = last[k - 1] /\ last[k - 1] < row
    OBVIOUS
  <2>1. k - 1 \in 1..used /\ k - 1 # used /\ ~(k <= k - 1)
    BY <1>0, <1>7
  <2>2. k - 1 \notin hits
    BY <1>5, <2>1
  <2>. QED
    BY <1>0, <1>4, <2>1, <2>2
<1>. QED
  BY <1>1, <1>3, <1>5, <1>6, <1>7, <1>8, <1>9 DEF hits, nhits

(* A row that was there is found where it was.                             *)
LEMMA RowsStay ==
  ASSUME NEW ix, NEW nix, NEW old \in Nat, NEW next, NEW fresh,
         IndexSound(ix), Rows(ix) = old, IndexGrows(ix, nix, old, next, fresh), NEW row \in 0..(old - 1)
  PROVE  /\ FindBucket(nix, row) = FindBucket(ix, row)
         /\ LET b == FindBucket(ix, row)
            IN  /\ b.k \in 1..Len(ix.last) /\ b.number = ix.number[b.k] /\ b.number \in Nat
                /\ b.start \in 0..row /\ b.start = IF b.k = 1 THEN 0 ELSE ix.last[b.k - 1] + 1
<1>. DEFINE last == ix.last
            nlast == nix.last
            used == Len(last)
<1>1. last \in Seq(Nat) /\ ix.number \in Seq(Nat) /\ used \in Nat /\ Len(ix.number) = used
  BY DEF IndexSound
<1>2. nlast \in Seq(Nat) /\ fresh \in Nat /\ Len(nlast) = used + fresh
  BY DEF IndexGrows, IndexSound
<1>3. used \in Nat \ {0} /\ last[used] = old - 1
  <2>1. last # <<>>
    BY DEF Rows
  <2>. QED
    <3>1. Last(last) + 1 = old
      BY <2>1 DEF Rows
    <3>2. used # 0
      BY <1>1, <2>1
    <3>3. last[used] \in Nat /\ last[used] + 1 = old
      <4>. HIDE DEF last
      <4>. QED
        BY <1>1, <3>1, <3>2 DEF Last
    <3>. HIDE DEF last
    <3>. QED
      BY <1>1, <3>2, <3>3
<1>4. \A j \in 1..used : nix.number[j] = ix.number[j]
  BY DEF IndexGrows
<1>5. \A j \in 1..used : j # used => nlast[j] = last[j]
  BY DEF IndexGrows
<1>6. nlast[used] >= old - 1
  BY <1>3 DEF IndexGrows
<1>. HIDE DEF last, nlast
<1>7. \A j \in 1..used : last[j] \in Nat /\ nlast[j] \in Nat
  <2>. TAKE j \in 1..used
  <2>1. last[j] \in Nat
    BY <1>1
  <2>2. j \in 1..Len(nlast)
    BY <1>1, <1>2
  <2>3. nlast \in Seq(Nat)
    BY <1>2
  <2>4. nlast[j] \in Nat
    BY <2>2, <2>3
  <2>. QED
    BY <2>1, <2>4
<1>8. DOMAIN last = 1..used /\ DOMAIN nlast = 1..(used + fresh)
  BY <1>1, <1>2
<1>. HIDE DEF used
<1>9. used + fresh \in Nat /\ used <= used + fresh /\ last[used] >= row /\ nlast[used] >= row /\ row \in Nat
  <2>1. used \in 1..used
    BY <1>3
  <2>2. nlast[used] \in Nat
    BY <1>7, <2>1
  <2>. QED
    BY <1>2, <1>3, <1>6, <2>2
<1>10. PICK k \in 1..used :
         /\ k = Min(Hits(last, row)) /\ k = Min(Hits(nlast, row))
         /\ Hits(last, row) # {} /\ Hits(nlast, row) # {}
         /\ k # 1 => k - 1 \in 1..used /\ nlast[k - 1] = last[k - 1] /\ last[k - 1] < row
  <2>. DEFINE m == used + fresh
  <2>1. m \in Nat /\ used <= m /\ DOMAIN nlast = 1..m
    BY <1>8, <1>9
  <2>2. \A j \in 1..used : last[j] \in Nat /\ nlast[j] \in Nat /\ (j # used => nlast[j] = last[j])
    BY <1>5, <1>7
  <2>. HIDE DEF m
  <2>3. Covers(last, nlast, used, m, row)
    BY <1>3, <1>8, <1>9, <2>1, <2>2 DEF Covers
  <2>. QED
    BY <2>3, FirstHit
<1>11. FindBucket(ix, row) = [k |-> k, start |-> IF k = 1 THEN 0 ELSE last[k - 1] + 1, number |-> ix.number[k]]
  <2>1. {j \in DOMAIN ix.last : ix.last[j] >= row} = Hits(ix.last, row)
    BY DEF Hits
  <2>2. {j \in DOMAIN ix.last : ix.last[j] >= row} # {} /\ Min({j \in DOMAIN ix.last : ix.last[j] >= row}) = k
    BY <1>10, <2>1 DEF last
  <2>. QED
    BY <2>2 DEF FindBucket, last
<1>12. FindBucket(nix, row) = [k |-> k, start |-> IF k = 1 THEN 0 ELSE nlast[k - 1] + 1, number |-> nix.number[k]]
  <2>1. {j \in DOMAIN nix.last : nix.last[j] >= row} = Hits(nix.last, row)
    BY DEF Hits
  <2>2. {j \in DOMAIN nix.last : nix.last[j] >= row} # {} /\ Min({j \in DOMAIN nix.last : nix.last[j] >= row}) = k
    BY <1>10, <2>1 DEF nlast
  <2>. QED
    BY <2>2 DEF FindBucket, nlast
<1>13. nix.number[k] = ix.number[k] /\ ix.number[k] \in Nat
  BY <1>1, <1>4, <1>10
<1>14. (IF k = 1 THEN 0 ELSE last[k - 1] + 1) \in 0..row
  <2>1. CASE k = 1
    BY <2>1
  <2>2. CASE k # 1
    <3>1. last[k - 1] \in Nat /\ last[k - 1] < row
      BY <1>7, <1>10, <2>2
    <3>. QED
      BY <2>2, <3>1
  <2>. QED
    BY <2>1, <2>2
<1>15. (IF k = 1 THEN 0 ELSE nlast[k - 1] + 1) = (IF k = 1 THEN 0 ELSE last[k - 1] + 1)
  BY <1>10
<1>16. FindBucket(nix, row) = FindBucket(ix, row)
  BY <1>11, <1>12, <1>13, <1>15
<1>. DEFINE b == FindBucket(ix, row)
<1>17. b.k = k /\ b.number = ix.number[k] /\ b.start = IF k = 1 THEN 0 ELSE last[k - 1] + 1
  BY <1>11
<1>. HIDE DEF b
<1>18. b.k \in 1..used /\ b.number = ix.number[b.k] /\ b.number \in Nat /\ b.start \in 0..row
       /\ b.start = IF b.k = 1 THEN 0 ELSE last[b.k - 1] + 1
  BY <1>10, <1>13, <1>14, <1>17
<1>. QED
  BY <1>16, <1>18 DEF b, used, last

(* Streams that differ in one place are cut into pieces that differ in one.*)
DiffersAt(s, t, q) == \A i \in 1..Len(s) : i # q => s[i] = t[i]
OnePiece(s, t, cap) ==
  \E p \in Nat : \A k \in 1..Count(Len(s), cap) : k # p => Pieces(s, cap)[k] = Pieces(t, cap)[k]

LEMMA OnePieceDiffers ==
  ASSUME NEW s \in Seq(Nat), NEW t \in Seq(Nat), Len(s) = Len(t), NEW q \in 1..Len(s),
         DiffersAt(s, t, q), NEW cap \in Nat \ {0}
  PROVE  OnePiece(s, t, cap)
<1>. DEFINE p == Count(q, cap)
            n == Len(s)
<1>1. p \in Nat \ {0} /\ q <= p * cap /\ (p - 1) * cap < q
  <2>1. q \in Nat /\ q > 0
    OBVIOUS
  <2>2. p \in Nat /\ q <= p * cap /\ (q > 0 => p >= 1 /\ (p - 1) * cap < q)
    BY <2>1, CountHolds
  <2>. HIDE DEF p
  <2>3. p # 0
    BY <2>1, <2>2
  <2>. QED
    BY <2>1, <2>2, <2>3
<1>2. n \in Nat
  OBVIOUS
<1>. HIDE DEF p
<1>3. ASSUME NEW k \in 1..Count(n, cap), k # p
      PROVE  Pieces(s, cap)[k] = Pieces(t, cap)[k]
  <2>. DEFINE a == (k - 1) * cap
              e == PieceEnds(n, cap, k)
              u == SubSeq(s, a + 1, e)
              v == SubSeq(t, a + 1, e)
  <2>1. a \in Nat /\ a < e /\ e \in 1..n /\ e <= k * cap /\ k \in Nat \ {0}
    <3>1. k \in Nat \ {0} /\ k - 1 \in Nat
      BY CountHolds
    <3>2. k * cap = (k - 1) * cap + cap
      <4>1. ((k - 1) + 1) * cap = (k - 1) * cap + cap
        BY <3>1, StepsOf
      <4>2. (k - 1) + 1 = k
        BY <3>1
      <4>. QED
        BY <4>1, <4>2
    <3>3. a \in Nat /\ a < e /\ e \in 1..n /\ e <= a + cap
      BY <1>2, PieceBounds
    <3>. QED
      BY <3>1, <3>2, <3>3
  <2>2. Pieces(s, cap)[k] = u /\ Pieces(t, cap)[k] = v
    <3>1. k \in 1..Count(Len(s), cap) /\ k \in 1..Count(Len(t), cap)
      OBVIOUS
    <3>2. Pieces(s, cap)[k] = SubSeq(s, (k - 1) * cap + 1, PieceEnds(Len(s), cap, k))
      BY <3>1, PiecesAre
    <3>3. Pieces(t, cap)[k] = SubSeq(t, (k - 1) * cap + 1, PieceEnds(Len(t), cap, k))
      BY <3>1, PiecesAre
    <3>. QED
      BY <3>2, <3>3
  <2>3. q <= a \/ q > e
    <3>1. CASE k < p
      <4>1. k \in Nat /\ p - 1 \in Nat /\ k <= p - 1
        BY <1>1, <2>1, <3>1
      <4>2. k * cap \in Nat /\ (p - 1) * cap \in Nat /\ k * cap <= (p - 1) * cap
        BY <4>1, StepsOf
      <4>. DEFINE x == k * cap
                  y == (p - 1) * cap
      <4>3. x \in Nat /\ y \in Nat /\ x <= y /\ y < q /\ e <= x /\ e \in Nat
        BY <1>1, <2>1, <4>2
      <4>. HIDE DEF x, y, e
      <4>. QED
        BY <4>3
    <3>2. CASE k > p
      <4>1. k - 1 \in Nat /\ p \in Nat /\ p <= k - 1
        BY <1>1, <2>1, <3>2
      <4>2. p * cap \in Nat /\ p * cap <= (k - 1) * cap
        BY <4>1, StepsOf
      <4>. DEFINE x == p * cap
      <4>3. x \in Nat /\ q <= x /\ x <= a /\ a \in Nat
        BY <1>1, <2>1, <4>2
      <4>. HIDE DEF x, a
      <4>. QED
        BY <4>3
    <3>. QED
      BY <1>1, <1>3, <2>1, <3>1, <3>2
  <2>. HIDE DEF a, e
  <2>4. a \in 0..n /\ e \in a..n
    BY <2>1
  <2>5. u \in Seq(Nat) /\ Len(u) = e - a /\ \A i \in 1..(e - a) : u[i] = s[a + i]
    BY <2>4, Taking
  <2>6. v \in Seq(Nat) /\ Len(v) = e - a /\ \A i \in 1..(e - a) : v[i] = t[a + i]
    <3>1. a \in 0..Len(t) /\ e \in a..Len(t)
      BY <2>4
    <3>. QED
      BY <3>1, Taking
  <2>7. \A i \in 1..(e - a) : s[a + i] = t[a + i]
    <3>. TAKE i \in 1..(e - a)
    <3>1. a + i \in 1..n /\ a + i # q
      BY <2>1, <2>3
    <3>. QED
      BY <3>1 DEF DiffersAt
  <2>. HIDE DEF u, v
  <2>8. \A i \in 1..Len(u) : u[i] = v[i]
    BY <2>5, <2>6, <2>7
  <2>9. u = v
    BY <2>5, <2>6, <2>8, SameSequence
  <2>. QED
    BY <2>2, <2>9
<1>. QED
  BY <1>1, <1>3 DEF n, OnePiece

-----------------------------------------------------------------------------
(* The index while it is written over its chain.                           *)

(* A growth g: the files f0 it began with, their index ix along its chain, *)
(* and the index nix it writes along nchain, with so many fresh buckets.   *)
NewPieces(g) == Pieces(IndexStream(g.nix), IdxCap)

NewBucket(g, k) == IndexBucket(IF k < Len(g.nchain) THEN g.nchain[k + 1] ELSE -1, NewPieces(g)[k])

NewEnd(g) == g.f0.hdr.nr + g.fresh + Len(g.nchain) - Len(g.chain)

NewHeader(g) == [g.f0.hdr EXCEPT !.nr = NewEnd(g), !.nrIdx = Len(g.nchain), !.first = g.nchain[1],
                                 !.idxLen = Len(IndexStream(g.nix))]

GrowthOf(g) ==
  /\ SsmSound(g.f0, g.ix, g.chain)
  /\ g.old \in Nat /\ Rows(g.ix) = g.old
  /\ IndexGrows(g.ix, g.nix, g.old, g.f0.hdr.nr, g.fresh)
  /\ g.nchain \in Seq(Nat) /\ Len(g.nchain) = Len(NewPieces(g)) /\ Len(g.chain) <= Len(g.nchain)
  /\ \A k \in 1..Len(g.nchain) :
       g.nchain[k] = IF k <= Len(g.chain) THEN g.chain[k]
                     ELSE g.f0.hdr.nr + g.fresh + k - Len(g.chain) - 1

(* The first t pieces are written, and last the header.                    *)
ChainAt(g, t, f) ==
  /\ f.hdr = g.f0.hdr
  /\ \A k \in 1..Len(g.chain) : k > t =>
       g.chain[k] \in DOMAIN f.bucket /\ f.bucket[g.chain[k]] = g.f0.bucket[g.chain[k]]
  /\ \A k \in 1..t : g.nchain[k] \in DOMAIN f.bucket /\ f.bucket[g.nchain[k]] = NewBucket(g, k)

ChainDone(g, f) ==
  /\ f.hdr = NewHeader(g)
  /\ \A k \in 1..Len(g.nchain) : g.nchain[k] \in DOMAIN f.bucket /\ f.bucket[g.nchain[k]] = NewBucket(g, k)

LEMMA ChainUntouched ==
  ASSUME NEW g, GrowthOf(g), NEW f, ChainAt(g, 0, f)
  PROVE  ChainSound(f, g.ix, g.chain)
<1>. DEFINE f0 == g.f0
            chain == g.chain
<1>1. ChainSound(f0, g.ix, chain)
  BY DEF GrowthOf, SsmSound
<1>2. f.hdr = f0.hdr
  BY DEF ChainAt
<1>3. \A k \in 1..Len(chain) : chain[k] \in DOMAIN f.bucket /\ f.bucket[chain[k]] = f0.bucket[chain[k]]
  BY DEF ChainAt
<1>. HIDE DEF f0, chain
<1>4. chain \in Seq(Nat) /\ DOMAIN chain = 1..Len(chain)
  BY <1>1 DEF ChainSound
<1>. DEFINE pieces == Pieces(IndexStream(g.ix), IdxCap)
<1>5. /\ Len(chain) = Len(pieces)
      /\ f0.hdr.nrIdx = Len(pieces) /\ f0.hdr.first = chain[1] /\ f0.hdr.idxLen = Len(IndexStream(g.ix))
      /\ \A k \in 1..Len(chain) :
           /\ f0.bucket[chain[k]][1] = "index" /\ f0.bucket[chain[k]][3] = pieces[k]
           /\ k < Len(chain) => f0.bucket[chain[k]][2] = chain[k + 1]
  BY <1>1, <1>4 DEF ChainSound
<1>. HIDE DEF pieces
<1>6. \A k \in 1..Len(chain) :
        /\ chain[k] \in DOMAIN f.bucket
        /\ f.bucket[chain[k]][1] = "index" /\ f.bucket[chain[k]][3] = pieces[k]
        /\ k < Len(chain) => f.bucket[chain[k]][2] = chain[k + 1]
  BY <1>3, <1>5
<1>7. ChainSound(f, g.ix, chain)
  BY <1>2, <1>4, <1>5, <1>6 DEF ChainSound, pieces
<1>. QED
  BY <1>7 DEF chain

LEMMA ChainWritten ==
  ASSUME NEW g, GrowthOf(g), NEW f, ChainDone(g, f)
  PROVE  ChainSound(f, g.nix, g.nchain)
<1>. DEFINE c == g.nchain
            h == NewHeader(g)
<1>1. c \in Seq(Nat) /\ DOMAIN c = 1..Len(c) /\ Len(c) = Len(NewPieces(g))
  BY DEF GrowthOf
<1>2. h.nrIdx = Len(c) /\ h.first = c[1] /\ h.idxLen = Len(IndexStream(g.nix))
  <2>1. {"nrIdx", "first", "idxLen"} \subseteq DOMAIN g.f0.hdr
    BY DEF GrowthOf, SsmSound
  <2>. QED
    BY <2>1 DEF NewHeader
<1>3. f.hdr = h
  BY DEF ChainDone
<1>4. \A k \in 1..Len(c) : c[k] \in DOMAIN f.bucket /\ f.bucket[c[k]] = NewBucket(g, k)
  BY DEF ChainDone
<1>5. \A k \in 1..Len(c) : /\ NewBucket(g, k)[1] = "index" /\ NewBucket(g, k)[3] = NewPieces(g)[k]
                           /\ k < Len(c) => NewBucket(g, k)[2] = c[k + 1]
  BY DEF NewBucket, IndexBucket
<1>. HIDE DEF c, h
<1>6. \A k \in 1..Len(c) :
        /\ c[k] \in DOMAIN f.bucket
        /\ f.bucket[c[k]][1] = "index" /\ f.bucket[c[k]][3] = NewPieces(g)[k]
        /\ k < Len(c) => f.bucket[c[k]][2] = c[k + 1]
  BY <1>4, <1>5
<1>7. ChainSound(f, g.nix, c)
  BY <1>1, <1>2, <1>3, <1>6 DEF ChainSound, NewPieces
<1>. QED
  BY <1>7 DEF c

(* Where there is no fresh bucket the index keeps its length, and one of   *)
(* its pieces alone changes.                                               *)
LEMMA SameLengthOnePiece ==
  ASSUME NEW g, GrowthOf(g), g.fresh = 0, IdxCap \in Nat \ {0}
  PROVE  /\ Len(IndexStream(g.nix)) = Len(IndexStream(g.ix))
         /\ Len(g.nchain) = Len(g.chain)
         /\ \A k \in 1..Len(g.chain) : g.nchain[k] = g.chain[k]
         /\ \E p \in Nat : \A k \in 1..Len(g.chain) : k # p => Pieces(IndexStream(g.ix), IdxCap)[k] = NewPieces(g)[k]
<1>. DEFINE s == IndexStream(g.ix)
            t == IndexStream(g.nix)
            n == Len(g.ix.last)
<1>1. IndexSound(g.ix) /\ IndexSound(g.nix) /\ ChainSound(g.f0, g.ix, g.chain)
  BY DEF GrowthOf, SsmSound, IndexGrows
<1>2. /\ Len(g.nix.last) = n /\ g.nix.rpb = g.ix.rpb
      /\ \A k \in 1..n : g.nix.number[k] = g.ix.number[k] /\ (k # n => g.nix.last[k] = g.ix.last[k])
  <2>1. /\ Len(g.nix.last) = n + g.fresh /\ g.nix.rpb = g.ix.rpb
        /\ \A k \in 1..n : g.nix.number[k] = g.ix.number[k] /\ (k # n => g.nix.last[k] = g.ix.last[k])
    BY DEF GrowthOf, IndexGrows
  <2>2. n \in Nat
    BY <1>1, StreamIs
  <2>. QED
    BY <2>1, <2>2
<1>3. /\ n \in Nat /\ s \in Seq(Nat) /\ Len(s) = 2 + 2 * n /\ s[1] = n /\ s[2] = g.ix.rpb
      /\ \A k \in 1..n : s[2 + k] = g.ix.last[k] /\ s[2 + n + k] = g.ix.number[k]
  BY <1>1, StreamIs
<1>4. /\ t \in Seq(Nat) /\ Len(t) = 2 + 2 * n /\ t[1] = n /\ t[2] = g.ix.rpb
      /\ \A k \in 1..n : t[2 + k] = g.nix.last[k] /\ t[2 + n + k] = g.nix.number[k]
  <2>. DEFINE m == Len(g.nix.last)
  <2>1. /\ m \in Nat /\ t \in Seq(Nat) /\ Len(t) = 2 + 2 * m /\ t[1] = m /\ t[2] = g.nix.rpb
        /\ \A k \in 1..m : t[2 + k] = g.nix.last[k] /\ t[2 + m + k] = g.nix.number[k]
    BY <1>1, StreamIs
  <2>2. m = n /\ g.nix.rpb = g.ix.rpb
    BY <1>2
  <2>. HIDE DEF m, n, t
  <2>. QED
    BY <2>1, <2>2
<1>. HIDE DEF s, t, n
<1>5. ASSUME NEW i \in 1..Len(s), i # 2 + n PROVE s[i] = t[i]
  <2>1. CASE i <= 2
    <3>1. i = 1 \/ i = 2
      BY <1>3, <2>1
    <3>. QED
      BY <1>3, <1>4, <3>1
  <2>2. CASE i > 2 /\ i < 2 + n
    <3>1. i - 2 \in 1..n /\ i - 2 # n /\ 2 + (i - 2) = i
      BY <1>3, <2>2
    <3>2. s[2 + (i - 2)] = g.ix.last[i - 2] /\ t[2 + (i - 2)] = g.nix.last[i - 2]
      BY <1>3, <1>4, <3>1
    <3>3. g.nix.last[i - 2] = g.ix.last[i - 2]
      BY <1>2, <3>1
    <3>. QED
      BY <3>1, <3>2, <3>3
  <2>3. CASE i > 2 + n
    <3>1. i - (2 + n) \in 1..n /\ 2 + n + (i - (2 + n)) = i
      BY <1>3, <2>3
    <3>2. s[2 + n + (i - (2 + n))] = g.ix.number[i - (2 + n)] /\ t[2 + n + (i - (2 + n))] = g.nix.number[i - (2 + n)]
      BY <1>3, <1>4, <3>1
    <3>3. g.nix.number[i - (2 + n)] = g.ix.number[i - (2 + n)]
      BY <1>2, <3>1
    <3>. QED
      BY <3>1, <3>2, <3>3
  <2>. QED
    BY <1>3, <1>5, <2>1, <2>2, <2>3
<1>6. 2 + n \in 1..Len(s) /\ Len(s) = Len(t)
  BY <1>3, <1>4
<1>7. \E p \in Nat : \A k \in 1..Count(Len(s), IdxCap) : k # p => Pieces(s, IdxCap)[k] = Pieces(t, IdxCap)[k]
  <2>1. DiffersAt(s, t, 2 + n)
    BY <1>5 DEF DiffersAt
  <2>2. s \in Seq(Nat) /\ t \in Seq(Nat)
    BY <1>3, <1>4
  <2>3. OnePiece(s, t, IdxCap)
    BY <1>6, <2>1, <2>2, OnePieceDiffers
  <2>. QED
    BY <2>3 DEF OnePiece
<1>8. Len(Pieces(s, IdxCap)) = Count(Len(s), IdxCap) /\ Len(Pieces(t, IdxCap)) = Count(Len(t), IdxCap)
  <2>1. s \in Seq(Nat) /\ t \in Seq(Nat)
    BY <1>3, <1>4
  <2>. QED
    BY <2>1, PiecesAre
<1>9. Len(g.chain) = Count(Len(s), IdxCap) /\ Len(g.nchain) = Count(Len(s), IdxCap)
  <2>1. Len(g.chain) = Len(Pieces(s, IdxCap))
    BY <1>1 DEF ChainSound, s
  <2>2. Len(g.nchain) = Len(Pieces(t, IdxCap))
    BY DEF GrowthOf, NewPieces, t
  <2>. QED
    BY <1>6, <1>8, <2>1, <2>2
<1>10. \A k \in 1..Len(g.chain) : g.nchain[k] = g.chain[k]
  <2>1. \A k \in 1..Len(g.nchain) : k <= Len(g.chain) => g.nchain[k] = g.chain[k]
    BY DEF GrowthOf
  <2>. QED
    BY <1>9, <2>1
<1>. QED
  BY <1>6, <1>7, <1>9, <1>10 DEF s, t, NewPieces

(* The old index or the new one, then.                                     *)
LEMMA OneOrTheOther ==
  ASSUME NEW g, GrowthOf(g), g.fresh = 0, IdxCap \in Nat \ {0},
         NEW t \in 0..Len(g.nchain), NEW f, ChainAt(g, t, f)
  PROVE  ChainSound(f, g.ix, g.chain) \/ ChainSound(f, g.nix, g.nchain)
<1>. DEFINE c == g.chain
            old == Pieces(IndexStream(g.ix), IdxCap)
            new == NewPieces(g)
            h == g.f0.hdr
<1>1. /\ Len(IndexStream(g.nix)) = Len(IndexStream(g.ix)) /\ Len(g.nchain) = Len(c)
      /\ \A k \in 1..Len(c) : g.nchain[k] = c[k]
  BY SameLengthOnePiece
<1>2. PICK p \in Nat : \A k \in 1..Len(c) : k # p => old[k] = new[k]
  BY SameLengthOnePiece
<1>3. ChainSound(g.f0, g.ix, c)
  BY DEF GrowthOf, SsmSound
<1>4. g.nchain \in Seq(Nat) /\ Len(g.nchain) = Len(new)
  BY DEF GrowthOf
<1>. DEFINE d == g.nchain
<1>5. c \in Seq(Nat) /\ DOMAIN c = 1..Len(c) /\ DOMAIN d = 1..Len(c) /\ Len(d) = Len(c) /\ Len(c) \in Nat
  BY <1>1, <1>3, <1>4 DEF ChainSound
<1>6. /\ Len(c) = Len(old) /\ Len(c) = Len(new)
      /\ h.nrIdx = Len(c) /\ h.first = c[1] /\ h.idxLen = Len(IndexStream(g.ix))
      /\ \A k \in 1..Len(c) :
           /\ g.f0.bucket[c[k]][1] = "index" /\ g.f0.bucket[c[k]][3] = old[k]
           /\ k < Len(c) => g.f0.bucket[c[k]][2] = c[k + 1]
  BY <1>1, <1>3, <1>4, <1>5 DEF ChainSound
<1>7. /\ f.hdr = h
      /\ \A k \in 1..Len(c) : k > t => c[k] \in DOMAIN f.bucket /\ f.bucket[c[k]] = g.f0.bucket[c[k]]
      /\ \A k \in 1..t : d[k] \in DOMAIN f.bucket /\ f.bucket[d[k]] = NewBucket(g, k)
  BY DEF ChainAt
<1>8. \A k \in 1..Len(c) : /\ NewBucket(g, k)[1] = "index" /\ NewBucket(g, k)[3] = new[k]
                           /\ k < Len(d) => NewBucket(g, k)[2] = d[k + 1]
  BY DEF NewBucket, IndexBucket
<1>. HIDE DEF c, d, old, new, h
<1>9. ASSUME NEW k \in 1..Len(c)
      PROVE  /\ c[k] \in DOMAIN f.bucket /\ f.bucket[c[k]][1] = "index"
             /\ f.bucket[c[k]][3] = IF k <= t THEN new[k] ELSE old[k]
             /\ k < Len(c) => f.bucket[c[k]][2] = c[k + 1]
  <2>0. t \in Nat /\ k \in Nat
    BY <1>5
  <2>1. CASE k > t
    <3>1. c[k] \in DOMAIN f.bucket /\ f.bucket[c[k]] = g.f0.bucket[c[k]]
      BY <1>7, <2>1
    <3>2. ~(k <= t)
      BY <2>0, <2>1
    <3>. QED
      BY <1>6, <3>1, <3>2
  <2>2. CASE k <= t
    <3>1. k \in 1..t
      BY <2>0, <2>2
    <3>2. c[k] = d[k] /\ c[k] \in DOMAIN f.bucket /\ f.bucket[c[k]] = NewBucket(g, k)
      <4>1. c[k] = d[k]
        BY <1>1 DEF d
      <4>. QED
        BY <1>7, <3>1, <4>1
    <3>3. k < Len(c) => NewBucket(g, k)[2] = c[k + 1]
      <4>1. k < Len(c) => k < Len(d) /\ k + 1 \in 1..Len(c)
        BY <1>5
      <4>2. \A i \in 1..Len(c) : d[i] = c[i]
        BY <1>1 DEF d
      <4>. QED
        BY <1>8, <4>1, <4>2
    <3>. QED
      BY <1>8, <2>2, <3>2, <3>3
  <2>. QED
    BY <2>0, <2>1, <2>2
<1>10. CASE p <= t
  <2>1. \A k \in 1..Len(c) : f.bucket[c[k]][3] = new[k]
    <3>. TAKE k \in 1..Len(c)
    <3>1. CASE k <= t
      BY <1>9, <3>1
    <3>2. CASE ~(k <= t)
      <4>1. k # p
        BY <1>10, <3>2
      <4>. QED
        BY <1>2, <1>9, <3>2, <4>1
    <3>. QED
      BY <3>1, <3>2
  <2>2. \A k \in 1..Len(c) :
          /\ d[k] \in DOMAIN f.bucket /\ f.bucket[d[k]][1] = "index" /\ f.bucket[d[k]][3] = new[k]
          /\ k < Len(d) => f.bucket[d[k]][2] = d[k + 1]
    <3>. TAKE k \in 1..Len(c)
    <3>1. \A i \in 1..Len(c) : d[i] = c[i]
      BY <1>1 DEF d
    <3>2. d[k] = c[k] /\ (k < Len(c) => k + 1 \in 1..Len(c) /\ d[k + 1] = c[k + 1])
      <4>1. k < Len(c) => k + 1 \in 1..Len(c)
        BY <1>5
      <4>. QED
        BY <3>1, <4>1
    <3>3. k < Len(d) => k < Len(c)
      BY <1>5
    <3>. QED
      BY <1>9, <2>1, <3>2, <3>3
  <2>3. /\ d \in Seq(Nat) /\ Len(d) = Len(new) /\ h.nrIdx = Len(new) /\ h.first = d[1]
        /\ h.idxLen = Len(IndexStream(g.nix))
    <3>1. d \in Seq(Nat) /\ Len(d) = Len(new) /\ h.nrIdx = Len(new)
      BY <1>4, <1>5, <1>6 DEF d
    <3>2. Len(c) >= 1 => d[1] = c[1]
      <4>1. Len(c) >= 1 => 1 \in 1..Len(c)
        BY <1>5
      <4>. QED
        BY <1>1, <4>1 DEF d
    <3>3. Len(c) >= 1
      <4>1. Len(c) = Count(Len(IndexStream(g.ix)), IdxCap) /\ Len(IndexStream(g.ix)) \in Nat /\ Len(IndexStream(g.ix)) > 0
        <5>1. IndexSound(g.ix)
          BY DEF GrowthOf, SsmSound
        <5>. DEFINE s == IndexStream(g.ix)
                    n == Len(g.ix.last)
        <5>2. n \in Nat /\ s \in Seq(Nat) /\ Len(s) = 2 + 2 * n
          BY <5>1, StreamIs
        <5>. HIDE DEF s, n
        <5>0. s \in Seq(Nat)
          BY <5>2
        <5>3. Len(Pieces(s, IdxCap)) = Count(Len(s), IdxCap)
          BY <5>0, PiecesAre
        <5>4. Len(s) \in Nat /\ Len(s) > 0
          BY <5>2
        <5>. QED
          BY <1>6, <5>3, <5>4 DEF s, old
      <4>. QED
        BY <4>1, CountHolds
    <3>. QED
      BY <1>1, <1>6, <3>1, <3>2, <3>3
  <2>4. ChainSound(f, g.nix, d)
    BY <1>5, <1>7, <2>2, <2>3 DEF ChainSound, NewPieces, new
  <2>. QED
    BY <2>4 DEF d
<1>11. CASE ~(p <= t)
  <2>1. \A k \in 1..Len(c) : f.bucket[c[k]][3] = old[k]
    <3>. TAKE k \in 1..Len(c)
    <3>1. CASE k <= t
      <4>1. k # p
        BY <1>11, <3>1
      <4>. QED
        BY <1>2, <1>9, <3>1, <4>1
    <3>2. CASE ~(k <= t)
      BY <1>9, <3>2
    <3>. QED
      BY <3>1, <3>2
  <2>2. ChainSound(f, g.ix, c)
    BY <1>5, <1>6, <1>7, <1>9, <2>1 DEF ChainSound, old
  <2>. QED
    BY <2>2 DEF c
<1>. QED
  BY <1>10, <1>11

(* Where there are fresh buckets, the new index begins with a larger       *)
(* count, and is cut off at the old length until the header is written.    *)
LEMMA CutShort ==
  ASSUME NEW g, GrowthOf(g), g.fresh # 0, IdxCap \in Nat \ {0},
         NEW t \in 1..Len(g.nchain), NEW f, ChainAt(g, t, f)
  PROVE  ReadIndex(f) = Broken
<1>. DEFINE c == g.chain
            d == g.nchain
            s == IndexStream(g.ix)
            ns == IndexStream(g.nix)
            old == Pieces(s, IdxCap)
            new == NewPieces(g)
            h == g.f0.hdr
            n == Len(g.ix.last)
            m == Len(g.nix.last)
<1>1. IndexSound(g.ix) /\ IndexSound(g.nix) /\ ChainSound(g.f0, g.ix, c)
  BY DEF GrowthOf, SsmSound, IndexGrows
<1>2. n \in Nat /\ s \in Seq(Nat) /\ Len(s) = 2 + 2 * n
  BY <1>1, StreamIs
<1>3. m \in Nat /\ ns \in Seq(Nat) /\ Len(ns) = 2 + 2 * m /\ ns[1] = m
  BY <1>1, StreamIs
<1>4. m > n
  <2>1. m = n + g.fresh /\ g.fresh \in Nat
    BY DEF GrowthOf, IndexGrows
  <2>. QED
    BY <1>2, <2>1
<1>5. d \in Seq(Nat) /\ Len(d) = Len(new) /\ Len(c) <= Len(d)
  BY DEF GrowthOf
<1>6. /\ c \in Seq(Nat) /\ DOMAIN c = 1..Len(c) /\ Len(c) \in Nat /\ Len(c) = Len(old)
      /\ h.nrIdx = Len(c) /\ h.first = c[1] /\ h.idxLen = Len(s)
      /\ \A k \in 1..Len(c) :
           /\ g.f0.bucket[c[k]][1] = "index" /\ g.f0.bucket[c[k]][3] = old[k]
           /\ k < Len(c) => g.f0.bucket[c[k]][2] = c[k + 1]
  <2>1. /\ c \in Seq(Nat) /\ Len(c) = Len(old)
        /\ h.nrIdx = Len(old) /\ h.first = c[1] /\ h.idxLen = Len(s)
        /\ \A k \in DOMAIN c :
             /\ g.f0.bucket[c[k]][1] = "index" /\ g.f0.bucket[c[k]][3] = old[k]
             /\ k < Len(c) => g.f0.bucket[c[k]][2] = c[k + 1]
    BY <1>1 DEF ChainSound
  <2>. HIDE DEF c, old, h, s
  <2>2. DOMAIN c = 1..Len(c) /\ Len(c) \in Nat
    BY <2>1
  <2>3. \A k \in 1..Len(c) :
          /\ g.f0.bucket[c[k]][1] = "index" /\ g.f0.bucket[c[k]][3] = old[k]
          /\ k < Len(c) => g.f0.bucket[c[k]][2] = c[k + 1]
    BY <2>1, <2>2
  <2>. QED
    BY <2>1, <2>2, <2>3
<1>7. \A k \in 1..Len(d) : k <= Len(c) => d[k] = c[k]
  BY DEF GrowthOf
<1>8. /\ f.hdr = h
      /\ \A k \in 1..Len(c) : k > t => c[k] \in DOMAIN f.bucket /\ f.bucket[c[k]] = g.f0.bucket[c[k]]
      /\ \A k \in 1..t : d[k] \in DOMAIN f.bucket /\ f.bucket[d[k]] = NewBucket(g, k)
  BY DEF ChainAt
<1>9. \A k \in 1..Len(d) : /\ NewBucket(g, k)[1] = "index" /\ NewBucket(g, k)[3] = new[k]
                           /\ k < Len(d) => NewBucket(g, k)[2] = d[k + 1]
  BY DEF NewBucket, IndexBucket
<1>10. /\ old \in Seq(Seq(Nat)) /\ new \in Seq(Seq(Nat)) /\ Len(old) >= 1
       /\ Len(new[1]) >= 1 /\ new[1][1] = m
  <2>. HIDE DEF s, ns
  <2>1. old \in Seq(Seq(Nat)) /\ Len(old) = Count(Len(s), IdxCap)
    BY <1>2, PiecesAre
  <2>. DEFINE q == Pieces(ns, IdxCap)
  <2>2. q \in Seq(Seq(Nat)) /\ Len(q) = Count(Len(ns), IdxCap)
    BY <1>3, PiecesAre
  <2>3. Len(s) \in Nat /\ Len(s) > 0 /\ Len(ns) \in Nat /\ Len(ns) > 0
    <3>. HIDE DEF n, m
    <3>. QED
      BY <1>2, <1>3
  <2>4. Count(Len(s), IdxCap) >= 1 /\ Count(Len(ns), IdxCap) >= 1 /\ Count(Len(ns), IdxCap) \in Nat
    BY <2>3, CountHolds
  <2>5. 1 \in 1..Count(Len(ns), IdxCap)
    BY <2>4
  <2>. DEFINE e == PieceEnds(Len(ns), IdxCap, 1)
              a == (1 - 1) * IdxCap
  <2>6. q[1] = SubSeq(ns, a + 1, e)
    BY <1>3, <2>5, PiecesAre
  <2>7. e \in 1..Len(ns)
    BY <2>3, <2>5, PieceBounds
  <2>8. a = 0
    BY <2>5
  <2>. HIDE DEF e, a, q
  <2>9. 0 \in 0..Len(ns) /\ e \in 0..Len(ns)
    BY <2>3, <2>7
  <2>10. Len(SubSeq(ns, 0 + 1, e)) = e - 0 /\ \A k \in 1..(e - 0) : SubSeq(ns, 0 + 1, e)[k] = ns[0 + k]
    BY <1>3, <2>9, Taking
  <2>11. Len(q[1]) >= 1 /\ q[1][1] = m
    <3>1. q[1] = SubSeq(ns, 0 + 1, e)
      BY <2>6, <2>8
    <3>2. 1 \in 1..(e - 0) /\ e - 0 >= 1
      BY <2>7
    <3>3. SubSeq(ns, 0 + 1, e)[1] = ns[0 + 1]
      <4>1. 1 \in 1..(e - 0)
        BY <3>2
      <4>. QED
        BY <2>10, <4>1
    <3>. QED
      <4>1. ns[0 + 1] = m
        BY <1>3
      <4>2. Len(q[1]) = e - 0
        BY <2>10, <3>1
      <4>. QED
        BY <3>1, <3>2, <3>3, <4>1, <4>2
  <2>. QED
    BY <2>1, <2>2, <2>4, <2>11 DEF NewPieces, q, ns
<1>. HIDE DEF c, d, s, ns, old, new, h, n, m
<1>11. t \in Nat /\ t >= 1 /\ t <= Len(d) /\ Len(d) \in Nat
  <2>1. t \in 1..Len(d)
    BY DEF d
  <2>. QED
    BY <1>5, <2>1
<1>12. ASSUME NEW k \in 1..Len(c)
       PROVE  /\ c[k] \in DOMAIN f.bucket /\ f.bucket[c[k]][1] = "index"
              /\ f.bucket[c[k]][3] = IF k <= t THEN new[k] ELSE old[k]
              /\ k < Len(c) => f.bucket[c[k]][2] = c[k + 1]
  <2>1. CASE k > t
    <3>1. c[k] \in DOMAIN f.bucket /\ f.bucket[c[k]] = g.f0.bucket[c[k]]
      BY <1>8, <2>1
    <3>2. ~(k <= t)
      BY <1>11, <2>1
    <3>. QED
      BY <1>6, <3>1, <3>2
  <2>2. CASE k <= t
    <3>1. k \in 1..t /\ k \in 1..Len(d) /\ k <= Len(c)
      BY <1>5, <1>6, <1>11, <2>2
    <3>2. c[k] = d[k] /\ c[k] \in DOMAIN f.bucket /\ f.bucket[c[k]] = NewBucket(g, k)
      BY <1>7, <1>8, <3>1
    <3>3. k < Len(c) => NewBucket(g, k)[2] = c[k + 1]
      <4>. SUFFICES ASSUME k < Len(c) PROVE NewBucket(g, k)[2] = c[k + 1]
        OBVIOUS
      <4>1. Len(c) \in Nat /\ Len(c) <= Len(d)
        BY <1>5, <1>6
      <4>2. k < Len(d) /\ k + 1 \in 1..Len(d) /\ k + 1 <= Len(c)
        BY <1>11, <4>1
      <4>3. NewBucket(g, k)[2] = d[k + 1]
        BY <1>9, <3>1, <4>2
      <4>4. d[k + 1] = c[k + 1]
        BY <1>7, <4>2
      <4>. QED
        BY <4>3, <4>4
    <3>. QED
      BY <1>9, <2>2, <3>1, <3>2, <3>3
  <2>. QED
    BY <1>11, <2>1, <2>2
<1>13. Len(c) >= 1 /\ 1 \in 1..Len(c)
  BY <1>6, <1>10
<1>14. IndexChain(f) = c
  <2>1. f.hdr.nrIdx = Len(c) /\ f.hdr.first = c[1]
    BY <1>6, <1>8
  <2>2. \A k \in DOMAIN c : c[k] \in DOMAIN f.bucket /\ (k < Len(c) => f.bucket[c[k]][2] = c[k + 1])
    BY <1>6, <1>12
  <2>3. LinksOf(f, c)
    BY <1>6, <1>13, <2>1, <2>2 DEF LinksOf
  <2>. QED
    BY <2>3, ChainFollows
<1>. DEFINE q == [k \in DOMAIN c |-> f.bucket[c[k]][3]]
            text == FlattenSeq(q)
<1>15. q \in Seq(Seq(Nat)) /\ Len(q) >= 1 /\ q[1] = new[1]
  <2>1. \A k \in 1..Len(c) : (IF k <= t THEN new[k] ELSE old[k]) \in Seq(Nat)
    <3>. TAKE k \in 1..Len(c)
    <3>1. k \in 1..Len(old) /\ k \in 1..Len(new)
      BY <1>5, <1>6, <1>11
    <3>2. old[k] \in Seq(Nat)
      BY <1>10, <3>1
    <3>3. new[k] \in Seq(Nat)
      BY <1>10, <3>1
    <3>. QED
      BY <3>2, <3>3
  <2>2. q \in [1..Len(c) -> Seq(Nat)] /\ q[1] = new[1]
    BY <1>6, <1>11, <1>12, <1>13, <2>1
  <2>. HIDE DEF q
  <2>3. q \in Seq(Seq(Nat)) /\ Len(q) = Len(c)
    <3>1. Len(c) \in Nat /\ q \in [1..Len(c) -> Seq(Nat)]
      BY <1>6, <2>2
    <3>. DEFINE i == Len(c)
    <3>. HIDE DEF i
    <3>2. i \in Nat /\ q \in [1..i -> Seq(Nat)]
      BY <3>1 DEF i
    <3>3. q \in Seq(Seq(Nat)) /\ Len(q) = i
      BY <3>2, FunctionIsSequence
    <3>. QED
      BY <3>3 DEF i
  <2>. QED
    BY <1>13, <2>2, <2>3
<1>16. ReadChain(f, c) = ParseIndex(SubSeq(text, 1, Min({Len(text), f.hdr.idxLen})))
  <2>1. ~\E k \in DOMAIN c : c[k] \notin DOMAIN f.bucket \/ f.bucket[c[k]][1] # "index"
    BY <1>6, <1>12
  <2>. QED
    BY <2>1 DEF ReadChain
<1>. HIDE DEF q
<1>17. text \in Seq(Nat) /\ Len(text) >= 1 /\ text[1] = m
  <2>1. q[1] # <<>>
    BY <1>10, <1>15
  <2>2. text \in Seq(Nat) /\ Len(text) >= 1 /\ text[1] = q[1][1]
    BY <1>15, <2>1, FlattenBegins
  <2>. QED
    BY <1>10, <1>15, <2>2
<1>. HIDE DEF text
<1>. DEFINE l == Min({Len(text), f.hdr.idxLen})
<1>18. f.hdr.idxLen = 2 + 2 * n
  BY <1>2, <1>6, <1>8
<1>19. l \in 1..Len(text) /\ l <= 2 + 2 * n
  <2>1. Len(text) \in Int /\ 2 + 2 * n \in Int
    BY <1>2, <1>17
  <2>. DEFINE b == 2 + 2 * n
  <2>2. l = IF Len(text) <= b THEN Len(text) ELSE b
    BY <1>18, <2>1, MinOfTwo
  <2>3. b >= 1 /\ b \in Nat
    BY <1>2
  <2>. HIDE DEF b, l
  <2>4. l \in 1..Len(text) /\ l <= b
    BY <1>17, <2>2, <2>3
  <2>. QED
    BY <2>4 DEF b
<1>. HIDE DEF l
<1>. DEFINE w == SubSeq(text, 1, l)
<1>20. Len(w) = l /\ w[1] = m
  <2>1. 0 \in 0..Len(text) /\ l \in 0..Len(text)
    BY <1>17, <1>19
  <2>2. Len(SubSeq(text, 0 + 1, l)) = l - 0 /\ \A k \in 1..(l - 0) : SubSeq(text, 0 + 1, l)[k] = text[0 + k]
    BY <1>17, <2>1, Taking
  <2>3. 0 + 1 = 1 /\ 1 \in 1..(l - 0) /\ l - 0 = l
    BY <1>19
  <2>4. SubSeq(text, 0 + 1, l)[1] = text[0 + 1]
    BY <2>2, <2>3
  <2>. QED
    BY <1>17, <2>2, <2>3, <2>4
<1>. HIDE DEF w
<1>21. Len(w) < 2 + 2 * w[1]
  BY <1>2, <1>3, <1>4, <1>19, <1>20
<1>22. ParseIndex(w) = Broken
  BY <1>21 DEF ParseIndex
<1>. QED
  BY <1>14, <1>16, <1>22 DEF ReadIndex, w, l

(* An index on its way is the old one, the new one, or none.               *)
LEMMA IndexOnTheWay ==
  ASSUME NEW g, GrowthOf(g), IdxCap \in Nat \ {0}, NEW t \in 0..Len(g.nchain), NEW f, ChainAt(g, t, f)
  PROVE  /\ ReadIndex(f) \in {Found(g.ix), Found(g.nix), Broken}
         /\ t = 0 => ReadIndex(f) = Found(g.ix)
<1>1. IndexSound(g.ix) /\ IndexSound(g.nix)
  BY DEF GrowthOf, SsmSound, IndexGrows
<1>2. CASE t = 0
  <2>1. ChainSound(f, g.ix, g.chain)
    BY <1>2, ChainUntouched
  <2>. QED
    BY <1>1, <2>1, IndexReadsBack
<1>3. CASE t # 0 /\ g.fresh = 0
  <2>1. ChainSound(f, g.ix, g.chain) \/ ChainSound(f, g.nix, g.nchain)
    BY <1>3, OneOrTheOther
  <2>. QED
    BY <1>1, <1>3, <2>1, IndexReadsBack
<1>4. CASE t # 0 /\ g.fresh # 0
  <2>1. t \in 1..Len(g.nchain)
    BY <1>4
  <2>. QED
    BY <1>4, <2>1, CutShort
<1>. QED
  BY <1>2, <1>3, <1>4

-----------------------------------------------------------------------------
(* Growing keeps what can be read.                                         *)

(* The same string buckets, with the same contents.                        *)
SameStrings(f, g) ==
  \A b : /\ (b \in DOMAIN f.bucket /\ f.bucket[b][1] = "string") <=> (b \in DOMAIN g.bucket /\ g.bucket[b][1] = "string")
         /\ (b \in DOMAIN f.bucket /\ f.bucket[b][1] = "string") => f.bucket[b] = g.bucket[b]

LEMMA TakesTheSame ==
  ASSUME NEW f, NEW g, SameStrings(f, g), NEW w
  PROVE  TakeString(f, w) = TakeString(g, w)
<1>1. CASE w.left = 0 \/ w.bad
  BY <1>1 DEF TakeString
<1>2. CASE ~(w.left = 0 \/ w.bad) /\ (w.b \notin DOMAIN f.bucket \/ f.bucket[w.b][1] # "string")
  BY <1>2 DEF TakeString, SameStrings
<1>3. CASE ~(w.left = 0 \/ w.bad) /\ ~(w.b \notin DOMAIN f.bucket \/ f.bucket[w.b][1] # "string")
  <2>1. f.bucket[w.b] = g.bucket[w.b] /\ ~(w.b \notin DOMAIN g.bucket \/ g.bucket[w.b][1] # "string")
    BY <1>3 DEF SameStrings
  <2>. QED
    BY <1>3, <2>1 DEF TakeString
<1>. QED
  BY <1>1, <1>2, <1>3

LEMMA ReadsTheSame ==
  ASSUME NEW f, NEW g, SameStrings(f, g), NEW b, NEW off, NEW len
  PROVE  ReadString(f, b, off, len) = ReadString(g, b, off, len)
<1>. DEFINE P(walk, x) == walk = [k \in 0..len |->
                          IF k = 0 THEN [b |-> b, off |-> off, left |-> len, bad |-> FALSE, out |-> <<>>]
                          ELSE TakeString(x, walk[k - 1])]
<1>1. \A walk : P(walk, f) <=> P(walk, g)
  BY TakesTheSame
<1>2. (CHOOSE walk : P(walk, f)) = (CHOOSE walk : P(walk, g))
  <2>. HIDE DEF P
  <2>. QED
   BY <1>1
<1>3. ReadString(f, b, off, len) = Taken((CHOOSE walk : P(walk, f))[len])
  BY DEF ReadString
<1>4. ReadString(g, b, off, len) = Taken((CHOOSE walk : P(walk, g))[len])
  BY DEF ReadString
<1>. QED
  BY <1>2, <1>3, <1>4

WholeData(v) == v[1] = "data" /\ IsWhole(v[2])

Homes(g) == {g.ix.number[k] : k \in DOMAIN g.ix.number}
Added(g) == g.f0.hdr.nr..(g.f0.hdr.nr + g.fresh - 1)

(* A bucket's cells of the rows there were.                                *)
HoldsRows(g, b, cells) ==
  /\ DOMAIN cells = DOMAIN g.f0.bucket[b][2]
  /\ \A c \in SsmCols, row \in 0..(g.old - 1) :
       FindBucket(g.ix, row).number = b =>
         LET i == g.spec.offset[c] + row - FindBucket(g.ix, row).start + 1
         IN  i \in DOMAIN cells => cells[i] = g.f0.bucket[b][2][i]

(* The writes of a growth: buckets of rows, the pieces of the index, the   *)
(* header and the array file.                                              *)
DataWrite(g, w) ==
  /\ w.hdr = <<>> /\ w.arr = <<>>
  /\ \A b \in DOMAIN w.bucket :
       /\ b \in Homes(g) \cup Added(g) /\ WholeData(w.bucket[b])
       /\ b \in Homes(g) => HoldsRows(g, b, w.bucket[b][2])

ArrayWrite(g, w) ==
  /\ w.bucket = <<>> /\ w.hdr = <<>> /\ w.arr # <<>>
  /\ DOMAIN g.f0.arr.rec \subseteq DOMAIN w.arr[1].rec

WritesOf(g, W) ==
  LET m == Len(g.nchain)
  IN  /\ g.done \in Nat /\ Len(W) \in {g.done + m + 1, g.done + m + 2}
      /\ \A j \in 1..g.done : DataWrite(g, W[j])
      /\ \A b \in Added(g) : \E j \in 1..g.done : b \in DOMAIN W[j].bucket
      /\ \A k \in 1..m : W[g.done + k] = Buckets([b \in {g.nchain[k]} |-> NewBucket(g, k)])
      /\ W[g.done + m + 1] = Header(NewHeader(g))
      /\ Len(W) = g.done + m + 2 => ArrayWrite(g, W[Len(W)])

(* How far the files have come after s of them.                            *)
Along(g, W, s, f) ==
  /\ f = [bucket |-> f.bucket, hdr |-> f.hdr, arr |-> f.arr]
  /\ IF s <= g.done THEN ChainAt(g, 0, f)
     ELSE IF s <= g.done + Len(g.nchain) THEN ChainAt(g, s - g.done, f) ELSE ChainDone(g, f)
  /\ DOMAIN f.bucket \subseteq 0..(NewEnd(g) - 1)
  /\ \A b \in Homes(g) : b \in DOMAIN f.bucket /\ WholeData(f.bucket[b]) /\ HoldsRows(g, b, f.bucket[b][2])
  /\ \A j \in 1..g.done : j <= s =>
       \A b \in DOMAIN W[j].bucket : b \in DOMAIN f.bucket /\ WholeData(f.bucket[b])
  /\ SameStrings(g.f0, f)
  /\ DOMAIN g.f0.arr.rec \subseteq DOMAIN f.arr.rec

LEMMA GrowthNumbers ==
  ASSUME NEW g, GrowthOf(g)
  PROVE  /\ g.f0.hdr.nr \in Nat /\ g.fresh \in Nat /\ Len(g.chain) \in Nat /\ Len(g.nchain) \in Nat /\ NewEnd(g) \in Nat
         /\ Len(g.chain) <= Len(g.nchain)
         /\ DOMAIN g.f0.bucket \subseteq 0..(g.f0.hdr.nr - 1)
         /\ \A b \in Homes(g) : b \in DOMAIN g.f0.bucket /\ WholeData(g.f0.bucket[b])
         /\ \A b \in Homes(g) \cup Added(g) : b \in 0..(NewEnd(g) - 1)
         /\ \A k \in 1..Len(g.nchain) :
              /\ g.nchain[k] \in 0..(NewEnd(g) - 1)
              /\ g.nchain[k] \notin Homes(g) \cup Added(g)
              /\ g.nchain[k] \in DOMAIN g.f0.bucket => g.f0.bucket[g.nchain[k]][1] = "index"
              /\ k <= Len(g.chain) => g.nchain[k] = g.chain[k]
         /\ \A j, k \in 1..Len(g.nchain) : g.nchain[j] = g.nchain[k] => j = k
<1>. DEFINE nr == g.f0.hdr.nr
            fr == g.fresh
            l == Len(g.chain)
            m == Len(g.nchain)
            c == g.chain
            d == g.nchain
            end == NewEnd(g)
            bs == g.f0.bucket
            num == g.ix.number
<1>1. SsmSound(g.f0, g.ix, c) /\ fr \in Nat /\ d \in Seq(Nat) /\ l <= m
      /\ \A k \in 1..m : d[k] = IF k <= l THEN c[k] ELSE nr + fr + k - l - 1
  BY DEF GrowthOf, IndexGrows
<1>2. /\ nr \in Nat /\ DOMAIN bs \subseteq 0..(nr - 1)
      /\ c \in Seq(Nat)
      /\ \A k \in DOMAIN c : c[k] \in DOMAIN bs /\ bs[c[k]][1] = "index"
      /\ \A j, k \in DOMAIN c : c[j] = c[k] => j = k
      /\ \A k \in DOMAIN num : num[k] \in DOMAIN bs /\ WholeData(bs[num[k]])
  BY <1>1 DEF SsmSound, ChainSound, WholeData
<1>3. end = nr + fr + m - l
  BY DEF NewEnd
<1>. HIDE DEF nr, fr, c, d, bs, num
<1>4. l \in Nat /\ m \in Nat /\ end \in Nat /\ nr + fr <= end
  <2>1. l \in Nat /\ m \in Nat
    BY <1>1, <1>2 DEF c, d
  <2>. HIDE DEF l, m, end
  <2>. QED
    BY <1>1, <1>2, <1>3, <2>1
<1>5. \A k \in 1..l : c[k] \in DOMAIN bs /\ c[k] \in 0..(nr - 1) /\ bs[c[k]][1] = "index"
  <2>1. DOMAIN c = 1..l
    BY <1>2 DEF c
  <2>. QED
    BY <1>2, <2>1
<1>6. \A b \in Homes(g) : b \in DOMAIN bs /\ WholeData(bs[b]) /\ b \in 0..(nr - 1)
  BY <1>2 DEF Homes, num
<1>7. Added(g) = nr..(nr + fr - 1)
  BY DEF Added, nr, fr
<1>. HIDE DEF l, m, end
<1>8. \A b \in Homes(g) \cup Added(g) : b \in 0..(end - 1)
  <2>. TAKE b \in Homes(g) \cup Added(g)
  <2>1. CASE b \in Homes(g)
    <3>1. b \in 0..(nr - 1)
      BY <1>6, <2>1
    <3>. QED
      BY <1>1, <1>2, <1>4, <3>1
  <2>2. CASE b \in Added(g)
    <3>1. b \in nr..(nr + fr - 1)
      BY <1>7, <2>2
    <3>. QED
      BY <1>1, <1>2, <1>4, <3>1
  <2>. QED
    BY <2>1, <2>2
<1>9. ASSUME NEW k \in 1..m
      PROVE  /\ d[k] \in 0..(end - 1) /\ d[k] \notin Homes(g) \cup Added(g)
             /\ d[k] \in DOMAIN bs => bs[d[k]][1] = "index"
             /\ k <= l => d[k] = c[k]
             /\ k > l => d[k] = nr + fr + k - l - 1 /\ d[k] >= nr + fr
  <2>1. CASE k <= l
    <3>1. d[k] = c[k] /\ c[k] \in DOMAIN bs /\ c[k] \in 0..(nr - 1) /\ bs[c[k]][1] = "index"
      <4>1. k \in 1..l
        BY <1>4, <2>1
      <4>2. d[k] = c[k]
        BY <1>1, <2>1
      <4>. QED
        BY <1>5, <4>1, <4>2
    <3>2. c[k] \notin Homes(g)
      <4>1. "index" # "data"
        OBVIOUS
      <4>. QED
        BY <1>6, <3>1, <4>1 DEF WholeData
    <3>3. c[k] \notin Added(g)
      BY <1>2, <1>7, <3>1
    <3>4. c[k] \in 0..(end - 1)
      BY <1>1, <1>2, <1>4, <3>1
    <3>. QED
      BY <1>4, <2>1, <3>1, <3>2, <3>3, <3>4
  <2>2. CASE k > l
    <3>1. d[k] = nr + fr + k - l - 1
      <4>1. ~(k <= l)
        BY <1>4, <2>2
      <4>. QED
        BY <1>1, <4>1
    <3>2. d[k] >= nr + fr /\ d[k] \in 0..(end - 1) /\ d[k] \notin 0..(nr - 1)
      BY <1>1, <1>2, <1>3, <1>4, <2>2, <3>1
    <3>3. d[k] \notin DOMAIN bs /\ d[k] \notin Homes(g)
      BY <1>2, <1>6, <3>2
    <3>4. d[k] \notin Added(g)
      BY <1>1, <1>2, <1>7, <3>1, <3>2
    <3>. QED
      BY <1>4, <2>2, <3>1, <3>2, <3>3, <3>4
  <2>. QED
    BY <1>4, <2>1, <2>2
<1>10. ASSUME NEW j \in 1..m, NEW k \in 1..m, d[j] = d[k] PROVE j = k
  <2>1. CASE j <= l /\ k <= l
    <3>1. j \in DOMAIN c /\ k \in DOMAIN c /\ c[j] = c[k]
      <4>1. j \in 1..l /\ k \in 1..l
        BY <1>4, <2>1
      <4>2. DOMAIN c = 1..l
        BY <1>2 DEF c, l
      <4>. QED
        BY <1>9, <1>10, <2>1, <4>1, <4>2
    <3>. QED
      BY <1>2, <3>1
  <2>2. CASE j > l /\ k > l
    <3>1. nr + fr + j - l - 1 = nr + fr + k - l - 1
      <4>1. d[j] = nr + fr + j - l - 1 /\ d[k] = nr + fr + k - l - 1
        BY <1>9, <2>2
      <4>. QED
        BY <1>10, <4>1
    <3>. QED
      BY <1>1, <1>2, <1>4, <3>1
  <2>3. ASSUME NEW i \in 1..m, NEW n \in 1..m, i <= l, n > l PROVE d[i] # d[n]
    <3>1. d[i] \in 0..(nr - 1)
      <4>1. i \in 1..l /\ d[i] = c[i]
        BY <1>4, <1>9, <2>3
      <4>. QED
        BY <1>5, <4>1
    <3>2. d[n] >= nr + fr
      BY <1>9, <2>3
    <3>. QED
      BY <1>1, <1>2, <3>1, <3>2
  <2>4. (j <= l \/ j > l) /\ (k <= l \/ k > l)
    BY <1>4
  <2>. QED
    BY <1>10, <2>1, <2>2, <2>3, <2>4
<1>. QED
  BY <1>1, <1>2, <1>4, <1>6, <1>8, <1>9, <1>10 DEF nr, fr, l, m, c, d, end, bs

LEMMA AlongBegins ==
  ASSUME NEW g, GrowthOf(g), NEW W, WritesOf(g, W)
  PROVE  Along(g, W, 0, g.f0)
<1>. DEFINE f == g.f0
<1>1. f = [bucket |-> f.bucket, hdr |-> f.hdr, arr |-> f.arr]
  BY DEF GrowthOf, SsmSound
<1>2. ChainAt(g, 0, f)
  <2>1. ChainSound(f, g.ix, g.chain)
    BY DEF GrowthOf, SsmSound
  <2>2. \A k \in 1..Len(g.chain) : g.chain[k] \in DOMAIN f.bucket
    BY <2>1 DEF ChainSound
  <2>. QED
    BY <2>2 DEF ChainAt
<1>3. g.done \in Nat
  BY DEF WritesOf
<1>4. DOMAIN f.bucket \subseteq 0..(NewEnd(g) - 1)
  <2>1. DOMAIN f.bucket \subseteq 0..(f.hdr.nr - 1) /\ f.hdr.nr \in Nat /\ g.fresh \in Nat
        /\ Len(g.chain) \in Nat /\ Len(g.nchain) \in Nat /\ Len(g.chain) <= Len(g.nchain)
    BY GrowthNumbers
  <2>2. f.hdr.nr <= NewEnd(g) /\ NewEnd(g) \in Nat
    <3>. DEFINE nr == f.hdr.nr
                l == Len(g.chain)
                m == Len(g.nchain)
                fr == g.fresh
    <3>1. nr \in Nat /\ l \in Nat /\ m \in Nat /\ fr \in Nat /\ l <= m /\ NewEnd(g) = nr + fr + m - l
      BY <2>1 DEF NewEnd
    <3>. HIDE DEF nr, l, m, fr
    <3>2. nr <= NewEnd(g) /\ NewEnd(g) \in Nat
      BY <3>1
    <3>. QED
      BY <3>2 DEF nr
  <2>. SUFFICES ASSUME NEW b \in DOMAIN f.bucket PROVE b \in 0..(NewEnd(g) - 1)
    OBVIOUS
  <2>. DEFINE nr == f.hdr.nr
              e == NewEnd(g)
  <2>3. b \in 0..(nr - 1) /\ nr \in Nat /\ nr <= e /\ e \in Nat
    BY <2>1, <2>2
  <2>. HIDE DEF nr, e
  <2>4. b \in 0..(e - 1)
    BY <2>3
  <2>. QED
    BY <2>4 DEF e
<1>5. \A b \in Homes(g) : b \in DOMAIN f.bucket /\ WholeData(f.bucket[b]) /\ HoldsRows(g, b, f.bucket[b][2])
  <2>1. \A b \in Homes(g) : b \in DOMAIN f.bucket /\ WholeData(f.bucket[b])
    BY GrowthNumbers, Zenon
  <2>2. \A b \in Homes(g) : HoldsRows(g, b, f.bucket[b][2])
    BY DEF HoldsRows
  <2>. QED
    BY <2>1, <2>2
<1>6. SameStrings(f, f)
  BY DEF SameStrings
<1>. QED
  BY <1>1, <1>2, <1>3, <1>4, <1>5, <1>6 DEF Along

(* The files n after a write w to f.                                       *)
Applied(f, w, n) ==
  /\ n = [bucket |-> n.bucket, hdr |-> n.hdr, arr |-> n.arr]
  /\ DOMAIN n.bucket = DOMAIN f.bucket \cup DOMAIN w.bucket
  /\ \A b \in DOMAIN w.bucket : n.bucket[b] = w.bucket[b]
  /\ \A b \in DOMAIN f.bucket : b \notin DOMAIN w.bucket => n.bucket[b] = f.bucket[b]
  /\ w.hdr = <<>> => n.hdr = f.hdr
  /\ w.hdr # <<>> => n.hdr = w.hdr[1]
  /\ w.arr = <<>> => n.arr = f.arr
  /\ w.arr # <<>> => n.arr = w.arr[1]

LEMMA AppliedBuckets ==
  ASSUME NEW f, NEW w
  PROVE  Applied(f, w, SsmApply(f, w))
BY DEF SsmApply, Applied

(* Writes that leave the strings alone.                                    *)
LEMMA StringsStay ==
  ASSUME NEW f0, NEW f, SameStrings(f0, f), NEW w,
         \A b \in DOMAIN w.bucket : /\ w.bucket[b][1] # "string"
                                    /\ b \in DOMAIN f0.bucket => f0.bucket[b][1] # "string"
  PROVE  SameStrings(f0, SsmApply(f, w))
<1>. DEFINE n == SsmApply(f, w)
<1>1. /\ DOMAIN n.bucket = DOMAIN f.bucket \cup DOMAIN w.bucket
      /\ \A b \in DOMAIN w.bucket : n.bucket[b] = w.bucket[b]
      /\ \A b \in DOMAIN f.bucket : b \notin DOMAIN w.bucket => n.bucket[b] = f.bucket[b]
  <2>1. Applied(f, w, n)
    BY AppliedBuckets
  <2>. HIDE DEF n
  <2>. QED
    BY <2>1 DEF Applied
<1>. HIDE DEF n
<1>2. ASSUME NEW b
      PROVE  /\ (b \in DOMAIN f0.bucket /\ f0.bucket[b][1] = "string") <=> (b \in DOMAIN n.bucket /\ n.bucket[b][1] = "string")
             /\ (b \in DOMAIN f0.bucket /\ f0.bucket[b][1] = "string") => f0.bucket[b] = n.bucket[b]
  <2>1. CASE b \in DOMAIN w.bucket
    BY <1>1, <2>1
  <2>2. CASE b \notin DOMAIN w.bucket
    <3>1. b \in DOMAIN n.bucket <=> b \in DOMAIN f.bucket
      BY <1>1, <2>2
    <3>2. b \in DOMAIN f.bucket => n.bucket[b] = f.bucket[b]
      BY <1>1, <2>2
    <3>3. /\ (b \in DOMAIN f0.bucket /\ f0.bucket[b][1] = "string") <=> (b \in DOMAIN f.bucket /\ f.bucket[b][1] = "string")
          /\ (b \in DOMAIN f0.bucket /\ f0.bucket[b][1] = "string") => f0.bucket[b] = f.bucket[b]
      BY DEF SameStrings
    <3>. QED
      BY <3>1, <3>2, <3>3
  <2>. QED
    BY <2>1, <2>2
<1>. QED
  BY <1>2 DEF SameStrings, n

LEMMA DataIsWritten ==
  ASSUME NEW g, GrowthOf(g), NEW W, WritesOf(g, W), NEW s \in Nat, s < g.done, NEW f, Along(g, W, s, f)
  PROVE  Along(g, W, s + 1, SsmApply(f, W[s + 1]))
<1>. DEFINE w == W[s + 1]
            n == SsmApply(f, w)
<1>1. g.done \in Nat /\ DataWrite(g, w)
  <2>1. g.done \in Nat
    BY DEF WritesOf
  <2>2. s + 1 \in 1..g.done
    BY <2>1
  <2>3. \A j \in 1..g.done : DataWrite(g, W[j])
    BY DEF WritesOf
  <2>. QED
    BY <2>1, <2>2, <2>3
<1>2. /\ n = [bucket |-> n.bucket, hdr |-> n.hdr, arr |-> n.arr]
      /\ DOMAIN n.bucket = DOMAIN f.bucket \cup DOMAIN w.bucket
      /\ \A b \in DOMAIN w.bucket : n.bucket[b] = w.bucket[b]
      /\ \A b \in DOMAIN f.bucket : b \notin DOMAIN w.bucket => n.bucket[b] = f.bucket[b]
      /\ n.hdr = f.hdr /\ n.arr = f.arr
  <2>1. w.hdr = <<>> /\ w.arr = <<>>
    BY <1>1 DEF DataWrite
  <2>. HIDE DEF w
  <2>. QED
    <3>1. Applied(f, w, n)
      BY AppliedBuckets
    <3>. HIDE DEF n
    <3>. QED
      BY <2>1, <3>1 DEF Applied
<1>3. \A b \in DOMAIN w.bucket :
       /\ b \in Homes(g) \cup Added(g) /\ WholeData(w.bucket[b])
       /\ b \in Homes(g) => HoldsRows(g, b, w.bucket[b][2])
  BY <1>1 DEF DataWrite
<1>. HIDE DEF n, w
<1>4. s <= g.done /\ s + 1 <= g.done
  BY <1>1
<1>5. ChainAt(g, 0, f)
  BY <1>4 DEF Along
<1>6. ChainAt(g, 0, n)
  <2>1. \A k \in 1..Len(g.chain) : g.chain[k] \in DOMAIN f.bucket /\ f.bucket[g.chain[k]] = g.f0.bucket[g.chain[k]]
    BY <1>5 DEF ChainAt
  <2>2. \A k \in 1..Len(g.chain) : g.chain[k] \notin DOMAIN w.bucket
    <3>. TAKE k \in 1..Len(g.chain)
    <3>1. k \in 1..Len(g.nchain) /\ k <= Len(g.chain)
      <4>1. Len(g.chain) \in Nat /\ Len(g.nchain) \in Nat /\ Len(g.chain) <= Len(g.nchain)
        BY GrowthNumbers
      <4>. QED
        BY <4>1
    <3>2. g.nchain[k] = g.chain[k] /\ g.nchain[k] \notin Homes(g) \cup Added(g)
      BY <3>1, GrowthNumbers
    <3>. QED
      BY <1>3, <3>2
  <2>3. f.hdr = g.f0.hdr
    BY <1>5 DEF ChainAt
  <2>. QED
    BY <1>2, <2>1, <2>2, <2>3 DEF ChainAt
<1>7. DOMAIN n.bucket \subseteq 0..(NewEnd(g) - 1)
  <2>1. \A b \in Homes(g) \cup Added(g) : b \in 0..(NewEnd(g) - 1)
    BY GrowthNumbers
  <2>2. DOMAIN f.bucket \subseteq 0..(NewEnd(g) - 1)
    BY DEF Along
  <2>. QED
    BY <1>2, <1>3, <2>1, <2>2
<1>8. \A b \in Homes(g) : b \in DOMAIN n.bucket /\ WholeData(n.bucket[b]) /\ HoldsRows(g, b, n.bucket[b][2])
  <2>1. \A b \in Homes(g) : b \in DOMAIN f.bucket /\ WholeData(f.bucket[b]) /\ HoldsRows(g, b, f.bucket[b][2])
    BY DEF Along
  <2>. TAKE b \in Homes(g)
  <2>2. CASE b \in DOMAIN w.bucket
    BY <1>2, <1>3, <2>2
  <2>3. CASE b \notin DOMAIN w.bucket
    BY <1>2, <2>1, <2>3
  <2>. QED
    BY <2>2, <2>3
<1>9. \A j \in 1..g.done : j <= s + 1 => \A b \in DOMAIN W[j].bucket : b \in DOMAIN n.bucket /\ WholeData(n.bucket[b])
  <2>1. \A j \in 1..g.done : j <= s => \A b \in DOMAIN W[j].bucket : b \in DOMAIN f.bucket /\ WholeData(f.bucket[b])
    BY DEF Along
  <2>. TAKE j \in 1..g.done
  <2>2. CASE j = s + 1
    BY <1>2, <1>3, <2>2 DEF w
  <2>3. CASE j <= s
    <3>1. \A b \in DOMAIN W[j].bucket : b \in DOMAIN f.bucket /\ WholeData(f.bucket[b])
      BY <2>1, <2>3
    <3>2. \A b \in DOMAIN f.bucket : WholeData(f.bucket[b]) => b \in DOMAIN n.bucket /\ WholeData(n.bucket[b])
      BY <1>2, <1>3
    <3>. QED
      BY <3>1, <3>2
  <2>. QED
    BY <1>1, <2>2, <2>3
<1>10. SameStrings(g.f0, n)
  <2>1. SameStrings(g.f0, f)
    BY DEF Along
  <2>2. \A b \in DOMAIN w.bucket : /\ w.bucket[b][1] # "string"
                                   /\ b \in DOMAIN g.f0.bucket => g.f0.bucket[b][1] # "string"
    <3>. TAKE b \in DOMAIN w.bucket
    <3>1. w.bucket[b][1] = "data"
      BY <1>3 DEF WholeData
    <3>2. CASE b \in Homes(g)
      <4>1. WholeData(g.f0.bucket[b])
        BY <3>2, GrowthNumbers
      <4>. QED
        BY <3>1, <4>1 DEF WholeData
    <3>3. CASE b \in Added(g)
      <4>1. DOMAIN g.f0.bucket \subseteq 0..(g.f0.hdr.nr - 1) /\ g.f0.hdr.nr \in Nat /\ g.fresh \in Nat
        BY GrowthNumbers
      <4>2. b \notin DOMAIN g.f0.bucket
        BY <3>3, <4>1 DEF Added
      <4>. QED
        BY <3>1, <4>2
    <3>. QED
      BY <1>3, <3>2, <3>3
  <2>. QED
    BY <2>1, <2>2, StringsStay DEF n
<1>11. DOMAIN g.f0.arr.rec \subseteq DOMAIN n.arr.rec
  <2>1. DOMAIN g.f0.arr.rec \subseteq DOMAIN f.arr.rec
    BY DEF Along
  <2>. QED
    BY <1>2, <2>1
<1>12. Along(g, W, s + 1, n)
  BY <1>2, <1>4, <1>6, <1>7, <1>8, <1>9, <1>10, <1>11 DEF Along
<1>. QED
  BY <1>12 DEF n, w

(* Of a write that leaves the buckets of rows and the array file alone.    *)
LEMMA RowsUntouched ==
  ASSUME NEW g, GrowthOf(g), NEW W, WritesOf(g, W), NEW s \in Nat, NEW f, Along(g, W, s, f), s >= g.done,
         NEW w, w.arr = <<>>, \A b \in DOMAIN w.bucket : \E k \in 1..Len(g.nchain) : b = g.nchain[k] /\ w.bucket[b][1] = "index"
  PROVE  LET n == SsmApply(f, w)
         IN  /\ DOMAIN n.bucket \subseteq 0..(NewEnd(g) - 1)
             /\ \A b \in Homes(g) : b \in DOMAIN n.bucket /\ WholeData(n.bucket[b]) /\ HoldsRows(g, b, n.bucket[b][2])
             /\ \A j \in 1..g.done : \A b \in DOMAIN W[j].bucket : b \in DOMAIN n.bucket /\ WholeData(n.bucket[b])
             /\ SameStrings(g.f0, n)
             /\ DOMAIN g.f0.arr.rec \subseteq DOMAIN n.arr.rec
<1>. DEFINE n == SsmApply(f, w)
<1>1. /\ DOMAIN n.bucket = DOMAIN f.bucket \cup DOMAIN w.bucket
      /\ \A b \in DOMAIN w.bucket : n.bucket[b] = w.bucket[b]
      /\ \A b \in DOMAIN f.bucket : b \notin DOMAIN w.bucket => n.bucket[b] = f.bucket[b]
      /\ n.arr = f.arr
  <2>1. Applied(f, w, n)
    BY AppliedBuckets
  <2>. HIDE DEF n
  <2>. QED
    BY <2>1 DEF Applied
<1>. HIDE DEF n
<1>2. \A b \in DOMAIN w.bucket :
        /\ b \in 0..(NewEnd(g) - 1) /\ b \notin Homes(g) \cup Added(g)
        /\ b \in DOMAIN g.f0.bucket => g.f0.bucket[b][1] = "index"
  <2>. TAKE b \in DOMAIN w.bucket
  <2>1. PICK k \in 1..Len(g.nchain) : b = g.nchain[k]
    OBVIOUS
  <2>. QED
    BY <2>1, GrowthNumbers
<1>3. DOMAIN n.bucket \subseteq 0..(NewEnd(g) - 1)
  <2>1. DOMAIN f.bucket \subseteq 0..(NewEnd(g) - 1)
    BY DEF Along
  <2>. QED
    BY <1>1, <1>2, <2>1
<1>4. \A b \in Homes(g) : b \in DOMAIN n.bucket /\ WholeData(n.bucket[b]) /\ HoldsRows(g, b, n.bucket[b][2])
  <2>1. \A b \in Homes(g) : b \in DOMAIN f.bucket /\ WholeData(f.bucket[b]) /\ HoldsRows(g, b, f.bucket[b][2])
    BY DEF Along
  <2>. QED
    BY <1>1, <1>2, <2>1
<1>5. \A j \in 1..g.done : \A b \in DOMAIN W[j].bucket : b \in DOMAIN n.bucket /\ WholeData(n.bucket[b])
  <2>. TAKE j \in 1..g.done
  <2>0. g.done \in Nat
    BY DEF WritesOf
  <2>1. j <= s
    BY <2>0
  <2>2. \A b \in DOMAIN W[j].bucket : b \in DOMAIN f.bucket /\ WholeData(f.bucket[b])
    BY <2>1 DEF Along
  <2>3. \A b \in DOMAIN W[j].bucket : b \in Homes(g) \cup Added(g)
    BY DEF WritesOf, DataWrite
  <2>. QED
    BY <1>1, <1>2, <2>2, <2>3
<1>6. SameStrings(g.f0, n)
  <2>1. SameStrings(g.f0, f)
    BY DEF Along
  <2>2. \A b \in DOMAIN w.bucket : /\ w.bucket[b][1] # "string"
                                   /\ b \in DOMAIN g.f0.bucket => g.f0.bucket[b][1] # "string"
    <3>. TAKE b \in DOMAIN w.bucket
    <3>1. w.bucket[b][1] = "index"
      OBVIOUS
    <3>. QED
      BY <1>2, <3>1
  <2>. QED
    BY <2>1, <2>2, StringsStay DEF n
<1>7. DOMAIN g.f0.arr.rec \subseteq DOMAIN n.arr.rec
  BY <1>1 DEF Along
<1>. QED
  BY <1>3, <1>4, <1>5, <1>6, <1>7 DEF n

LEMMA PieceIsWritten ==
  ASSUME NEW g, GrowthOf(g), NEW W, WritesOf(g, W), NEW t \in 0..(Len(g.nchain) - 1), NEW f, Along(g, W, g.done + t, f)
  PROVE  Along(g, W, g.done + t + 1, SsmApply(f, W[g.done + t + 1]))
<1>. DEFINE w == W[g.done + t + 1]
            n == SsmApply(f, w)
            d == g.nchain
            m == Len(d)
<1>1. g.done \in Nat /\ w = Buckets([b \in {d[t + 1]} |-> NewBucket(g, t + 1)])
  <2>1. g.done \in Nat /\ \A k \in 1..m : W[g.done + k] = Buckets([b \in {d[k]} |-> NewBucket(g, k)])
    BY DEF WritesOf
  <2>2. m \in Nat
    BY GrowthNumbers
  <2>. HIDE DEF m
  <2>3. t + 1 \in 1..m
    BY <2>2 DEF m
  <2>4. g.done + (t + 1) = g.done + t + 1
    BY <2>1, <2>2 DEF m
  <2>. QED
    BY <2>1, <2>3, <2>4
<1>2. /\ DOMAIN w.bucket = {d[t + 1]} /\ w.bucket[d[t + 1]] = NewBucket(g, t + 1)
      /\ w.hdr = <<>> /\ w.arr = <<>>
  BY <1>1 DEF Buckets
<1>. HIDE DEF w
<1>3. /\ n = [bucket |-> n.bucket, hdr |-> n.hdr, arr |-> n.arr]
      /\ DOMAIN n.bucket = DOMAIN f.bucket \cup {d[t + 1]}
      /\ n.bucket[d[t + 1]] = NewBucket(g, t + 1)
      /\ \A b \in DOMAIN f.bucket : b # d[t + 1] => n.bucket[b] = f.bucket[b]
      /\ n.hdr = f.hdr
  <2>1. /\ n = [bucket |-> n.bucket, hdr |-> n.hdr, arr |-> n.arr]
        /\ DOMAIN n.bucket = DOMAIN f.bucket \cup DOMAIN w.bucket
        /\ \A b \in DOMAIN w.bucket : n.bucket[b] = w.bucket[b]
        /\ \A b \in DOMAIN f.bucket : b \notin DOMAIN w.bucket => n.bucket[b] = f.bucket[b]
        /\ n.hdr = f.hdr
    <3>1. Applied(f, w, n)
      BY AppliedBuckets
    <3>. HIDE DEF n
    <3>. QED
      BY <1>2, <3>1 DEF Applied
  <2>. HIDE DEF n, d
  <2>. QED
    BY <1>2, <2>1
<1>4. /\ Len(g.chain) \in Nat /\ m \in Nat /\ Len(g.chain) <= m
      /\ \A k \in 1..m : k <= Len(g.chain) => d[k] = g.chain[k]
      /\ \A j, k \in 1..m : d[j] = d[k] => j = k
  BY GrowthNumbers
<1>. HIDE DEF n, d, m
<1>5. t \in 0..(m - 1) /\ t + 1 \in 1..m
  <2>1. t \in 0..(m - 1)
    BY DEF m, d
  <2>. QED
    BY <1>4, <2>1
<1>6. ChainAt(g, t, f)
  <2>1. CASE t = 0
    BY <1>1, <2>1 DEF Along
  <2>2. CASE t # 0
    <3>1. ~(g.done + t <= g.done) /\ g.done + t <= g.done + m /\ g.done + t - g.done = t
      BY <1>1, <1>4, <1>5, <2>2
    <3>2. ChainAt(g, g.done + t - g.done, f)
      <4>. DEFINE s == g.done + t
      <4>1. ~(s <= g.done) /\ s <= g.done + Len(g.nchain) /\ Along(g, W, s, f)
        BY <3>1 DEF m, d
      <4>. HIDE DEF s
      <4>2. ChainAt(g, s - g.done, f)
        BY <4>1 DEF Along
      <4>. QED
        BY <1>1, <4>2 DEF s
    <3>. QED
      BY <3>1, <3>2, Zenon
  <2>. QED
    BY <2>1, <2>2
<1>7. ChainAt(g, t + 1, n)
  <2>1. /\ f.hdr = g.f0.hdr
        /\ \A k \in 1..Len(g.chain) : k > t => g.chain[k] \in DOMAIN f.bucket /\ f.bucket[g.chain[k]] = g.f0.bucket[g.chain[k]]
        /\ \A k \in 1..t : d[k] \in DOMAIN f.bucket /\ f.bucket[d[k]] = NewBucket(g, k)
    BY <1>6 DEF ChainAt, d
  <2>2. ASSUME NEW k \in 1..Len(g.chain), k > t + 1
        PROVE  g.chain[k] \in DOMAIN n.bucket /\ n.bucket[g.chain[k]] = g.f0.bucket[g.chain[k]]
    <3>1. k > t /\ k \in 1..m /\ k # t + 1 /\ k <= Len(g.chain)
      BY <1>4, <1>5, <2>2
    <3>2. g.chain[k] = d[k] /\ d[k] # d[t + 1]
      BY <1>4, <1>5, <3>1
    <3>. QED
      BY <1>3, <2>1, <3>1, <3>2
  <2>3. ASSUME NEW k \in 1..(t + 1)
        PROVE  d[k] \in DOMAIN n.bucket /\ n.bucket[d[k]] = NewBucket(g, k)
    <3>1. CASE k = t + 1
      BY <1>3, <3>1
    <3>2. CASE k # t + 1
      <4>1. k \in 1..t /\ k \in 1..m
        BY <1>4, <1>5, <3>2
      <4>2. d[k] # d[t + 1]
        BY <1>4, <1>5, <3>2, <4>1
      <4>. QED
        BY <1>3, <2>1, <4>1, <4>2
    <3>. QED
      BY <3>1, <3>2
  <2>. QED
    BY <1>3, <2>1, <2>2, <2>3 DEF ChainAt, d
<1>8. \A b \in DOMAIN w.bucket : \E k \in 1..Len(g.nchain) : b = g.nchain[k] /\ w.bucket[b][1] = "index"
  <2>1. NewBucket(g, t + 1)[1] = "index"
    BY DEF NewBucket, IndexBucket
  <2>. QED
    BY <1>2, <1>5, <2>1 DEF d, m
<1>9. g.done + t \in Nat /\ g.done + t >= g.done
  BY <1>1, <1>5
<1>10. /\ DOMAIN n.bucket \subseteq 0..(NewEnd(g) - 1)
       /\ \A b \in Homes(g) : b \in DOMAIN n.bucket /\ WholeData(n.bucket[b]) /\ HoldsRows(g, b, n.bucket[b][2])
       /\ \A j \in 1..g.done : \A b \in DOMAIN W[j].bucket : b \in DOMAIN n.bucket /\ WholeData(n.bucket[b])
       /\ SameStrings(g.f0, n)
       /\ DOMAIN g.f0.arr.rec \subseteq DOMAIN n.arr.rec
  <2>. DEFINE s == g.done + t
  <2>1. s \in Nat /\ s >= g.done /\ Along(g, W, s, f)
    BY <1>9
  <2>. HIDE DEF s
  <2>. QED
    BY <1>2, <1>8, <2>1, RowsUntouched DEF n
<1>11. ~(g.done + t + 1 <= g.done) /\ g.done + t + 1 <= g.done + m /\ g.done + t + 1 - g.done = t + 1
  BY <1>1, <1>4, <1>5
<1>12. Along(g, W, g.done + t + 1, n)
  <2>. DEFINE s == g.done + t + 1
  <2>1. ~(s <= g.done) /\ s <= g.done + Len(g.nchain) /\ s - g.done = t + 1
    BY <1>1, <1>4, <1>5, <1>11 DEF m, d
  <2>. HIDE DEF s
  <2>2. ChainAt(g, s - g.done, n)
    BY <1>7, <2>1, Zenon
  <2>3. Along(g, W, s, n)
    BY <1>3, <1>10, <2>1, <2>2 DEF Along
  <2>. QED
    BY <2>3 DEF s
<1>. QED
  BY <1>12 DEF n, w

LEMMA HeaderIsWritten ==
  ASSUME NEW g, GrowthOf(g), NEW W, WritesOf(g, W), NEW f, Along(g, W, g.done + Len(g.nchain), f), Len(g.nchain) >= 1
  PROVE  Along(g, W, g.done + Len(g.nchain) + 1, SsmApply(f, W[g.done + Len(g.nchain) + 1]))
<1>. DEFINE m == Len(g.nchain)
            w == W[g.done + m + 1]
            n == SsmApply(f, w)
<1>1. g.done \in Nat /\ w = Header(NewHeader(g))
  BY DEF WritesOf
<1>2. m \in Nat /\ m >= 1
  BY GrowthNumbers
<1>3. w.bucket = <<>> /\ DOMAIN w.bucket = {} /\ w.hdr = <<NewHeader(g)>> /\ w.hdr # <<>> /\ w.arr = <<>>
  BY <1>1 DEF Header
<1>. HIDE DEF w
<1>4. /\ n = [bucket |-> n.bucket, hdr |-> n.hdr, arr |-> n.arr]
      /\ DOMAIN n.bucket = DOMAIN f.bucket
      /\ \A b \in DOMAIN f.bucket : n.bucket[b] = f.bucket[b]
      /\ n.hdr = NewHeader(g)
  <2>1. /\ n = [bucket |-> n.bucket, hdr |-> n.hdr, arr |-> n.arr]
        /\ DOMAIN n.bucket = DOMAIN f.bucket \cup DOMAIN w.bucket
        /\ \A b \in DOMAIN f.bucket : b \notin DOMAIN w.bucket => n.bucket[b] = f.bucket[b]
        /\ n.hdr = w.hdr[1]
    <3>1. Applied(f, w, n)
      BY AppliedBuckets
    <3>. HIDE DEF n
    <3>. QED
      BY <1>3, <3>1 DEF Applied
  <2>2. w.hdr[1] = NewHeader(g)
    BY <1>3
  <2>. HIDE DEF n
  <2>. QED
    BY <1>3, <2>1, <2>2
<1>. HIDE DEF n
<1>5. ChainAt(g, m, f)
  <2>1. ~(g.done + m <= g.done) /\ g.done + m <= g.done + m /\ g.done + m - g.done = m
    BY <1>1, <1>2
  <2>. HIDE DEF m
  <2>. DEFINE s == g.done + m
  <2>2. ~(s <= g.done) /\ s <= g.done + Len(g.nchain) /\ s - g.done = m /\ Along(g, W, s, f)
    BY <1>1, <1>2, <2>1 DEF m
  <2>. HIDE DEF s
  <2>3. ChainAt(g, s - g.done, f)
    BY <2>2 DEF Along
  <2>. QED
    BY <2>2, <2>3, Zenon
<1>6. ChainDone(g, n)
  BY <1>4, <1>5 DEF ChainAt, ChainDone
<1>. HIDE DEF m
<1>7. g.done + m \in Nat /\ g.done + m >= g.done
  BY <1>1, <1>2
<1>8. /\ DOMAIN n.bucket \subseteq 0..(NewEnd(g) - 1)
      /\ \A b \in Homes(g) : b \in DOMAIN n.bucket /\ WholeData(n.bucket[b]) /\ HoldsRows(g, b, n.bucket[b][2])
      /\ \A j \in 1..g.done : \A b \in DOMAIN W[j].bucket : b \in DOMAIN n.bucket /\ WholeData(n.bucket[b])
      /\ SameStrings(g.f0, n)
      /\ DOMAIN g.f0.arr.rec \subseteq DOMAIN n.arr.rec
  <2>. DEFINE s == g.done + m
  <2>1. s \in Nat /\ s >= g.done /\ Along(g, W, s, f)
    BY <1>7 DEF m
  <2>2. \A b \in DOMAIN w.bucket : \E k \in 1..Len(g.nchain) : b = g.nchain[k] /\ w.bucket[b][1] = "index"
    BY <1>3
  <2>. HIDE DEF s
  <2>. QED
    BY <1>3, <2>1, <2>2, RowsUntouched DEF n
<1>9. ~(g.done + m + 1 <= g.done) /\ ~(g.done + m + 1 <= g.done + m)
  BY <1>1, <1>2
<1>10. Along(g, W, g.done + m + 1, n)
  BY <1>4, <1>6, <1>8, <1>9 DEF Along, m
<1>. QED
  BY <1>10 DEF n, w, m

LEMMA ArrayIsWritten ==
  ASSUME NEW g, GrowthOf(g), NEW W, WritesOf(g, W), NEW f, Along(g, W, g.done + Len(g.nchain) + 1, f),
         Len(W) = g.done + Len(g.nchain) + 2
  PROVE  Along(g, W, g.done + Len(g.nchain) + 2, SsmApply(f, W[g.done + Len(g.nchain) + 2]))
<1>. DEFINE m == Len(g.nchain)
            w == W[g.done + m + 2]
            n == SsmApply(f, w)
<1>1. g.done \in Nat /\ ArrayWrite(g, w)
  BY DEF WritesOf
<1>2. m \in Nat
  BY GrowthNumbers
<1>. HIDE DEF m, w
<1>3. w.bucket = <<>> /\ DOMAIN w.bucket = {} /\ w.hdr = <<>> /\ w.arr # <<>> /\ DOMAIN g.f0.arr.rec \subseteq DOMAIN w.arr[1].rec
  BY <1>1 DEF ArrayWrite
<1>4. /\ n = [bucket |-> n.bucket, hdr |-> n.hdr, arr |-> n.arr]
      /\ DOMAIN n.bucket = DOMAIN f.bucket
      /\ \A b \in DOMAIN f.bucket : n.bucket[b] = f.bucket[b]
      /\ n.hdr = f.hdr /\ n.arr = w.arr[1]
  <2>1. /\ n = [bucket |-> n.bucket, hdr |-> n.hdr, arr |-> n.arr]
        /\ DOMAIN n.bucket = DOMAIN f.bucket \cup DOMAIN w.bucket
        /\ \A b \in DOMAIN f.bucket : b \notin DOMAIN w.bucket => n.bucket[b] = f.bucket[b]
        /\ n.hdr = f.hdr /\ n.arr = w.arr[1]
    <3>1. Applied(f, w, n)
      BY AppliedBuckets
    <3>. HIDE DEF n
    <3>. QED
      BY <1>3, <3>1 DEF Applied
  <2>. HIDE DEF n
  <2>. QED
    BY <1>3, <2>1
<1>5. SameStrings(g.f0, n)
  <2>1. SameStrings(g.f0, f)
    BY DEF Along
  <2>. QED
    BY <1>3, <2>1, StringsStay
<1>. HIDE DEF n
<1>6. Along(g, W, g.done + m + 1, f)
  BY DEF m
<1>7. ~(g.done + m + 1 <= g.done) /\ ~(g.done + m + 1 <= g.done + m)
      /\ ~(g.done + m + 2 <= g.done) /\ ~(g.done + m + 2 <= g.done + m)
  BY <1>1, <1>2
<1>8. ChainDone(g, f)
  BY <1>6, <1>7 DEF Along, m
<1>9. ChainDone(g, n)
  BY <1>4, <1>8 DEF ChainDone
<1>10. \A j \in 1..g.done : j <= g.done + m + 1 /\ j <= g.done + m + 2
  BY <1>1, <1>2
<1>11. /\ DOMAIN f.bucket \subseteq 0..(NewEnd(g) - 1)
       /\ \A b \in Homes(g) : b \in DOMAIN f.bucket /\ WholeData(f.bucket[b]) /\ HoldsRows(g, b, f.bucket[b][2])
       /\ \A j \in 1..g.done : \A b \in DOMAIN W[j].bucket : b \in DOMAIN f.bucket /\ WholeData(f.bucket[b])
  BY <1>6, <1>10 DEF Along
<1>12. /\ DOMAIN n.bucket \subseteq 0..(NewEnd(g) - 1)
       /\ \A b \in Homes(g) : b \in DOMAIN n.bucket /\ WholeData(n.bucket[b]) /\ HoldsRows(g, b, n.bucket[b][2])
       /\ \A j \in 1..g.done : \A b \in DOMAIN W[j].bucket : b \in DOMAIN n.bucket /\ WholeData(n.bucket[b])
  BY <1>4, <1>11
<1>13. DOMAIN g.f0.arr.rec \subseteq DOMAIN n.arr.rec
  BY <1>3, <1>4
<1>14. Along(g, W, g.done + m + 2, n)
  BY <1>4, <1>5, <1>7, <1>9, <1>12, <1>13 DEF Along, m
<1>. QED
  BY <1>14 DEF n, w, m

LEMMA ChainIsThere ==
  ASSUME NEW g, GrowthOf(g), IdxCap \in Nat \ {0}
  PROVE  Len(g.nchain) >= 1
<1>. DEFINE s == IndexStream(g.nix)
            n == Len(g.nix.last)
<1>1. IndexSound(g.nix) /\ Len(g.nchain) = Len(Pieces(s, IdxCap))
  BY DEF GrowthOf, IndexGrows, NewPieces
<1>2. n \in Nat /\ s \in Seq(Nat) /\ Len(s) = 2 + 2 * n
  BY <1>1, StreamIs
<1>. HIDE DEF s, n
<1>3. Len(Pieces(s, IdxCap)) = Count(Len(s), IdxCap)
  BY <1>2, PiecesAre
<1>4. Len(s) \in Nat /\ Len(s) > 0
  BY <1>2
<1>. QED
  BY <1>1, <1>3, <1>4, CountHolds

(* Each write of a growth takes the files one step along.                  *)
LEMMA AlongSteps ==
  ASSUME NEW g, GrowthOf(g), IdxCap \in Nat \ {0}, NEW W, WritesOf(g, W),
         NEW s \in Nat, s < Len(W), NEW f, Along(g, W, s, f)
  PROVE  Along(g, W, s + 1, SsmApply(f, W[s + 1]))
<1>. DEFINE m == Len(g.nchain)
<1>1. g.done \in Nat /\ m \in Nat /\ m >= 1 /\ (Len(W) = g.done + m + 1 \/ Len(W) = g.done + m + 2)
  BY GrowthNumbers, ChainIsThere DEF WritesOf
<1>. HIDE DEF m
<1>2. CASE s < g.done
  BY <1>2, DataIsWritten
<1>3. CASE s >= g.done /\ s < g.done + m
  <2>. DEFINE t == s - g.done
  <2>1. t \in 0..(m - 1) /\ g.done + t = s
    BY <1>1, <1>3
  <2>. HIDE DEF t
  <2>2. t \in 0..(Len(g.nchain) - 1)
    BY <2>1 DEF m
  <2>3. Along(g, W, g.done + t, f)
    BY <2>1
  <2>4. Along(g, W, g.done + t + 1, SsmApply(f, W[g.done + t + 1]))
    BY <2>2, <2>3, PieceIsWritten
  <2>. QED
    BY <2>1, <2>4
<1>4. CASE s = g.done + m
  <2>1. Along(g, W, g.done + Len(g.nchain), f) /\ Len(g.nchain) >= 1
    BY <1>1, <1>4 DEF m
  <2>2. Along(g, W, g.done + Len(g.nchain) + 1, SsmApply(f, W[g.done + Len(g.nchain) + 1]))
    BY <2>1, HeaderIsWritten
  <2>. QED
    BY <1>4, <2>2 DEF m
<1>5. CASE s = g.done + m + 1
  <2>1. Len(W) = g.done + Len(g.nchain) + 2 /\ Along(g, W, g.done + Len(g.nchain) + 1, f)
    BY <1>1, <1>5 DEF m
  <2>2. Along(g, W, g.done + Len(g.nchain) + 2, SsmApply(f, W[g.done + Len(g.nchain) + 2]))
    BY <2>1, ArrayIsWritten
  <2>3. s + 1 = g.done + Len(g.nchain) + 2
    BY <1>1, <1>5 DEF m
  <2>. QED
    BY <2>2, <2>3
<1>. QED
  BY <1>1, <1>2, <1>3, <1>4, <1>5

(* With all of them made the files are whole.                              *)
LEMMA ArrivesSound ==
  ASSUME NEW g, GrowthOf(g), NEW W, WritesOf(g, W), NEW f, Along(g, W, Len(W), f)
  PROVE  SsmSound(f, g.nix, g.nchain)
<1>. DEFINE m == Len(g.nchain)
            h == NewHeader(g)
            s == Len(W)
<1>1. g.done \in Nat /\ m \in Nat /\ (s = g.done + m + 1 \/ s = g.done + m + 2)
  BY GrowthNumbers DEF WritesOf
<1>. HIDE DEF m
<1>2. ~(s <= g.done) /\ ~(s <= g.done + m) /\ \A j \in 1..g.done : j <= s
  BY <1>1
<1>. HIDE DEF s
<1>3. Along(g, W, s, f)
  BY DEF s
<1>4. ChainDone(g, f)
  BY <1>2, <1>3 DEF Along, m
<1>5. f = [hdr |-> f.hdr, bucket |-> f.bucket, arr |-> f.arr]
  BY <1>3 DEF Along
<1>6. f.hdr = h
  BY <1>4 DEF ChainDone
<1>7. {"big", "size", "nr", "nrIdx", "first", "idxLen"} \subseteq DOMAIN h /\ h.size \in Nat /\ h.nr = NewEnd(g)
  <2>1. {"big", "size", "nr", "nrIdx", "first", "idxLen"} \subseteq DOMAIN g.f0.hdr /\ g.f0.hdr.size \in Nat
    BY DEF GrowthOf, SsmSound
  <2>. QED
    BY <2>1 DEF NewHeader
<1>. HIDE DEF h
<1>8. NewEnd(g) \in Nat /\ DOMAIN f.bucket \subseteq 0..(NewEnd(g) - 1)
  BY <1>3, GrowthNumbers DEF Along
<1>9. IndexSound(g.nix)
  BY DEF GrowthOf, IndexGrows
<1>10. ChainSound(f, g.nix, g.nchain)
  BY <1>4, ChainWritten
<1>11. \A j, k \in DOMAIN g.nchain : g.nchain[j] = g.nchain[k] => j = k
  <2>1. DOMAIN g.nchain = 1..Len(g.nchain)
    BY DEF GrowthOf
  <2>. QED
    BY <2>1, GrowthNumbers
<1>12. \A b \in Homes(g) \cup Added(g) : b \in DOMAIN f.bucket /\ WholeData(f.bucket[b])
  <2>. TAKE b \in Homes(g) \cup Added(g)
  <2>1. CASE b \in Homes(g)
    BY <1>3, <2>1 DEF Along
  <2>2. CASE b \in Added(g)
    <3>1. PICK j \in 1..g.done : b \in DOMAIN W[j].bucket
      BY <2>2 DEF WritesOf
    <3>. QED
      BY <1>2, <1>3, <3>1 DEF Along
  <2>. QED
    BY <2>1, <2>2
<1>13. \A k \in DOMAIN g.nix.number : g.nix.number[k] \in Homes(g) \cup Added(g)
  <2>. DEFINE n == Len(g.ix.last)
              fr == g.fresh
              nr == g.f0.hdr.nr
              num == g.nix.number
              old == g.ix.number
  <2>1. /\ n \in Nat /\ fr \in Nat /\ nr \in Nat
        /\ DOMAIN old = 1..n /\ DOMAIN num = 1..(n + fr)
        /\ \A k \in 1..n : num[k] = old[k]
        /\ \A j \in 1..fr : num[n + j] = nr + j - 1
    <3>1. IndexSound(g.ix) /\ IndexSound(g.nix)
      BY DEF GrowthOf, SsmSound, IndexGrows
    <3>2. n \in Nat /\ DOMAIN old = 1..n
      BY <3>1 DEF IndexSound
    <3>3. /\ fr \in Nat /\ Len(num) = n + fr /\ num \in Seq(Nat)
          /\ \A k \in 1..n : num[k] = old[k]
          /\ \A j \in 1..fr : num[n + j] = nr + j - 1
      BY <3>1 DEF GrowthOf, IndexGrows, IndexSound
    <3>4. nr \in Nat
      BY GrowthNumbers
    <3>. HIDE DEF n, fr, nr, num, old
    <3>5. DOMAIN num = 1..(n + fr)
      BY <3>3
    <3>. QED
      BY <3>2, <3>3, <3>4, <3>5
  <2>2. Homes(g) = {old[k] : k \in DOMAIN old} /\ Added(g) = nr..(nr + fr - 1)
    BY DEF Homes, Added
  <2>. HIDE DEF n, fr, nr, num, old
  <2>3. \A k \in DOMAIN num : num[k] \in Homes(g) \cup Added(g)
    <3>. TAKE k \in DOMAIN num
    <3>1. k \in 1..(n + fr)
      BY <2>1
    <3>2. CASE k <= n
      <4>1. k \in 1..n
        BY <2>1, <3>1, <3>2
      <4>. QED
        BY <2>1, <2>2, <4>1
    <3>3. CASE k > n
      <4>1. k - n \in 1..fr /\ n + (k - n) = k
        BY <2>1, <3>1, <3>3
      <4>2. num[n + (k - n)] = nr + (k - n) - 1
        BY <2>1, <4>1
      <4>3. num[k] = nr + (k - n) - 1
        BY <4>1, <4>2
      <4>. QED
        BY <2>1, <2>2, <4>1, <4>3
    <3>. QED
      BY <2>1, <3>1, <3>2, <3>3
  <2>. QED
    BY <2>3 DEF num
<1>14. \A k \in DOMAIN g.nix.number :
         /\ g.nix.number[k] \in DOMAIN f.bucket
         /\ f.bucket[g.nix.number[k]][1] = "data" /\ IsWhole(f.bucket[g.nix.number[k]][2])
  BY <1>12, <1>13 DEF WholeData
<1>. QED
  BY <1>5, <1>6, <1>7, <1>8, <1>9, <1>10, <1>11, <1>14 DEF SsmSound

(* Opened on the way, they show the old index, the new one, or none.       *)
LEMMA IndexAlong ==
  ASSUME NEW g, GrowthOf(g), IdxCap \in Nat \ {0}, NEW W, WritesOf(g, W), NEW s \in 0..Len(W), NEW f, Along(g, W, s, f)
  PROVE  ReadIndex(f) \in {Found(g.ix), Found(g.nix), Broken}
<1>. DEFINE m == Len(g.nchain)
<1>1. g.done \in Nat /\ m \in Nat
  BY GrowthNumbers DEF WritesOf
<1>2. s \in Nat
  <2>1. Len(W) = g.done + m + 1 \/ Len(W) = g.done + m + 2
    BY DEF WritesOf
  <2>. QED
    BY <1>1, <2>1
<1>. HIDE DEF m
<1>3. CASE s <= g.done
  <2>1. ChainAt(g, 0, f) /\ 0 \in 0..Len(g.nchain)
    BY <1>1, <1>3 DEF Along, m
  <2>. QED
    BY <2>1, IndexOnTheWay
<1>4. CASE ~(s <= g.done) /\ s <= g.done + m
  <2>. DEFINE t == s - g.done
  <2>1. ChainAt(g, t, f)
    BY <1>4 DEF Along, m
  <2>2. t \in 0..m
    BY <1>1, <1>2, <1>4
  <2>. HIDE DEF t
  <2>3. t \in 0..Len(g.nchain)
    BY <2>2 DEF m
  <2>. QED
    BY <2>1, <2>3, IndexOnTheWay
<1>5. CASE ~(s <= g.done) /\ ~(s <= g.done + m)
  <2>1. ChainDone(g, f)
    BY <1>5 DEF Along, m
  <2>2. ChainSound(f, g.nix, g.nchain) /\ IndexSound(g.nix)
    BY <2>1, ChainWritten DEF GrowthOf, IndexGrows
  <2>. QED
    BY <2>2, IndexReadsBack
<1>. QED
  BY <1>3, <1>4, <1>5

(* What is read of a cell, where the strings are the same and no array     *)
(* record is gone.                                                         *)
LEMMA ReadsOn ==
  ASSUME NEW f, NEW n, SameStrings(f, n), DOMAIN f.arr.rec \subseteq DOMAIN n.arr.rec,
         NEW h, NEW zero, NEW c, NEW cell, Decoded(f, h, zero, c, cell) # Broken
  PROVE  Decoded(n, h, zero, c, cell) # Broken
<1>1. cell # Broken
  BY DEF Decoded
<1>2. CASE SsmKinds[c] \in Arrays
  <2>1. ReadArray(f, h, cell) # Broken
    BY <1>1, <1>2 DEF Decoded
  <2>2. CASE cell = Unset
    BY <1>1, <1>2, <2>2 DEF Decoded, ReadArray, Found, Broken, Unset
  <2>3. CASE cell # Unset /\ cell[1] = "record"
    <3>1. ReadArray(f, h, cell) = ReadRecord(f, h, cell[2]) /\ ReadArray(n, h, cell) = ReadRecord(n, h, cell[2])
      BY <2>3 DEF ReadArray
    <3>2. cell[2] < h.arrEnd /\ cell[2] \in DOMAIN f.arr.rec
      BY <2>1, <3>1 DEF ReadRecord
    <3>3. ReadRecord(n, h, cell[2]) = Found(n.arr.rec[cell[2]].value)
      BY <3>2 DEF ReadRecord
    <3>4. Found(n.arr.rec[cell[2]].value) # Broken
      BY DEF Found, Broken
    <3>. QED
      BY <1>1, <1>2, <3>1, <3>3, <3>4 DEF Decoded
  <2>4. CASE cell # Unset /\ cell[1] # "record"
    BY <2>1, <2>4 DEF ReadArray
  <2>. QED
    BY <2>2, <2>3, <2>4
<1>3. CASE SsmKinds[c] \notin Arrays
  <2>1. ReadString(f, cell[2], cell[3], cell[4]) = ReadString(n, cell[2], cell[3], cell[4])
    BY ReadsTheSame
  <2>2. ReadScalar(f, c, zero, cell) = ReadScalar(n, c, zero, cell)
    BY <2>1 DEF ReadScalar
  <2>. QED
    BY <1>1, <1>3, <2>2 DEF Decoded
<1>. QED
  BY <1>2, <1>3

(* An index finds the first rows where the other does.                     *)
Follows(hix, ix, n) == \A row \in 0..(n - 1) : FindBucket(hix, row) = FindBucket(ix, row)

LEMMA CellsAlong ==
  ASSUME NEW g, GrowthOf(g), \A c \in SsmCols : g.spec.offset[c] \in Nat, NEW W, NEW s, NEW f, Along(g, W, s, f),
         NEW h, NEW n \in 0..g.old, Follows(h.index, g.ix, n), NEW row \in 0..(n - 1), NEW c \in SsmCols,
         StoredCell(g.f0, h, g.spec, c, row) # Broken
  PROVE  StoredCell(f, h, g.spec, c, row) = StoredCell(g.f0, h, g.spec, c, row)
<1>. DEFINE b == FindBucket(g.ix, row)
            o == g.spec.offset[c]
            i == o + row - b.start + 1
            was == g.f0.bucket[b.number]
            now == f.bucket[b.number]
<1>0. g.old \in Nat /\ row \in 0..(g.old - 1) /\ row \in Nat
  BY DEF GrowthOf
<1>1. FindBucket(h.index, row) = b
  BY DEF Follows
<1>2. b.k \in 1..Len(g.ix.last) /\ b.number = g.ix.number[b.k] /\ b.start \in 0..row
  <2>1. /\ IndexSound(g.ix) /\ Rows(g.ix) = g.old
        /\ IndexGrows(g.ix, g.nix, g.old, g.f0.hdr.nr, g.fresh)
    BY DEF GrowthOf, SsmSound
  <2>. QED
    BY <1>0, <2>1, RowsStay
<1>3. b.number \in Homes(g)
  <2>1. g.ix.number \in Seq(Nat) /\ Len(g.ix.number) = Len(g.ix.last)
    BY DEF GrowthOf, SsmSound, IndexSound
  <2>2. b.k \in DOMAIN g.ix.number
    BY <1>2, <2>1
  <2>. QED
    BY <1>2, <2>2 DEF Homes
<1>4. b.number \in DOMAIN g.f0.bucket /\ WholeData(was)
  BY <1>3, GrowthNumbers
<1>5. b.number \in DOMAIN f.bucket /\ WholeData(now) /\ HoldsRows(g, b.number, now[2])
  BY <1>3 DEF Along
<1>6. StoredCell(g.f0, h, g.spec, c, row) = CellAt(g.f0, b, i) /\ StoredCell(f, h, g.spec, c, row) = CellAt(f, b, i)
  BY <1>1 DEF StoredCell, CellIn
<1>7. i \in Nat /\ i >= 1
  <2>1. o \in Nat
    OBVIOUS
  <2>. DEFINE st == b.start
  <2>2. st \in 0..row
    BY <1>2
  <2>. HIDE DEF o, st
  <2>3. o + row - st + 1 \in Nat /\ o + row - st + 1 >= 1
    BY <1>0, <2>1, <2>2
  <2>. QED
    BY <2>3 DEF st
<1>8. ~(i > Len(was[2])) /\ b.k # 0
  BY <1>6 DEF CellAt
<1>9. DOMAIN now[2] = DOMAIN was[2] /\ (i \in DOMAIN now[2] => now[2][i] = was[2][i])
  BY <1>0, <1>5 DEF HoldsRows
<1>. HIDE DEF b, i
<1>10. i \in DOMAIN was[2] /\ DOMAIN now[2] = 1..Len(now[2]) /\ Len(now[2]) \in Nat
  BY <1>4, <1>5, <1>7, <1>8 DEF WholeData, IsWhole
<1>11. ~(i > Len(now[2])) /\ now[2][i] = was[2][i]
  <2>1. i \in 1..Len(now[2])
    BY <1>9, <1>10
  <2>. QED
    BY <1>9, <1>10, <2>1
<1>12. CellAt(f, b, i) = now[2][i] /\ CellAt(g.f0, b, i) = was[2][i]
  BY <1>4, <1>5, <1>8, <1>11 DEF CellAt, WholeData
<1>. QED
  BY <1>6, <1>11, <1>12

(* A read handle goes on reading what it could.                            *)
LEMMA ReadsAlong ==
  ASSUME NEW g, GrowthOf(g), \A c \in SsmCols : g.spec.offset[c] \in Nat, NEW W, NEW s, NEW f, Along(g, W, s, f),
         NEW h, NEW n \in 0..g.old, Follows(h.index, g.ix, n), NEW row \in 0..(n - 1), NEW c \in SsmCols, NEW zero,
         SsmRead(g.f0, h, g.spec, zero, c, row) # Broken
  PROVE  SsmRead(f, h, g.spec, zero, c, row) # Broken
<1>1. StoredCell(g.f0, h, g.spec, c, row) # Broken
  BY DEF SsmRead, Decoded
<1>2. StoredCell(f, h, g.spec, c, row) = StoredCell(g.f0, h, g.spec, c, row)
  BY <1>1, CellsAlong
<1>3. SameStrings(g.f0, f) /\ DOMAIN g.f0.arr.rec \subseteq DOMAIN f.arr.rec
  BY DEF Along
<1>. QED
  BY <1>2, <1>3, ReadsOn DEF SsmRead

-----------------------------------------------------------------------------
(* The writes of a growth.                                                 *)

(* The cells of a bucket of which those of some rows are written.          *)
LeavesCells(was, now, spec, rows) ==
  /\ DOMAIN now = DOMAIN was /\ now = [i \in DOMAIN was |-> now[i]]
  /\ \A i \in DOMAIN was : (\A d \in SsmCols : i - 1 - spec.offset[d] \notin rows) => now[i] = was[i]

(* The parts of a growth.                                                  *)
GrowParts(f, h, spec, old, new, plan, writes, top, fresh, array) ==
  LET b == Last(h.index.number)
  IN  /\ writes = (IF plan.topUp THEN <<Buckets(top)>> ELSE <<>>)
                    \o (IF plan.fresh > 0 THEN <<Buckets(fresh)>> ELSE <<>>)
                    \o WriteIndex(f, IndexStream(plan.index), f.hdr.nr + plan.fresh)
                    \o array
      /\ DOMAIN top = {b} /\ top[b][1] = "data"
      /\ LeavesCells(f.bucket[b][2], top[b][2], spec, (old - plan.start)..(plan.end - 1 - plan.start))
      /\ DOMAIN fresh = plan.next..(plan.next + plan.fresh - 1)
      /\ \A n \in DOMAIN fresh : fresh[n][1] = "data" /\ fresh[n][2] = [i \in 1..f.hdr.size |-> fresh[n][2][i]]
      /\ array = <<>> \/ \E a : array = <<ArrayFile(a)>> /\ DOMAIN f.arr.rec \subseteq DOMAIN a.rec

LEMMA GrowsByParts ==
  ASSUME NEW f, NEW h, NEW spec, NEW zero, NEW old, NEW new, NEW plan
  PROVE  \E top, fresh, array : GrowParts(f, h, spec, old, new, plan, GrowBy(f, h, spec, zero, old, new, plan), top, fresh, array)
<1>. DEFINE rpb    == h.index.rpb
            shaped == {c \in SsmCols : SsmKinds[c] = "shaped"}
            record(c, row) == f.arr.end + (row - old) * Cardinality(shaped)
                          + Cardinality({k \in shaped : k < c})
            cell(c, row) == IF SsmKinds[c] # "shaped" THEN DefaultCell(c, zero)
                      ELSE IF row < new THEN <<"record", record(c, row)>> ELSE Unset
            recs   == f.arr.end..(f.arr.end + (new - old) * Cardinality(shaped) - 1)
            top    == [b \in {Last(h.index.number)} |->
                   DataBucket(WithDefaults(f.bucket[b][2], spec, (old - plan.start)..(plan.end - 1 - plan.start),
                                LAMBDA c, r : cell(c, plan.start + r)))]
            fresh  == [b \in plan.next..(plan.next + plan.fresh - 1) |->
                   DataBucket(WithDefaults([i \in 1..f.hdr.size |-> Unset], spec, 0..(rpb - 1),
                                LAMBDA c, r : cell(c, plan.from + (b - plan.next) * rpb + r)))]
            array  == [end |-> f.arr.end + Cardinality(recs), counted |-> f.arr.counted,
                 rec |-> [o \in DOMAIN f.arr.rec \cup recs |->
                            IF o \in recs THEN [refs |-> 1, value |-> Shaped(zero)] ELSE f.arr.rec[o]]]
            last == IF recs # {} THEN <<ArrayFile(array)>> ELSE <<>>
            b == Last(h.index.number)
<1>1. GrowBy(f, h, spec, zero, old, new, plan) =
        (IF plan.topUp THEN <<Buckets(top)>> ELSE <<>>)
        \o (IF plan.fresh > 0 THEN <<Buckets(fresh)>> ELSE <<>>)
        \o WriteIndex(f, IndexStream(plan.index), f.hdr.nr + plan.fresh)
        \o last
  BY DEF GrowBy
<1>2. DOMAIN top = {b} /\ top[b][1] = "data"
  BY DEF DataBucket
<1>3. LeavesCells(f.bucket[b][2], top[b][2], spec, (old - plan.start)..(plan.end - 1 - plan.start))
  <2>1. top[b][2] = WithDefaults(f.bucket[b][2], spec, (old - plan.start)..(plan.end - 1 - plan.start),
                                 LAMBDA c, r : cell(c, plan.start + r))
    <3>. HIDE DEF cell
    <3>. QED
      BY DEF DataBucket
  <2>. HIDE DEF top, cell
  <2>. QED
    BY <2>1 DEF WithDefaults, LeavesCells
<1>4. DOMAIN fresh = plan.next..(plan.next + plan.fresh - 1)
  OBVIOUS
<1>5. \A n \in DOMAIN fresh : fresh[n][1] = "data" /\ fresh[n][2] = [i \in 1..f.hdr.size |-> fresh[n][2][i]]
  <2>. HIDE DEF cell
  <2>. QED
    BY DEF DataBucket, WithDefaults
<1>6. last = <<>> \/ \E a : last = <<ArrayFile(a)>> /\ DOMAIN f.arr.rec \subseteq DOMAIN a.rec
  <2>1. DOMAIN f.arr.rec \subseteq DOMAIN array.rec
    BY Zenon
  <2>. HIDE DEF array, recs
  <2>. QED
    BY <2>1
<1>. HIDE DEF top, fresh, last
<1>7. GrowParts(f, h, spec, old, new, plan, GrowBy(f, h, spec, zero, old, new, plan), top, fresh, last)
  <2>. HIDE DEF b, cell, record, recs, array, shaped, rpb
  <2>. QED
    BY <1>1, <1>2, <1>3, <1>4, <1>5, <1>6 DEF GrowParts, b
<1>. QED
  BY <1>7

FourParts(w, a, b, c, d) ==
  /\ Len(w) = Len(a) + Len(b) + Len(c) + Len(d)
  /\ \A k \in 1..Len(a) : w[k] = a[k]
  /\ \A k \in 1..Len(b) : w[Len(a) + k] = b[k]
  /\ \A k \in 1..Len(c) : w[Len(a) + Len(b) + k] = c[k]
  /\ \A k \in 1..Len(d) : w[Len(a) + Len(b) + Len(c) + k] = d[k]

LEMMA FourJoined ==
  ASSUME NEW S, NEW a \in Seq(S), NEW b \in Seq(S), NEW c \in Seq(S), NEW d \in Seq(S)
  PROVE  a \o b \o c \o d \in Seq(S) /\ FourParts(a \o b \o c \o d, a, b, c, d)
<1>. DEFINE u == a \o b
            v == u \o c
            w == v \o d
<1>1. Len(a) \in Nat /\ Len(b) \in Nat /\ Len(c) \in Nat /\ Len(d) \in Nat
  OBVIOUS
<1>2. /\ u \in Seq(S) /\ Len(u) = Len(a) + Len(b)
      /\ \A k \in 1..Len(a) : u[k] = a[k]
      /\ \A k \in 1..Len(b) : u[Len(a) + k] = b[k]
  BY Joined
<1>2a. u \in Seq(S)
  BY <1>2
<1>. HIDE DEF u
<1>3. /\ v \in Seq(S) /\ Len(v) = Len(u) + Len(c)
      /\ \A k \in 1..Len(u) : v[k] = u[k]
      /\ \A k \in 1..Len(c) : v[Len(u) + k] = c[k]
  BY <1>2a, Joined
<1>3a. v \in Seq(S)
  BY <1>3
<1>. HIDE DEF v
<1>4. /\ w \in Seq(S) /\ Len(w) = Len(v) + Len(d)
      /\ \A k \in 1..Len(v) : w[k] = v[k]
      /\ \A k \in 1..Len(d) : w[Len(v) + k] = d[k]
  BY <1>3a, Joined
<1>. HIDE DEF w
<1>5. \A k \in 1..Len(a) : w[k] = a[k]
  <2>. TAKE k \in 1..Len(a)
  <2>1. k \in 1..Len(u) /\ k \in 1..Len(v)
    BY <1>1, <1>2, <1>3
  <2>. QED
    BY <1>2, <1>3, <1>4, <2>1
<1>6. \A k \in 1..Len(b) : w[Len(a) + k] = b[k]
  <2>. TAKE k \in 1..Len(b)
  <2>1. Len(a) + k \in 1..Len(u) /\ Len(a) + k \in 1..Len(v)
    BY <1>1, <1>2, <1>3
  <2>. QED
    BY <1>2, <1>3, <1>4, <2>1
<1>7. \A k \in 1..Len(c) : w[Len(a) + Len(b) + k] = c[k]
  <2>. TAKE k \in 1..Len(c)
  <2>1. Len(u) + k \in 1..Len(v) /\ v[Len(u) + k] = c[k]
    BY <1>1, <1>2, <1>3
  <2>2. w[Len(u) + k] = c[k]
    BY <1>4, <2>1
  <2>. QED
    BY <1>2, <2>2
<1>8. \A k \in 1..Len(d) : w[Len(a) + Len(b) + Len(c) + k] = d[k]
  BY <1>1, <1>2, <1>3, <1>4
<1>. QED
  BY <1>1, <1>2, <1>3, <1>4, <1>5, <1>6, <1>7, <1>8 DEF w, v, u, FourParts

(* A chain is extended by buckets at the end of the file.                  *)
Prolongs(d, chain, m, next) ==
  /\ d \in Seq(Nat) /\ Len(d) = m
  /\ \A k \in 1..m : d[k] = IF k <= Len(chain) THEN chain[k] ELSE next + k - Len(chain) - 1

LEMMA ChainIsExtended ==
  ASSUME NEW chain \in Seq(Nat), NEW m \in Nat, Len(chain) <= m, NEW next \in Nat
  PROVE  Prolongs(SubSeq(chain \o [j \in 1..m |-> next + j - 1], 1, m), chain, m, next)
<1>. DEFINE e == [j \in 1..m |-> next + j - 1]
            u == chain \o e
            d == SubSeq(u, 1, m)
            l == Len(chain)
<1>1. e \in [1..m -> Nat] /\ \A j \in 1..m : e[j] = next + j - 1
  OBVIOUS
<1>. HIDE DEF e
<1>2. e \in Seq(Nat) /\ Len(e) = m
  BY <1>1, FunctionIsSequence
<1>3. /\ u \in Seq(Nat) /\ Len(u) = l + m
      /\ \A k \in 1..l : u[k] = chain[k]
      /\ \A k \in 1..m : u[l + k] = e[k]
  <2>1. /\ u \in Seq(Nat) /\ Len(u) = Len(chain) + Len(e)
        /\ \A k \in 1..Len(chain) : u[k] = chain[k]
        /\ \A k \in 1..Len(e) : u[Len(chain) + k] = e[k]
    <3>1. e \in Seq(Nat)
      BY <1>2
    <3>. QED
      BY <3>1, Joined
  <2>. QED
    BY <1>2, <2>1
<1>4. l \in Nat /\ l <= m
  OBVIOUS
<1>. HIDE DEF u, l
<1>5. /\ SubSeq(u, 0 + 1, m) \in Seq(Nat) /\ Len(SubSeq(u, 0 + 1, m)) = m - 0
      /\ \A k \in 1..(m - 0) : SubSeq(u, 0 + 1, m)[k] = u[0 + k]
  <2>1. 0 \in 0..Len(u) /\ m \in 0..Len(u)
    BY <1>3, <1>4
  <2>. QED
    BY <1>3, <2>1, Taking
<1>6. d \in Seq(Nat) /\ Len(d) = m /\ \A k \in 1..m : d[k] = u[k]
  BY <1>5
<1>. HIDE DEF d
<1>7. ASSUME NEW k \in 1..m PROVE d[k] = IF k <= l THEN chain[k] ELSE next + k - l - 1
  <2>1. CASE k <= l
    <3>1. k \in 1..l
      BY <1>4, <2>1
    <3>. QED
      BY <1>3, <1>6, <2>1, <3>1
  <2>2. CASE ~(k <= l)
    <3>1. k - l \in 1..m /\ l + (k - l) = k
      BY <1>4, <2>2
    <3>2. u[l + (k - l)] = e[k - l]
      BY <1>3, <3>1
    <3>3. e[k - l] = next + (k - l) - 1
      BY <1>1, <3>1
    <3>4. d[k] = next + (k - l) - 1
      BY <1>6, <3>1, <3>2, <3>3
    <3>. QED
      BY <1>4, <2>2, <3>4
  <2>. QED
    BY <2>1, <2>2
<1>8. Prolongs(d, chain, m, next)
  BY <1>6, <1>7 DEF l, Prolongs
<1>. QED
  BY <1>8 DEF d, u, e

(* The writes of the index.                                                *)
LEMMA IndexWrites ==
  ASSUME NEW g, GrowthOf(g), IdxCap \in Nat \ {0}, g.f0.hdr.nr \in Nat, g.fresh \in Nat,
         g.nchain = SubSeq(g.chain \o [j \in 1..Len(NewPieces(g)) |-> g.f0.hdr.nr + g.fresh + j - 1], 1, Len(NewPieces(g)))
  PROVE  LET m == Len(g.nchain)
             w == WriteIndex(g.f0, IndexStream(g.nix), g.f0.hdr.nr + g.fresh)
         IN  /\ w \in Seq({w[k] : k \in 1..(m + 1)}) /\ Len(w) = m + 1
             /\ \A k \in 1..m : w[k] = Buckets([b \in {g.nchain[k]} |-> NewBucket(g, k)])
             /\ w[m + 1] = Header(NewHeader(g))
<1>. DEFINE m == Len(g.nchain)
            next == g.f0.hdr.nr + g.fresh
            d == g.nchain
            s == IndexStream(g.nix)
            pieces == NewPieces(g)
            link(k) == IF k < Len(d) THEN d[k + 1] ELSE -1
            p == [k \in DOMAIN pieces |-> Buckets([b \in {d[k]} |-> IndexBucket(link(k), pieces[k])])]
            h == Header(NewHeader(g))
            w == WriteIndex(g.f0, s, next)
<1>1. m \in Nat /\ Len(g.chain) \in Nat /\ Len(g.chain) <= m /\ next \in Nat
  <2>1. m \in Nat /\ Len(g.chain) \in Nat /\ Len(g.chain) <= m
    BY GrowthNumbers
  <2>. QED
    BY <2>1
<1>2. IndexChain(g.f0) = g.chain
  <2>1. IndexSound(g.ix) /\ ChainSound(g.f0, g.ix, g.chain)
    BY DEF GrowthOf, SsmSound
  <2>. QED
    BY <2>1, IndexReadsBack
<1>3. DOMAIN pieces = 1..m /\ Len(pieces) = m
  <2>1. IndexSound(g.nix) /\ Len(pieces) = m
    BY DEF GrowthOf, IndexGrows
  <2>2. s \in Seq(Nat)
    BY <2>1, StreamIs
  <2>. HIDE DEF s
  <2>3. Pieces(s, IdxCap) \in Seq(Seq(Nat))
    BY <2>2, PiecesAre
  <2>4. pieces \in Seq(Seq(Nat))
    BY <2>3 DEF NewPieces, s
  <2>. HIDE DEF pieces, m
  <2>. QED
    BY <2>1, <2>4
<1>4. Max({0, m - Len(g.chain)}) = m - Len(g.chain)
  <2>. DEFINE l == m - Len(g.chain)
  <2>1. l \in Int /\ l >= 0
    BY <1>1
  <2>. HIDE DEF l
  <2>2. Max({0, l}) = l
    BY <2>1, MaxOfPair
  <2>. QED
    BY <2>2 DEF l
<1>5. next + Max({0, Len(pieces) - Len(g.chain)}) = NewEnd(g)
  <2>1. Len(pieces) - Len(g.chain) = m - Len(g.chain)
    BY <1>3
  <2>2. NewEnd(g) = g.f0.hdr.nr + g.fresh + m - Len(g.chain)
    BY DEF NewEnd
  <2>. QED
    BY <1>1, <1>4, <2>1, <2>2
<1>6. w = p \o <<h>>
  <2>1. w = ChainWrites(g.f0.hdr, s, Pieces(s, IdxCap),
               SubSeq(g.chain \o [j \in 1..Len(Pieces(s, IdxCap)) |-> next + j - 1], 1, Len(Pieces(s, IdxCap))),
               next + Max({0, Len(Pieces(s, IdxCap)) - Len(g.chain)}))
    BY <1>2 DEF WriteIndex, OverChain
  <2>2. w = ChainWrites(g.f0.hdr, s, pieces, d, NewEnd(g))
    <3>1. pieces = Pieces(s, IdxCap)
      BY DEF NewPieces
    <3>2. d = SubSeq(g.chain \o [j \in 1..Len(pieces) |-> next + j - 1], 1, Len(pieces))
      OBVIOUS
    <3>. HIDE DEF pieces, d, s, next, w
    <3>. QED
      BY <1>5, <2>1, <3>1, <3>2
  <2>3. Header([g.f0.hdr EXCEPT !.nr = NewEnd(g), !.nrIdx = Len(pieces), !.first = d[1], !.idxLen = Len(s)]) = h
    BY <1>3 DEF NewHeader
  <2>. HIDE DEF w, h, pieces, d, s
  <2>. QED
    BY <2>2, <2>3 DEF ChainWrites
<1>7. \A k \in 1..m : p[k] = Buckets([b \in {d[k]} |-> NewBucket(g, k)])
  <2>1. \A k \in 1..m : NewBucket(g, k) = IndexBucket(link(k), pieces[k])
    BY DEF NewBucket
  <2>. HIDE DEF pieces, d
  <2>. QED
    BY <1>3, <2>1
<1>. DEFINE S == {p[k] : k \in 1..m} \cup {h}
<1>8. p \in Seq(S) /\ Len(p) = m
  <2>1. p \in [1..m -> S]
    <3>1. DOMAIN p = 1..m
      BY <1>3
    <3>2. p = [k \in 1..m |-> p[k]]
      BY <1>3
    <3>. HIDE DEF p, m
    <3>. QED
      BY <3>2
  <2>. HIDE DEF p, S, m
  <2>. QED
    BY <1>1, <2>1, FunctionIsSequence
<1>9. <<h>> \in Seq(S) /\ Len(<<h>>) = 1 /\ <<h>>[1] = h
  OBVIOUS
<1>. HIDE DEF p, S, h, w, m
<1>10. /\ w \in Seq(S) /\ Len(w) = m + 1
       /\ \A k \in 1..m : w[k] = p[k]
       /\ w[m + 1] = h
  <2>. DEFINE q == <<h>>
  <2>1. q \in Seq(S) /\ Len(q) = 1 /\ q[1] = h
    BY <1>9
  <2>2. w = p \o q
    BY <1>6
  <2>. HIDE DEF q
  <2>3. /\ p \o q \in Seq(S) /\ Len(p \o q) = Len(p) + Len(q)
        /\ \A k \in 1..Len(p) : (p \o q)[k] = p[k]
        /\ \A k \in 1..Len(q) : (p \o q)[Len(p) + k] = q[k]
    <3>1. p \in Seq(S) /\ q \in Seq(S)
      BY <1>8, <2>1
    <3>. QED
      BY <3>1, Joined
  <2>4. 1 \in 1..Len(q)
    BY <2>1
  <2>5. (p \o q)[Len(p) + 1] = q[1]
    BY <2>3, <2>4
  <2>. QED
    BY <1>8, <2>1, <2>2, <2>3, <2>5
<1>11. w \in Seq({w[k] : k \in 1..(m + 1)})
  <2>1. DOMAIN w = 1..(m + 1) /\ w = [k \in 1..(m + 1) |-> w[k]]
    BY <1>1, <1>10
  <2>. DEFINE T == {w[k] : k \in 1..(m + 1)}
              n == m + 1
  <2>2. w \in [1..n -> T] /\ n \in Nat
    BY <1>1, <2>1
  <2>. HIDE DEF T, n
  <2>3. w \in Seq(T)
    BY <2>2, FunctionIsSequence
  <2>. QED
    BY <2>3 DEF T, n
<1>. QED
  BY <1>7, <1>10, <1>11 DEF w, h, m

(* The rows a bucket is topped up with lie apart from those it holds.      *)
LEMMA BesideTheRows ==
  ASSUME NEW oc \in Nat, NEW od \in Nat, NEW rpb \in Nat, NEW start \in Nat, NEW old \in Nat, NEW end \in Nat,
         NEW row \in start..(old - 1), old - start < rpb, end <= start + rpb,
         oc = od \/ oc + rpb <= od \/ od + rpb <= oc
  PROVE  (oc + row - start + 1) - 1 - od \notin (old - start)..(end - 1 - start)
<1>. DEFINE r == row - start
            x == (oc + row - start + 1) - 1 - od
<1>1. r \in Nat /\ r < old - start /\ r < rpb /\ x \in Int /\ x = oc + r - od
  OBVIOUS
<1>2. end - 1 - start < rpb /\ old - start > 0
  OBVIOUS
<1>. HIDE DEF r, x
<1>3. CASE oc = od
  <2>1. x = r
    BY <1>1, <1>3
  <2>. QED
    BY <1>1, <2>1 DEF x
<1>4. CASE oc + rpb <= od
  <2>1. x < 0
    BY <1>1, <1>4
  <2>. QED
    BY <1>2, <2>1 DEF x
<1>5. CASE od + rpb <= oc
  <2>1. x >= rpb
    BY <1>1, <1>5
  <2>. QED
    BY <1>1, <1>2, <2>1 DEF x
<1>. QED
  BY <1>3, <1>4, <1>5

(* The bucket that is topped up keeps the rows it holds.                   *)
TopsUp(g, start, end) ==
  /\ Apart(g.spec, g.ix.rpb)
  /\ Len(g.ix.last) > 0 /\ start \in Nat /\ end \in Nat
  /\ g.old - start < g.ix.rpb /\ end <= start + g.ix.rpb
  /\ start = IF Len(g.ix.last) >= 2 THEN g.ix.last[Len(g.ix.last) - 1] + 1 ELSE 0

LEMMA LastIsHome ==
  ASSUME NEW g, GrowthOf(g), Len(g.ix.last) > 0
  PROVE  /\ Len(g.ix.last) \in DOMAIN g.ix.number
         /\ Last(g.ix.number) = g.ix.number[Len(g.ix.last)] /\ Last(g.ix.number) \in Homes(g)
         /\ g.f0.bucket[Last(g.ix.number)][1] = "data" /\ IsWhole(g.f0.bucket[Last(g.ix.number)][2])
<1>1. SsmSound(g.f0, g.ix, g.chain)
  BY DEF GrowthOf
<1>2. /\ g.ix.number \in Seq(Nat) /\ g.ix.last \in Seq(Nat) /\ Len(g.ix.last) = Len(g.ix.number)
      /\ \A k \in DOMAIN g.ix.number : g.f0.bucket[g.ix.number[k]][1] = "data" /\ IsWhole(g.f0.bucket[g.ix.number[k]][2])
  BY <1>1 DEF SsmSound, IndexSound
<1>3. Len(g.ix.last) \in DOMAIN g.ix.number
  BY <1>2
<1>4. Last(g.ix.number) = g.ix.number[Len(g.ix.last)]
  BY <1>2 DEF Last
<1>. QED
  BY <1>2, <1>3, <1>4 DEF Homes

LEMMA TopHolds ==
  ASSUME NEW g, GrowthOf(g), NEW start, NEW end, TopsUp(g, start, end), NEW cells,
         LeavesCells(g.f0.bucket[Last(g.ix.number)][2], cells, g.spec, (g.old - start)..(end - 1 - start))
  PROVE  HoldsRows(g, Last(g.ix.number), cells)
<1>. DEFINE b == Last(g.ix.number)
            was == g.f0.bucket[b][2]
            used == Len(g.ix.last)
            rpb == g.ix.rpb
            ix == g.ix
            num == ix.number
            off == g.spec.offset
            top == (g.old - start)..(end - 1 - start)
<1>0. Len(g.ix.last) > 0
  BY DEF TopsUp
<1>1. used \in DOMAIN num /\ b = num[used]
  BY <1>0, LastIsHome
<1>2. IndexSound(ix) /\ Rows(ix) = g.old /\ g.old \in Nat /\ IndexGrows(ix, g.nix, g.old, g.f0.hdr.nr, g.fresh)
  BY DEF GrowthOf, SsmSound
<1>3. /\ rpb \in Nat /\ used \in Nat /\ DOMAIN num = 1..used
      /\ \A j, k \in DOMAIN num : num[j] = num[k] => j = k
  BY <1>2 DEF IndexSound
<1>4. /\ \A c \in SsmCols : off[c] \in Nat
      /\ \A c, d \in SsmCols : c # d => off[c] + rpb <= off[d] \/ off[d] + rpb <= off[c]
  BY DEF TopsUp, Apart
<1>5. /\ start \in Nat /\ end \in Nat /\ g.old - start < rpb /\ end <= start + rpb /\ used > 0
      /\ start = IF used >= 2 THEN ix.last[used - 1] + 1 ELSE 0
  BY DEF TopsUp
<1>6. DOMAIN cells = DOMAIN was /\ \A i \in DOMAIN was : (\A d \in SsmCols : i - 1 - off[d] \notin top) => cells[i] = was[i]
  BY DEF LeavesCells
<1>7. ASSUME NEW c \in SsmCols, NEW row \in 0..(g.old - 1), FindBucket(ix, row).number = b
      PROVE  FindBucket(ix, row).start = start /\ row \in start..(g.old - 1)
  <2>. DEFINE at == FindBucket(ix, row)
  <2>1. /\ at.k \in 1..used /\ at.number = num[at.k]
        /\ at.start \in 0..row /\ at.start = IF at.k = 1 THEN 0 ELSE ix.last[at.k - 1] + 1
    BY <1>2, RowsStay
  <2>. HIDE DEF at
  <2>2. at.k = used
    <3>1. num[at.k] = num[used]
      BY <1>1, <1>7, <2>1 DEF at
    <3>. HIDE DEF num, used
    <3>. QED
      BY <1>1, <1>3, <2>1, <3>1
  <2>3. used = 1 \/ used >= 2
    <3>. HIDE DEF used
    <3>. QED
      BY <1>3, <1>5
  <2>4. at.start = start
    <3>. HIDE DEF used
    <3>. QED
      BY <1>3, <1>5, <2>1, <2>2, <2>3
  <2>5. at.start \in 0..row /\ row \in 0..(g.old - 1) /\ g.old \in Nat
    BY <1>2, <2>1
  <2>6. at.start = start /\ row \in at.start..(g.old - 1)
    <3>. HIDE DEF used
    <3>. QED
      BY <2>4, <2>5
  <2>7. FindBucket(ix, row).start = start
    BY <2>6 DEF at
  <2>. QED
    BY <2>6, <2>7
<1>. HIDE DEF was, off, top, used, num, b
<1>8. ASSUME NEW c \in SsmCols, NEW row \in 0..(g.old - 1), FindBucket(ix, row).number = b,
             off[c] + row - FindBucket(ix, row).start + 1 \in DOMAIN cells
      PROVE  cells[off[c] + row - FindBucket(ix, row).start + 1] = was[off[c] + row - FindBucket(ix, row).start + 1]
  <2>1. FindBucket(ix, row).start = start /\ row \in start..(g.old - 1)
    BY <1>7, <1>8
  <2>. DEFINE i == off[c] + row - start + 1
  <2>2. ASSUME NEW d \in SsmCols PROVE i - 1 - off[d] \notin top
    <3>1. off[c] = off[d] \/ off[c] + rpb <= off[d] \/ off[d] + rpb <= off[c]
      BY <1>4
    <3>2. off[c] \in Nat /\ off[d] \in Nat
      BY <1>4
    <3>. DEFINE oc == off[c]
                od == off[d]
    <3>3. oc \in Nat /\ od \in Nat /\ (oc = od \/ oc + rpb <= od \/ od + rpb <= oc)
      BY <3>1, <3>2
    <3>. HIDE DEF oc, od
    <3>5. /\ start \in Nat /\ end \in Nat /\ g.old \in Nat /\ rpb \in Nat /\ row \in start..(g.old - 1)
          /\ g.old - start < rpb /\ end <= start + rpb
      BY <1>2, <1>3, <1>5, <2>1
    <3>. DEFINE old == g.old
                n == rpb
    <3>6. /\ start \in Nat /\ end \in Nat /\ old \in Nat /\ n \in Nat /\ row \in start..(old - 1)
          /\ old - start < n /\ end <= start + n
      BY <3>5
    <3>7. oc = od \/ oc + n <= od \/ od + n <= oc
      BY <3>3
    <3>. HIDE DEF old, n
    <3>8. (oc + row - start + 1) - 1 - od \notin (old - start)..(end - 1 - start)
      BY <3>3, <3>6, <3>7, BesideTheRows
    <3>4. (oc + row - start + 1) - 1 - od \notin (g.old - start)..(end - 1 - start)
      BY <3>8 DEF old
    <3>. QED
      BY <3>4 DEF oc, od, top
  <2>3. i \in DOMAIN was
    BY <1>6, <1>8, <2>1
  <2>. HIDE DEF i
  <2>4. cells[i] = was[i]
    BY <1>6, <2>2, <2>3
  <2>. QED
    BY <2>1, <2>4 DEF i
<1>. QED
  BY <1>6, <1>8 DEF HoldsRows, was, off, b

LEMMA WholeFunction ==
  ASSUME NEW v, NEW n \in Nat, v = [i \in 1..n |-> v[i]]
  PROVE  IsWhole(v)
<1>. DEFINE S == {v[i] : i \in 1..n}
<1>1. v \in [1..n -> S]
  OBVIOUS
<1>. HIDE DEF S
<1>2. Len(v) = n /\ DOMAIN v = 1..n
  BY <1>1, FunctionIsSequence
<1>. QED
  BY <1>2 DEF IsWhole

LEMMA BucketsIs ==
  ASSUME NEW m
  PROVE  Buckets(m).bucket = m /\ Buckets(m).hdr = <<>> /\ Buckets(m).arr = <<>>
BY DEF Buckets

LEMMA TopIsData ==
  ASSUME NEW g, GrowthOf(g), NEW start, NEW end, TopsUp(g, start, end), NEW top,
         DOMAIN top = {Last(g.ix.number)}, top[Last(g.ix.number)][1] = "data",
         LeavesCells(g.f0.bucket[Last(g.ix.number)][2], top[Last(g.ix.number)][2],
                     g.spec, (g.old - start)..(end - 1 - start))
  PROVE  DataWrite(g, Buckets(top))
<1>. DEFINE b == Last(g.ix.number)
            was == g.f0.bucket[b][2]
<1>1. b \in Homes(g) /\ IsWhole(was)
  BY LastIsHome DEF TopsUp
<1>2. HoldsRows(g, b, top[b][2])
  BY TopHolds
<1>3. DOMAIN was = 1..Len(was) /\ Len(was) \in Nat
  BY <1>1 DEF IsWhole
<1>4. top[b][2] = [i \in DOMAIN was |-> top[b][2][i]]
  BY DEF LeavesCells
<1>. HIDE DEF b, was
<1>5. IsWhole(top[b][2])
  BY <1>3, <1>4, WholeFunction
<1>6. \A n \in DOMAIN top : n = b
  BY DEF b
<1>7. top[b][1] = "data"
  BY DEF b
<1>8. WholeData(top[b])
  BY <1>5, <1>7 DEF WholeData
<1>. QED
  BY <1>1, <1>2, <1>6, <1>8, BucketsIs DEF DataWrite

LEMMA FreshIsData ==
  ASSUME NEW g, GrowthOf(g), NEW fresh,
         DOMAIN fresh = Added(g), g.f0.hdr.size \in Nat,
         \A n \in DOMAIN fresh : fresh[n][1] = "data" /\ fresh[n][2] = [i \in 1..g.f0.hdr.size |-> fresh[n][2][i]]
  PROVE  DataWrite(g, Buckets(fresh))
<1>1. \A n \in DOMAIN fresh : WholeData(fresh[n])
  BY WholeFunction DEF WholeData
<1>2. \A n \in Added(g) : n \notin Homes(g)
  <2>. SUFFICES ASSUME NEW n \in Added(g), n \in Homes(g) PROVE FALSE
    OBVIOUS
  <2>1. n \in 0..(g.f0.hdr.nr - 1) /\ g.f0.hdr.nr \in Nat
    BY GrowthNumbers
  <2>. QED
    BY <2>1 DEF Added
<1>. QED
  BY <1>1, <1>2, BucketsIs DEF DataWrite

(* A plan for a growth.                                                    *)
Plans(g, plan) ==
  /\ plan.index = g.nix /\ plan.fresh = g.fresh /\ plan.next = g.f0.hdr.nr /\ plan.topUp \in BOOLEAN
  /\ plan.topUp => TopsUp(g, plan.start, plan.end)
  /\ g.nchain = SubSeq(g.chain \o [j \in 1..Len(NewPieces(g)) |-> g.f0.hdr.nr + g.fresh + j - 1], 1, Len(NewPieces(g)))
  /\ g.done = (IF plan.topUp THEN 1 ELSE 0) + (IF g.fresh > 0 THEN 1 ELSE 0)

IsList(W) == W \in Seq({W[k] : k \in DOMAIN W})

LEMMA OneOrNone ==
  ASSUME NEW S, NEW x \in S, NEW p
  PROVE  LET s == IF p THEN <<x>> ELSE <<>>
         IN  s \in Seq(S) /\ Len(s) = (IF p THEN 1 ELSE 0) /\ (p => s[1] = x)
<1>1. CASE p
  BY <1>1
<1>2. CASE ~p
  BY <1>2
<1>. QED
  BY <1>1, <1>2

LEMMA PartsAreGrowth ==
  ASSUME NEW g, GrowthOf(g), IdxCap \in Nat \ {0}, g.f0.hdr.size \in Nat,
         NEW h, h.index = g.ix, NEW new, NEW plan, Plans(g, plan), NEW W, NEW top, NEW fresh, NEW array,
         GrowParts(g.f0, h, g.spec, g.old, new, plan, W, top, fresh, array)
  PROVE  WritesOf(g, W) /\ IsList(W)
<1>. DEFINE m == Len(g.nchain)
            a == IF plan.topUp THEN <<Buckets(top)>> ELSE <<>>
            b == IF g.fresh > 0 THEN <<Buckets(fresh)>> ELSE <<>>
            c == WriteIndex(g.f0, IndexStream(g.nix), g.f0.hdr.nr + g.fresh)
            S == {Buckets(top), Buckets(fresh)} \cup {c[k] : k \in 1..(m + 1)} \cup {array[1]}
            la == IF plan.topUp THEN 1 ELSE 0
            lb == IF g.fresh > 0 THEN 1 ELSE 0
<1>1. g.fresh \in Nat /\ m \in Nat /\ g.f0.hdr.nr \in Nat
  BY GrowthNumbers
<1>2. W = a \o b \o c \o array
  BY DEF GrowParts, Plans
<1>3. a \in Seq(S) /\ Len(a) = la /\ (plan.topUp => a[1] = Buckets(top))
  <2>1. Buckets(top) \in S
    OBVIOUS
  <2>. HIDE DEF S
  <2>. QED
    BY <2>1, OneOrNone
<1>4. b \in Seq(S) /\ Len(b) = lb /\ (g.fresh > 0 => b[1] = Buckets(fresh))
  <2>1. Buckets(fresh) \in S
    OBVIOUS
  <2>. HIDE DEF S
  <2>. QED
    BY <2>1, OneOrNone
<1>5. /\ c \in Seq({c[k] : k \in 1..(m + 1)}) /\ Len(c) = m + 1
      /\ \A k \in 1..m : c[k] = Buckets([x \in {g.nchain[k]} |-> NewBucket(g, k)])
      /\ c[m + 1] = Header(NewHeader(g))
  BY <1>1, IndexWrites DEF Plans
<1>6. c \in Seq(S)
  <2>1. c = [k \in 1..(m + 1) |-> c[k]]
    <3>1. m + 1 \in Nat
      BY <1>1
    <3>. HIDE DEF c, m
    <3>2. c \in Seq({c[k] : k \in 1..(m + 1)}) /\ Len(c) = m + 1
      BY <1>5
    <3>. QED
      BY <3>1, <3>2
  <2>2. \A k \in 1..(m + 1) : c[k] \in S
    OBVIOUS
  <2>. HIDE DEF S, c, m
  <2>. DEFINE n == m + 1
  <2>3. c \in [1..n -> S] /\ n \in Nat
    BY <1>1, <2>1, <2>2
  <2>. HIDE DEF n
  <2>. QED
    BY <2>3, FunctionIsSequence
<1>7. /\ array \in Seq(S) /\ Len(array) \in {0, 1}
      /\ Len(array) = 1 => ArrayWrite(g, array[1])
  <2>1. array = <<>> \/ \E x : array = <<ArrayFile(x)>> /\ DOMAIN g.f0.arr.rec \subseteq DOMAIN x.rec
    BY DEF GrowParts
  <2>2. CASE array = <<>>
    <3>1. Len(array) = 0 /\ array \in Seq(S)
      <4>. HIDE DEF S
      <4>. QED
        BY <2>2
    <3>. QED
      BY <3>1
  <2>3. ASSUME NEW x, array = <<ArrayFile(x)>>, DOMAIN g.f0.arr.rec \subseteq DOMAIN x.rec
        PROVE  array \in Seq(S) /\ Len(array) = 1 /\ ArrayWrite(g, array[1])
    <3>1. array[1] = ArrayFile(x) /\ array[1] \in S
      BY <2>3
    <3>2. ArrayWrite(g, ArrayFile(x))
      BY <2>3 DEF ArrayWrite, ArrayFile
    <3>. HIDE DEF S
    <3>. QED
      BY <2>3, <3>1, <3>2
  <2>. QED
    BY <2>1, <2>2, <2>3
<1>8. DOMAIN fresh = Added(g)
  BY DEF GrowParts, Plans, Added
<1>9. DataWrite(g, Buckets(fresh))
  <2>1. \A n \in DOMAIN fresh : fresh[n][1] = "data" /\ fresh[n][2] = [i \in 1..g.f0.hdr.size |-> fresh[n][2][i]]
    BY DEF GrowParts
  <2>. QED
    BY <1>8, <2>1, FreshIsData
<1>10. plan.topUp => DataWrite(g, Buckets(top))
  <2>. SUFFICES ASSUME plan.topUp PROVE DataWrite(g, Buckets(top))
    OBVIOUS
  <2>1. TopsUp(g, plan.start, plan.end)
    BY DEF Plans
  <2>2. /\ DOMAIN top = {Last(g.ix.number)} /\ top[Last(g.ix.number)][1] = "data"
        /\ LeavesCells(g.f0.bucket[Last(g.ix.number)][2], top[Last(g.ix.number)][2], g.spec,
                       (g.old - plan.start)..(plan.end - 1 - plan.start))
    BY DEF GrowParts
  <2>. QED
    BY <2>1, <2>2, TopIsData
<1>. HIDE DEF a, b, c, S
<1>11. /\ W \in Seq(S) /\ Len(W) = la + lb + (m + 1) + Len(array)
       /\ \A k \in 1..la : W[k] = a[k]
       /\ \A k \in 1..lb : W[la + k] = b[k]
       /\ \A k \in 1..(m + 1) : W[la + lb + k] = c[k]
       /\ \A k \in 1..Len(array) : W[la + lb + (m + 1) + k] = array[k]
  <2>1. a \in Seq(S) /\ b \in Seq(S) /\ c \in Seq(S) /\ array \in Seq(S)
    BY <1>3, <1>4, <1>6, <1>7
  <2>2. W \in Seq(S) /\ FourParts(W, a, b, c, array)
    <3>1. a \o b \o c \o array \in Seq(S) /\ FourParts(a \o b \o c \o array, a, b, c, array)
      BY <2>1, FourJoined, Zenon
    <3>. QED
      BY <1>2, <3>1
  <2>4. Len(a) = la /\ Len(b) = lb /\ Len(c) = m + 1
    BY <1>3, <1>4, <1>5
  <2>. HIDE DEF la, lb, m
  <2>. QED
    BY <2>2, <2>4, Zenon DEF FourParts
<1>12. W \in Seq({W[k] : k \in DOMAIN W})
  <2>. DEFINE n == Len(W)
              T == {W[k] : k \in DOMAIN W}
  <2>1. W \in [1..n -> T] /\ n \in Nat
    <3>1. W \in Seq(S)
      BY <1>11
    <3>. QED
      BY <3>1
  <2>. HIDE DEF n, T
  <2>2. W \in Seq(T)
    BY <2>1, FunctionIsSequence
  <2>. QED
    BY <2>2 DEF T
<1>13. g.done = la + lb /\ la \in 0..1 /\ lb \in 0..1
  BY DEF Plans
<1>14. /\ g.done \in Nat /\ Len(W) \in {g.done + m + 1, g.done + m + 2}
       /\ \A k \in 1..m : W[g.done + k] = c[k]
       /\ W[g.done + m + 1] = c[m + 1]
       /\ Len(W) = g.done + m + 2 => Len(array) = 1 /\ W[Len(W)] = array[1]
  <2>. HIDE DEF la, lb, m
  <2>1. Len(W) \in {g.done + m + 1, g.done + m + 2} /\ g.done \in Nat
    <3>1. Len(W) = la + lb + (m + 1) + Len(array) /\ Len(array) \in {0, 1}
      BY <1>7, <1>11
    <3>2. m \in Nat /\ la \in Nat /\ lb \in Nat /\ g.done = la + lb
      BY <1>1, <1>13
    <3>. DEFINE d == g.done
                x == Len(array)
    <3>3. d = la + lb /\ x \in {0, 1} /\ Len(W) = la + lb + (m + 1) + x
      BY <3>1, <3>2
    <3>. HIDE DEF d, x
    <3>4. Len(W) \in {d + m + 1, d + m + 2} /\ d \in Nat
      BY <3>2, <3>3
    <3>. QED
      BY <3>4 DEF d
  <2>2. \A k \in 1..m : W[g.done + k] = c[k]
    <3>. TAKE k \in 1..m
    <3>1. k \in 1..(m + 1)
      BY <1>1
    <3>2. W[la + lb + k] = c[k]
      BY <1>11, <3>1
    <3>. QED
      BY <1>13, <3>2
  <2>3. W[g.done + m + 1] = c[m + 1]
    <3>1. m + 1 \in 1..(m + 1) /\ la + lb + (m + 1) = g.done + m + 1
      BY <1>1, <1>13
    <3>. QED
      BY <1>11, <3>1
  <2>4. ASSUME Len(W) = g.done + m + 2 PROVE Len(array) = 1 /\ W[Len(W)] = array[1]
    <3>1. Len(array) = 1
      BY <1>1, <1>7, <1>11, <1>13, <2>4
    <3>2. 1 \in 1..Len(array) /\ la + lb + (m + 1) + 1 = Len(W)
      BY <1>1, <1>13, <2>4, <3>1
    <3>. QED
      BY <1>11, <3>1, <3>2
  <2>. QED
    BY <2>1, <2>2, <2>3, <2>4
<1>15. ASSUME NEW j \in 1..g.done PROVE DataWrite(g, W[j])
  <2>1. CASE j \in 1..la
    <3>0. plan.topUp /\ j = 1
      BY <2>1
    <3>1. W[j] = Buckets(top)
      BY <1>3, <1>11, <2>1, <3>0, Zenon
    <3>. QED
      BY <1>10, <3>0, <3>1
  <2>2. CASE j \notin 1..la
    <3>1. j - la \in 1..lb /\ la + (j - la) = j
      BY <1>13, <2>2
    <3>0. g.fresh > 0 /\ j - la = 1
      BY <3>1
    <3>2. W[la + (j - la)] = b[j - la] /\ b[j - la] = Buckets(fresh)
      BY <1>4, <1>11, <3>0, <3>1, Zenon
    <3>. QED
      BY <1>9, <3>1, <3>2
  <2>. QED
    BY <2>1, <2>2
<1>16. ASSUME NEW x \in Added(g) PROVE \E j \in 1..g.done : x \in DOMAIN W[j].bucket
  <2>1. g.fresh > 0
    BY <1>1 DEF Added
  <2>2. lb = 1 /\ 1 \in 1..lb /\ la + 1 \in 1..g.done
    BY <1>13, <2>1
  <2>3. W[la + 1] = b[1] /\ b[1] = Buckets(fresh)
    <3>1. W[la + 1] = b[1]
      BY <1>11, <2>2, Zenon
    <3>2. b[1] = Buckets(fresh)
      BY <1>4, <2>1
    <3>. QED
      BY <3>1, <3>2
  <2>4. x \in DOMAIN W[la + 1].bucket
    BY <1>8, <2>3, BucketsIs
  <2>. QED
    BY <2>2, <2>4
<1>17. WritesOf(g, W)
  BY <1>5, <1>7, <1>14, <1>15, <1>16 DEF WritesOf
<1>. QED
  BY <1>12, <1>17 DEF IsList

(* A longer index takes no fewer buckets.                                  *)
LEMMA ChainLengthens ==
  ASSUME NEW ix, IndexSound(ix), NEW nix, IndexSound(nix), IdxCap \in Nat \ {0},
         Len(ix.last) <= Len(nix.last)
  PROVE  /\ Len(Pieces(IndexStream(ix), IdxCap)) \in Nat /\ Len(Pieces(IndexStream(nix), IdxCap)) \in Nat
         /\ Len(Pieces(IndexStream(ix), IdxCap)) <= Len(Pieces(IndexStream(nix), IdxCap))
<1>. DEFINE s == IndexStream(ix)
            t == IndexStream(nix)
<1>1. s \in Seq(Nat) /\ Len(s) = 2 + 2 * Len(ix.last) /\ Len(ix.last) \in Nat
  BY StreamIs
<1>2. t \in Seq(Nat) /\ Len(t) = 2 + 2 * Len(nix.last) /\ Len(nix.last) \in Nat
  BY StreamIs
<1>. HIDE DEF s, t
<1>3. Len(s) \in Nat /\ Len(t) \in Nat /\ Len(s) <= Len(t)
  BY <1>1, <1>2
<1>4. Len(Pieces(s, IdxCap)) = Count(Len(s), IdxCap)
  BY <1>1, PiecesAre
<1>5. Len(Pieces(t, IdxCap)) = Count(Len(t), IdxCap)
  BY <1>2, PiecesAre
<1>6. Count(Len(s), IdxCap) <= Count(Len(t), IdxCap) /\ Count(Len(s), IdxCap) \in Nat /\ Count(Len(t), IdxCap) \in Nat
  BY <1>3, CountGrows, CountHolds
<1>. QED
  BY <1>4, <1>5, <1>6 DEF s, t

(* Growing whole files is a growth.                                        *)
Begins(g, W, f, ix, spec, old) ==
  /\ GrowthOf(g) /\ WritesOf(g, W) /\ IsList(W)
  /\ g.f0 = f /\ g.ix = ix /\ g.spec = spec /\ g.old = old /\ g.nix.rpb = ix.rpb

LEMMA GrowthIsOne ==
  ASSUME NEW f, NEW ix, NEW chain, SsmSound(f, ix, chain), IdxCap \in Nat \ {0}, NEW h, h.index = ix,
         NEW spec, Apart(spec, ix.rpb), NEW old \in Nat, NEW new \in Nat, old < new, Rows(ix) = old, NEW zero
  PROVE  \E g : Begins(g, SsmGrow(f, h, spec, zero, old, new), f, ix, spec, old)
<1>. DEFINE nr == f.hdr.nr
            plan == PlanFrom(nr, ix, old, new)
            pieces == Pieces(IndexStream(plan.index), IdxCap)
            m == Len(pieces)
            next == nr + plan.fresh
            nchain == SubSeq(chain \o [j \in 1..m |-> next + j - 1], 1, m)
            done == (IF plan.topUp THEN 1 ELSE 0) + (IF plan.fresh > 0 THEN 1 ELSE 0)
            g == [f0 |-> f, ix |-> ix, chain |-> chain, nix |-> plan.index, nchain |-> nchain,
                  fresh |-> plan.fresh, old |-> old, spec |-> spec, done |-> done]
            W == SsmGrow(f, h, spec, zero, old, new)
<1>1. /\ IndexSound(ix) /\ nr \in Nat /\ f.hdr.size \in Nat
      /\ chain \in Seq(Nat) /\ Len(chain) = Len(Pieces(IndexStream(ix), IdxCap))
      /\ \A k \in DOMAIN ix.number : ix.number[k] < nr
  <2>1. /\ IndexSound(ix) /\ nr \in Nat /\ f.hdr.size \in Nat /\ ChainSound(f, ix, chain)
        /\ DOMAIN f.bucket \subseteq 0..(nr - 1)
        /\ \A k \in DOMAIN ix.number : ix.number[k] \in DOMAIN f.bucket
    BY DEF SsmSound
  <2>2. \A k \in DOMAIN ix.number : ix.number[k] < nr
    <3>. TAKE k \in DOMAIN ix.number
    <3>1. ix.number[k] \in 0..(nr - 1)
      BY <2>1
    <3>. QED
      BY <2>1, <3>1
  <2>. QED
    BY <2>1, <2>2 DEF ChainSound
<1>. HIDE DEF nr
<1>2. /\ IndexGrows(ix, plan.index, old, nr, plan.fresh)
      /\ plan.next = nr
      /\ plan.topUp => /\ Len(ix.last) > 0
                       /\ plan.start \in Nat /\ old - plan.start < ix.rpb
                       /\ plan.end \in Nat /\ plan.end <= plan.start + ix.rpb
                       /\ plan.start = IF Len(ix.last) >= 2 THEN ix.last[Len(ix.last) - 1] + 1 ELSE 0
  <2>1. IndexSound(ix) /\ nr \in Nat /\ \A k \in DOMAIN ix.number : ix.number[k] < nr
    BY <1>1
  <2>2. Rows(ix) = old /\ old < new
    BY <1>1
  <2>. QED
    BY <2>1, <2>2, PlanGrows
<1>3. plan.topUp \in BOOLEAN
  BY DEF PlanFrom
<1>. HIDE DEF plan
<1>4. /\ IndexSound(plan.index) /\ plan.index.rpb = ix.rpb /\ plan.fresh \in Nat
      /\ Len(plan.index.last) = Len(ix.last) + plan.fresh /\ Len(ix.last) \in Nat
  BY <1>1, <1>2 DEF IndexGrows, IndexSound
<1>5. m \in Nat /\ Len(chain) <= m /\ Len(chain) \in Nat
  <2>1. Len(ix.last) <= Len(plan.index.last)
    BY <1>4
  <2>. QED
    BY <1>1, <1>4, <2>1, ChainLengthens
<1>. HIDE DEF pieces
<1>6. /\ nchain \in Seq(Nat) /\ Len(nchain) = m
      /\ \A k \in 1..m : nchain[k] = IF k <= Len(chain) THEN chain[k] ELSE next + k - Len(chain) - 1
  <2>1. next \in Nat
    BY <1>1, <1>4
  <2>. HIDE DEF next, m
  <2>2. chain \in Seq(Nat) /\ m \in Nat /\ Len(chain) <= m
    BY <1>1, <1>5
  <2>3. Prolongs(nchain, chain, m, next)
    BY <2>1, <2>2, ChainIsExtended
  <2>. QED
    BY <2>3 DEF Prolongs
<1>7. /\ g.f0 = f /\ g.ix = ix /\ g.chain = chain /\ g.nix = plan.index /\ g.nchain = nchain
      /\ g.fresh = plan.fresh /\ g.old = old /\ g.spec = spec /\ g.done = done
  OBVIOUS
<1>. HIDE DEF g, nchain, done
<1>8. NewPieces(g) = pieces
  BY <1>7 DEF NewPieces, pieces
<1>9. GrowthOf(g)
  BY <1>1, <1>2, <1>5, <1>6, <1>7, <1>8 DEF GrowthOf, nr
<1>10. Plans(g, plan)
  <2>1. plan.topUp => TopsUp(g, plan.start, plan.end)
    BY <1>2, <1>7 DEF TopsUp
  <2>2. g.nchain = SubSeq(g.chain \o [j \in 1..Len(NewPieces(g)) |-> g.f0.hdr.nr + g.fresh + j - 1], 1, Len(NewPieces(g)))
    BY <1>7, <1>8 DEF nchain, nr
  <2>3. g.done = (IF plan.topUp THEN 1 ELSE 0) + (IF g.fresh > 0 THEN 1 ELSE 0)
    BY <1>7 DEF done
  <2>4. plan.index = g.nix /\ plan.fresh = g.fresh /\ plan.next = g.f0.hdr.nr
    BY <1>2, <1>7 DEF nr
  <2>. QED
    BY <1>3, <2>1, <2>2, <2>3, <2>4 DEF Plans
<1>11. W = GrowBy(f, h, spec, zero, old, new, plan)
  BY DEF SsmGrow, GrowPlan, plan, nr
<1>12. PICK top, fresh, array : GrowParts(f, h, spec, old, new, plan, W, top, fresh, array)
  BY <1>11, GrowsByParts
<1>13. WritesOf(g, W) /\ IsList(W)
  <2>. HIDE DEF W
  <2>1. GrowParts(g.f0, h, g.spec, g.old, new, plan, W, top, fresh, array) /\ h.index = g.ix /\ g.f0.hdr.size \in Nat
    BY <1>1, <1>7, <1>12
  <2>. QED
    BY <1>9, <1>10, <2>1, PartsAreGrowth
<1>14. Begins(g, W, f, ix, spec, old)
  <2>. HIDE DEF W
  <2>. QED
    BY <1>4, <1>7, <1>9, <1>13 DEF Begins
<1>. QED
  BY <1>14

-----------------------------------------------------------------------------
(* Writes that leave whole files whole: they put whole buckets of rows     *)
(* where the index has such buckets.                                       *)
Mild(ix, w) ==
  /\ w.hdr = <<>>
  /\ \A b \in DOMAIN w.bucket : WholeData(w.bucket[b]) /\ \E k \in DOMAIN ix.number : b = ix.number[k]

LEMMA MildKeeps ==
  ASSUME NEW f, NEW ix, NEW chain, SsmSound(f, ix, chain), NEW w, Mild(ix, w)
  PROVE  SsmSound(SsmApply(f, w), ix, chain)
<1>. DEFINE n == SsmApply(f, w)
<1>1. /\ n.hdr = f.hdr /\ n = [hdr |-> n.hdr, bucket |-> n.bucket, arr |-> n.arr]
      /\ DOMAIN n.bucket = DOMAIN f.bucket \cup DOMAIN w.bucket
      /\ \A b \in DOMAIN n.bucket : n.bucket[b] = IF b \in DOMAIN w.bucket THEN w.bucket[b] ELSE f.bucket[b]
  BY DEF SsmApply, Mild
<1>. HIDE DEF n
<1>2. /\ f.hdr.size \in Nat /\ f.hdr.nr \in Nat /\ DOMAIN f.bucket \subseteq 0..(f.hdr.nr - 1)
      /\ {"big", "size", "nr", "nrIdx", "first", "idxLen"} \subseteq DOMAIN f.hdr
      /\ IndexSound(ix) /\ ChainSound(f, ix, chain)
      /\ \A j, k \in DOMAIN chain : chain[j] = chain[k] => j = k
      /\ \A k \in DOMAIN ix.number : ix.number[k] \in DOMAIN f.bucket /\ WholeData(f.bucket[ix.number[k]])
  BY DEF SsmSound, WholeData
<1>3. DOMAIN n.bucket = DOMAIN f.bucket
  BY <1>1, <1>2 DEF Mild
<1>4. \A k \in DOMAIN ix.number : ix.number[k] \in DOMAIN n.bucket /\ WholeData(n.bucket[ix.number[k]])
  BY <1>1, <1>2, <1>3 DEF Mild
<1>5. \A k \in DOMAIN chain : chain[k] \in DOMAIN f.bucket /\ f.bucket[chain[k]][1] = "index"
  BY <1>2 DEF ChainSound
<1>6. \A k \in DOMAIN chain : chain[k] \notin DOMAIN w.bucket
  <2>. SUFFICES ASSUME NEW k \in DOMAIN chain, chain[k] \in DOMAIN w.bucket PROVE FALSE
    OBVIOUS
  <2>1. \A b \in DOMAIN w.bucket : WholeData(f.bucket[b])
    BY <1>2 DEF Mild
  <2>2. WholeData(f.bucket[chain[k]])
    BY <2>1
  <2>3. f.bucket[chain[k]][1] = "index"
    BY <1>5
  <2>. QED
    BY <2>2, <2>3 DEF WholeData
<1>7. \A k \in DOMAIN chain : n.bucket[chain[k]] = f.bucket[chain[k]]
  BY <1>1, <1>3, <1>5, <1>6
<1>8. ChainSound(n, ix, chain)
  BY <1>1, <1>2, <1>3, <1>7 DEF ChainSound
<1>. QED
  BY <1>1, <1>2, <1>3, <1>4, <1>8 DEF SsmSound, WholeData, n

LEMMA BucketIsUsed ==
  ASSUME NEW ix, IndexSound(ix), NEW row, FindBucket(ix, row).k # 0
  PROVE  FindBucket(ix, row).k \in DOMAIN ix.number /\ FindBucket(ix, row).number = ix.number[FindBucket(ix, row).k]
<1>. DEFINE hits == {k \in DOMAIN ix.last : ix.last[k] >= row}
<1>1. DOMAIN ix.last = DOMAIN ix.number /\ DOMAIN ix.last \subseteq Nat
  BY DEF IndexSound
<1>2. hits # {}
  BY DEF FindBucket
<1>3. Min(hits) \in hits
  <2>1. hits \subseteq Nat
    BY <1>1
  <2>. HIDE DEF hits
  <2>. QED
    BY <1>2, <2>1, Smallest
<1>4. FindBucket(ix, row).k = Min(hits) /\ FindBucket(ix, row).number = ix.number[Min(hits)]
  BY <1>2 DEF FindBucket
<1>. QED
  BY <1>1, <1>3, <1>4

LEMMA SeqIsList ==
  ASSUME NEW S, NEW s \in Seq(S)
  PROVE  IsList(s)
<1>. DEFINE T == {s[k] : k \in DOMAIN s}
            n == Len(s)
<1>1. s \in [1..n -> T] /\ n \in Nat
  OBVIOUS
<1>. HIDE DEF T, n
<1>2. s \in Seq(T)
  BY <1>1, FunctionIsSequence
<1>. QED
  BY <1>2 DEF IsList, T

LEMMA ListOfTwo ==
  ASSUME NEW x, NEW y
  PROVE  IsList(<<x>> \o <<y>>) /\ \A k \in DOMAIN (<<x>> \o <<y>>) : (<<x>> \o <<y>>)[k] \in {x, y}
<1>. DEFINE S == {x, y}
            w == <<x>> \o <<y>>
<1>1. <<x>> \in Seq(S) /\ <<y>> \in Seq(S)
  OBVIOUS
<1>. HIDE DEF S
<1>2. w \in Seq(S)
  BY <1>1
<1>. HIDE DEF w
<1>3. \A k \in DOMAIN w : w[k] \in S
  BY <1>2
<1>. QED
  BY <1>2, <1>3, SeqIsList DEF w, S

(* A patch is made of such writes.                                         *)
MildWrites(ix, W) == IsList(W) /\ \A k \in DOMAIN W : Mild(ix, W[k])

LEMMA PatchIsMild ==
  ASSUME NEW f, NEW ix, NEW chain, SsmSound(f, ix, chain), NEW h, h.index = ix, NEW spec, NEW pend,
         SsmCanPatch(h, pend)
  PROVE  MildWrites(ix, SsmPatch(f, h, spec, pend))
<1>. DEFINE puts == PutArrays(f, h, spec, pend)
            m == PatchBuckets(f, h, spec, pend, puts.offs)
            W == SsmPatch(f, h, spec, pend)
<1>1. W = <<Buckets(m)>> \o IF puts.arr = f.arr THEN <<>> ELSE <<ArrayFile(puts.arr)>>
  BY DEF SsmPatch, PatchWith
<1>2. /\ DOMAIN m = {FindBucket(h.index, pend[k][2]).number : k \in DOMAIN pend}
      /\ \A b \in DOMAIN m : m[b][1] = "data" /\ m[b][2] = [i \in DOMAIN f.bucket[b][2] |-> m[b][2][i]]
  <2>. DEFINE home(p) == FindBucket(h.index, p[2])
              at(p)   == spec.offset[p[1]] + p[2] - home(p).start + 1
              cell(k) == IF SsmKinds[pend[k][1]] = "fixed" THEN <<"fixed", pend[k][3]>>
                         ELSE <<"record", puts.offs[k]>>
              mine(b) == {k \in DOMAIN pend : home(pend[k]).number = b}
              now(b, i) == LET ks == {k \in mine(b) : at(pend[k]) = i}
                           IN  IF ks = {} THEN f.bucket[b][2][i] ELSE cell(Max(ks))
  <2>1. m = [b \in {home(pend[k]).number : k \in DOMAIN pend} |-> DataBucket([i \in DOMAIN f.bucket[b][2] |-> now(b, i)])]
    BY DEF PatchBuckets
  <2>. HIDE DEF now, m
  <2>. QED
    BY <2>1 DEF DataBucket
<1>. HIDE DEF m, puts
<1>3. ASSUME NEW b \in DOMAIN m PROVE WholeData(m[b]) /\ \E k \in DOMAIN ix.number : b = ix.number[k]
  <2>1. PICK k \in DOMAIN pend : b = FindBucket(ix, pend[k][2]).number
    BY <1>2
  <2>2. FindBucket(ix, pend[k][2]).k # 0
    BY DEF SsmCanPatch
  <2>3. IndexSound(ix) /\ \A j \in DOMAIN ix.number : IsWhole(f.bucket[ix.number[j]][2])
    BY DEF SsmSound
  <2>4. PICK j \in DOMAIN ix.number : b = ix.number[j]
    BY <2>1, <2>2, <2>3, BucketIsUsed
  <2>5. DOMAIN f.bucket[b][2] = 1..Len(f.bucket[b][2]) /\ Len(f.bucket[b][2]) \in Nat
    BY <2>3, <2>4 DEF IsWhole
  <2>6. m[b][1] = "data" /\ m[b][2] = [i \in DOMAIN f.bucket[b][2] |-> m[b][2][i]]
    BY <1>2
  <2>7. IsWhole(m[b][2])
    BY <2>5, <2>6, WholeFunction
  <2>. QED
    BY <2>4, <2>6, <2>7 DEF WholeData
<1>4. Mild(ix, Buckets(m))
  BY <1>3, BucketsIs DEF Mild
<1>5. Mild(ix, ArrayFile(puts.arr))
  BY DEF Mild, ArrayFile
<1>. HIDE DEF W
<1>6. IsList(W) /\ \A k \in DOMAIN W : W[k] \in {Buckets(m), ArrayFile(puts.arr)}
  <2>. DEFINE x == Buckets(m)
              y == ArrayFile(puts.arr)
              same == puts.arr = f.arr
  <2>0. W = <<x>> \o IF same THEN <<>> ELSE <<y>>
    BY <1>1
  <2>. HIDE DEF x, y, same
  <2>2. IsList(W) /\ \A k \in DOMAIN W : W[k] \in {x, y}
    <3>1. CASE same
      <4>1. W = <<x>>
        BY <2>0, <3>1
      <4>. QED
        BY <4>1 DEF IsList
    <3>2. CASE ~same
      <4>1. W = <<x>> \o <<y>>
        BY <2>0, <3>2
      <4>. QED
        BY <4>1, ListOfTwo
    <3>. QED
      BY <3>1, <3>2
  <2>. QED
    BY <2>2 DEF x, y
<1>. QED
  BY <1>4, <1>5, <1>6 DEF MildWrites, W

-----------------------------------------------------------------------------
(* Whole new files.                                                        *)

(* A string bucket as it is built: a link and a text that fits.            *)
Text == {s \in Seq(Nat) : Len(s) <= StrCap}
Linked == Int \X Text

LEMMA OpenIsLinked ==
  ASSUME NEW sb \in Seq(Linked), NEW text
  PROVE  Open(sb, text) \in Seq(Linked) /\ Len(Open(sb, text)) \in Nat \ {0}
<1>. DEFINE empty == <<-1, <<>>>>
<1>1. empty \in Linked
  <2>1. <<>> \in Text
    BY StandardStManAssumption DEF Text
  <2>. QED
    BY <2>1 DEF Linked
<1>2. Open(sb, text) \in {<<empty>>, Append(sb, empty), sb} /\ (Open(sb, text) = sb => sb # <<>>)
  <2>1. CASE sb = <<>>
    BY <2>1 DEF Open
  <2>2. CASE sb # <<>>
    BY <2>2 DEF Open
  <2>. QED
    BY <2>1, <2>2
<1>. HIDE DEF empty
<1>. DEFINE S == Linked
<1>. HIDE DEF S
<1>3. empty \in S /\ sb \in Seq(S)
  BY <1>1 DEF S
<1>4. <<empty>> \in Seq(S) /\ Len(<<empty>>) = 1 /\ Append(sb, empty) \in Seq(S) /\ Len(Append(sb, empty)) = Len(sb) + 1
      /\ Len(sb) \in Nat /\ (sb # <<>> => Len(sb) # 0)
  BY <1>3
<1>. DEFINE o == Open(sb, text)
<1>5. o \in {<<empty>>, Append(sb, empty), sb} /\ (o = sb => sb # <<>>)
  BY <1>2
<1>. HIDE DEF o
<1>6. CASE o = <<empty>>
  BY <1>4, <1>6 DEF S, o
<1>7. CASE o = Append(sb, empty)
  <2>1. Len(sb) + 1 \in Nat \ {0}
    BY <1>4
  <2>. QED
    BY <1>4, <1>7, <2>1 DEF S, o
<1>8. CASE o = sb
  <2>1. Len(sb) \in Nat \ {0}
    BY <1>4, <1>5, <1>8
  <2>. QED
    BY <1>3, <1>8, <2>1 DEF S, o
<1>. QED
  BY <1>5, <1>6, <1>7, <1>8

LEMMA LastOf ==
  ASSUME NEW S, NEW s \in Seq(S), Len(s) \in Nat \ {0}
  PROVE  Last(s) \in S /\ Front(s) \in Seq(S)
<1>1. Last(s) \in S
  BY DEF Last
<1>2. Len(s) - 1 \in 0..Len(s) /\ 0 \in 0..Len(s)
  OBVIOUS
<1>3. SubSeq(s, 0 + 1, Len(s) - 1) \in Seq(S)
  BY <1>2, Taking
<1>. QED
  BY <1>1, <1>3 DEF Front

(* A text is split into what fits the room and pieces of a bucket's size.  *)
LEMMA PiecesFit ==
  ASSUME NEW s \in Seq(Nat), NEW cap \in Nat \ {0}
  PROVE  /\ Len(Pieces(s, cap)) \in Nat
         /\ \A k \in 1..Len(Pieces(s, cap)) : Pieces(s, cap)[k] \in Seq(Nat) /\ Len(Pieces(s, cap)[k]) <= cap
<1>. DEFINE n == Len(s)
            m == Count(n, cap)
            p == Pieces(s, cap)
<1>1. n \in Nat /\ m \in Nat
  BY CountHolds
<1>2. p \in Seq(Seq(Nat)) /\ Len(p) = m
      /\ \A k \in 1..m : p[k] = SubSeq(s, (k - 1) * cap + 1, PieceEnds(n, cap, k))
  BY PiecesAre
<1>. HIDE DEF p, m
<1>3. ASSUME NEW k \in 1..m PROVE p[k] \in Seq(Nat) /\ Len(p[k]) <= cap
  <2>. DEFINE i == (k - 1) * cap
              e == PieceEnds(n, cap, k)
  <2>1. i \in Nat /\ i < e /\ e \in 1..n /\ e <= i + cap
    BY <1>1, PieceBounds DEF m
  <2>2. p[k] = SubSeq(s, i + 1, e)
    BY <1>2
  <2>. HIDE DEF i, e
  <2>3. i \in 0..Len(s) /\ e \in i..Len(s)
    BY <1>1, <2>1 DEF n
  <2>4. SubSeq(s, i + 1, e) \in Seq(Nat) /\ Len(SubSeq(s, i + 1, e)) = e - i
    BY <2>3, Taking
  <2>. QED
    BY <2>1, <2>2, <2>4
<1>. QED
  BY <1>1, <1>2, <1>3 DEF p

LEMMA SplitFits ==
  ASSUME NEW text \in Seq(Nat), NEW room \in 0..StrCap
  PROVE  LET p == Split(text, room)
         IN  /\ Len(p) \in Nat \ {0}
             /\ p[1] \in Seq(Nat) /\ Len(p[1]) <= room
             /\ \A k \in 1..(Len(p) - 1) : p[k + 1] \in Text
<1>. DEFINE n == Len(text)
            e == Min({n, room})
            head == SubSeq(text, 1, e)
            rest == SubSeq(text, room + 1, n)
            q == Pieces(rest, StrCap)
            p == Split(text, room)
<1>1. n \in Nat /\ room \in Nat /\ StrCap \in Nat \ {0}
  BY StandardStManAssumption
<1>2. e \in 0..n /\ e <= room
  <2>1. e = IF n <= room THEN n ELSE room
    BY <1>1, MinOfTwo
  <2>. HIDE DEF e, n
  <2>. QED
    BY <1>1, <2>1
<1>. HIDE DEF e
<1>3. head \in Seq(Nat) /\ Len(head) = e
  <2>1. 0 \in 0..Len(text) /\ e \in 0..Len(text)
    BY <1>1, <1>2
  <2>2. SubSeq(text, 0 + 1, e) \in Seq(Nat) /\ Len(SubSeq(text, 0 + 1, e)) = e - 0
    BY <2>1, Taking
  <2>. QED
    BY <1>2, <2>2
<1>4. rest \in Seq(Nat)
  <2>1. CASE room <= n
    <3>1. room \in 0..Len(text) /\ n \in room..Len(text)
      BY <1>1, <2>1
    <3>. QED
      BY <3>1, Taking
  <2>2. CASE room > n
    BY <1>1, <2>2
  <2>. QED
    BY <1>1, <2>1, <2>2
<1>. HIDE DEF head, rest, n
<1>5. Len(q) \in Nat /\ \A k \in 1..Len(q) : q[k] \in Text
  BY <1>1, <1>4, PiecesFit DEF Text
<1>6. q \in Seq(Seq(Nat))
  BY <1>1, <1>4, PiecesAre
<1>7. p = <<head>> \o q
  BY DEF Split, head, rest, q, e, n
<1>. HIDE DEF q, p
<1>. DEFINE S == Seq(Nat)
            one == <<head>>
<1>8. one \in Seq(S) /\ q \in Seq(S) /\ Len(one) = 1 /\ one[1] = head
  BY <1>3, <1>6
<1>. HIDE DEF S, one
<1>9. /\ one \o q \in Seq(S) /\ Len(one \o q) = Len(one) + Len(q)
      /\ \A k \in 1..Len(one) : (one \o q)[k] = one[k]
      /\ \A k \in 1..Len(q) : (one \o q)[Len(one) + k] = q[k]
  <2>1. one \in Seq(S) /\ q \in Seq(S)
    BY <1>8
  <2>. QED
    BY <2>1, Joined
<1>10. p = one \o q
  BY <1>7 DEF one
<1>11. Len(p) = 1 + Len(q) /\ p[1] = head /\ \A k \in 1..Len(q) : p[1 + k] = q[k]
  <2>1. 1 \in 1..Len(one)
    BY <1>8
  <2>. QED
    BY <1>8, <1>9, <1>10, <2>1
<1>12. \A k \in 1..(Len(p) - 1) : p[k + 1] \in Text
  <2>. TAKE k \in 1..(Len(p) - 1)
  <2>1. k \in 1..Len(q) /\ 1 + k = k + 1
    BY <1>5, <1>11
  <2>. QED
    BY <1>5, <1>11, <2>1
<1>. QED
  BY <1>2, <1>3, <1>5, <1>11, <1>12 DEF p

LEMMA SpreadIsLinked ==
  ASSUME NEW open \in Seq(Linked), Len(open) \in Nat \ {0}, NEW number \in Int, NEW text, NEW p,
         Len(p) \in Nat \ {0}, p[1] \in Seq(Nat), Len(p[1]) <= StrCap - Len(Last(open)[2]),
         \A k \in 1..(Len(p) - 1) : p[k + 1] \in Text
  PROVE  Spread(open, number, text, p).sb \in Seq(Linked)
<1>. DEFINE link(k) == IF k < Len(p) THEN number + k ELSE -1
            last == Last(open)
            x == <<link(1), last[2] \o p[1]>>
            a == Append(Front(open), x)
            n == Len(p) - 1
            b == [k \in 1..n |-> <<link(k + 1), p[k + 1]>>]
<1>1. Spread(open, number, text, p).sb = a \o b
  BY DEF Spread
<1>2. last \in Linked /\ Front(open) \in Seq(Linked)
  BY LastOf
<1>3. \A k \in Nat : link(k) \in Int
  OBVIOUS
<1>. HIDE DEF link, last
<1>4. last[2] \o p[1] \in Text
  <2>1. last[2] \in Seq(Nat) /\ Len(last[2]) \in Nat /\ p[1] \in Seq(Nat) /\ Len(p[1]) \in Nat
    BY <1>2 DEF Linked, Text
  <2>2. last[2] \o p[1] \in Seq(Nat) /\ Len(last[2] \o p[1]) = Len(last[2]) + Len(p[1])
    BY <2>1
  <2>3. Len(last[2]) + Len(p[1]) <= StrCap
    <3>1. Len(p[1]) <= StrCap - Len(last[2])
      BY DEF last
    <3>2. StrCap \in Nat
      BY StandardStManAssumption
    <3>. DEFINE i == Len(last[2])
                j == Len(p[1])
    <3>3. i \in Nat /\ j \in Nat /\ j <= StrCap - i
      BY <2>1, <3>1
    <3>. HIDE DEF i, j
    <3>4. i + j <= StrCap
      BY <3>2, <3>3
    <3>. QED
      BY <3>4 DEF i, j
  <2>. QED
    BY <2>2, <2>3 DEF Text
<1>5. x \in Linked
  BY <1>3, <1>4 DEF Linked
<1>6. a \in Seq(Linked)
  <2>. HIDE DEF x
  <2>. QED
    BY <1>2, <1>5
<1>7. b \in Seq(Linked)
  <2>1. n \in Nat
    OBVIOUS
  <2>2. \A k \in 1..n : link(k + 1) \in Int /\ p[k + 1] \in Text
    BY <1>3
  <2>. DEFINE S == Linked
  <2>3. b \in [1..n -> S]
    BY <2>2 DEF Linked
  <2>. HIDE DEF S, b, n
  <2>4. b \in Seq(S)
    BY <2>1, <2>3, FunctionIsSequence
  <2>. QED
    BY <2>4 DEF S
<1>. HIDE DEF a, b
<1>. QED
  BY <1>1, <1>6, <1>7

LEMMA PutIsLinked ==
  ASSUME NEW sb \in Seq(Linked), NEW first \in Nat, NEW text \in Seq(Nat)
  PROVE  LET p == PutString(sb, first, text)
         IN  p.sb \in Seq(Linked) /\ p.ref[1] \in Int /\ p.ref[2] \in Nat
<1>. DEFINE open == Open(sb, text)
            room == Free(Last(open))
            p == Split(text, room)
<1>1. open \in Seq(Linked) /\ Len(open) \in Nat \ {0}
  BY OpenIsLinked
<1>. HIDE DEF open
<1>2. Last(open) \in Linked
  BY <1>1, LastOf
<1>3. room \in 0..StrCap /\ room = StrCap - Len(Last(open)[2])
  <2>1. Len(Last(open)[2]) \in Nat /\ Len(Last(open)[2]) <= StrCap
    BY <1>2 DEF Linked, Text
  <2>. QED
    BY <2>1, StandardStManAssumption DEF Free
<1>. HIDE DEF room
<1>4. /\ Len(p) \in Nat \ {0} /\ p[1] \in Seq(Nat) /\ Len(p[1]) <= room
      /\ \A k \in 1..(Len(p) - 1) : p[k + 1] \in Text
  BY <1>3, SplitFits
<1>. HIDE DEF p
<1>5. first + Len(open) - 1 \in Int
  BY <1>1
<1>6. Spread(open, first + Len(open) - 1, text, p).sb \in Seq(Linked)
  <2>. DEFINE number == first + Len(open) - 1
  <2>1. number \in Int
    BY <1>5
  <2>. HIDE DEF number
  <2>2. Len(p[1]) <= StrCap - Len(Last(open)[2])
    BY <1>3, <1>4
  <2>3. Spread(open, number, text, p).sb \in Seq(Linked)
    BY <1>1, <1>4, <2>1, <2>2, SpreadIsLinked
  <2>. QED
    BY <2>3 DEF number
<1>7. Spread(open, first + Len(open) - 1, text, p).ref = <<first + Len(open) - 1, Len(Last(open)[2])>>
  BY DEF Spread
<1>8. Len(Last(open)[2]) \in Nat
  BY <1>2 DEF Linked, Text
<1>9. PutString(sb, first, text) = Spread(open, first + Len(open) - 1, text, p)
  BY DEF PutString, PutInto, open, p, room
<1>. QED
  BY <1>5, <1>6, <1>7, <1>8, <1>9

(* The encoded cells so far.                                               *)
EncodedCells(V) ==
  ({"fixed", "short"} \X V) \cup ({"record"} \X Nat) \cup {<<"long", i, j, k>> : i \in Int, j \in Nat, k \in Nat}

EncodingOf(V) == [cells : Seq(EncodedCells(V)), sb : Seq(Linked), recs : Seq(V)]

LEMMA EncodesOn ==
  ASSUME NEW V, NEW a \in EncodingOf(V), NEW first \in Nat, NEW c \in SsmCols, NEW v \in V,
         SsmKinds[c] = "string" => v \in Seq(Nat)
  PROVE  EncodeCell(a, first, c, v) \in EncodingOf(V)
<1>. DEFINE S == EncodedCells(V)
<1>1. /\ a = [cells |-> a.cells, sb |-> a.sb, recs |-> a.recs]
      /\ a.cells \in Seq(S) /\ a.sb \in Seq(Linked) /\ a.recs \in Seq(V)
  BY DEF EncodingOf
<1>2. CASE SsmKinds[c] = "fixed"
  <2>. DEFINE x == <<"fixed", v>>
  <2>1. x \in S
    BY DEF EncodedCells
  <2>2. EncodeCell(a, first, c, v) = [a EXCEPT !.cells = Append(a.cells, x)]
    BY <1>2 DEF EncodeCell
  <2>. HIDE DEF x, S
  <2>3. Append(a.cells, x) \in Seq(S)
    BY <1>1, <2>1
  <2>4. EncodeCell(a, first, c, v) = [cells |-> Append(a.cells, x), sb |-> a.sb, recs |-> a.recs]
    BY <1>1, <2>2
  <2>. QED
    BY <1>1, <2>3, <2>4 DEF EncodingOf, S
<1>3. CASE SsmKinds[c] = "string" /\ Len(v) <= Inline
  <2>. DEFINE x == <<"short", v>>
  <2>1. x \in S
    BY DEF EncodedCells
  <2>2. EncodeCell(a, first, c, v) = [a EXCEPT !.cells = Append(a.cells, x)]
    BY <1>3 DEF EncodeCell
  <2>. HIDE DEF x, S
  <2>3. Append(a.cells, x) \in Seq(S)
    BY <1>1, <2>1
  <2>4. EncodeCell(a, first, c, v) = [cells |-> Append(a.cells, x), sb |-> a.sb, recs |-> a.recs]
    BY <1>1, <2>2
  <2>. QED
    BY <1>1, <2>3, <2>4 DEF EncodingOf, S
<1>4. CASE SsmKinds[c] = "string" /\ ~(Len(v) <= Inline)
  <2>. DEFINE p == PutString(a.sb, first, v)
              x == <<"long", p.ref[1], p.ref[2], Len(v)>>
  <2>0. v \in Seq(Nat) /\ Len(v) \in Nat
    BY <1>4
  <2>1. p.sb \in Seq(Linked) /\ p.ref[1] \in Int /\ p.ref[2] \in Nat
    BY <1>1, <2>0, PutIsLinked
  <2>2. EncodeCell(a, first, c, v) = [a EXCEPT !.cells = Append(a.cells, x), !.sb = p.sb]
    BY <1>4 DEF EncodeCell, WithLong
  <2>. HIDE DEF p
  <2>3. x \in S
    BY <2>0, <2>1 DEF EncodedCells
  <2>. HIDE DEF x, S
  <2>4. Append(a.cells, x) \in Seq(S)
    BY <1>1, <2>3
  <2>5. EncodeCell(a, first, c, v) = [cells |-> Append(a.cells, x), sb |-> p.sb, recs |-> a.recs]
    BY <1>1, <2>2
  <2>. QED
    BY <1>1, <2>1, <2>4, <2>5 DEF EncodingOf, S
<1>5. CASE SsmKinds[c] # "fixed" /\ SsmKinds[c] # "string"
  <2>. DEFINE x == <<"record", Len(a.recs) + 1>>
  <2>1. x \in S
    <3>1. Len(a.recs) + 1 \in Nat
      BY <1>1
    <3>. QED
      BY <3>1 DEF EncodedCells
  <2>2. EncodeCell(a, first, c, v) = [a EXCEPT !.cells = Append(a.cells, x), !.recs = Append(a.recs, v)]
    BY <1>5 DEF EncodeCell
  <2>. HIDE DEF x, S
  <2>3. Append(a.cells, x) \in Seq(S) /\ Append(a.recs, v) \in Seq(V)
    BY <1>1, <2>1
  <2>4. EncodeCell(a, first, c, v) = [cells |-> Append(a.cells, x), sb |-> a.sb, recs |-> Append(a.recs, v)]
    BY <1>1, <2>2
  <2>. QED
    BY <1>1, <2>3, <2>4 DEF EncodingOf, S
<1>. QED
  BY <1>2, <1>3, <1>4, <1>5

(* The k-th of n rows after another, column by column.                     *)
LEMMA PlaceOf ==
  ASSUME NEW l \in Nat, NEW n \in Nat, NEW k \in 1..(l * n)
  PROVE  ((k - 1) \div n) + 1 \in 1..l /\ (k - 1) % n \in 0..(n - 1)
<1>1. l * n \in Nat
  OBVIOUS
<1>2. n # 0
  <2>1. n = 0 => l * n = 0
    OBVIOUS
  <2>. QED
    BY <1>1, <2>1
<1>. DEFINE q == (k - 1) \div n
            r == (k - 1) % n
<1>3. k - 1 \in Nat /\ n \in Nat \ {0} /\ k - 1 < l * n
  BY <1>1, <1>2
<1>4. k - 1 = q * n + r /\ r \in 0..(n - 1)
  BY <1>3, WholeAndRest
<1>5. q \in Nat
  BY <1>3
<1>. HIDE DEF q, r
<1>6. q < l
  <2>. SUFFICES ASSUME l <= q PROVE FALSE
    BY <1>5
  <2>1. l * n \in Nat /\ q * n \in Nat /\ l * n <= q * n
    BY <1>3, <1>5, StepsOf
  <2>. QED
    BY <1>3, <1>4, <2>1
<1>. QED
  BY <1>4, <1>5, <1>6 DEF q, r

(* The cells are those of n rows, and strings of characters are strings.   *)
CellsOf(cells, n) ==
  \A c \in SsmCols : SsmKinds[c] = "string" => \A r \in 0..(n - 1) : cells[c][r] \in Seq(Nat)

LEMMA EncodedIsLinked ==
  ASSUME NEW n \in Nat, NEW cells, CellsOf(cells, n), NEW first \in Nat
  PROVE  Encoded(n, cells, first).sb \in Seq(Linked)
<1>. DEFINE V == {cells[c][r] : c \in SsmCols, r \in 0..(n - 1)}
            T == EncodingOf(V)
            L == Len(SsmKinds)
            N == L * n
            col(k) == ((k - 1) \div n) + 1
            val(k) == cells[col(k)][(k - 1) % n]
            none == [cells |-> <<>>, sb |-> <<>>, recs |-> <<>>]
            next(k, a) == EncodeCell(a, first, col(k), val(k))
            done == CHOOSE d : d = [k \in 0..N |-> IF k = 0 THEN none ELSE next(k, d[k - 1])]
<1>1. L \in Nat /\ SsmCols = 1..L
  BY StandardStManAssumption DEF SsmCols
<1>. HIDE DEF L
<1>2. N \in Nat
  BY <1>1
<1>3. ASSUME NEW k \in 1..N PROVE col(k) \in SsmCols /\ val(k) \in V /\ (SsmKinds[col(k)] = "string" => val(k) \in Seq(Nat))
  <2>1. col(k) \in 1..L /\ (k - 1) % n \in 0..(n - 1)
    BY <1>1, PlaceOf
  <2>. QED
    BY <1>1, <2>1 DEF CellsOf
<1>4. none \in T
  BY DEF EncodingOf
<1>. HIDE DEF N, V, col, val
<1>5. ASSUME NEW k \in 1..N, NEW a \in T PROVE next(k, a) \in T
  BY <1>3, EncodesOn
<1>. HIDE DEF T, none, next
<1>. DEFINE step == [k \in 1..N |-> [a \in T |-> next(k, a)]]
<1>6. step \in [1..N -> [T -> T]]
  BY <1>5
<1>7. PICK g \in [0..N -> T] : StepsFrom(g, N, none, step)
  <2>. HIDE DEF step
  <2>. QED
    BY <1>2, <1>4, <1>6, Iterates
<1>8. g = [k \in 0..N |-> IF k = 0 THEN none ELSE next(k, g[k - 1])]
  <2>1. ASSUME NEW k \in 0..N PROVE g[k] = IF k = 0 THEN none ELSE next(k, g[k - 1])
    <3>1. CASE k = 0
      BY <1>7, <3>1 DEF StepsFrom
    <3>2. CASE k # 0
      <4>1. k \in 1..N /\ k - 1 \in 0..N /\ g[k - 1] \in T
        BY <1>2, <3>2
      <4>2. g[k] = step[k][g[k - 1]]
        <5>. HIDE DEF step
        <5>. QED
          BY <1>7, <4>1 DEF StepsFrom
      <4>. QED
        BY <3>2, <4>1, <4>2
    <3>. QED
      BY <3>1, <3>2
  <2>. QED
    BY <2>1
<1>9. done = [k \in 0..N |-> IF k = 0 THEN none ELSE next(k, done[k - 1])]
  BY <1>8
<1>10. Encoded(n, cells, first) = done[N]
  BY DEF Encoded, N, L, none, next, col, val
<1>. HIDE DEF done
<1>11. \A k \in 0..N : done[k] \in T
  <2>. DEFINE Good == {k \in 0..N : done[k] \in T}
  <2>1. 0 \in Good
    BY <1>2, <1>4, <1>9
  <2>2. ASSUME NEW k \in 0..(N - 1), k \in Good PROVE k + 1 \in Good
    <3>1. k + 1 \in 1..N /\ k + 1 \in 0..N /\ k + 1 # 0 /\ (k + 1) - 1 = k
      BY <1>2
    <3>2. done[k + 1] = next(k + 1, done[k])
      BY <1>9, <3>1
    <3>3. done[k] \in T
      BY <2>2
    <3>4. next(k + 1, done[k]) \in T
      BY <1>5, <3>1, <3>3
    <3>. QED
      BY <3>1, <3>2, <3>4
  <2>3. \A k \in 0..(N - 1) : k \in Good => k + 1 \in Good
    BY <2>2
  <2>. HIDE DEF Good
  <2>4. \A k \in 0..N : k \in Good
    BY <1>2, <2>1, <2>3, UpTo
  <2>. QED
    BY <2>4 DEF Good
<1>12. done[N] \in T
  BY <1>2, <1>11
<1>. QED
  BY <1>10, <1>12 DEF T, EncodingOf

LEMMA BuiltIndexIsSound ==
  ASSUME NEW n \in Nat
  PROVE  /\ IndexSound(BuildIndex(n)) /\ BuildIndex(n).rpb = SsmRpb
         /\ Count(n, SsmRpb) \in Nat /\ DOMAIN BuildIndex(n).number = 1..Count(n, SsmRpb)
         /\ \A k \in 1..Count(n, SsmRpb) : BuildIndex(n).number[k] = k - 1
<1>. DEFINE u == Count(n, SsmRpb)
            last == [b \in 1..u |-> Min({b * SsmRpb, n}) - 1]
            number == [b \in 1..u |-> b - 1]
            ix == BuildIndex(n)
<1>1. SsmRpb \in Nat \ {0}
  BY StandardStManAssumption
<1>2. u \in Nat
  BY <1>1, CountHolds
<1>3. ix = Index(SsmRpb, last, number)
  BY DEF BuildIndex, Count
<1>4. \A b \in 1..u : Min({b * SsmRpb, n}) - 1 \in Nat
  <2>. TAKE b \in 1..u
  <2>1. PieceEnds(n, SsmRpb, b) = Min({b * SsmRpb, n}) /\ PieceEnds(n, SsmRpb, b) \in 1..n
    BY <1>1, PieceBounds
  <2>. QED
    BY <2>1
<1>. HIDE DEF u
<1>5. last \in Seq(Nat) /\ Len(last) = u
  <2>1. last \in [1..u -> Nat]
    BY <1>4
  <2>. HIDE DEF last
  <2>. QED
    BY <1>2, <2>1, FunctionIsSequence
<1>6. number \in Seq(Nat) /\ Len(number) = u /\ DOMAIN number = 1..u /\ \A k \in 1..u : number[k] = k - 1
  <2>1. number \in [1..u -> Nat] /\ \A k \in 1..u : number[k] = k - 1
    BY <1>2
  <2>. HIDE DEF number
  <2>. QED
    BY <1>2, <2>1, FunctionIsSequence
<1>. HIDE DEF last, number, ix
<1>7. ix.rpb = SsmRpb /\ ix.last = last /\ ix.number = number /\ ix = Index(ix.rpb, ix.last, ix.number)
  BY <1>3 DEF Index
<1>8. \A j, k \in DOMAIN ix.number : ix.number[j] = ix.number[k] => j = k
  <2>1. \A j, k \in 1..u : j - 1 = k - 1 => j = k
    OBVIOUS
  <2>. QED
    BY <1>6, <1>7, <2>1
<1>9. IndexSound(ix)
  BY <1>1, <1>5, <1>6, <1>7, <1>8 DEF IndexSound
<1>. QED
  BY <1>2, <1>6, <1>7, <1>9 DEF ix, u

FullRows(v) == v[1] = "data" /\ v[2] = [i \in 1..BucketCells(Layout(SsmRpb)) |-> v[2][i]]

AssembledParts(f, data, first, stream, pieces, enc) ==
  /\ f = [hdr |-> f.hdr, bucket |-> f.bucket, arr |-> f.arr]
  /\ f.hdr = [big |-> FALSE, size |-> BucketCells(Layout(SsmRpb)), nr |-> first + Len(enc.sb),
              nrIdx |-> Len(pieces), first |-> data, idxLen |-> Len(stream)]
  /\ DOMAIN f.bucket = 0..(first + Len(enc.sb) - 1)
  /\ \A b \in DOMAIN f.bucket :
       /\ b < data => FullRows(f.bucket[b])
       /\ ~(b < data) /\ b < first =>
            f.bucket[b] = IndexBucket(IF b + 1 < first THEN b + 1 ELSE -1, pieces[b - data + 1])

LEMMA AssembledHas ==
  ASSUME NEW n, NEW data, NEW first, NEW stream, NEW pieces, NEW enc
  PROVE  AssembledParts(Assembled(n, data, first, stream, pieces, enc), data, first, stream, pieces, enc)
<1>. DEFINE f == Assembled(n, data, first, stream, pieces, enc)
            size == BucketCells(Layout(SsmRpb))
<1>1. /\ f = [hdr |-> f.hdr, bucket |-> f.bucket, arr |-> f.arr]
      /\ f.hdr = [big |-> FALSE, size |-> size, nr |-> first + Len(enc.sb),
                  nrIdx |-> Len(pieces), first |-> data, idxLen |-> Len(stream)]
      /\ DOMAIN f.bucket = 0..(first + Len(enc.sb) - 1)
  <2>. HIDE DEF size
  <2>. QED
    BY DEF Assembled, size
<1>2. ASSUME NEW b \in DOMAIN f.bucket, b < data
      PROVE  f.bucket[b][1] = "data" /\ f.bucket[b][2] = [i \in 1..size |-> f.bucket[b][2][i]]
  <2>. HIDE DEF size
  <2>. QED
    BY <1>2 DEF Assembled, DataBucket, size
<1>3. ASSUME NEW b \in DOMAIN f.bucket, ~(b < data), b < first
      PROVE  f.bucket[b] = IndexBucket(IF b + 1 < first THEN b + 1 ELSE -1, pieces[b - data + 1])
  BY <1>3 DEF Assembled
<1>. QED
  <2>1. \A b \in DOMAIN f.bucket : b < data => FullRows(f.bucket[b])
    BY <1>2 DEF FullRows
  <2>2. AssembledParts(f, data, first, stream, pieces, enc)
    <3>. HIDE DEF f
    <3>. QED
      BY <1>1, <1>3, <2>1 DEF AssembledParts
  <2>. QED
    BY <2>2

LEMMA AssembledIsSound ==
  ASSUME NEW n \in Nat, IdxCap \in Nat \ {0}, NEW enc, Len(enc.sb) \in Nat
  PROVE  LET ix == BuildIndex(n)
             stream == IndexStream(ix)
             pieces == Pieces(stream, IdxCap)
             data == Count(n, SsmRpb)
         IN  SsmSound(Assembled(n, data, data + Len(pieces), stream, pieces, enc), ix,
                      [k \in 1..Len(pieces) |-> data + k - 1])
<1>. DEFINE ix == BuildIndex(n)
            stream == IndexStream(ix)
            pieces == Pieces(stream, IdxCap)
            data == Count(n, SsmRpb)
            m == Len(pieces)
            first == data + m
            end == first + Len(enc.sb)
            f == Assembled(n, data, first, stream, pieces, enc)
            chain == [k \in 1..m |-> data + k - 1]
            size == BucketCells(Layout(SsmRpb))
<1>1. IndexSound(ix) /\ data \in Nat /\ DOMAIN ix.number = 1..data /\ \A k \in 1..data : ix.number[k] = k - 1
  BY BuiltIndexIsSound
<1>. HIDE DEF ix
<1>2. m \in Nat /\ m >= 1
  <2>1. stream \in Seq(Nat) /\ Len(stream) = 2 + 2 * Len(ix.last) /\ Len(ix.last) \in Nat
    BY <1>1, StreamIs
  <2>. HIDE DEF stream
  <2>2. m = Count(Len(stream), IdxCap)
    BY <2>1, PiecesAre
  <2>3. Len(stream) \in Nat /\ Len(stream) > 0
    BY <2>1
  <2>. HIDE DEF m
  <2>. QED
    BY <2>2, <2>3, CountHolds
<1>3. size \in Nat
  BY StandardStManAssumption DEF BucketCells, Layout
<1>4. first \in Nat /\ end \in Nat /\ data + m = first /\ first <= end
  <2>. DEFINE e == Len(enc.sb)
  <2>1. e \in Nat
    OBVIOUS
  <2>. HIDE DEF e
  <2>2. data + m \in Nat /\ (data + m) + e \in Nat /\ data + m <= (data + m) + e
    BY <1>1, <1>2, <2>1
  <2>. QED
    BY <2>2 DEF e
<1>5. /\ f = [hdr |-> f.hdr, bucket |-> f.bucket, arr |-> f.arr]
      /\ f.hdr = [big |-> FALSE, size |-> size, nr |-> end, nrIdx |-> m, first |-> data, idxLen |-> Len(stream)]
      /\ DOMAIN f.bucket = 0..(end - 1)
      /\ \A b \in 0..(end - 1) :
           /\ b < data => FullRows(f.bucket[b])
           /\ ~(b < data) /\ b < first =>
                f.bucket[b] = IndexBucket(IF b + 1 < first THEN b + 1 ELSE -1, pieces[b - data + 1])
  <2>1. AssembledParts(f, data, first, stream, pieces, enc)
    BY AssembledHas
  <2>2. end = first + Len(enc.sb) /\ m = Len(pieces) /\ size = BucketCells(Layout(SsmRpb))
    OBVIOUS
  <2>. HIDE DEF f, first, end, m, size, data, stream, pieces
  <2>3. f = [hdr |-> f.hdr, bucket |-> f.bucket, arr |-> f.arr]
    BY <2>1 DEF AssembledParts
  <2>4. f.hdr = [big |-> FALSE, size |-> size, nr |-> end, nrIdx |-> m, first |-> data, idxLen |-> Len(stream)]
    <3>1. f.hdr = [big |-> FALSE, size |-> BucketCells(Layout(SsmRpb)), nr |-> first + Len(enc.sb),
                   nrIdx |-> Len(pieces), first |-> data, idxLen |-> Len(stream)]
      BY <2>1 DEF AssembledParts
    <3>. QED
      BY <2>2, <3>1, Zenon
  <2>5. DOMAIN f.bucket = 0..(end - 1)
    <3>1. DOMAIN f.bucket = 0..(first + Len(enc.sb) - 1)
      BY <2>1 DEF AssembledParts
    <3>. QED
      BY <1>4, <2>2, <3>1
  <2>6. ASSUME NEW b \in 0..(end - 1), b < data PROVE FullRows(f.bucket[b])
    BY <2>1, <2>5, <2>6 DEF AssembledParts
  <2>7. ASSUME NEW b \in 0..(end - 1), ~(b < data), b < first
        PROVE  f.bucket[b] = IndexBucket(IF b + 1 < first THEN b + 1 ELSE -1, pieces[b - data + 1])
    BY <2>1, <2>5, <2>7 DEF AssembledParts
  <2>. QED
    BY <2>3, <2>4, <2>5, <2>6, <2>7
<1>. HIDE DEF stream, pieces, data, m, size, f
<1>. HIDE DEF first, end
<1>6. \A b \in 0..(data - 1) : b \in DOMAIN f.bucket /\ WholeData(f.bucket[b])
  <2>. TAKE b \in 0..(data - 1)
  <2>1. b \in 0..(end - 1) /\ b < data
    BY <1>1, <1>2, <1>4
  <2>2. b \in DOMAIN f.bucket /\ FullRows(f.bucket[b])
    BY <1>5, <2>1
  <2>3. IsWhole(f.bucket[b][2])
    <3>. DEFINE v == f.bucket[b][2]
    <3>1. v = [i \in 1..size |-> v[i]]
      BY <2>2 DEF FullRows, size
    <3>. HIDE DEF v
    <3>2. IsWhole(v)
      BY <1>3, <3>1, WholeFunction
    <3>. QED
      BY <3>2 DEF v
  <2>4. f.bucket[b][1] = "data"
    BY <2>2 DEF FullRows
  <2>. QED
    BY <2>2, <2>3, <2>4 DEF WholeData
<1>7. chain \in Seq(Nat) /\ Len(chain) = m /\ DOMAIN chain = 1..m /\ \A k \in 1..m : chain[k] = data + k - 1
  <2>1. chain \in [1..m -> Nat] /\ \A k \in 1..m : chain[k] = data + k - 1
    BY <1>1, <1>2
  <2>. HIDE DEF chain
  <2>. QED
    BY <1>2, <2>1, FunctionIsSequence
<1>. HIDE DEF chain
<1>8. ASSUME NEW k \in 1..m
      PROVE  /\ chain[k] \in DOMAIN f.bucket
             /\ f.bucket[chain[k]][1] = "index" /\ f.bucket[chain[k]][3] = pieces[k]
             /\ k < m => f.bucket[chain[k]][2] = chain[k + 1]
  <2>. DEFINE b == chain[k]
  <2>1. b = data + k - 1
    BY <1>7
  <2>2. b \in 0..(end - 1) /\ ~(b < data) /\ b < first /\ b - data + 1 = k /\ (k < m => b + 1 < first /\ k + 1 \in 1..m /\ b + 1 = data + (k + 1) - 1)
    BY <1>1, <1>2, <1>4, <2>1
  <2>3. k < m => chain[k + 1] = b + 1
    BY <1>7, <2>2
  <2>. HIDE DEF b
  <2>4. b \in DOMAIN f.bucket /\ f.bucket[b] = IndexBucket(IF b + 1 < first THEN b + 1 ELSE -1, pieces[k])
    BY <1>5, <2>2
  <2>5. f.bucket[b][1] = "index" /\ f.bucket[b][2] = (IF b + 1 < first THEN b + 1 ELSE -1) /\ f.bucket[b][3] = pieces[k]
    BY <2>4 DEF IndexBucket
  <2>6. k < m => f.bucket[b][2] = chain[k + 1]
    BY <2>2, <2>3, <2>5
  <2>. QED
    BY <2>4, <2>5, <2>6 DEF b
<1>9. chain[1] = data
  <2>1. 1 \in 1..m /\ data + 1 - 1 = data
    BY <1>1, <1>2
  <2>. QED
    BY <1>7, <2>1
<1>10. ChainSound(f, ix, chain)
  <2>1. /\ f.hdr.nrIdx = m /\ f.hdr.first = chain[1] /\ f.hdr.idxLen = Len(stream)
    BY <1>5, <1>9
  <2>. QED
    BY <1>7, <1>8, <2>1 DEF ChainSound, stream, pieces, m
<1>11. \A j, k \in DOMAIN chain : chain[j] = chain[k] => j = k
  <2>1. \A j, k \in 1..m : data + j - 1 = data + k - 1 => j = k
    BY <1>1
  <2>. QED
    BY <1>7, <2>1
<1>12. \A k \in DOMAIN ix.number :
         /\ ix.number[k] \in DOMAIN f.bucket
         /\ f.bucket[ix.number[k]][1] = "data" /\ IsWhole(f.bucket[ix.number[k]][2])
  <2>. TAKE k \in DOMAIN ix.number
  <2>1. ix.number[k] = k - 1 /\ k - 1 \in 0..(data - 1)
    BY <1>1
  <2>. QED
    BY <1>6, <2>1 DEF WholeData
<1>13. f.hdr.size \in Nat /\ f.hdr.nr = end /\ {"big", "size", "nr", "nrIdx", "first", "idxLen"} \subseteq DOMAIN f.hdr
       /\ DOMAIN f.bucket \subseteq 0..(end - 1)
  BY <1>3, <1>5
<1>14. SsmSound(f, ix, chain)
  BY <1>1, <1>5, <1>4, <1>10, <1>11, <1>12, <1>13 DEF SsmSound
<1>. QED
  BY <1>14 DEF f, chain, first, m, pieces, stream, data, ix

(* What a rebuild writes is whole: for any cells, the buckets of rows, of  *)
(* the index and of strings lie where the index and the header say.        *)
THEOREM BuildIsSound ==
  ASSUME NEW n \in Nat, NEW cells, CellsOf(cells, n)
  PROVE  \E chain : SsmSound(SsmBuild(n, cells), BuildIndex(n), chain) /\ BuildIndex(n).rpb = SsmRpb
<1>. DEFINE stream == IndexStream(BuildIndex(n))
            pieces == Pieces(stream, IdxCap)
            data == Count(n, SsmRpb)
            first == data + Len(pieces)
            enc == Encoded(n, cells, first)
<1>1. IndexSound(BuildIndex(n)) /\ BuildIndex(n).rpb = SsmRpb /\ data \in Nat
  BY BuiltIndexIsSound
<1>2. IdxCap \in Nat \ {0}
  BY StandardStManAssumption
<1>3. first \in Nat
  <2>1. stream \in Seq(Nat)
    BY <1>1, StreamIs
  <2>. HIDE DEF stream, data
  <2>2. Len(pieces) \in Nat
    BY <1>2, <2>1, PiecesFit
  <2>. QED
    BY <1>1, <2>2
<1>. HIDE DEF first
<1>4. enc.sb \in Seq(Linked)
  BY <1>3, EncodedIsLinked
<1>. HIDE DEF enc
<1>5. Len(enc.sb) \in Nat
  BY <1>4
<1>6. SsmBuild(n, cells) = Assembled(n, data, first, stream, pieces, enc)
  BY DEF SsmBuild, Indexed, first, enc, Count
<1>7. SsmSound(Assembled(n, data, first, stream, pieces, enc), BuildIndex(n), [k \in 1..Len(pieces) |-> data + k - 1])
  BY <1>2, <1>5, AssembledIsSound DEF first
<1>. QED
  BY <1>1, <1>6, <1>7
-----------------------------------------------------------------------------
(* A growth that is cut off.                                               *)

(* F[k] is the files after k writes of W.                                  *)
Stages(f, W, F) == F[0] = f /\ \A k \in 1..Len(W) : F[k] = SsmApply(F[k - 1], W[k])

(* What there is to read after s writes: the old index, the new one or     *)
(* none, and with the old handle every cell there was.                     *)
CutOffAt(F, s, f, ix, nix, h, spec, zero, old) ==
  /\ ReadIndex(F[s]) \in {Found(ix), Found(nix), Broken}
  /\ \A c \in SsmCols, row \in 0..(old - 1) :
       SsmRead(f, h, spec, zero, c, row) # Broken => SsmRead(F[s], h, spec, zero, c, row) # Broken

(* grow_in_place writes the files with no journal: the topped up bucket,   *)
(* the fresh ones, the index bucket by bucket over the old one, the header *)
(* and the array file.  Cut off after any of these writes, whole files     *)
(* show a handle opened on them the old index, the new one or none, and a  *)
(* handle opened before goes on reading every cell; with all writes made   *)
(* they are whole again.                                                   *)
THEOREM GrowthCutOff ==
  ASSUME NEW f, NEW ix, NEW chain, SsmSound(f, ix, chain), IdxCap \in Nat \ {0}, NEW h, h.index = ix,
         NEW spec, Apart(spec, ix.rpb), NEW old \in Nat, NEW new \in Nat, old < new, Rows(ix) = old, NEW zero,
         NEW W, W = SsmGrow(f, h, spec, zero, old, new), NEW F, Stages(f, W, F)
  PROVE  \E nix, nchain :
           /\ \A s \in 0..Len(W) : CutOffAt(F, s, f, ix, nix, h, spec, zero, old)
           /\ SsmSound(F[Len(W)], nix, nchain)
<1>1. PICK g : Begins(g, W, f, ix, spec, old)
  BY GrowthIsOne
<1>2. /\ GrowthOf(g) /\ WritesOf(g, W) /\ Len(W) \in Nat
      /\ g.f0 = f /\ g.ix = ix /\ g.spec = spec /\ g.old = old
  BY <1>1 DEF Begins, IsList
<1>. DEFINE T == {k \in 0..Len(W) : Along(g, W, k, F[k])}
<1>3. 0 \in T
  BY <1>2, AlongBegins DEF Stages
<1>4. ASSUME NEW k \in 0..(Len(W) - 1), k \in T PROVE k + 1 \in T
  <2>1. k \in Nat /\ k < Len(W) /\ k + 1 \in 1..Len(W) /\ (k + 1) - 1 = k
    BY <1>2
  <2>2. F[k + 1] = SsmApply(F[(k + 1) - 1], W[k + 1])
    BY <2>1 DEF Stages
  <2>3. Along(g, W, k, F[k])
    BY <1>4
  <2>4. Along(g, W, k + 1, SsmApply(F[k], W[k + 1]))
    BY <1>2, <2>1, <2>3, AlongSteps
  <2>. QED
    BY <2>1, <2>2, <2>4
<1>5. \A s \in 0..Len(W) : Along(g, W, s, F[s])
  <2>1. \A k \in 0..(Len(W) - 1) : k \in T => k + 1 \in T
    BY <1>4
  <2>. HIDE DEF T
  <2>2. \A k \in 0..Len(W) : k \in T
    BY <1>2, <1>3, <2>1, UpTo
  <2>. QED
    BY <2>2 DEF T
<1>6. ASSUME NEW s \in 0..Len(W) PROVE CutOffAt(F, s, f, ix, g.nix, h, spec, zero, old)
  <2>1. Along(g, W, s, F[s])
    BY <1>5
  <2>2. ReadIndex(F[s]) \in {Found(ix), Found(g.nix), Broken}
    BY <1>2, <2>1, IndexAlong
  <2>3. ASSUME NEW c \in SsmCols, NEW row \in 0..(old - 1), SsmRead(f, h, spec, zero, c, row) # Broken
        PROVE  SsmRead(F[s], h, spec, zero, c, row) # Broken
    <3>1. (\A d \in SsmCols : g.spec.offset[d] \in Nat) /\ old \in 0..g.old
      BY <1>2 DEF Apart
    <3>2. Follows(h.index, g.ix, old)
      BY <1>2 DEF Follows
    <3>3. SsmRead(g.f0, h, g.spec, zero, c, row) # Broken
      BY <1>2, <2>3
    <3>4. SsmRead(F[s], h, g.spec, zero, c, row) # Broken
      BY <1>2, <2>1, <3>1, <3>2, <3>3, ReadsAlong
    <3>. QED
      BY <1>2, <3>4
  <2>. QED
    BY <2>2, <2>3 DEF CutOffAt
<1>7. SsmSound(F[Len(W)], g.nix, g.nchain)
  <2>1. Along(g, W, Len(W), F[Len(W)])
    BY <1>2, <1>5
  <2>. QED
    BY <1>2, <2>1, ArrivesSound
<1>. QED
  BY <1>6, <1>7
=============================================================================
