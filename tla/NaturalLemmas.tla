---------------------------- MODULE NaturalLemmas ---------------------------
(***************************************************************************)
(* Induction over the naturals, from the least element of a set of them,   *)
(* and the largest element of a bounded set.                               *)
(***************************************************************************)
EXTENDS Integers, Sequences, FiniteSetsExt, WellFoundedInduction, TLAPS

LEMMA Least ==
  ASSUME NEW S, S \subseteq Nat, S # {}
  PROVE  \E m \in S : \A k \in S : m <= k
<1>. DEFINE R == {p \in Nat \X Nat : p[1] < p[2]}
<1>1. IsWellFoundedOn(R, Nat)
  BY NatLessThanWellFounded DEF OpToRel
<1>. HIDE DEF R
<1>2. PICK m \in S : \A k \in S : ~(<<k, m>> \in R)
  BY <1>1, WFMin
<1>3. \A k \in S : ~(k < m)
  BY <1>2 DEF R
<1>. QED
  BY <1>3

(* What holds of 0 and is handed on from each k to k + 1 holds up to n.    *)
LEMMA UpTo ==
  ASSUME NEW n \in Nat, NEW S, 0 \in S, \A k \in 0..(n - 1) : k \in S => k + 1 \in S
  PROVE  \A k \in 0..n : k \in S
<1>. DEFINE Out == {k \in 0..n : k \notin S}
<1>. SUFFICES ASSUME Out # {} PROVE FALSE
  OBVIOUS
<1>1. Out \subseteq Nat
  OBVIOUS
<1>2. PICK m \in Out : \A k \in Out : m <= k
  <2>. HIDE DEF Out
  <2>. QED
    BY <1>1, Least
<1>3. m \in 1..n /\ m - 1 \in 0..(n - 1) /\ m - 1 \notin Out
  BY <1>2
<1>. QED
  BY <1>2, <1>3

LEMMA Greatest ==
  ASSUME NEW n \in Nat, NEW S, S \subseteq 0..n, S # {}
  PROVE  Max(S) \in S /\ \A k \in S : k <= Max(S)
<1>. DEFINE Off == {k \in Nat : n - k \in S}
<1>0. \A k \in S : k \in 0..n /\ n - k \in Nat /\ n - (n - k) = k
  OBVIOUS
<1>1. Off # {} /\ Off \subseteq Nat
  BY <1>0
<1>2. PICK m \in Off : \A k \in Off : m <= k
  <2>. HIDE DEF Off
  <2>. QED
    BY <1>1, Least
<1>3. \A k \in S : k <= n - m
  <2>1. \A k \in S : n - k \in Off
    BY <1>0
  <2>. QED
    BY <1>2, <1>0, <2>1
<1>4. \E x \in S : \A y \in S : x >= y
  BY <1>0, <1>2, <1>3
<1>5. Max(S) \in S /\ \A k \in S : Max(S) >= k
  BY <1>4 DEF Max
<1>. QED
  BY <1>0, <1>5

LEMMA MaxOfTwo ==
  ASSUME NEW a \in Nat, NEW b \in Nat
  PROVE  Max({a, b}) = IF a >= b THEN a ELSE b
<1>1. \E x \in {a, b} : \A y \in {a, b} : x >= y
  OBVIOUS
<1>2. Max({a, b}) \in {a, b} /\ \A y \in {a, b} : Max({a, b}) >= y
  BY <1>1 DEF Max
<1>. QED
  BY <1>2

(* Whole bytes from a number of bits on.                                   *)
LEMMA WholeAndRest ==
  ASSUME NEW a \in Nat, NEW b \in Nat \ {0}
  PROVE  a = (a \div b) * b + (a % b) /\ a % b \in 0..(b - 1)
OBVIOUS

LEMMA WholeIsNatural ==
  ASSUME NEW a \in Nat, NEW b \in Nat \ {0}
  PROVE  (a \div b) * b \in Nat
OBVIOUS

LEMMA RoundedUp ==
  ASSUME NEW x \in Int, NEW b \in Nat \ {0}
  PROVE  (x \div b + 1) * b - 1 \in Int /\ x <= (x \div b + 1) * b - 1
OBVIOUS

(* The k-th of the n places of row r.                                      *)
LEMMA PlaceInRow ==
  ASSUME NEW r \in Nat, NEW n \in Nat, NEW k \in 0..(n - 1)
  PROVE  (r * n + k) \div n = r /\ (r * n + k) % n = k
OBVIOUS

LEMMA RowsBefore ==
  ASSUME NEW r \in Nat, NEW n \in Nat, NEW m \in Nat, r < m
  PROVE  r * n \in Nat /\ m * n \in Nat /\ r * n + n <= m * n
<1>1. r * n \in Nat /\ m * n \in Nat
  OBVIOUS
<1>2. r * n + n <= m * n
  OBVIOUS
<1>. QED
  BY <1>1, <1>2

(* A function on 1..n is a sequence of n elements.                         *)
LEMMA FunctionIsSequence ==
  ASSUME NEW S, NEW n \in Nat, NEW f \in [1..n -> S]
  PROVE  f \in Seq(S) /\ Len(f) = n
OBVIOUS
=============================================================================
