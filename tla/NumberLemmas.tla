---------------------------- MODULE NumberLemmas ----------------------------
(***************************************************************************)
(* Facts about sets of numbers and about remainders that the proofs share. *)
(***************************************************************************)
EXTENDS Integers, FiniteSets, TLAPS, FiniteSetTheorems, NaturalsInduction,
        WellFoundedInduction

\* A set of numbers has a least element.
LEMMA LeastNumber ==
  ASSUME NEW S \in SUBSET Nat, S # {}
  PROVE  \E m \in S : \A n \in S : m <= n
<1>1. \E m \in S : \A n \in S : <<n, m>> \notin OpToRel(<, Nat)
  BY NatLessThanWellFounded, WFMin
<1>2. PICK m \in S : \A n \in S : <<n, m>> \notin OpToRel(<, Nat)
  BY <1>1
<1>3. ASSUME NEW n \in S PROVE m <= n
  <2>1. ~(n < m)
    BY <1>2 DEF OpToRel
  <2> QED
    BY <2>1
<1> QED
  BY <1>3

\* A set of numbers with a bound has a greatest element: its least bound.
LEMMA GreatestNumber ==
  ASSUME NEW S \in SUBSET Nat, S # {}, NEW b \in Nat, \A n \in S : n <= b
  PROVE  \E m \in S : \A n \in S : n <= m
<1> DEFINE Bounds == {c \in Nat : \A n \in S : n <= c}
<1>1. PICK m \in Bounds : \A c \in Bounds : m <= c
  <2>1. b \in Bounds
    OBVIOUS
  <2> QED
    BY <2>1, LeastNumber
<1>2. m \in S
  <2>1. SUFFICES ASSUME m \notin S PROVE FALSE
    OBVIOUS
  <2>2. \A n \in S : n < m
    BY <1>1, <2>1
  <2>3. m # 0
    <3>1. PICK n \in S : TRUE
      OBVIOUS
    <3>2. n \in Nat /\ n < m
      BY <2>2, <3>1
    <3> QED
      BY <3>2
  <2>4. m - 1 \in Bounds
    BY <1>1, <2>2, <2>3
  <2> QED
    BY <1>1, <2>4
<1>3. \A n \in S : n <= m
  BY <1>1
<1> QED
  BY <1>2, <1>3

\* Dividing by a positive number.
LEMMA Division == ASSUME NEW a \in Nat, NEW n \in Nat \ {0}
  PROVE  a \div n \in Nat /\ a % n \in 0..(n - 1) /\ a = (a \div n) * n + (a % n)
<1>1. a \div n \in Int
  OBVIOUS
<1>2. a \div n >= 0
  BY <1>1
<1>3. a % n \in 0..(n - 1)
  OBVIOUS
<1>4. a = (a \div n) * n + (a % n)
  BY Z3
<1> QED
  BY <1>1, <1>2, <1>3, <1>4
LEMMA Multiples == ASSUME NEW n \in Nat, NEW p \in Nat, NEW q \in Nat, p < q PROVE p * n + n <= q * n
OBVIOUS
LEMMA OneRemainder ==
  ASSUME NEW n \in Nat \ {0}, NEW p \in Nat, NEW q \in Nat, NEW r \in 0..(n - 1), NEW t \in 0..(n - 1),
         p * n + r = q * n + t
  PROVE  r = t
<1> DEFINE x == p * n
           y == q * n
<1>1. x \in Nat /\ y \in Nat
  OBVIOUS
<1>2. p < q => x + n <= y
  BY Multiples
<1>3. q < p => y + n <= x
  BY Multiples
<1>4. p = q => x = y
  OBVIOUS
<1>5. x + r = y + t
  OBVIOUS
<1> HIDE DEF x, y
<1> QED
  BY <1>1, <1>2, <1>3, <1>4, <1>5
LEMMA PeriodicRemainder == ASSUME NEW a \in Nat, NEW n \in Nat \ {0} PROVE (a + n) % n = a % n
<1> DEFINE q == a \div n
           r == a % n
           p == (a + n) \div n
           t == (a + n) % n
<1>1. /\ q \in Nat /\ r \in 0..(n - 1) /\ a = q * n + r
      /\ p \in Nat /\ t \in 0..(n - 1) /\ a + n = p * n + t
  <2>1. a + n \in Nat
    OBVIOUS
  <2> QED
    BY <2>1, Division
<1> HIDE DEF q, r, p, t
<1>2. (q + 1) * n = q * n + n
  BY <1>1
<1>3. (q + 1) * n + r = p * n + t
  BY <1>1, <1>2
<1>4. r = t
  BY <1>1, <1>3, OneRemainder
<1> QED
  BY <1>4 DEF r, t
LEMMA SmallRemainder == ASSUME NEW a \in Nat, NEW n \in Nat \ {0}, a < n PROVE a % n = a
OBVIOUS
LEMMA HalfDivisor == ASSUME NEW a \in Nat, NEW n \in Nat \ {0}, a % n = 0, n < a PROVE 2 * n <= a /\ n <= a \div 2
OBVIOUS
=============================================================================
