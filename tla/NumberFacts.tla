---------------------------- MODULE NumberFacts -----------------------------
(***************************************************************************)
(* What the proofs about several components need of numbers: least and     *)
(* largest elements of a set, drawn from the well-foundedness of < on Nat, *)
(* sets put in order, and the index of a ring.                             *)
(***************************************************************************)
EXTENDS Integers, Sequences, FiniteSetTheorems, WellFoundedInduction, TLAPS

\* A function on the first numbers is a sequence.
LEMMA FunctionIsSeq ==
    ASSUME NEW S, NEW n \in Nat, NEW f \in [1..n -> S]
    PROVE  f \in Seq(S) /\ Len(f) = n
BY SMT

Less == OpToRel(<, Nat)

\* The order of the natural numbers as a relation, and that it is well-founded.
LEMMA LessFacts ==
    /\ IsWellFoundedOn(Less, Nat)
    /\ \A x, y \in Nat : x < y => <<x, y>> \in Less
<1>1. IsWellFoundedOn(Less, Nat)
  BY NatLessThanWellFounded, Zenon DEF Less
<1>2. \A x, y \in Nat : x < y => <<x, y>> \in Less
  BY SMT DEF OpToRel, Less
<1> QED
  BY <1>1, <1>2

\* A set of numbers that is not empty and bounded has a largest element.
LEMMA Largest ==
    ASSUME NEW n \in Nat, NEW T \in SUBSET (1..n), T # {}
    PROVE  \E x \in T : \A y \in T : y <= x
<1> DEFINE D == {n - k : k \in T}
<1>1. D \subseteq Nat /\ D # {}
  <2>1. PICK x \in T : TRUE
    OBVIOUS
  <2>2. n - x \in D
    OBVIOUS
  <2>3. \A k \in T : n - k \in Nat
    OBVIOUS
  <2> QED
    BY <2>2, <2>3
<1>2. \E d \in D : \A e \in D : ~(<<e, d>> \in Less)
  <2> HIDE DEF D
  <2>1. IsWellFoundedOn(Less, Nat)
    BY LessFacts
  <2> QED
    BY <1>1, <2>1, WFMin
<1>3. PICK d \in D : \A e \in D : ~(<<e, d>> \in Less)
  BY <1>2
<1>4. PICK x \in T : d = n - x
  BY <1>3
<1>5. ASSUME NEW y \in T PROVE y <= x
  <2>1. n - y \in D /\ n - x \in D /\ n - y \in Nat /\ n - x \in Nat
    BY <1>1
  <2>2. ~(<<n - y, n - x>> \in Less)
    BY <1>3, <1>4, <2>1
  <2>3. ~(n - y < n - x)
    BY <2>1, <2>2, LessFacts
  <2> QED
    BY <2>3
<1> QED
  BY <1>5

\* A set of numbers that is not empty has a least element.
LEMMA Smallest ==
    ASSUME NEW T \in SUBSET Nat, T # {}
    PROVE  \E x \in T : \A y \in T : x <= y
<1>1. IsWellFoundedOn(Less, Nat)
  BY LessFacts
<1>2. \E x \in T : \A y \in T : ~(<<y, x>> \in Less)
  BY <1>1, WFMin
<1>3. PICK x \in T : \A y \in T : ~(<<y, x>> \in Less)
  BY <1>2
<1>4. ASSUME NEW y \in T PROVE x <= y
  <2>1. x \in Nat /\ y \in Nat
    OBVIOUS
  <2>2. ~(y < x)
    BY <1>3, <2>1, LessFacts
  <2> QED
    BY <2>1, <2>2
<1> QED
  BY <1>4

\* A set of numbers can be put in order.  It has no smallest counterexample:
\* without its largest element it would be smaller.
LEMMA Enumeration ==
    ASSUME NEW n \in Nat, NEW S \in SUBSET (1..n)
    PROVE  \E f \in [1..Cardinality(S) -> S] :
              \A i, j \in 1..Cardinality(S) : i < j => f[i] < f[j]
<1> DEFINE Ordered(T, c) ==
      \E f \in [1..c -> T] : \A i, j \in 1..c : i < j => f[i] < f[j]
<1> DEFINE sizes == {c \in Nat : \E T \in SUBSET (1..n) : Cardinality(T) = c /\ ~Ordered(T, c)}
<1>1. ASSUME NEW T \in SUBSET (1..n)
      PROVE  IsFiniteSet(T) /\ Cardinality(T) \in Nat
  <2>1. IsFiniteSet(1..n)
    BY FS_Interval
  <2>2. IsFiniteSet(T)
    BY <2>1, FS_Subset
  <2> QED
    BY <2>2, FS_CardinalityType
<1>2. SUFFICES ASSUME sizes # {} PROVE FALSE
  <2>1. Cardinality(S) \in Nat
    BY <1>1
  <2>2. Cardinality(S) \notin sizes => Ordered(S, Cardinality(S))
    BY <2>1
  <2> QED
    BY <2>2
<1>3. sizes \subseteq Nat
  OBVIOUS
<1>4. PICK c \in sizes : \A d \in sizes : c <= d
  <2> HIDE DEF sizes
  <2> QED
    BY <1>2, <1>3, Smallest
<1>5. PICK T \in SUBSET (1..n) : Cardinality(T) = c /\ ~Ordered(T, c)
  BY <1>4
<1>6. IsFiniteSet(T) /\ c \in Nat
  BY <1>1, <1>5
<1>7. T # {}
  <2>1. SUFFICES ASSUME T = {} PROVE FALSE
    OBVIOUS
  <2>2. c = 0
    BY <1>5, <2>1, FS_EmptySet
  <2>3. [i \in 1..c |-> i] \in [1..c -> T]
    BY <2>2
  <2>4. Ordered(T, c)
    BY <2>2, <2>3
  <2> QED
    BY <1>5, <2>4
<1>8. PICK x \in T : \A y \in T : y <= x
  BY <1>7, Largest
<1> DEFINE R == T \ {x}
<1>9. R \in SUBSET (1..n) /\ Cardinality(R) = c - 1 /\ c - 1 \in Nat
  <2>1. Cardinality(R) = c - 1
    BY <1>5, <1>6, <1>8, FS_RemoveElement
  <2>2. Cardinality(R) \in Nat
    BY <1>1
  <2> QED
    BY <2>1, <2>2
<1>10. Ordered(R, c - 1)
  <2>1. c - 1 \notin sizes
    BY <1>4, <1>6
  <2> HIDE DEF R, Ordered
  <2> QED
    BY <1>9, <2>1
<1>11. PICK g \in [1..(c - 1) -> R] : \A i, j \in 1..(c - 1) : i < j => g[i] < g[j]
  BY <1>10
<1> DEFINE f == [i \in 1..c |-> IF i = c THEN x ELSE g[i]]
<1>12. f \in [1..c -> T]
  <2>1. ASSUME NEW i \in 1..c PROVE (IF i = c THEN x ELSE g[i]) \in T
    <3>1. CASE i = c
      BY <3>1
    <3>2. CASE i # c
      <4>1. i \in 1..(c - 1)
        BY <3>2, <1>6
      <4> QED
        BY <4>1, <3>2, <1>11
    <3> QED
      BY <3>1, <3>2
  <2> QED
    BY <2>1
<1>13. ASSUME NEW i \in 1..c, NEW j \in 1..c, i < j PROVE f[i] < f[j]
  <2>1. i \in 1..(c - 1) /\ f[i] = g[i] /\ g[i] \in R
    BY <1>6, <1>11, <1>13
  <2>2. CASE j = c
    <3>1. g[i] # x /\ g[i] \in T /\ g[i] <= x
      <4>1. g[i] \in R
        BY <2>1, Zenon
      <4>2. \A r \in R : r # x /\ r \in T /\ r <= x
        BY <1>8
      <4> HIDE DEF R
      <4> QED
        BY <4>1, <4>2
    <3>2. f[j] = x
      BY <2>2
    <3>3. \A t \in T : t \in Int
      OBVIOUS
    <3>4. g[i] \in Int /\ x \in Int
      BY <3>1, <3>3, Zenon
    <3> QED
      BY <2>1, <3>1, <3>2, <3>4
  <2>3. CASE j # c
    <3>1. j \in 1..(c - 1) /\ f[j] = g[j]
      BY <2>3, <1>6
    <3> QED
      BY <2>1, <3>1, <1>11, <1>13
  <2> QED
    BY <2>2, <2>3
<1>14. Ordered(T, c)
  <2> HIDE DEF f
  <2>1. \A i, j \in 1..c : i < j => f[i] < f[j]
    BY <1>13
  <2> QED
    BY <1>12, <2>1
<1> QED
  BY <1>5, <1>14

\* The order reaches every element.
LEMMA EnumerationOnto ==
    ASSUME NEW n \in Nat, NEW S \in SUBSET (1..n), NEW f \in [1..Cardinality(S) -> S],
           \A i, j \in 1..Cardinality(S) : i < j => f[i] < f[j]
    PROVE  \A k \in S : \E i \in 1..Cardinality(S) : f[i] = k
<1>1. IsFiniteSet(S) /\ Cardinality(S) \in Nat
  <2>1. IsFiniteSet(1..n)
    BY FS_Interval
  <2>2. IsFiniteSet(S)
    BY <2>1, FS_Subset
  <2> QED
    BY <2>2, FS_CardinalityType
<1> DEFINE c == Cardinality(S)
<1>2. Cardinality(1..c) = c
  BY <1>1, FS_Interval
<1>3. f \in Injection(1..c, S)
  <2>1. ASSUME NEW i \in 1..c, NEW j \in 1..c, f[i] = f[j] PROVE i = j
    <3>0. f[i] \in S /\ f[j] \in S /\ S \subseteq Int
      OBVIOUS
    <3>1. f[i] \in Int /\ f[j] \in Int
      BY <3>0, Zenon
    <3>2. (i < j => f[i] < f[j]) /\ (j < i => f[j] < f[i])
      OBVIOUS
    <3> HIDE DEF c
    <3>3. ~(i < j) /\ ~(j < i)
      BY <2>1, <3>1, <3>2
    <3>4. i \in Int /\ j \in Int
      OBVIOUS
    <3> QED
      BY <3>3, <3>4
  <2>2. f \in [1..c -> S]
    OBVIOUS
  <2> HIDE DEF c
  <2>3. DOMAIN f = 1..c
    BY <2>2
  <2>4. IsInjective(f)
    BY <2>1, <2>3, Zenon DEF IsInjective
  <2> QED
    BY <2>2, <2>4, Zenon DEF Injection
<1>4. f \in Surjection(1..c, S)
  BY <1>1, <1>2, <1>3, FS_Injection
<1> QED
  BY <1>4 DEF Surjection

\* Of the sets of a collection of subsets there is one that is in it no longer
\* when an element is taken out of it.
LEMMA SmallestSet ==
    ASSUME NEW S, IsFiniteSet(S), NEW B \in SUBSET SUBSET S, B # {}
    PROVE  \E T \in B : \A x \in T : T \ {x} \notin B
<1>1. ASSUME NEW T \in B PROVE IsFiniteSet(T) /\ Cardinality(T) \in Nat
  <2>1. IsFiniteSet(T)
    BY FS_Subset
  <2> QED
    BY <2>1, FS_CardinalityType
<1> DEFINE sizes == {Cardinality(T) : T \in B}
<1>2. sizes \in SUBSET Nat /\ sizes # {}
  BY <1>1
<1>3. PICK c \in sizes : \A d \in sizes : c <= d
  <2> HIDE DEF sizes
  <2> QED
    BY <1>2, Smallest
<1>4. PICK T \in B : Cardinality(T) = c
  BY <1>3
<1>5. ASSUME NEW x \in T, T \ {x} \in B PROVE FALSE
  <2>1. Cardinality(T \ {x}) = Cardinality(T) - 1
    BY <1>1, FS_RemoveElement
  <2>2. Cardinality(T) <= Cardinality(T \ {x})
    BY <1>3, <1>4, <1>5
  <2>3. Cardinality(T) \in Nat
    BY <1>1
  <2> QED
    BY <2>1, <2>2, <2>3
<1> QED
  BY <1>5
-----------------------------------------------------------------------------
\* A number is determined by its quotient and its remainder.
LEMMA DivMod ==
    ASSUME NEW Q \in Nat \ {0}, NEW n \in Nat
    PROVE  /\ n \div Q \in Int
           /\ n % Q \in 0..(Q - 1)
           /\ n = Q * (n \div Q) + (n % Q)
  BY SMT

LEMMA DivModUnique ==
    ASSUME NEW Q \in Nat \ {0}, NEW a \in Int, NEW b \in Int,
           NEW r \in 0..(Q - 1), NEW s \in 0..(Q - 1),
           Q * a + r = Q * b + s
    PROVE  r = s
<1>1. Q * (a - b) = s - r
  BY SMT
<1>2. CASE a - b >= 1
  <2>1. Q * (a - b) >= Q
    BY <1>2, SMT
  <2> QED
    BY <2>1, <1>1, SMT
<1>3. CASE a - b <= -1
  <2>1. Q * (a - b) <= -Q
    BY <1>3, SMT
  <2> QED
    BY <2>1, <1>1, SMT
<1>4. CASE a = b
  BY <1>1, <1>4, SMT
<1> QED
  BY <1>2, <1>3, <1>4, SMT

\* The first number selects the first slot.
LEMMA ModZero ==
    ASSUME NEW Q \in Nat \ {0}
    PROVE  0 % Q = 0
<1> DEFINE q == 0 \div Q
           r == 0 % Q
<1>1. q \in Int /\ r \in 0..(Q - 1) /\ 0 = Q * q + r
  BY DivMod
<1> HIDE DEF q, r
<1>2. 0 \in 0..(Q - 1) /\ Q * 0 + 0 = Q * q + r
  BY <1>1
<1>3. r = 0
  BY <1>1, <1>2, DivModUnique
<1> QED
  BY <1>3 DEF r

\* Stepping an index and wrapping it keeps it at the next number's slot.
LEMMA ModNext ==
    ASSUME NEW Q \in Nat \ {0}, NEW n \in Nat
    PROVE  ((n % Q) + 1) % Q = (n + 1) % Q
<1> DEFINE q == n \div Q
           m == (n % Q) + 1
           p == m \div Q
           u == (n + 1) \div Q
<1>1. q \in Int /\ n % Q \in 0..(Q - 1) /\ n = Q * q + (n % Q)
  BY DivMod
<1>2. m \in Nat /\ m = n + 1 - Q * q
  BY <1>1, SMT
<1>3. p \in Int /\ m % Q \in 0..(Q - 1) /\ m = Q * p + (m % Q)
  BY <1>2, DivMod
<1>4. u \in Int /\ (n + 1) % Q \in 0..(Q - 1) /\ n + 1 = Q * u + ((n + 1) % Q)
  BY DivMod
<1> HIDE DEF q, m, p, u
<1> DEFINE v == q + p
<1>5. v \in Int /\ Q * v + (m % Q) = Q * u + ((n + 1) % Q)
  BY <1>1, <1>2, <1>3, <1>4, SMT
<1> HIDE DEF v
<1>6. m % Q = (n + 1) % Q
  BY <1>3, <1>4, <1>5, DivModUnique, Zenon
<1> QED
  BY <1>6 DEF m

\* Numbers less than a ring's length apart select different slots.
LEMMA ModDistinct ==
    ASSUME NEW Q \in Nat \ {0}, NEW m \in Nat, NEW n \in Nat,
           m < n, n - m < Q
    PROVE  m % Q # n % Q
<1> SUFFICES ASSUME m % Q = n % Q
             PROVE  FALSE
  OBVIOUS
<1> DEFINE a == m \div Q
           b == n \div Q
<1>1. a \in Int /\ m % Q \in 0..(Q - 1) /\ m = Q * a + (m % Q)
  BY DivMod
<1>2. b \in Int /\ n = Q * b + (n % Q)
  BY DivMod
<1> HIDE DEF a, b
<1>3. Q * (b - a) = n - m
  BY <1>1, <1>2, SMT
<1>4. CASE b - a >= 1
  <2>1. Q * (b - a) >= Q
    BY <1>4, <1>1, <1>2, SMT
  <2> QED
    BY <2>1, <1>3, SMT
<1>5. CASE b - a <= 0
  <2>1. Q * (b - a) <= 0
    BY <1>5, <1>1, <1>2, SMT
  <2> QED
    BY <2>1, <1>3, SMT
<1> QED
  BY <1>1, <1>2, <1>4, <1>5, SMT
=============================================================================
