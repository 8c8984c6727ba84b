----------------------------- MODULE NatLemmas -----------------------------
(***************************************************************************)
(* Numbers.  First, arguments by a smallest counterexample: the library's  *)
(* induction rules take the formula to be proved as a parameter; the lemma *)
(* here takes the set of the numbers for which it fails, which does as     *)
(* well.  Then quotients and remainders, and powers of two.                *)
(***************************************************************************)
EXTENDS Integers, FiniteSetTheorems, WellFoundedInduction, TLAPS

\* Every non-empty set of natural numbers has a least element: its initial
\* segments are finite sets, which strict inclusion orders well.
LEMMA LeastNatural ==
  ASSUME NEW S \in SUBSET Nat, S # {}
  PROVE  \E n \in S : \A m \in S : n <= m
<1> DEFINE R == StrictSubsetOrdering(Nat)
           T == {0..m : m \in S}
<1>1. IsWellFoundedOn(R, FiniteSubsetsOf(Nat))
  BY FS_StrictSubsetOrderingWellFounded
<1>2. T \subseteq FiniteSubsetsOf(Nat) /\ T # {}
  <2>1. ASSUME NEW m \in S
        PROVE  0..m \in FiniteSubsetsOf(Nat)
    <3>1. IsFiniteSet(0..m)
      BY FS_Interval
    <3>2. 0..m \in SUBSET Nat
      OBVIOUS
    <3> QED
      BY <3>1, <3>2 DEF FiniteSubsetsOf
  <2> QED
    BY <2>1
<1>3. PICK x \in T : \A y \in T : ~ (<<y, x>> \in R)
  <2> HIDE DEF R, T
  <2> QED
    BY <1>1, <1>2, WFMin
<1>4. PICK n \in S : x = 0..n
  BY DEF T
<1>5. ASSUME NEW m \in S, m < n
      PROVE  FALSE
  <2>1. 0..m \in T
    OBVIOUS
  <2>2. n \in 0..n /\ n \notin 0..m
    BY <1>5
  <2>3. 0..m \subseteq 0..n /\ 0..m # 0..n
    BY <1>5, <2>2
  <2>4. <<0..m, 0..n>> \in R
    BY <2>3 DEF StrictSubsetOrdering
  <2> QED
    BY <1>3, <1>4, <2>1, <2>4
<1> QED
  BY <1>5

\* A non-empty subset of an interval has a first element.
LEMMA FirstOf ==
  ASSUME NEW a \in Nat, NEW n \in Nat, NEW S \in SUBSET (a..n), S # {}
  PROVE  \E u \in a..n : u \in S /\ (u # a => u - 1 \in a..n /\ u - 1 \notin S)
<1>1. S \in SUBSET Nat
  OBVIOUS
<1>2. PICK u \in S : \A v \in S : u <= v
  BY <1>1, LeastNatural
<1>3. u # a => u - 1 \in a..n /\ u - 1 \notin S
  BY <1>2
<1> QED
  BY <1>2, <1>3

\* What holds of 0 and goes from each number below n to the next holds up to n.
LEMMA UpTo ==
  ASSUME NEW n \in Nat, NEW S, 0 \in S, \A k \in 1..n : k - 1 \in S => k \in S
  PROVE  \A k \in 0..n : k \in S
<1> DEFINE Bad == {k \in 0..n : k \notin S}
<1>1. SUFFICES ASSUME Bad # {} PROVE FALSE
  OBVIOUS
<1>2. PICK k \in Bad : \A j \in Bad : k <= j
  <2>1. Bad \in SUBSET Nat
    OBVIOUS
  <2> HIDE DEF Bad
  <2> QED BY <1>1, <2>1, LeastNatural
<1>3. k \in 1..n /\ k \notin S
  BY <1>2
<1>4. k - 1 \in 0..n /\ ~(k <= k - 1)
  BY <1>3
<1> QED BY <1>2, <1>3, <1>4

\* Counting modulo m.
LEMMA Modulo ==
  ASSUME NEW m \in Nat \ {0}, NEW k \in Nat, NEW b \in 0..(m - 1)
  PROVE  (m * k + b) % m = b
  OBVIOUS

LEMMA ModNext ==
  ASSUME NEW n \in Nat, NEW m \in Nat \ {0}
  PROVE  /\ n % m \in 0..(m - 1)
         /\ (n + 1) % m = IF n % m = m - 1 THEN 0 ELSE (n % m) + 1
<1> DEFINE q == n \div m
           r == n % m
<1>1. q \in Nat /\ r \in 0..(m - 1) /\ n = m * q + r
  OBVIOUS
<1> HIDE DEF q, r
<1>2. CASE r = m - 1
  <2>1. n + 1 = m * (q + 1) + 0 /\ q + 1 \in Nat /\ 0 \in 0..(m - 1)
    BY <1>1, <1>2
  <2>2. (n + 1) % m = 0
    BY <2>1, Modulo
  <2> QED
    BY <1>1, <1>2, <2>2 DEF r
<1>3. CASE r # m - 1
  <2>1. n + 1 = m * q + (r + 1) /\ r + 1 \in 0..(m - 1)
    BY <1>1, <1>3
  <2>2. (n + 1) % m = r + 1
    BY <1>1, <2>1, Modulo
  <2> QED
    BY <1>1, <1>3, <2>2 DEF r
<1> QED
  BY <1>2, <1>3

-----------------------------------------------------------------------------
\* Powers of two, of which the provers know nothing: a function that starts at
\* 1 and doubles.  There is one, and it has the values one expects.
Doubles(f, n) == f = [k \in 0..n |-> IF k = 0 THEN 1 ELSE 2 * f[k - 1]]

LEMMA DoublesExists ==
  ASSUME NEW n \in Nat
  PROVE  \E f : Doubles(f, n)
<1> DEFINE Bad == {k \in Nat : ~ \E f : Doubles(f, k)}
<1>1. SUFFICES ASSUME Bad # {} PROVE FALSE
  OBVIOUS
<1>2. PICK k \in Bad : \A j \in Bad : k <= j
  <2>1. Bad \in SUBSET Nat
    OBVIOUS
  <2> HIDE DEF Bad
  <2> QED BY <1>1, <2>1, LeastNatural
<1>3. CASE k = 0
  <2> DEFINE g == [j \in 0..0 |-> 1]
  <2>1. g = [j \in 0..0 |-> IF j = 0 THEN 1 ELSE 2 * g[j - 1]]
    OBVIOUS
  <2>2. Doubles(g, 0)
    BY <2>1 DEF Doubles
  <2> QED BY <1>2, <1>3, <2>2
<1>4. CASE k # 0
  <2>1. k - 1 \in Nat /\ k - 1 \notin Bad
    BY <1>2, <1>4
  <2>2. PICK f : Doubles(f, k - 1)
    BY <2>1
  <2> DEFINE g == [j \in 0..k |-> IF j = k THEN 2 * f[k - 1] ELSE f[j]]
  <2>3. \A j \in 0..(k - 1) : g[j] = f[j]
    BY <2>1
  <2>4. g[k] = 2 * f[k - 1]
    BY <2>1
  <2>5. g = [j \in 0..k |-> g[j]]
    OBVIOUS
  <2> HIDE DEF g
  <2>6. \A j \in 0..(k - 1) : f[j] = IF j = 0 THEN 1 ELSE 2 * f[j - 1]
    BY <2>2 DEF Doubles
  <2>7. ASSUME NEW j \in 0..k PROVE g[j] = IF j = 0 THEN 1 ELSE 2 * g[j - 1]
    <3>1. CASE j = k
      <4>1. k - 1 \in 0..(k - 1)
        BY <2>1
      <4> QED BY <1>4, <2>3, <2>4, <3>1, <4>1
    <3>2. CASE j # k
      <4>1. j \in 0..(k - 1) /\ (j # 0 => j - 1 \in 0..(k - 1))
        BY <2>1, <3>2
      <4> QED BY <2>3, <2>6, <4>1
    <3> QED BY <3>1, <3>2
  <2>8. Doubles(g, k)
    BY <2>5, <2>7 DEF Doubles
  <2> QED BY <1>2, <2>8
<1> QED BY <1>3, <1>4

LEMMA DoublesSteps ==
  ASSUME NEW n \in Nat, NEW f, Doubles(f, n)
  PROVE  \A k \in 0..n : f[k] = IF k = 0 THEN 1 ELSE 2 * f[k - 1]
BY DEF Doubles

LEMMA DoublesTyped ==
  ASSUME NEW n \in Nat, NEW f, Doubles(f, n)
  PROVE  \A k \in 0..n : f[k] \in Nat \ {0}
<1> DEFINE Bad == {k \in 0..n : f[k] \notin Nat \ {0}}
<1>1. SUFFICES ASSUME Bad # {} PROVE FALSE
  OBVIOUS
<1>2. PICK k \in Bad : \A j \in Bad : k <= j
  <2>1. Bad \in SUBSET Nat
    OBVIOUS
  <2> HIDE DEF Bad
  <2> QED BY <1>1, <2>1, LeastNatural
<1>3. k \in 0..n /\ k # 0
  BY <1>2, DoublesSteps
<1>4. k - 1 \in 0..n /\ ~(k <= k - 1)
  BY <1>3
<1>5. f[k - 1] \in Nat \ {0}
  BY <1>2, <1>4
<1> QED BY <1>2, <1>3, <1>5, DoublesSteps

LEMMA DoublesSum ==
  ASSUME NEW n \in Nat, NEW f, Doubles(f, n), NEW a \in Nat, NEW b \in Nat, a + b <= n
  PROVE  f[a + b] = f[a] * f[b]
<1> DEFINE Bad == {k \in 0..b : f[a + k] # f[a] * f[k]}
<1>1. SUFFICES ASSUME Bad # {} PROVE FALSE
  BY DEF Bad
<1>2. PICK k \in Bad : \A j \in Bad : k <= j
  <2>1. Bad \in SUBSET Nat
    OBVIOUS
  <2> HIDE DEF Bad
  <2> QED BY <1>1, <2>1, LeastNatural
<1>3. k \in 0..b /\ k \in 0..n /\ a + k \in 0..n /\ a \in 0..n /\ 0 \in 0..n
  BY <1>2
<1>4. CASE k = 0
  <2>1. f[0] = 1 /\ a + k = a /\ f[a] \in Nat
    BY <1>3, <1>4, DoublesSteps, DoublesTyped
  <2> QED BY <1>2, <1>4, <2>1
<1>5. CASE k # 0
  <2>1. k - 1 \in 0..b /\ ~(k <= k - 1) /\ a + (k - 1) = a + k - 1 /\ a + k # 0 /\ k - 1 \in 0..n
    BY <1>3, <1>5
  <2>2. f[a + (k - 1)] = f[a] * f[k - 1]
    BY <1>2, <2>1
  <2>3. f[a + k] = 2 * f[a + (k - 1)] /\ f[k] = 2 * f[k - 1]
    BY <1>3, <1>5, <2>1, DoublesSteps
  <2>4. f[a] \in Nat /\ f[k - 1] \in Nat
    BY <1>3, <2>1, DoublesTyped
  <2>5. \A x, y \in Nat : 2 * (x * y) = x * (2 * y)
    OBVIOUS
  <2>6. f[a + k] = f[a] * f[k]
    BY <2>2, <2>3, <2>4, <2>5
  <2> QED BY <1>2, <2>6
<1> QED BY <1>4, <1>5

\* Doubling grows.
LEMMA DoublesGrows ==
  ASSUME NEW n \in Nat, NEW f, Doubles(f, n), NEW a \in Nat, NEW b \in Nat, a <= b, b <= n
  PROVE  f[a] <= f[b]
<1>1. b - a \in Nat /\ a + (b - a) = b /\ a \in 0..n /\ b - a \in 0..n
  OBVIOUS
<1>2. f[b] = f[a] * f[b - a]
  BY <1>1, DoublesSum
<1>3. f[a] \in Nat \ {0} /\ f[b - a] \in Nat \ {0}
  BY <1>1, DoublesTyped
<1>4. \A x, y \in Nat \ {0} : x <= x * y
  OBVIOUS
<1> QED BY <1>2, <1>3, <1>4

\* Division with a known remainder.
LEMMA QuotientOf ==
  ASSUME NEW m \in Nat \ {0}, NEW k \in Nat, NEW c \in 0..(m - 1)
  PROVE  (m * k + c) \div m = k
  OBVIOUS

LEMMA DividedBy ==
  ASSUME NEW n \in Nat, NEW m \in Nat \ {0}
  PROVE  n \div m \in Nat /\ n % m \in 0..(m - 1) /\ n = m * (n \div m) + (n % m)
<1> DEFINE q == n \div m
           r == n % m
<1>1. q \in Nat /\ r \in 0..(m - 1) /\ n = m * q + r
  OBVIOUS
<1> QED BY <1>1
=============================================================================
