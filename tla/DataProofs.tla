----------------------------- MODULE DataProofs -----------------------------
(***************************************************************************)
(* Facts about numbers, finite sets and sequences that the proofs of the   *)
(* components share.  An induction is stated through a set: the provers    *)
(* can instantiate a set where they cannot instantiate a predicate.        *)
(***************************************************************************)
EXTENDS Text, FiniteSetTheorems, SequenceTheorems, WellFoundedInduction, TLAPS
-----------------------------------------------------------------------------
(* The order of the natural numbers, through sets.                          *)

LEMMA Least ==
    ASSUME NEW T, T \subseteq Nat, T # {}
    PROVE  \E m \in T : \A n \in T : m <= n
<1> DEFINE R == OpToRel(<, Nat)
<1>1. IsWellFoundedOn(R, Nat)
  BY NatLessThanWellFounded
<1>2. \A x, y \in Nat : x < y => <<x, y>> \in R
  BY DEF OpToRel
<1> HIDE DEF R
<1>3. PICK m \in T : \A y \in T : ~ (<<y, m>> \in R)
  BY <1>1, WFMin
<1>4. ASSUME NEW n \in T
      PROVE  m <= n
  <2>1. ~(n < m)
    BY <1>2, <1>3
  <2> QED
    BY <2>1
<1> QED
  BY <1>4

LEMMA SetInduction ==
    ASSUME NEW P, 0 \in P, \A n \in Nat : n \in P => n + 1 \in P
    PROVE  Nat \subseteq P
<1> DEFINE T == {n \in Nat : n \notin P}
<1> SUFFICES ASSUME T # {} PROVE FALSE
  OBVIOUS
<1>1. PICK m \in T : \A n \in T : m <= n
  BY Least
<1>2. m # 0 /\ m \in Nat /\ m - 1 \in Nat /\ ~(m <= m - 1)
  OBVIOUS
<1>3. m - 1 \in P
  BY <1>1, <1>2
<1> QED
  BY <1>2, <1>3

(* The same for the numbers up to a bound.                                  *)
LEMMA InductionUpTo ==
    ASSUME NEW n \in Nat, NEW P, 0 \in P, \A k \in 1 .. n : k - 1 \in P => k \in P
    PROVE  0 .. n \subseteq P
<1> DEFINE Q == {m \in Nat : m <= n => m \in P}
<1>1. 0 \in Q
  OBVIOUS
<1>2. ASSUME NEW m \in Nat, m \in Q
      PROVE  m + 1 \in Q
  <2>1. m + 1 <= n => m + 1 \in 1 .. n /\ m \in P /\ (m + 1) - 1 = m
    BY <1>2
  <2> QED
    BY <2>1
<1>3. Nat \subseteq Q
  <2> HIDE DEF Q
  <2> QED
    BY <1>1, <1>2, SetInduction
<1> QED
  BY <1>3

(* A function that is defined from its value one below exists.              *)
IsStep(h, A, n) == \A x \in A : \A k \in 1 .. n : h[<<x, k>>] \in A
Recurs(g, a, h, n) ==
    \A k \in 0 .. n : g[k] = IF k = 0 THEN a ELSE h[<<g[k - 1], k>>]

LEMMA Recursion ==
    ASSUME NEW n \in Nat, NEW A, NEW a \in A, NEW h, IsStep(h, A, n)
    PROVE  \E g \in [0 .. n -> A] : Recurs(g, a, h, n)
<1> USE DEF IsStep, Recurs
<1> DEFINE Solves(g, m) == \A k \in 0 .. m : g[k] = IF k = 0 THEN a ELSE h[<<g[k - 1], k>>]
           Found(m) == \E g \in [0 .. m -> A] : Solves(g, m)
           P == {m \in 0 .. n : Found(m)}
<1>1. Found(0)
  <2> DEFINE g == [k \in 0 .. 0 |-> a]
  <2>1. g \in [0 .. 0 -> A] /\ Solves(g, 0)
    OBVIOUS
  <2> QED
    BY <2>1
<1>2. ASSUME NEW m \in 1 .. n, Found(m - 1)
      PROVE  Found(m)
  <2>1. PICK g \in [0 .. m - 1 -> A] : Solves(g, m - 1)
    BY <1>2
  <2> DEFINE next == h[<<g[m - 1], m>>]
             f == [k \in 0 .. m |-> IF k = m THEN next ELSE g[k]]
  <2>2. next \in A
    <3>1. m - 1 \in 0 .. m - 1
      OBVIOUS
    <3> QED
      BY <2>1, <3>1
  <2>3. \A k \in 0 .. m : k # m => k \in 0 .. m - 1
    OBVIOUS
  <2>4. f \in [0 .. m -> A]
    <3> HIDE DEF next
    <3> QED
      BY <2>1, <2>2, <2>3
  <2>5. ASSUME NEW k \in 0 .. m
        PROVE  f[k] = IF k = 0 THEN a ELSE h[<<f[k - 1], k>>]
    <3>1. CASE k = 0
      <4>1. f[0] = g[0] /\ 0 \in 0 .. m - 1
        OBVIOUS
      <4>2. g[0] = a
        BY <2>1, <4>1
      <4> HIDE DEF f
      <4> QED
        BY <3>1, <4>1, <4>2
    <3>2. CASE k # 0 /\ k # m
      <4>1. f[k] = g[k] /\ f[k - 1] = g[k - 1] /\ k \in 0 .. m - 1
        BY <3>2
      <4>2. g[k] = h[<<g[k - 1], k>>]
        BY <2>1, <3>2, <4>1
      <4> HIDE DEF f
      <4> QED
        BY <3>2, <4>1, <4>2
    <3>3. CASE k # 0 /\ k = m
      <4>1. f[m] = next /\ f[m - 1] = g[m - 1]
        OBVIOUS
      <4> HIDE DEF f
      <4> QED
        BY <3>3, <4>1
    <3> QED
      BY <3>1, <3>2, <3>3
  <2> HIDE DEF f
  <2> QED
    BY <2>4, <2>5
<1>3. 0 .. n \subseteq P
  <2> HIDE DEF Found
  <2>1. 0 \in P /\ \A k \in 1 .. n : k - 1 \in P => k \in P
    BY <1>1, <1>2
  <2> HIDE DEF P
  <2> QED
    BY <2>1, InductionUpTo
<1> QED
  BY <1>3

(* The ends of a set of positions.                                          *)
LEMMA MinIs ==
    ASSUME NEW S, S \subseteq Nat, S # {}
    PROVE  Min(S) \in S /\ \A y \in S : Min(S) <= y
BY Least DEF Min

LEMMA MaxIs ==
    ASSUME NEW n \in Nat, NEW S, S \subseteq 0 .. n, S # {}
    PROVE  Max(S) \in S /\ \A y \in S : Max(S) >= y
<1> DEFINE T == {n - x : x \in S}
<1>1. T \subseteq Nat /\ T # {}
  <2>1. \A x \in S : n - x \in Nat
    OBVIOUS
  <2> QED
    BY <2>1
<1>2. PICK m \in T : \A k \in T : m <= k
  <2> HIDE DEF T
  <2> QED
    BY <1>1, Least
<1>3. PICK x \in S : m = n - x
  BY <1>2
<1>4. ASSUME NEW y \in S
      PROVE  x >= y
  <2>1. n - y \in T
    OBVIOUS
  <2>2. n - x <= n - y
    BY <1>2, <1>3, <2>1
  <2>3. x \in Int /\ y \in Int
    OBVIOUS
  <2> HIDE DEF T
  <2> QED
    BY <2>2, <2>3
<1> QED
  BY <1>4 DEF Max

(* The largest of a set, recognised.                                        *)
LEMMA MaxUnique ==
    ASSUME NEW S, S \subseteq Int, NEW m \in S, \A y \in S : m >= y
    PROVE  Max(S) = m
<1>1. ASSUME NEW x \in S, \A y \in S : x >= y
      PROVE  x = m
  <2>1. x >= m /\ m >= x /\ x \in Int /\ m \in Int
    BY <1>1
  <2> QED
    BY <2>1
<1> QED
  BY <1>1, Zenon DEF Max
-----------------------------------------------------------------------------
(* What Trim leaves of a text is a text.                                    *)
LEMMA TrimTyped ==
    ASSUME NEW A, NEW s \in Seq(A)
    PROVE  Trim(s) \in Seq(A)
<1> DEFINE solid == {i \in DOMAIN s : s[i] # Blank}
<1>1. CASE solid = {}
  BY <1>1 DEF Trim
<1>2. CASE solid # {}
  <2>1. DOMAIN s = 1 .. Len(s) /\ Len(s) \in Nat
    OBVIOUS
  <2>2. solid \subseteq 1 .. Len(s)
    BY <2>1
  <2>3. Min(solid) \in solid /\ Max(solid) \in solid /\ Min(solid) <= Max(solid)
    <3> HIDE DEF solid
    <3>1. solid \subseteq Nat /\ solid \subseteq 0 .. Len(s)
      BY <2>1, <2>2
    <3>2. Min(solid) \in solid /\ \A y \in solid : Min(solid) <= y
      BY <1>2, <3>1, MinIs
    <3>3. Max(solid) \in solid
      BY <1>2, <2>1, <3>1, MaxIs
    <3> QED
      BY <3>2, <3>3
  <2>4. Min(solid) \in 1 .. Len(s) + 1 /\ Max(solid) \in Min(solid) - 1 .. Len(s)
    BY <2>1, <2>2, <2>3
  <2>5. SubSeq(s, Min(solid), Max(solid)) \in Seq(A)
    <3> HIDE DEF solid
    <3> QED
      BY <2>4, SubSeqProperties
  <2> QED
    BY <1>2, <2>5 DEF Trim
<1> QED
  BY <1>1, <1>2
-----------------------------------------------------------------------------
(* Finite sets, and sums over them.                                         *)

(* Induction over the subsets of a finite set.                              *)
LEMMA FiniteInduction ==
    ASSUME NEW S, IsFiniteSet(S), NEW P, {} \in P,
           \A T \in SUBSET S : \A x \in S \ T : T \in P => T \cup {x} \in P
    PROVE  S \in P
<1> DEFINE n == Cardinality(S)
           Q == {k \in 0 .. n : \A T \in SUBSET S : Cardinality(T) = k => T \in P}
<1>1. n \in Nat /\ \A T \in SUBSET S : IsFiniteSet(T) /\ Cardinality(T) \in Nat
  BY FS_CardinalityType, FS_Subset
<1> HIDE DEF n
<1>2. 0 \in Q
  <2>1. \A T \in SUBSET S : Cardinality(T) = 0 => T = {}
    BY <1>1, FS_EmptySet
  <2>2. \A T \in SUBSET S : Cardinality(T) = 0 => T \in P
    BY <2>1
  <2>3. 0 \in 0 .. n
    BY <1>1
  <2> QED
    BY <2>2, <2>3
<1>3. ASSUME NEW k \in 1 .. n, k - 1 \in Q
      PROVE  k \in Q
  <2>1. ASSUME NEW T \in SUBSET S, Cardinality(T) = k
        PROVE  T \in P
    <3>1. T # {}
      BY <1>1, <2>1, FS_EmptySet
    <3>2. PICK x \in T : TRUE
      BY <3>1
    <3>3. Cardinality(T \ {x}) = k - 1 /\ T \ {x} \in SUBSET S
      BY <1>1, <2>1, <3>2, FS_RemoveElement
    <3>4. T \ {x} \in P
      BY <1>3, <3>3
    <3>5. x \in S \ (T \ {x}) /\ (T \ {x}) \cup {x} = T
      BY <3>2
    <3> QED
      BY <3>3, <3>4, <3>5
  <2> QED
    BY <1>1, <2>1
<1>4. n \in Q
  <2> HIDE DEF Q
  <2>1. 0 .. n \subseteq Q
    BY <1>1, <1>2, <1>3, InductionUpTo
  <2> QED
    BY <1>1, <2>1
<1> QED
  BY <1>4 DEF n

\* How SumFunctionOnSet goes through a set.
Picked(s) == CHOOSE x \in s : TRUE
StepOfSum(f, g, s) == IF s = {} THEN 0 ELSE f[Picked(s)] + g[s \ {Picked(s)}]
SumsUp(f, S, g) == g = [s \in SUBSET S |-> StepOfSum(f, g, s)]

(* A sum is a value of the function CHOOSE finds.                           *)
LEMMA SumUnfolds ==
    ASSUME NEW f, NEW S
    PROVE  SumFunctionOnSet(f, S) = (CHOOSE g : SumsUp(f, S, g))[S]
BY DEF SumFunctionOnSet, FoldFunctionOnSet, MapThenFoldSet, SumsUp, StepOfSum, Picked

(* What is picked is in the set.                                            *)
LEMMA PickedIn ==
    ASSUME NEW s, s # {}
    PROVE  Picked(s) \in s
BY DEF Picked

(* There is a function that sums over every subset.                         *)
LEMMA SumsExist ==
    ASSUME NEW S, IsFiniteSet(S), NEW f, \A x \in S : f[x] \in Int
    PROVE  \E g \in [SUBSET S -> Int] : SumsUp(f, S, g)
<1> DEFINE n == Cardinality(S)
           Up(k) == {s \in SUBSET S : Cardinality(s) <= k}
           Found(k) == \E g \in [SUBSET S -> Int] : \A s \in Up(k) : g[s] = StepOfSum(f, g, s)
           Q == {k \in 0 .. n : Found(k)}
<1>1. n \in Nat /\ \A T \in SUBSET S : /\ IsFiniteSet(T) /\ Cardinality(T) \in Nat
                                       /\ Cardinality(T) <= n
  BY FS_CardinalityType, FS_Subset
<1> HIDE DEF n
<1>2. Found(0)
  <2> DEFINE g == [s \in SUBSET S |-> 0]
  <2>1. \A s \in Up(0) : s = {}
    BY <1>1, FS_EmptySet
  <2>2. g \in [SUBSET S -> Int] /\ \A s \in Up(0) : g[s] = StepOfSum(f, g, s)
    BY <2>1 DEF StepOfSum
  <2> QED
    BY <2>2
<1>3. ASSUME NEW k \in 1 .. n, Found(k - 1)
      PROVE  Found(k)
  <2>1. PICK g \in [SUBSET S -> Int] : \A s \in Up(k - 1) : g[s] = StepOfSum(f, g, s)
    BY <1>3
  <2> DEFINE h == [s \in SUBSET S |-> StepOfSum(f, g, s)]
  <2>2. ASSUME NEW s \in SUBSET S, s # {}
        PROVE  /\ Picked(s) \in S /\ s \ {Picked(s)} \in SUBSET S
               /\ Cardinality(s \ {Picked(s)}) = Cardinality(s) - 1
    BY <1>1, <2>2, PickedIn, FS_RemoveElement
  <2>3. h \in [SUBSET S -> Int]
    <3> SUFFICES ASSUME NEW s \in SUBSET S PROVE StepOfSum(f, g, s) \in Int
      OBVIOUS
    <3>1. s # {} => f[Picked(s)] \in Int /\ g[s \ {Picked(s)}] \in Int
      BY <2>2
    <3> QED
      BY <3>1 DEF StepOfSum
  <2>4. ASSUME NEW s \in Up(k)
        PROVE  h[s] = StepOfSum(f, h, s)
    <3>1. CASE s = {}
      BY <3>1 DEF StepOfSum
    <3>2. CASE s # {}
      <4> DEFINE r == s \ {Picked(s)}
      <4>1. r \in Up(k - 1) /\ r \in SUBSET S
        BY <1>1, <2>2, <3>2
      <4>2. h[r] = g[r]
        BY <2>1, <4>1
      <4>3. h[s] = f[Picked(s)] + g[r]
        BY <3>2 DEF StepOfSum
      <4>4. StepOfSum(f, h, s) = f[Picked(s)] + h[r]
        BY <3>2 DEF StepOfSum
      <4> QED
        BY <4>2, <4>3, <4>4
    <3> QED
      BY <3>1, <3>2
  <2> HIDE DEF h
  <2> QED
    BY <2>3, <2>4
<1>4. Found(n)
  <2>1. 0 \in Q /\ \A k \in 1 .. n : k - 1 \in Q => k \in Q
    <3> HIDE DEF Found
    <3> QED
      BY <1>1, <1>2, <1>3
  <2>2. 0 .. n \subseteq Q
    <3> HIDE DEF Q
    <3> QED
      BY <1>1, <2>1, InductionUpTo
  <2>3. n \in Q
    <3> HIDE DEF Q
    <3> QED
      BY <1>1, <2>2
  <2> HIDE DEF Found
  <2> QED
    BY <2>3
<1>5. PICK g \in [SUBSET S -> Int] : \A s \in Up(n) : g[s] = StepOfSum(f, g, s)
  BY <1>4
<1>6. \A s \in SUBSET S : g[s] = StepOfSum(f, g, s)
  BY <1>1, <1>5
<1>7. SumsUp(f, S, g)
  BY <1>6 DEF SumsUp
<1> QED
  BY <1>7

(* All functions that do agree on the common subsets.                       *)
LEMMA SumsUnique ==
    ASSUME NEW S, IsFiniteSet(S), NEW f, NEW g, NEW h, NEW R,
           SumsUp(f, S, g), R \subseteq S, SumsUp(f, R, h)
    PROVE  h[R] = g[R]
<1> DEFINE n == Cardinality(R)
           Q == {k \in 0 .. n : \A s \in SUBSET R : Cardinality(s) = k => h[s] = g[s]}
<1>1. n \in Nat /\ \A T \in SUBSET R : IsFiniteSet(T) /\ Cardinality(T) \in Nat
  BY FS_CardinalityType, FS_Subset
<1>2. \A s \in SUBSET R : g[s] = StepOfSum(f, g, s) /\ h[s] = StepOfSum(f, h, s)
  BY Zenon DEF SumsUp
<1> HIDE DEF n
<1>3. 0 \in Q
  <2>1. \A s \in SUBSET R : Cardinality(s) = 0 => s = {}
    BY <1>1, FS_EmptySet
  <2>2. h[{}] = g[{}]
    BY <1>2 DEF StepOfSum
  <2> QED
    BY <1>1, <2>1, <2>2
<1>4. ASSUME NEW k \in 1 .. n, k - 1 \in Q
      PROVE  k \in Q
  <2>1. ASSUME NEW s \in SUBSET R, Cardinality(s) = k
        PROVE  h[s] = g[s]
    <3> DEFINE r == s \ {Picked(s)}
    <3>1. s # {}
      BY <1>1, <2>1, FS_EmptySet
    <3>2. r \in SUBSET R /\ Cardinality(r) = k - 1
      BY <1>1, <2>1, <3>1, PickedIn, FS_RemoveElement
    <3>3. h[r] = g[r]
      BY <1>4, <3>2
    <3>4. h[s] = f[Picked(s)] + h[r] /\ g[s] = f[Picked(s)] + g[r]
      BY <1>2, <3>1 DEF StepOfSum
    <3> QED
      BY <3>3, <3>4
  <2> QED
    BY <1>1, <2>1
<1>5. n \in Q
  <2> HIDE DEF Q
  <2>1. 0 .. n \subseteq Q
    BY <1>1, <1>3, <1>4, InductionUpTo
  <2> QED
    BY <1>1, <2>1
<1> QED
  BY <1>5 DEF n

(* A sum of integers is an integer.                                         *)
LEMMA SumIsInt ==
    ASSUME NEW S, IsFiniteSet(S), NEW f, \A x \in S : f[x] \in Int
    PROVE  SumFunctionOnSet(f, S) \in Int
<1>1. PICK g \in [SUBSET S -> Int] : SumsUp(f, S, g)
  BY SumsExist
<1>2. SumsUp(f, S, CHOOSE h : SumsUp(f, S, h))
  BY <1>1
<1>3. SumFunctionOnSet(f, S) = g[S]
  BY <1>1, <1>2, SumsUnique, SumUnfolds
<1> QED
  BY <1>3

(* Any element can be taken out of a sum.                                   *)
LEMMA SumOut ==
    ASSUME NEW S, IsFiniteSet(S), NEW f, \A x \in S : f[x] \in Int, NEW y \in S
    PROVE  SumFunctionOnSet(f, S) = f[y] + SumFunctionOnSet(f, S \ {y})
<1>1. PICK g \in [SUBSET S -> Int] : SumsUp(f, S, g)
  BY SumsExist
<1>2. ASSUME NEW R \in SUBSET S
      PROVE  SumFunctionOnSet(f, R) = g[R]
  <2>1. IsFiniteSet(R)
    BY FS_Subset
  <2>2. \E h : SumsUp(f, R, h)
    BY <2>1, SumsExist
  <2>3. SumsUp(f, R, CHOOSE h : SumsUp(f, R, h))
    BY <2>2
  <2>4. (CHOOSE h : SumsUp(f, R, h))[R] = g[R]
    BY <1>1, <2>3, SumsUnique
  <2> QED
    BY <2>4, SumUnfolds
<1>3. \A s \in SUBSET S : s # {} => g[s] = f[Picked(s)] + g[s \ {Picked(s)}]
  BY <1>1 DEF SumsUp, StepOfSum
<1> DEFINE P == {s \in SUBSET S : \A x \in s : g[s] = f[x] + g[s \ {x}]}
           n == Cardinality(S)
           Q == {k \in 0 .. n : \A s \in SUBSET S : Cardinality(s) = k => s \in P}
<1>4. n \in Nat /\ \A T \in SUBSET S : IsFiniteSet(T) /\ Cardinality(T) \in Nat
  BY FS_CardinalityType, FS_Subset
<1> HIDE DEF n
<1>5. 0 \in Q
  <2>1. \A s \in SUBSET S : Cardinality(s) = 0 => s = {}
    BY <1>4, FS_EmptySet
  <2> QED
    BY <1>4, <2>1
<1>6. ASSUME NEW k \in 1 .. n, k - 1 \in Q
      PROVE  k \in Q
  <2>1. ASSUME NEW s \in SUBSET S, Cardinality(s) = k, NEW x \in s
        PROVE  g[s] = f[x] + g[s \ {x}]
    <3> DEFINE y0 == Picked(s)
    <3>1. y0 \in s /\ g[s] = f[y0] + g[s \ {y0}]
      BY <1>3, <2>1, PickedIn
    <3> HIDE DEF y0
    <3>2. CASE x = y0
      BY <3>1, <3>2
    <3>3. CASE x # y0
      <4>1. /\ Cardinality(s \ {x}) = k - 1 /\ Cardinality(s \ {y0}) = k - 1
            /\ s \ {x} \in SUBSET S /\ s \ {y0} \in SUBSET S
        BY <1>4, <2>1, <3>1, FS_RemoveElement
      <4>2. s \ {x} \in P /\ s \ {y0} \in P
        BY <1>6, <4>1
      <4>3. y0 \in s \ {x} /\ x \in s \ {y0} /\ (s \ {x}) \ {y0} = (s \ {y0}) \ {x}
        BY <2>1, <3>1, <3>3
      <4>4. g[s \ {x}] = f[y0] + g[(s \ {x}) \ {y0}]
        BY <4>2, <4>3
      <4>5. g[s \ {y0}] = f[x] + g[(s \ {x}) \ {y0}]
        BY <4>2, <4>3
      <4>6. f[x] \in Int /\ f[y0] \in Int /\ g[(s \ {x}) \ {y0}] \in Int
        BY <2>1, <3>1
      <4> QED
        BY <3>1, <4>4, <4>5, <4>6
    <3> QED
      BY <3>2, <3>3
  <2> QED
    BY <1>4, <2>1
<1>7. S \in P
  <2>1. n \in Q
    <3> HIDE DEF Q
    <3>1. 0 .. n \subseteq Q
      BY <1>4, <1>5, <1>6, InductionUpTo
    <3> QED
      BY <1>4, <3>1
  <2> QED
    BY <2>1 DEF n
<1>8. g[S] = f[y] + g[S \ {y}]
  BY <1>7
<1> QED
  BY <1>2, <1>8

(* The empty sum.                                                           *)
LEMMA SumEmpty ==
    ASSUME NEW f
    PROVE  SumFunctionOnSet(f, {}) = 0
<1>1. PICK g \in [SUBSET {} -> Int] : SumsUp(f, {}, g)
  BY SumsExist, FS_EmptySet
<1>2. SumsUp(f, {}, CHOOSE h : SumsUp(f, {}, h))
  BY <1>1
<1>3. (CHOOSE h : SumsUp(f, {}, h))[{}] = 0
  BY <1>2 DEF SumsUp, StepOfSum
<1> QED
  BY <1>3, SumUnfolds

(* A sum of zeros.                                                          *)
LEMMA SumZero ==
    ASSUME NEW S, IsFiniteSet(S), NEW f, \A x \in S : f[x] = 0
    PROVE  SumFunctionOnSet(f, S) = 0
<1> DEFINE P == {T \in SUBSET S : SumFunctionOnSet(f, T) = 0}
<1>1. {} \in P
  BY SumEmpty
<1>2. ASSUME NEW T \in SUBSET S, NEW x \in S \ T, T \in P
      PROVE  T \cup {x} \in P
  <2>1. IsFiniteSet(T \cup {x}) /\ T \cup {x} \in SUBSET S /\ (T \cup {x}) \ {x} = T
    BY FS_Subset
  <2>2. \A y \in T \cup {x} : f[y] \in Int
    BY <2>1
  <2>3. SumFunctionOnSet(f, T \cup {x}) = f[x] + SumFunctionOnSet(f, (T \cup {x}) \ {x})
    BY <2>1, <2>2, SumOut
  <2> QED
    BY <1>2, <2>1, <2>3
<1> HIDE DEF P
<1>3. S \in P
  BY <1>1, <1>2, FiniteInduction
<1> QED
  BY <1>3 DEF P

(* A sum of seven terms.                                                    *)
LEMMA SumSeven ==
    ASSUME NEW f, \A j \in 0 .. 6 : f[j] \in Int
    PROVE  SumFunctionOnSet(f, 0 .. 6)
             = f[0] + f[1] + f[2] + f[3] + f[4] + f[5] + f[6]
<1> DEFINE S(j) == SumFunctionOnSet(f, j .. 6)
<1>1. ASSUME NEW j \in 0 .. 6
      PROVE  S(j) = f[j] + S(j + 1)
  <2>1. (j .. 6) \ {j} = j + 1 .. 6 /\ j \in j .. 6 /\ j .. 6 \subseteq 0 .. 6
    OBVIOUS
  <2>2. IsFiniteSet(j .. 6)
    BY FS_Interval
  <2>3. \A x \in j .. 6 : f[x] \in Int
    BY <2>1
  <2>4. SumFunctionOnSet(f, j .. 6) = f[j] + SumFunctionOnSet(f, (j .. 6) \ {j})
    BY <2>1, <2>2, <2>3, SumOut
  <2> QED
    BY <2>1, <2>4
<1>2. S(7) = 0
  <2>1. 7 .. 6 = {}
    OBVIOUS
  <2> QED
    BY <2>1, SumEmpty
<1> HIDE DEF S
<1>3. /\ S(0) = f[0] + S(1) /\ S(1) = f[1] + S(2) /\ S(2) = f[2] + S(3)
      /\ S(3) = f[3] + S(4) /\ S(4) = f[4] + S(5) /\ S(5) = f[5] + S(6)
      /\ S(6) = f[6] + S(7)
  BY <1>1
<1>4. S(0) = f[0] + f[1] + f[2] + f[3] + f[4] + f[5] + f[6]
  BY <1>2, <1>3
<1> QED
  BY <1>4 DEF S

(* A sum in which all but one term vanish.                                  *)
LEMMA OneTerm ==
    ASSUME NEW S, IsFiniteSet(S), NEW f, NEW l \in S, f[l] \in Int,
           \A k \in S \ {l} : f[k] = 0
    PROVE  SumFunctionOnSet(f, S) = f[l]
<1>1. \A k \in S : f[k] \in Int
  OBVIOUS
<1>2. SumFunctionOnSet(f, S) = f[l] + SumFunctionOnSet(f, S \ {l})
  BY <1>1, SumOut
<1>3. SumFunctionOnSet(f, S \ {l}) = 0
  BY FS_Subset, SumZero
<1> QED
  BY <1>2, <1>3

(* A sum in which all but two terms vanish.                                 *)
LEMMA TwoTerms ==
    ASSUME NEW S, IsFiniteSet(S), NEW f, NEW l \in S, NEW r \in S, l # r,
           f[l] \in Int, f[r] \in Int, \A k \in S \ {l, r} : f[k] = 0
    PROVE  SumFunctionOnSet(f, S) = f[l] + f[r]
<1>1. \A k \in S : f[k] \in Int
  OBVIOUS
<1>2. SumFunctionOnSet(f, S) = f[l] + SumFunctionOnSet(f, S \ {l})
  BY <1>1, SumOut
<1>3. SumFunctionOnSet(f, S \ {l}) = f[r]
  <2>1. IsFiniteSet(S \ {l}) /\ r \in S \ {l} /\ \A k \in (S \ {l}) \ {r} : f[k] = 0
    BY FS_Subset
  <2> QED
    BY <2>1, OneTerm
<1> QED
  BY <1>2, <1>3

(* Nth numbers a finite set of positions in their order.                    *)
UpToIn(S, i) == {j \in S : j <= i}

LEMMA RankGrows ==
    ASSUME NEW S, S \subseteq Nat, IsFiniteSet(S)
    PROVE  /\ Cardinality(S) \in Nat
           /\ \A i \in S : Cardinality(UpToIn(S, i)) \in 1 .. Cardinality(S)
           /\ \A i, j \in S : i < j => Cardinality(UpToIn(S, i)) < Cardinality(UpToIn(S, j))
<1>1. \A i \in S : /\ IsFiniteSet(UpToIn(S, i)) /\ Cardinality(UpToIn(S, i)) \in Nat
                   /\ Cardinality(UpToIn(S, i)) <= Cardinality(S)
  BY FS_Subset, FS_CardinalityType DEF UpToIn
<1>2. Cardinality(S) \in Nat
  BY FS_CardinalityType
<1>3. ASSUME NEW i \in S
      PROVE  Cardinality(UpToIn(S, i)) \in 1 .. Cardinality(S)
  <2>1. i \in UpToIn(S, i)
    BY DEF UpToIn
  <2>2. Cardinality(UpToIn(S, i)) # 0
    BY <1>1, <2>1, FS_EmptySet
  <2> QED
    BY <1>1, <1>2, <2>2
<1>4. ASSUME NEW i \in S, NEW j \in S, i < j
      PROVE  Cardinality(UpToIn(S, i)) < Cardinality(UpToIn(S, j))
  <2>1. /\ UpToIn(S, i) \in SUBSET UpToIn(S, j)
        /\ j \in UpToIn(S, j) /\ j \notin UpToIn(S, i)
    <3>1. i \in Int /\ j \in Int /\ \A x \in S : x \in Int
      OBVIOUS
    <3>2. ~(j <= i) /\ j <= j /\ \A x \in S : x <= i => x <= j
      BY <1>4, <3>1
    <3> QED
      BY <3>2 DEF UpToIn
  <2>2. UpToIn(S, i) # UpToIn(S, j)
    BY <2>1
  <2>3. /\ Cardinality(UpToIn(S, i)) <= Cardinality(UpToIn(S, j))
        /\ Cardinality(UpToIn(S, j)) # Cardinality(UpToIn(S, i))
    BY <1>1, <2>1, <2>2, FS_Subset
  <2> QED
    BY <1>1, <2>3
<1> QED
  BY <1>2, <1>3, <1>4

LEMMA NthIs ==
    ASSUME NEW S, S \subseteq Nat, IsFiniteSet(S), NEW k \in 1 .. Cardinality(S)
    PROVE  Nth(S, k) \in S /\ Cardinality(UpToIn(S, Nth(S, k))) = k
<1> DEFINE n == Cardinality(S)
           f == [i \in S |-> Cardinality(UpToIn(S, i))]
<1>1. n \in Nat /\ IsFiniteSet(1 .. n) /\ Cardinality(1 .. n) = n
  <2>1. n \in Nat
    BY FS_CardinalityType
  <2> QED
    BY <2>1, FS_Interval
<1>2. f \in [S -> 1 .. n]
  BY RankGrows
<1>3. ASSUME NEW i \in S, NEW j \in S, f[i] = f[j]
      PROVE  i = j
  <2>1. ~(i < j) /\ ~(j < i)
    <3>1. Cardinality(UpToIn(S, i)) = Cardinality(UpToIn(S, j))
          /\ Cardinality(UpToIn(S, i)) \in Int
      <4>1. f[i] = Cardinality(UpToIn(S, i)) /\ f[j] = Cardinality(UpToIn(S, j))
        OBVIOUS
      <4>2. Cardinality(UpToIn(S, i)) \in 1 .. Cardinality(S)
        BY RankGrows
      <4>3. Cardinality(UpToIn(S, i)) = Cardinality(UpToIn(S, j))
        BY <1>3, <4>1, Zenon
      <4>4. Cardinality(UpToIn(S, i)) \in Int
        BY <4>2
      <4> HIDE DEF f
      <4> QED
        BY <4>3, <4>4
    <3>2. ~(Cardinality(UpToIn(S, i)) < Cardinality(UpToIn(S, j)))
          /\ ~(Cardinality(UpToIn(S, j)) < Cardinality(UpToIn(S, i)))
      BY <3>1
    <3> QED
      BY <3>2, RankGrows
  <2> QED
    BY <2>1
<1>4. f \in Surjection(S, 1 .. n)
  <2> HIDE DEF f
  <2>1. f \in Injection(S, 1 .. n)
    BY <1>2, <1>3 DEF Injection, IsInjective
  <2> QED
    BY <1>1, <2>1, FS_Injection
<1>5. \E i \in S : Cardinality(UpToIn(S, i)) = k
  BY <1>4 DEF Surjection
<1>6. Nth(S, k) = CHOOSE i \in S : Cardinality(UpToIn(S, i)) = k
  BY DEF Nth, UpToIn
<1> QED
  BY <1>5, <1>6

LEMMA NthOf ==
    ASSUME NEW S, S \subseteq Nat, IsFiniteSet(S), NEW i \in S
    PROVE  /\ Cardinality(UpToIn(S, i)) \in 1 .. Cardinality(S)
           /\ Nth(S, Cardinality(UpToIn(S, i))) = i
<1> DEFINE k == Cardinality(UpToIn(S, i))
<1>1. k \in 1 .. Cardinality(S)
  BY RankGrows
<1> DEFINE j == Nth(S, k)
<1>2. j \in S /\ Cardinality(UpToIn(S, j)) = k
  BY <1>1, NthIs
<1>3. k \in Int
  BY <1>1
<1>4. ~(i < j) /\ ~(j < i)
  <2>1. ~(Cardinality(UpToIn(S, i)) < Cardinality(UpToIn(S, j)))
        /\ ~(Cardinality(UpToIn(S, j)) < Cardinality(UpToIn(S, i)))
    <3> HIDE DEF j
    <3> QED
      BY <1>2, <1>3
  <2> HIDE DEF j
  <2> QED
    BY <1>2, <2>1, RankGrows
<1>5. j = i
  <2> HIDE DEF j
  <2> QED
    BY <1>2, <1>4
<1> QED
  BY <1>1, <1>5

LEMMA NthAdded ==
    ASSUME NEW S, S \subseteq Nat, IsFiniteSet(S), NEW m \in Nat, \A i \in S : i < m
    PROVE  LET T == S \cup {m} IN
           /\ IsFiniteSet(T) /\ Cardinality(T) = Cardinality(S) + 1
           /\ \A k \in 1 .. Cardinality(S) : Nth(T, k) = Nth(S, k)
           /\ Nth(T, Cardinality(S) + 1) = m
<1> DEFINE T == S \cup {m}
<1>1. m \notin S /\ T \subseteq Nat
  OBVIOUS
<1>2. IsFiniteSet(T) /\ Cardinality(T) = Cardinality(S) + 1
  BY <1>1, FS_AddElement
<1>3. ASSUME NEW k \in 1 .. Cardinality(S)
      PROVE  Nth(T, k) = Nth(S, k)
  <2> DEFINE i == Nth(S, k)
  <2>1. i \in S /\ Cardinality(UpToIn(S, i)) = k
    BY NthIs
  <2>2. UpToIn(T, i) = UpToIn(S, i)
    <3> HIDE DEF i
    <3>1. i < m /\ i \in Nat
      BY <2>1
    <3> QED
      BY <3>1 DEF UpToIn
  <2>3. i \in T
    BY <2>1
  <2> HIDE DEF i, T
  <2>4. Nth(T, Cardinality(UpToIn(T, i))) = i
    BY <1>1, <1>2, <2>3, NthOf
  <2> QED
    BY <2>1, <2>2, <2>4 DEF i
<1>4. Nth(T, Cardinality(S) + 1) = m
  <2>1. UpToIn(T, m) = T
    <3>1. \A x \in T : x <= m
      <4>1. \A x \in S : x \in Int /\ x < m
        OBVIOUS
      <4> QED
        BY <4>1
    <3> QED
      BY <3>1 DEF UpToIn
  <2>2. m \in T
    OBVIOUS
  <2> HIDE DEF T
  <2>3. Nth(T, Cardinality(UpToIn(T, m))) = m
    BY <1>1, <1>2, <2>2, NthOf
  <2> QED
    BY <1>2, <2>1, <2>3
<1> QED
  BY <1>2, <1>3, <1>4
=============================================================================
