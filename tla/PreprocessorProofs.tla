------------------------- MODULE PreprocessorProofs -------------------------
(***************************************************************************)
(* Proofs about Preprocessor: what one call of run computes, for windows   *)
(* of every length and values, and every number of channels and outputs.   *)
(* Each stage has its lemma, stated of one channel; the invariant says in  *)
(* which order the stages have been passed, and the theorems follow.       *)
(***************************************************************************)
EXTENDS Preprocessor, DataProofs
-----------------------------------------------------------------------------
(* What missing_repair.hpp promises of a cell can be kept, by one of the    *)
(* candidates.                                                              *)
LEMMA RepairExists ==
    ASSUME NEW n \in Nat, NEW valid \in SUBSET Positions(n), NEW i \in Positions(n)
    PROVE  \E c \in Candidates(valid, i) : IsRepaired(valid, i, c)
<1> DEFINE below == {p \in valid : p < i}
           above == {p \in valid : i < p}
<1>1. i \in Int /\ valid \subseteq Nat /\ valid \subseteq 0 .. n
  BY DEF Positions
<1>2. CASE valid = {}
  BY <1>2 DEF Candidates, IsRepaired
<1>3. CASE i \in valid
  <2>1. IsRepaired(valid, i, Sample(i))
    BY <1>1, <1>3 DEF IsRepaired, Neighbours
  <2> QED
    BY <1>3, <2>1 DEF Candidates
<1>4. CASE i \notin valid /\ valid # {} /\ below = {}
  <2>1. PICK p \in valid : \A k \in valid : p <= k
    BY <1>1, <1>4, Least
  <2>2. IsRepaired(valid, i, Sample(p))
    BY <1>1, <1>4, <2>1 DEF IsRepaired, Neighbours
  <2> QED
    BY <2>2 DEF Candidates
<1>5. CASE i \notin valid /\ valid # {} /\ above = {}
  <2>1. PICK p \in valid : \A k \in valid : k <= p
    <3>1. Max(valid) \in valid /\ \A k \in valid : Max(valid) >= k
      BY <1>1, <1>5, MaxIs
    <3> QED
      BY <1>1, <3>1
  <2>2. IsRepaired(valid, i, Sample(p))
    BY <1>1, <1>5, <2>1 DEF IsRepaired, Neighbours
  <2> QED
    BY <2>2 DEF Candidates
<1>6. CASE i \notin valid /\ below # {} /\ above # {}
  <2>1. PICK p \in below : \A k \in below : k <= p
    <3>1. below \subseteq 0 .. n
      BY <1>1
    <3> HIDE DEF below
    <3>2. Max(below) \in below /\ \A k \in below : Max(below) >= k
      BY <1>6, <3>1, MaxIs
    <3> QED
      BY <3>1, <3>2
  <2>2. PICK q \in above : \A k \in above : q <= k
    <3>1. above \subseteq Nat
      BY <1>1
    <3> HIDE DEF above
    <3> QED
      BY <1>6, <3>1, Least
  <2>3. IsRepaired(valid, i, Line(Sample(p), Sample(q), i - p, q - p))
    BY <1>1, <1>6, <2>1, <2>2 DEF IsRepaired, Neighbours
  <2> QED
    BY <2>3 DEF Candidates
<1> QED
  BY <1>2, <1>3, <1>4, <1>5, <1>6

(* The three things a cell may hold after the repair: the floor when nothing *)
(* was read, a sample (its own, or that of an end), or a line through it.    *)
RepairShape(valid, i, r) ==
    \/ r = Floor /\ valid = {}
    \/ \E p \in valid :
          /\ r = Sample(p)
          /\ p = i \/ (\A k \in valid : i < k) \/ (\A k \in valid : k < i)
    \/ \E p, q \in valid :
          p < i /\ i < q /\ r = Line(Sample(p), Sample(q), i - p, q - p)

(* The code chosen for a cell has that shape.                               *)
LEMMA RepairedCell ==
    ASSUME NEW n \in Nat, NEW valid \in SUBSET Positions(n), NEW i \in Positions(n),
           NEW r, r = CHOOSE c \in Candidates(valid, i) : IsRepaired(valid, i, c)
    PROVE  RepairShape(valid, i, r)
<1> DEFINE below == {p \in valid : p < i}
           above == {p \in valid : i < p}
<1>1. i \in Int /\ valid \subseteq Nat /\ valid \subseteq 0 .. n
  BY DEF Positions
<1>2. IsRepaired(valid, i, r)
  BY RepairExists
<1>3. CASE valid = {} \/ i \in valid
  BY <1>2, <1>3 DEF IsRepaired, RepairShape
<1>4. CASE i \notin valid /\ valid # {} /\ below = {}
  <2>1. PICK p \in valid : \A k \in valid : p <= k
    BY <1>1, <1>4, Least
  <2>2. i < p /\ \A k \in valid : i < k
    BY <1>1, <1>4, <2>1
  <2>3. r = Sample(p)
    BY <1>2, <2>1, <2>2 DEF IsRepaired
  <2> QED
    BY <2>2, <2>3 DEF RepairShape
<1>5. CASE i \notin valid /\ valid # {} /\ above = {}
  <2>1. PICK p \in valid : \A k \in valid : k <= p
    <3>1. Max(valid) \in valid /\ \A k \in valid : Max(valid) >= k
      BY <1>1, <1>5, MaxIs
    <3> QED
      BY <1>1, <3>1
  <2>2. p < i /\ \A k \in valid : k < i
    BY <1>1, <1>5, <2>1
  <2>3. r = Sample(p)
    BY <1>2, <2>1, <2>2 DEF IsRepaired
  <2> QED
    BY <2>2, <2>3 DEF RepairShape
<1>6. CASE i \notin valid /\ below # {} /\ above # {}
  <2>1. PICK p \in below : \A k \in below : k <= p
    <3>1. below \subseteq 0 .. n
      BY <1>1
    <3> HIDE DEF below
    <3>2. Max(below) \in below /\ \A k \in below : Max(below) >= k
      BY <1>6, <3>1, MaxIs
    <3> QED
      BY <3>1, <3>2
  <2>2. PICK q \in above : \A k \in above : q <= k
    <3>1. above \subseteq Nat
      BY <1>1
    <3> HIDE DEF above
    <3> QED
      BY <1>6, <3>1, Least
  <2>3. Neighbours(valid, p, q) /\ p \in valid /\ q \in valid /\ p < i /\ i < q
    BY <1>1, <1>6, <2>1, <2>2 DEF Neighbours
  <2>4. r = Line(Sample(p), Sample(q), i - p, q - p)
    BY <1>2, <2>3 DEF IsRepaired
  <2> QED
    BY <2>3, <2>4 DEF RepairShape
<1> QED
  BY <1>3, <1>4, <1>5, <1>6

(* On such a line the quotient has no rest.                                 *)
LEMMA LineExact ==
    ASSUME NEW y0 \in Int, NEW y1 \in Int, NEW num \in Int, NEW den \in Nat \ {0},
           NEW k \in Int, NEW unit \in Int, unit = 42 * k * den
    PROVE  (((y1 * unit) - (y0 * unit)) * num) \div den = 42 * (k * (y1 - y0) * num)
<1> DEFINE w == 42 * (k * (y1 - y0) * num)
<1>1. w \in Int /\ ((y1 * unit) - (y0 * unit)) * num = w * den
  OBVIOUS
<1> HIDE DEF w
<1>2. (w * den) \div den = w
  BY <1>1
<1> QED
  BY <1>1, <1>2 DEF w
-----------------------------------------------------------------------------
(* A row of weights applied to exact samples.                               *)
LEMMA EvaluateIs ==
    ASSUME NEW z \in [0 .. 6 -> Int], NEW y, NEW start \in Int,
           \A j \in 0 .. 6 : y[start + j] = 42 * z[j], NEW r \in 0 .. 6
    PROVE  Evaluate(y, start, r)
             = kWeights[r][1] * z[0] + kWeights[r][2] * z[1] + kWeights[r][3] * z[2]
               + kWeights[r][4] * z[3] + kWeights[r][5] * z[4] + kWeights[r][6] * z[5]
               + kWeights[r][7] * z[6]
<1> DEFINE w == kWeights[r]
           f == [j \in 0 .. 6 |-> w[j + 1] * y[start + j]]
           e == w[1] * z[0] + w[2] * z[1] + w[3] * z[2] + w[4] * z[3]
                + w[5] * z[4] + w[6] * z[5] + w[7] * z[6]
<1>1. w[1] \in Int /\ w[2] \in Int /\ w[3] \in Int /\ w[4] \in Int
      /\ w[5] \in Int /\ w[6] \in Int /\ w[7] \in Int
  BY DEF kWeights
<1> HIDE DEF w
<1>2. \A j \in 0 .. 6 : f[j] = w[j + 1] * (42 * z[j]) /\ z[j] \in Int /\ w[j + 1] \in Int
  <2>1. \A j \in 0 .. 6 : z[j] \in Int /\ w[j + 1] \in Int
    <3>1. \A j \in 0 .. 6 : j + 1 \in {1, 2, 3, 4, 5, 6, 7}
      OBVIOUS
    <3> QED
      BY <1>1, <3>1
  <2> QED
    BY <2>1
<1>3. Evaluate(y, start, r) = SumFunctionOnSet(f, 0 .. 6) \div 42
  BY DEF Evaluate, w
<1> HIDE DEF f
<1>4. \A j \in 0 .. 6 : f[j] \in Int
  BY <1>2
<1>5. SumFunctionOnSet(f, 0 .. 6) = f[0] + f[1] + f[2] + f[3] + f[4] + f[5] + f[6]
  BY <1>4, SumSeven
<1>6. /\ f[0] = 42 * (w[1] * z[0]) /\ w[1] * z[0] \in Int
      /\ f[1] = 42 * (w[2] * z[1]) /\ w[2] * z[1] \in Int
      /\ f[2] = 42 * (w[3] * z[2]) /\ w[3] * z[2] \in Int
      /\ f[3] = 42 * (w[4] * z[3]) /\ w[4] * z[3] \in Int
      /\ f[4] = 42 * (w[5] * z[4]) /\ w[5] * z[4] \in Int
      /\ f[5] = 42 * (w[6] * z[5]) /\ w[6] * z[5] \in Int
      /\ f[6] = 42 * (w[7] * z[6]) /\ w[7] * z[6] \in Int
  <2>1. \A a, b \in Int : a * (42 * b) = 42 * (a * b) /\ a * b \in Int
    OBVIOUS
  <2>2. /\ f[0] = w[1] * (42 * z[0]) /\ f[1] = w[2] * (42 * z[1])
        /\ f[2] = w[3] * (42 * z[2]) /\ f[3] = w[4] * (42 * z[3])
        /\ f[4] = w[5] * (42 * z[4]) /\ f[5] = w[6] * (42 * z[5])
        /\ f[6] = w[7] * (42 * z[6])
    BY <1>2
  <2> QED
    BY <1>1, <2>1, <2>2
<1>7. SumFunctionOnSet(f, 0 .. 6) = 42 * e /\ e \in Int
  BY <1>5, <1>6
<1> HIDE DEF e
<1>8. SumFunctionOnSet(f, 0 .. 6) \div 42 = e
  BY <1>7
<1> QED
  BY <1>3, <1>8 DEF e, w

(* The seven rows give the least-squares parabola: the result is a          *)
(* parabola, and what it leaves over is orthogonal to 1, x and x^2.         *)
LEMMA LeastSquares ==
    ASSUME NEW z \in [0 .. 6 -> Int], NEW y, \A j \in 0 .. 6 : y[j] = 42 * z[j],
           NEW f, f = [k \in 0 .. 6 |-> Evaluate(y, 0, k)]
    PROVE  Parabola(f) /\ Orthogonal(f, y)
<1> DEFINE W(r) == kWeights[r][1] * z[0] + kWeights[r][2] * z[1] + kWeights[r][3] * z[2]
                   + kWeights[r][4] * z[3] + kWeights[r][5] * z[4] + kWeights[r][6] * z[5]
                   + kWeights[r][7] * z[6]
<1>1. \A k \in 0 .. 6 : f[k] = W(k)
  <2>1. \A j \in 0 .. 6 : y[0 + j] = 42 * z[j]
    OBVIOUS
  <2>2. \A k \in 0 .. 6 : Evaluate(y, 0, k) = W(k)
    BY <2>1, EvaluateIs
  <2> HIDE DEF W
  <2> QED
    BY <2>2
<1>2. z[0] \in Int /\ z[1] \in Int /\ z[2] \in Int /\ z[3] \in Int
      /\ z[4] \in Int /\ z[5] \in Int /\ z[6] \in Int
  OBVIOUS
<1>3. /\ f[0] = 32*z[0] + 15*z[1] + 3*z[2] - 4*z[3] - 6*z[4] - 3*z[5] + 5*z[6]
      /\ f[1] = 15*z[0] + 12*z[1] + 9*z[2] + 6*z[3] + 3*z[4] - 3*z[6]
      /\ f[2] = 3*z[0] + 9*z[1] + 12*z[2] + 12*z[3] + 9*z[4] + 3*z[5] - 6*z[6]
      /\ f[3] = 6*z[1] - 4*z[0] + 12*z[2] + 14*z[3] + 12*z[4] + 6*z[5] - 4*z[6]
      /\ f[4] = 3*z[1] - 6*z[0] + 9*z[2] + 12*z[3] + 12*z[4] + 9*z[5] + 3*z[6]
      /\ f[5] = 3*z[2] - 3*z[0] + 6*z[3] + 9*z[4] + 12*z[5] + 15*z[6]
      /\ f[6] = 5*z[0] - 3*z[1] - 6*z[2] - 4*z[3] + 3*z[4] + 15*z[5] + 32*z[6]
  <2>1. f[0] = W(0) /\ f[1] = W(1) /\ f[2] = W(2) /\ f[3] = W(3) /\ f[4] = W(4)
        /\ f[5] = W(5) /\ f[6] = W(6)
    <3> HIDE DEF W
    <3> QED
      BY <1>1
  <2>2. W(0) = 32*z[0] + 15*z[1] + 3*z[2] - 4*z[3] - 6*z[4] - 3*z[5] + 5*z[6]
    BY <1>2 DEF kWeights
  <2>3. W(1) = 15*z[0] + 12*z[1] + 9*z[2] + 6*z[3] + 3*z[4] - 3*z[6]
    BY <1>2 DEF kWeights
  <2>4. W(2) = 3*z[0] + 9*z[1] + 12*z[2] + 12*z[3] + 9*z[4] + 3*z[5] - 6*z[6]
    BY <1>2 DEF kWeights
  <2>5. W(3) = 6*z[1] - 4*z[0] + 12*z[2] + 14*z[3] + 12*z[4] + 6*z[5] - 4*z[6]
    BY <1>2 DEF kWeights
  <2>6. W(4) = 3*z[1] - 6*z[0] + 9*z[2] + 12*z[3] + 12*z[4] + 9*z[5] + 3*z[6]
    BY <1>2 DEF kWeights
  <2>7. W(5) = 3*z[2] - 3*z[0] + 6*z[3] + 9*z[4] + 12*z[5] + 15*z[6]
    BY <1>2 DEF kWeights
  <2>8. W(6) = 5*z[0] - 3*z[1] - 6*z[2] - 4*z[3] + 3*z[4] + 15*z[5] + 32*z[6]
    BY <1>2 DEF kWeights
  <2> HIDE DEF W
  <2> QED
    BY <2>1, <2>2, <2>3, <2>4, <2>5, <2>6, <2>7, <2>8
<1>4. f[0] \in Int /\ f[1] \in Int /\ f[2] \in Int /\ f[3] \in Int /\ f[4] \in Int
      /\ f[5] \in Int /\ f[6] \in Int
  BY <1>2, <1>3
<1>5. Parabola(f)
  <2>1. /\ f[3] - 3 * f[2] + 3 * f[1] - f[0] = 0
        /\ f[4] - 3 * f[3] + 3 * f[2] - f[1] = 0
        /\ f[5] - 3 * f[4] + 3 * f[3] - f[2] = 0
        /\ f[6] - 3 * f[5] + 3 * f[4] - f[3] = 0
    BY <1>2, <1>3
  <2> SUFFICES ASSUME NEW k \in 0 .. 3
               PROVE  f[k + 3] - 3 * f[k + 2] + 3 * f[k + 1] - f[k] = 0
    BY DEF Parabola
  <2>2. k = 0 \/ k = 1 \/ k = 2 \/ k = 3
    OBVIOUS
  <2> QED
    BY <2>1, <2>2
<1>6. Orthogonal(f, y)
  <2> SUFFICES ASSUME NEW e \in 1 .. 3
               PROVE  SumFunctionOnSet(
                          [k \in 0 .. 6 |-> <<1, k, k * k>>[e] * (y[k] - f[k])], 0 .. 6) = 0
    BY DEF Orthogonal
  <2> DEFINE g == [k \in 0 .. 6 |-> <<1, k, k * k>>[e] * (y[k] - f[k])]
  <2>1. y[0] = 42 * z[0] /\ y[1] = 42 * z[1] /\ y[2] = 42 * z[2] /\ y[3] = 42 * z[3]
        /\ y[4] = 42 * z[4] /\ y[5] = 42 * z[5] /\ y[6] = 42 * z[6]
    OBVIOUS
  <2>2. CASE e = 1
    <3>1. \A k \in 0 .. 6 : g[k] = y[k] - f[k]
      <4>1. \A k \in 0 .. 6 : y[k] \in Int /\ f[k] \in Int
        <5>1. \A k \in 0 .. 6 : k \in {0, 1, 2, 3, 4, 5, 6}
          OBVIOUS
        <5> QED
          BY <1>2, <1>4, <2>1, <5>1
      <4> QED
        BY <2>2, <4>1
    <3> HIDE DEF g
    <3>2. /\ g[0] = y[0] - f[0] /\ g[1] = y[1] - f[1] /\ g[2] = y[2] - f[2]
          /\ g[3] = y[3] - f[3] /\ g[4] = y[4] - f[4] /\ g[5] = y[5] - f[5]
          /\ g[6] = y[6] - f[6]
      BY <3>1
    <3>3. \A k \in 0 .. 6 : g[k] \in Int
      <4>1. \A k \in 0 .. 6 : k \in {0, 1, 2, 3, 4, 5, 6}
        OBVIOUS
      <4> QED
        BY <1>2, <1>4, <2>1, <3>2, <4>1
    <3>4. g[0] + g[1] + g[2] + g[3] + g[4] + g[5] + g[6] = 0
      BY <1>2, <1>3, <2>1, <3>2
    <3>5. SumFunctionOnSet(g, 0 .. 6) = g[0] + g[1] + g[2] + g[3] + g[4] + g[5] + g[6]
      BY <3>3, SumSeven
    <3> QED
      BY <3>4, <3>5 DEF g
  <2>3. CASE e = 2
    <3>1. \A k \in 0 .. 6 : g[k] = k * (y[k] - f[k])
      BY <2>3
    <3> HIDE DEF g
    <3>2. /\ g[0] = 0 * (y[0] - f[0]) /\ g[1] = y[1] - f[1] /\ g[2] = 2 * (y[2] - f[2])
          /\ g[3] = 3 * (y[3] - f[3]) /\ g[4] = 4 * (y[4] - f[4]) /\ g[5] = 5 * (y[5] - f[5])
          /\ g[6] = 6 * (y[6] - f[6])
      BY <1>2, <1>4, <2>1, <3>1
    <3>3. \A k \in 0 .. 6 : g[k] \in Int
      <4>1. \A k \in 0 .. 6 : k \in {0, 1, 2, 3, 4, 5, 6}
        OBVIOUS
      <4> QED
        BY <1>2, <1>4, <2>1, <3>2, <4>1
    <3>4. g[0] + g[1] + g[2] + g[3] + g[4] + g[5] + g[6] = 0
      BY <1>2, <1>3, <2>1, <3>2
    <3>5. SumFunctionOnSet(g, 0 .. 6) = g[0] + g[1] + g[2] + g[3] + g[4] + g[5] + g[6]
      BY <3>3, SumSeven
    <3> QED
      BY <3>4, <3>5 DEF g
  <2>4. CASE e = 3
    <3>1. \A k \in 0 .. 6 : g[k] = (k * k) * (y[k] - f[k])
      BY <2>4
    <3> HIDE DEF g
    <3>2. /\ g[0] = 0 * (y[0] - f[0]) /\ g[1] = y[1] - f[1] /\ g[2] = 4 * (y[2] - f[2])
          /\ g[3] = 9 * (y[3] - f[3]) /\ g[4] = 16 * (y[4] - f[4])
          /\ g[5] = 25 * (y[5] - f[5]) /\ g[6] = 36 * (y[6] - f[6])
      BY <1>2, <1>4, <2>1, <3>1
    <3>3. \A k \in 0 .. 6 : g[k] \in Int
      <4>1. \A k \in 0 .. 6 : k \in {0, 1, 2, 3, 4, 5, 6}
        OBVIOUS
      <4> QED
        BY <1>2, <1>4, <2>1, <3>2, <4>1
    <3>4. g[0] + g[1] + g[2] + g[3] + g[4] + g[5] + g[6] = 0
      BY <1>2, <1>3, <2>1, <3>2
    <3>5. SumFunctionOnSet(g, 0 .. 6) = g[0] + g[1] + g[2] + g[3] + g[4] + g[5] + g[6]
      BY <3>3, SumSeven
    <3> QED
      BY <3>4, <3>5 DEF g
  <2> QED
    BY <2>2, <2>3, <2>4
<1> QED
  BY <1>5, <1>6
-----------------------------------------------------------------------------
(* upper_bound finds the knots around t / (Target - 1).                     *)
LEMMA RightKnot ==
    ASSUME NEW n \in Nat \ {0, 1}, NEW m \in Nat \ {0, 1}, NEW t \in Nat, t < m, NEW S,
           S = {k \in 0 .. n - 1 : k * m > t * (n - 1)}
    PROVE  /\ Min(S) \in 1 .. n - 1
           /\ (Min(S) - 1) * m <= t * (n - 1)
           /\ t * (n - 1) < Min(S) * m
<1>1. S \subseteq Nat /\ S # {}
  <2>1. (n - 1) * m > t * (n - 1)
    <3>1. \A a, b, c \in Nat : a > 0 /\ b > c => a * b > c * a
      OBVIOUS
    <3> QED
      BY <3>1
  <2>2. n - 1 \in S
    BY <2>1
  <2>3. S \subseteq 0 .. n - 1
    OBVIOUS
  <2>4. \A k \in 0 .. n - 1 : k \in Nat
    OBVIOUS
  <2> QED
    BY <2>2, <2>3, <2>4, Zenon
<1>2. Min(S) \in S /\ \A y \in S : Min(S) <= y
  BY <1>1, MinIs
<1>3. Min(S) \in 0 .. n - 1 /\ t * (n - 1) < Min(S) * m
  BY <1>2
<1>4. Min(S) # 0
  <2>1. t * (n - 1) \in Nat
    OBVIOUS
  <2> QED
    BY <1>3, <2>1
<1>5. Min(S) - 1 \notin S /\ Min(S) - 1 \in 0 .. n - 1
  BY <1>2, <1>3, <1>4
<1>6. ~((Min(S) - 1) * m > t * (n - 1))
  BY <1>5
<1>7. (Min(S) - 1) * m \in Int /\ t * (n - 1) \in Int
  BY <1>3
<1> QED
  BY <1>3, <1>4, <1>6, <1>7

(* The value between two neighbours is not below the smaller of them.       *)
LEMMA BetweenNeighbours ==
    ASSUME NEW a \in Int, NEW b \in Int, NEW low \in Int, a >= low, b >= low,
           NEW m \in Nat \ {0}, NEW num \in 0 .. m
    PROVE  a + ((b - a) * num) \div m >= low
<1>1. CASE b >= a
  <2>1. (b - a) * num \in Nat
    BY <1>1
  <2>2. ((b - a) * num) \div m \in Nat
    BY <2>1
  <2> QED
    BY <2>2
<1>2. CASE b < a
  <2>1. (b - a) * num >= (b - a) * m
    <3>1. \A x \in Nat : x * num <= x * m
      OBVIOUS
    <3>2. (a - b) * num <= (a - b) * m
      BY <1>2, <3>1
    <3> QED
      BY <3>2
  <2> DEFINE p == (b - a) * num
  <2>2. p \in Int /\ p >= (b - a) * m
    BY <2>1
  <2> HIDE DEF p
  <2>3. p \div m >= b - a
    BY <2>2
  <2>4. p \div m \in Int
    BY <2>2
  <2> QED
    BY <2>3, <2>4 DEF p
<1> QED
  BY <1>1, <1>2

(* Hat by its two sides.                                                    *)
LEMMA HatIs ==
    ASSUME NEW d \in Int
    PROVE  Hat(d) = IF d >= Target - 1 THEN 0 ELSE Target - 1 - d
<1>1. Target - 1 - d \in Int
  BY TargetAssumption
<1>2. CASE d >= Target - 1
  <2>1. Max({0, Target - 1 - d}) = 0
    BY <1>1, <1>2, TargetAssumption, MaxUnique
  <2> QED
    BY <1>2, <2>1 DEF Hat
<1>3. CASE ~(d >= Target - 1)
  <2>1. Target - 1 - d >= 0
    BY <1>3, TargetAssumption
  <2>2. Max({0, Target - 1 - d}) = Target - 1 - d
    BY <1>1, <2>1, MaxUnique
  <2> QED
    BY <1>3, <2>2 DEF Hat
<1> QED
  BY <1>2, <1>3

(* The distance of two knots, in units of 1 / ((n - 1) * m).                *)
LEMMA KnotsApart ==
    ASSUME NEW j \in Int, NEW k \in Int, NEW m \in Nat, j < k
    PROVE  j * m + m <= k * m
<1>1. \A a, b \in Nat : (a + 1) * b >= b
  OBVIOUS
<1>2. k - j - 1 \in Nat
  OBVIOUS
<1>3. (k - j - 1 + 1) * m >= m
  BY <1>1, <1>2
<1>4. (k - j - 1 + 1) * m = k * m - j * m
  OBVIOUS
<1>5. k * m \in Int /\ j * m \in Int
  OBVIOUS
<1> QED
  BY <1>3, <1>4, <1>5

(* On a knot the piecewise linear function is the sample.                   *)
LEMMA AtKnot ==
    ASSUME NEW x \in [Positions(Size) -> Int], Size \in Nat, NEW t \in Int,
           NEW l \in Positions(Size), t * (Size - 1) = l * (Target - 1)
    PROVE  LinearAt(x, t) = x[l]
<1> DEFINE m == Target - 1
           f == [k \in Positions(Size) |-> x[k] * Hat(Dist(t * (Size - 1), k * m))]
<1>1. m \in Nat \ {0} /\ l \in Int /\ x[l] \in Int /\ \A k \in Positions(Size) : k \in Int /\ x[k] \in Int
  BY TargetAssumption DEF Positions
<1>2. IsFiniteSet(Positions(Size))
  BY FS_Interval DEF Positions
<1>3. f[l] = x[l] * m
  <2>1. Dist(l * m, l * m) = 0
    <3>1. l * m \in Int
      BY <1>1
    <3> HIDE DEF m
    <3> QED
      BY <3>1 DEF Dist
  <2>2. Hat(0) = m
    <3>1. ~(0 >= Target - 1) /\ Target - 1 - 0 = m
      BY TargetAssumption
    <3> QED
      BY <3>1, HatIs
  <2> QED
    BY <2>1, <2>2
<1>4. ASSUME NEW k \in Positions(Size) \ {l}
      PROVE  f[k] = 0
  <2> DEFINE a == l * m
             b == k * m
             d == Dist(a, b)
  <2>1. k \in Int /\ (k < l \/ l < k)
    BY <1>1
  <2> HIDE DEF m
  <2>2. a \in Int /\ b \in Int /\ (a + m <= b \/ b + m <= a)
    BY <1>1, <2>1, KnotsApart
  <2> HIDE DEF a, b
  <2>3. d \in Int /\ d >= m
    BY <1>1, <2>2 DEF Dist
  <2> HIDE DEF d
  <2>4. Hat(d) = 0
    BY <2>3, HatIs DEF m
  <2>5. f[k] = x[k] * Hat(d)
    BY DEF d, a, b, m
  <2> HIDE DEF f
  <2> QED
    BY <1>1, <2>4, <2>5
<1>5. SumFunctionOnSet(f, Positions(Size)) = x[l] * m
  <2>1. f[l] \in Int
    <3> HIDE DEF f, m
    <3> QED
      BY <1>1, <1>3
  <2> HIDE DEF f
  <2>2. SumFunctionOnSet(f, Positions(Size)) = f[l]
    BY <1>2, <1>4, <2>1, OneTerm
  <2> QED
    BY <1>3, <2>2
<1>6. LinearAt(x, t) = SumFunctionOnSet(f, Positions(Size)) \div m
  BY DEF LinearAt
<1>7. (x[l] * m) \div m = x[l]
  <2> HIDE DEF m
  <2> QED
    BY <1>1
<1> QED
  BY <1>5, <1>6, <1>7

(* Between two knots only their two samples have a weight.                  *)
LEMMA BetweenKnots ==
    ASSUME NEW x \in [Positions(Size) -> Int], Size \in Nat, NEW t \in Int,
           NEW l \in Positions(Size), l + 1 \in Positions(Size),
           NEW num \in 0 .. Target - 1, t * (Size - 1) = l * (Target - 1) + num
    PROVE  LinearAt(x, t) = x[l] + ((x[l + 1] - x[l]) * num) \div (Target - 1)
<1> DEFINE m == Target - 1
           r == l + 1
           f == [k \in Positions(Size) |-> x[k] * Hat(Dist(t * (Size - 1), k * m))]
<1>1. m \in Nat \ {0} /\ l \in Int /\ r \in Int /\ r \in Positions(Size)
      /\ num \in Int /\ 0 <= num /\ num <= m
      /\ \A k \in Positions(Size) : k \in Int /\ x[k] \in Int
  BY TargetAssumption DEF Positions
<1>2. IsFiniteSet(Positions(Size))
  BY FS_Interval DEF Positions
<1> DEFINE a == l * m + num
<1>3. a \in Int /\ t * (Size - 1) = a /\ l * m \in Int /\ r * m = l * m + m
  <2>1. t * (Size - 1) = a
    OBVIOUS
  <2> HIDE DEF m
  <2>2. a \in Int /\ l * m \in Int
    BY <1>1
  <2>3. r * m = l * m + m
    BY <1>1
  <2> QED
    BY <2>1, <2>2, <2>3
<1>4. f[l] = x[l] * (m - num) /\ f[r] = x[r] * num
  <2>1. Dist(a, l * m) = num
    <3> DEFINE p == l * m
    <3>1. p \in Int /\ a = p + num
      BY <1>3
    <3> HIDE DEF p, m, a
    <3>2. Dist(a, p) = num
      BY <1>1, <3>1 DEF Dist
    <3> QED
      BY <3>2 DEF p
  <2>2. Dist(a, r * m) = m - num
    <3> DEFINE p == l * m
    <3>1. p \in Int /\ a = p + num /\ r * m = p + m
      BY <1>3
    <3> HIDE DEF p, m, a
    <3>2. Dist(a, p + m) = m - num
      BY <1>1, <3>1 DEF Dist
    <3> QED
      BY <3>1, <3>2
  <2>3. Hat(num) = m - num /\ Hat(m - num) = num
    <3>1. m - num \in Int
      BY <1>1
    <3>2. Hat(num) = (IF num >= m THEN 0 ELSE m - num)
          /\ Hat(m - num) = (IF m - num >= m THEN 0 ELSE m - (m - num))
      BY <1>1, <3>1, HatIs
    <3> HIDE DEF m
    <3> QED
      BY <1>1, <3>2
  <2>4. f[l] = x[l] * Hat(Dist(a, l * m)) /\ f[r] = x[r] * Hat(Dist(a, r * m))
    BY <1>1, <1>3
  <2> HIDE DEF f, m, a, r
  <2> QED
    BY <2>1, <2>2, <2>3, <2>4
<1>5. ASSUME NEW k \in Positions(Size) \ {l, r}
      PROVE  f[k] = 0
  <2> DEFINE b == k * m
             d == Dist(a, b)
             p == l * m
  <2>1. k \in Int /\ (k < l \/ r < k)
    BY <1>1
  <2>2. p \in Int /\ a = p + num /\ r * m = p + m
    BY <1>3
  <2>3. b \in Int /\ (b + m <= p \/ r * m + m <= b)
    <3> HIDE DEF m, r
    <3> QED
      BY <1>1, <2>1, KnotsApart
  <2> HIDE DEF m, a, b, p
  <2>4. d \in Int /\ d >= m
    BY <1>1, <2>2, <2>3 DEF Dist
  <2> HIDE DEF d
  <2>5. Hat(d) = 0
    BY <2>4, HatIs DEF m
  <2>6. f[k] = x[k] * Hat(d)
    BY <1>3 DEF d, a, b, m
  <2> HIDE DEF f
  <2> QED
    BY <1>1, <2>5, <2>6
<1> DEFINE y0 == x[l]
           y1 == x[r]
<1>6. y0 \in Int /\ y1 \in Int
  BY <1>1
<1>7. SumFunctionOnSet(f, Positions(Size)) = y0 * (m - num) + y1 * num
  <2>1. f[l] = y0 * (m - num) /\ f[r] = y1 * num
    BY <1>4
  <2>2. l # r
    BY <1>1
  <2> HIDE DEF f, m, r, y0, y1
  <2>3. f[l] \in Int /\ f[r] \in Int
    BY <1>1, <1>6, <2>1
  <2>4. \A k \in Positions(Size) \ {l, r} : f[k] = 0
    BY <1>5
  <2>5. SumFunctionOnSet(f, Positions(Size)) = f[l] + f[r]
    <3>1. r \in Positions(Size)
      BY <1>1
    <3> QED
      BY <1>2, <2>2, <2>3, <2>4, <3>1, TwoTerms, Zenon
  <2> QED
    BY <2>1, <2>5
<1>8. LinearAt(x, t) = SumFunctionOnSet(f, Positions(Size)) \div m
  BY DEF LinearAt
<1>9. (y0 * (m - num) + y1 * num) \div m = y0 + ((y1 - y0) * num) \div m
  <2> HIDE DEF m, y0, y1
  <2> DEFINE b == (y1 - y0) * num
  <2>1. b \in Int /\ y0 * (m - num) + y1 * num = y0 * m + b
    BY <1>1, <1>6
  <2> HIDE DEF b
  <2>2. (y0 * m + b) \div m = y0 + b \div m
    BY <1>1, <1>6, <2>1
  <2> QED
    BY <2>1, <2>2 DEF b
<1> QED
  BY <1>7, <1>8, <1>9
(* What the constants promise of the window.                                *)
LEMMA InputTyped ==
    ASSUME samples \in Inputs
    PROVE  /\ Size \in Nat /\ IsFiniteSet(Positions(Size))
           /\ Cardinality(Positions(Size)) = Size
           /\ samples.radar \in [Channels -> [Positions(Size) -> Int]]
           /\ samples.imu \in [Positions(Size) -> Int]
<1>1. Size \in Nat /\ samples.radar \in [Channels -> [Positions(Size) -> Int]]
      /\ samples.imu \in [Positions(Size) -> Int]
  BY InputsAssumption DEF Size
<1>2. IsFiniteSet(0 .. Size - 1) /\ Cardinality(0 .. Size - 1) = Size
  BY <1>1, FS_Interval
<1> QED
  BY <1>1, <1>2 DEF Positions
-----------------------------------------------------------------------------
(* Every repaired value is a number, and exact enough for the smoothing.    *)
LEMMA RepairTyped ==
    ASSUME samples \in Inputs, sensorMin \in Int,
           NEW channel \in [Positions(Size) -> Int]
    PROVE  /\ RepairChannel(channel) \in [Positions(Size) -> Int]
           /\ Size >= 7 => \A i \in Positions(Size) :
                               \E z \in Int : RepairChannel(channel)[i] = 42 * z
<1>1. Size \in Nat /\ Unit \in Nat /\ Target - 1 \in Nat \ {0}
  BY InputTyped, TargetAssumption
<1>2. ASSUME NEW i \in Positions(Size)
      PROVE  /\ RepairChannel(channel)[i] \in Int
             /\ Size >= 7 => \E z \in Int : RepairChannel(channel)[i] = 42 * z
  <2> DEFINE valid == ValidAt(channel)
             r == CHOOSE c \in Candidates(valid, i) : IsRepaired(valid, i, c)
             v == RepairChannel(channel)[i]
  <2>1. v = Value(channel, r)
    BY DEF RepairChannel
  <2>2. valid \in SUBSET Positions(Size)
    BY DEF ValidAt
  <2>3. \/ r = Floor
        \/ \E p \in valid : r = Sample(p)
        \/ \E p, q \in valid :
              p < i /\ i < q /\ r = Line(Sample(p), Sample(q), i - p, q - p)
    <3> HIDE DEF valid, r
    <3>1. r = CHOOSE c \in Candidates(valid, i) : IsRepaired(valid, i, c)
      BY DEF r
    <3> QED
      BY <1>1, <2>2, <3>1, RepairedCell DEF RepairShape
  <2> HIDE DEF r, valid, v
  <2>4. Size >= 7 => \E k \in Int : Unit = 42 * k
    <3> SUFFICES ASSUME Size >= 7 PROVE \E k \in Int : Unit = 42 * k
      OBVIOUS
    <3>1. 1 \in 1 .. samples.size - 1
      BY <1>1 DEF Size
    <3>2. Unit % (42 * (Target - 1) * 1) = 0
      BY <3>1, ExactAssumption
    <3> DEFINE m == Target - 1
               g == 42 * m * 1
    <3>3. m \in Nat \ {0}
      BY <1>1
    <3>4. g \in Nat \ {0} /\ Unit % g = 0
      <4>1. Unit % g = 0
        BY <3>2
      <4> HIDE DEF m
      <4> QED
        BY <3>3, <4>1
    <3> HIDE DEF g
    <3>5. Unit = g * (Unit \div g) /\ Unit \div g \in Int
      BY <1>1, <3>4
    <3>6. Unit = 42 * (m * (Unit \div g))
      <4> HIDE DEF m
      <4> QED
        BY <3>3, <3>5 DEF g
    <3>7. m * (Unit \div g) \in Int
      BY <3>3, <3>5
    <3> QED
      BY <3>6, <3>7
  <2> DEFINE Exact(a) == a \in Int /\ (Size >= 7 => \E z \in Int : a = 42 * z)
  <2>5. ASSUME NEW a \in Int
        PROVE  Exact(a * Unit)
    <3>1. ASSUME Size >= 7
          PROVE  \E z \in Int : a * Unit = 42 * z
      <4>1. PICK k \in Int : Unit = 42 * k
        BY <2>4, <3>1
      <4>2. a * k \in Int /\ a * Unit = 42 * (a * k)
        BY <4>1
      <4> QED
        BY <4>2
    <3>2. a * Unit \in Int
      BY <1>1
    <3> QED
      BY <3>1, <3>2
  <2> HIDE DEF Exact
  <2>6. ASSUME r = Floor
        PROVE  Exact(v)
    <3>1. v = sensorMin * Unit
      BY <2>1, <2>6 DEF Value, Floor
    <3> QED
      BY <2>5, <3>1
  <2>7. ASSUME NEW p \in valid, r = Sample(p)
        PROVE  Exact(v)
    <3>1. v = channel[p] * Unit /\ channel[p] \in Int
      BY <2>1, <2>2, <2>7 DEF Value, Sample
    <3> QED
      BY <2>5, <3>1
  <2>8. ASSUME NEW p \in valid, NEW q \in valid, p < i, i < q,
               r = Line(Sample(p), Sample(q), i - p, q - p)
        PROVE  Exact(v)
    <3> DEFINE y0 == channel[p]
               y1 == channel[q]
               den == q - p
               num == i - p
               m == Target - 1
               g == 42 * m * den
    <3>1. v = y0 * Unit + ((y1 * Unit - y0 * Unit) * num) \div den
      BY <2>1, <2>8 DEF Value, Line, Sample
    <3>2. y0 \in Int /\ y1 \in Int /\ num \in Int /\ den \in Nat \ {0} /\ m \in Nat \ {0}
          /\ den \in 1 .. Size - 1
      <4>1. p \in Positions(Size) /\ q \in Positions(Size) /\ i \in Positions(Size)
        BY <2>2
      <4>2. p \in 0 .. Size - 1 /\ q \in 0 .. Size - 1 /\ i \in 0 .. Size - 1
        BY <4>1 DEF Positions
      <4>3. y0 \in Int /\ y1 \in Int
        BY <4>1
      <4> QED
        BY <1>1, <2>8, <4>2, <4>3
    <3>3. g \in Nat \ {0} /\ Unit % g = 0
      <4>1. Unit % g = 0
        BY <3>2, ExactAssumption DEF Size
      <4> HIDE DEF m, den
      <4>2. \A a, b \in Nat \ {0} : 42 * a * b \in Nat \ {0}
        OBVIOUS
      <4> QED
        BY <3>2, <4>1, <4>2
    <3> DEFINE e == Unit \div g
               k == m * e
    <3>4. e \in Int /\ Unit = g * e
      <4> HIDE DEF g
      <4> QED
        BY <1>1, <3>3
    <3>5. k \in Int /\ Unit = 42 * k * den
      <4> HIDE DEF e, m, den
      <4> QED
        BY <3>2, <3>4
    <3> HIDE DEF y0, y1, den, num, m, g, e, k
    <3>6. ((y1 * Unit - y0 * Unit) * num) \div den = 42 * (k * (y1 - y0) * num)
      BY <1>1, <3>2, <3>5, LineExact
    <3>7. v = 42 * (y0 * (k * den) + k * (y1 - y0) * num)
      <4>1. y0 * Unit = 42 * (y0 * (k * den))
        BY <3>2, <3>5
      <4>2. y0 * (k * den) \in Int /\ k * (y1 - y0) * num \in Int
        BY <3>2, <3>5
      <4> QED
        BY <3>1, <3>6, <4>1, <4>2
    <3>8. y0 * (k * den) + k * (y1 - y0) * num \in Int
      BY <3>2, <3>5
    <3> QED
      BY <3>7, <3>8 DEF Exact
  <2>9. Exact(v)
    BY <2>3, <2>6, <2>7, <2>8
  <2> QED
    BY <2>9 DEF v, Exact
<1>3. RepairChannel(channel) = [i \in Positions(Size) |-> RepairChannel(channel)[i]]
  BY DEF RepairChannel
<1> QED
  BY <1>2, <1>3

(* A smoothed value is a number.                                            *)
LEMMA EvaluateTyped ==
    ASSUME NEW x, NEW start \in Int, \A j \in 0 .. 6 : x[start + j] \in Int, NEW r \in 0 .. 6
    PROVE  Evaluate(x, start, r) \in Int
<1> DEFINE f == [j \in 0 .. 6 |-> kWeights[r][j + 1] * x[start + j]]
<1>1. ASSUME NEW j \in 0 .. 6
      PROVE  f[j] \in Int
  <2>1. kWeights[r] \in [1 .. 7 -> Int]
    BY DEF kWeights
  <2>2. j + 1 \in 1 .. 7
    OBVIOUS
  <2>3. kWeights[r][j + 1] \in Int /\ x[start + j] \in Int
    BY <2>1, <2>2
  <2> QED
    BY <2>3
<1>2. Evaluate(x, start, r) = SumFunctionOnSet(f, 0 .. 6) \div 42
  BY DEF Evaluate
<1>3. SumFunctionOnSet(f, 0 .. 6) \in Int
  <2>1. IsFiniteSet(0 .. 6)
    <3>1. 6 \in Int /\ \A k \in Int : IsFiniteSet(0 .. k)
      BY FS_Interval
    <3> QED
      BY <3>1, Zenon
  <2>2. \A j \in 0 .. 6 : f[j] \in Int
    BY <1>1
  <2> HIDE DEF f
  <2> QED
    BY <2>1, <2>2, SumIsInt
<1> HIDE DEF f
<1> QED
  BY <1>2, <1>3

(* The windows of savgol_7_2_interp stay inside the channel.                *)
LEMMA SmoothTyped ==
    ASSUME Size \in Nat, Size >= 7, NEW x \in [Positions(Size) -> Int]
    PROVE  SmoothChannel(x) \in [Positions(Size) -> Int]
<1> SUFFICES ASSUME NEW i \in Positions(Size)
             PROVE  SmoothChannel(x)[i] \in Int
  BY DEF SmoothChannel
<1>1. i \in 0 .. Size - 1
  BY DEF Positions
<1>2. \A start \in 0 .. Size - 7 : \A j \in 0 .. 6 : x[start + j] \in Int
  <2>1. \A start \in 0 .. Size - 7 : \A j \in 0 .. 6 : start + j \in 0 .. Size - 1
    OBVIOUS
  <2> QED
    BY <2>1 DEF Positions
<1>3. CASE i < 3
  <2>1. SmoothChannel(x)[i] = Evaluate(x, 0, i)
    BY <1>1, <1>3 DEF SmoothChannel
  <2>2. i \in 0 .. 6 /\ 0 \in 0 .. Size - 7
    BY <1>1, <1>3
  <2> QED
    BY <1>2, <2>1, <2>2, EvaluateTyped
<1>4. CASE i >= 3 /\ i + 3 < Size
  <2>1. SmoothChannel(x)[i] = Evaluate(x, i - 3, 3)
    BY <1>1, <1>4 DEF SmoothChannel
  <2>2. i - 3 \in 0 .. Size - 7 /\ i - 3 \in Int /\ 3 \in 0 .. 6
    BY <1>1, <1>4
  <2> QED
    BY <1>2, <2>1, <2>2, EvaluateTyped
<1>5. CASE i + 3 >= Size
  <2>1. SmoothChannel(x)[i] = Evaluate(x, Size - 7, i - (Size - 7))
    <3>1. ~(i < 3) /\ ~(i >= 3 /\ i + 3 < Size)
      BY <1>1, <1>5
    <3> QED
      BY <1>1, <1>5, <3>1 DEF SmoothChannel
  <2>2. Size - 7 \in 0 .. Size - 7 /\ Size - 7 \in Int /\ i - (Size - 7) \in 0 .. 6
    BY <1>1, <1>5
  <2> QED
    BY <1>2, <2>1, <2>2, EvaluateTyped
<1> QED
  BY <1>1, <1>3, <1>4, <1>5

(* The seven samples the smoothing reads at i.                              *)
LEMMA WindowStartIs ==
    ASSUME Size \in Nat, Size >= 7, NEW i \in Positions(Size)
    PROVE  WindowStart(i) = IF i < 3 THEN 0 ELSE IF i + 3 < Size THEN i - 3 ELSE Size - 7
<1>1. i \in 0 .. Size - 1
  BY DEF Positions
<1> DEFINE a == Max({i - 3, 0})
<1>2. a = IF i < 3 THEN 0 ELSE i - 3
  <2>1. CASE i < 3
    BY <1>1, <2>1, MaxUnique
  <2>2. CASE ~(i < 3)
    BY <1>1, <2>2, MaxUnique
  <2> QED
    BY <2>1, <2>2
<1> HIDE DEF a
<1>3. a \in Nat /\ Size - 7 \in Nat
  BY <1>1, <1>2
<1>4. Min({a, Size - 7}) \in {a, Size - 7} /\ \A y \in {a, Size - 7} : Min({a, Size - 7}) <= y
  BY <1>3, MinIs
<1>5. Min({a, Size - 7}) = IF a <= Size - 7 THEN a ELSE Size - 7
  BY <1>3, <1>4
<1>6. WindowStart(i) = Min({a, Size - 7})
  BY DEF WindowStart, a
<1> QED
  BY <1>1, <1>2, <1>3, <1>5, <1>6

(* savgol_7_2_interp at one position: the parabola through the window it    *)
(* belongs to.                                                              *)
LEMMA SmoothIsLeastSquares ==
    ASSUME Size \in Nat, Size >= 7, NEW x,
           \A p \in Positions(Size) : \E z \in Int : x[p] = 42 * z,
           NEW i \in Positions(Size), NEW s, s = WindowStart(i),
           NEW y, y = [k \in 0 .. 6 |-> x[s + k]],
           NEW f, f = [k \in 0 .. 6 |-> Evaluate(y, 0, k)]
    PROVE  Parabola(f) /\ Orthogonal(f, y) /\ SmoothChannel(x)[i] = f[i - s]
<1>1. i \in 0 .. Size - 1
  BY DEF Positions
<1>2. s = IF i < 3 THEN 0 ELSE IF i + 3 < Size THEN i - 3 ELSE Size - 7
  BY WindowStartIs
<1>3. s \in 0 .. Size - 7 /\ i - s \in 0 .. 6
  BY <1>1, <1>2
<1>4. \A k \in 0 .. 6 : s + k \in Positions(Size)
  BY <1>3 DEF Positions
<1> DEFINE z == [k \in 0 .. 6 |-> CHOOSE a \in Int : x[s + k] = 42 * a]
<1>5. z \in [0 .. 6 -> Int] /\ \A k \in 0 .. 6 : x[s + k] = 42 * z[k]
  <2>1. \A k \in 0 .. 6 : \E a \in Int : x[s + k] = 42 * a
    BY <1>4
  <2> QED
    BY <2>1
<1> HIDE DEF z
<1>6. \A k \in 0 .. 6 : y[k] = 42 * z[k] /\ y[0 + k] = y[k]
  BY <1>5
<1>7. Parabola(f) /\ Orthogonal(f, y)
  BY <1>5, <1>6, LeastSquares
<1>8. \A r \in 0 .. 6 : Evaluate(x, s, r) = f[r]
  <2>1. \A j \in 0 .. 6 : y[0 + j] = 42 * z[j]
    BY <1>6
  <2> SUFFICES ASSUME NEW r \in 0 .. 6 PROVE Evaluate(x, s, r) = Evaluate(y, 0, r)
    OBVIOUS
  <2>2. s \in Int /\ 0 \in Int
    BY <1>3
  <2> DEFINE e == kWeights[r][1] * z[0] + kWeights[r][2] * z[1] + kWeights[r][3] * z[2]
                  + kWeights[r][4] * z[3] + kWeights[r][5] * z[4] + kWeights[r][6] * z[5]
                  + kWeights[r][7] * z[6]
  <2>3. Evaluate(x, s, r) = e
    BY <1>5, <2>2, EvaluateIs
  <2>4. Evaluate(y, 0, r) = e
    BY <1>5, <2>1, <2>2, EvaluateIs
  <2> QED
    BY <2>3, <2>4
<1>9. SmoothChannel(x)[i] = Evaluate(x, s, i - s)
  <2>1. CASE i < 3
    <3>1. s = 0 /\ i - s = i
      BY <1>1, <1>2, <2>1
    <3> QED
      BY <1>1, <2>1, <3>1 DEF SmoothChannel
  <2>2. CASE ~(i < 3) /\ i + 3 < Size
    <3>1. s = i - 3 /\ i - s = 3
      BY <1>1, <1>2, <2>2
    <3>2. SmoothChannel(x)[i] = Evaluate(x, i - 3, 3)
      BY <1>1, <2>2 DEF SmoothChannel
    <3> QED
      BY <3>1, <3>2
  <2>3. CASE ~(i < 3) /\ ~(i + 3 < Size)
    <3>1. s = Size - 7
      BY <1>1, <1>2, <2>3
    <3>2. i + 3 >= Size
      BY <1>1, <2>3
    <3>3. SmoothChannel(x)[i] = Evaluate(x, Size - 7, i - (Size - 7))
      BY <1>1, <2>3, <3>2 DEF SmoothChannel
    <3> QED
      BY <3>1, <3>3
  <2> QED
    BY <2>1, <2>2, <2>3
<1> QED
  BY <1>3, <1>7, <1>8, <1>9
-----------------------------------------------------------------------------
(* interp_one interpolates between two neighbouring samples.                *)
LEMMA InterpOneIs ==
    ASSUME Size \in Nat \ {0, 1}, NEW x, NEW t \in Nat, 0 < t, t < Target - 1
    PROVE  \E l \in Positions(Size) : \E num \in 0 .. Target - 1 :
              /\ l + 1 \in Positions(Size)
              /\ t * (Size - 1) = l * (Target - 1) + num
              /\ InterpOne(x, t) = x[l] + ((x[l + 1] - x[l]) * num) \div (Target - 1)
<1> DEFINE m == Target - 1
           S == {k \in 0 .. Size - 1 : k * m > t * (Size - 1)}
           r == Min(S)
           l == r - 1
           num == t * (Size - 1) - l * m
<1>1. m \in Nat \ {0, 1}
  BY TargetAssumption
<1>2. UpperBound(t) = r
  BY DEF UpperBound, Positions
<1>3. InterpOne(x, t) = x[l] + ((x[r] - x[l]) * num) \div m
  BY <1>2 DEF InterpOne
<1>4. r \in 1 .. Size - 1 /\ l * m <= t * (Size - 1) /\ t * (Size - 1) < r * m
  <2>1. t < m /\ Size \in Nat \ {0, 1} /\ S = {k \in 0 .. Size - 1 : k * m > t * (Size - 1)}
    OBVIOUS
  <2> HIDE DEF m, S
  <2> QED
    BY <1>1, <2>1, RightKnot
<1> HIDE DEF r
<1>5. l \in Positions(Size) /\ l + 1 = r /\ r \in Positions(Size)
  BY <1>4 DEF Positions
<1>6. num \in 0 .. m /\ t * (Size - 1) = l * m + num
  <2> DEFINE a == t * (Size - 1)
             b == l * m
  <2>1. a \in Int /\ b \in Int /\ r * m = b + m /\ num = a - b
    <3>1. r \in Int /\ m \in Int /\ Size - 1 \in Int
      BY <1>1, <1>4
    <3> HIDE DEF m
    <3> QED
      BY <3>1
  <2>2. b <= a /\ a < r * m
    BY <1>4
  <2> HIDE DEF a, b, m, num
  <2>3. num \in 0 .. m /\ a = b + num
    BY <1>1, <2>1, <2>2
  <2> QED
    BY <2>3 DEF a, b
<1> QED
  BY <1>3, <1>5, <1>6

(* resample_linear_normalized: each output is on the piecewise linear       *)
(* function, and no lower than all the samples.                             *)
LEMMA ResampledIs ==
    ASSUME Size \in Nat \ {0}, NEW x \in [Positions(Size) -> Int], NEW t \in 0 .. Target - 1
    PROVE  /\ Resampled(x)[t] = LinearAt(x, t)
           /\ \A low \in Int : (\A i \in Positions(Size) : x[i] >= low)
                                  => Resampled(x)[t] >= low
<1> DEFINE T == Target - 1
<1>1. T \in Nat \ {0} /\ t \in Nat /\ t <= T
  BY TargetAssumption
<1>2. 0 \in Positions(Size) /\ Size - 1 \in Positions(Size)
  BY DEF Positions
<1>3. CASE Size = 1 \/ t = 0
  <2>1. Resampled(x)[t] = x[0]
    <3>1. ~(Size > 1 /\ t = Target - 1) /\ ~(Size > 1 /\ t > 0 /\ t < Target - 1)
      <4>1. CASE Size = 1
        BY <4>1
      <4>2. CASE t = 0
        BY <1>1, <4>2
      <4> QED
        BY <1>3, <4>1, <4>2
    <3> QED
      BY <1>3, <3>1 DEF Resampled
  <2>2. t * (Size - 1) = 0 * (Target - 1)
    BY <1>1, <1>3
  <2>3. LinearAt(x, t) = x[0]
    BY <1>1, <1>2, <2>2, AtKnot
  <2> QED
    BY <1>2, <2>1, <2>3
<1>4. CASE Size > 1 /\ t # 0 /\ t = Target - 1
  <2>1. Resampled(x)[t] = x[Size - 1]
    BY <1>1, <1>4 DEF Resampled
  <2>2. t * (Size - 1) = (Size - 1) * (Target - 1)
    BY <1>1, <1>4
  <2>3. LinearAt(x, t) = x[Size - 1]
    BY <1>1, <1>2, <2>2, AtKnot
  <2> QED
    BY <1>2, <2>1, <2>3
<1>5. CASE Size > 1 /\ t > 0 /\ t < Target - 1
  <2>1. Resampled(x)[t] = InterpOne(x, t)
    BY <1>1, <1>5 DEF Resampled
  <2>2. PICK l \in Positions(Size), num \in 0 .. Target - 1 :
              /\ l + 1 \in Positions(Size)
              /\ t * (Size - 1) = l * (Target - 1) + num
              /\ InterpOne(x, t) = x[l] + ((x[l + 1] - x[l]) * num) \div (Target - 1)
    <3>1. Size \in Nat \ {0, 1} /\ 0 < t
      BY <1>5
    <3> QED
      BY <1>1, <1>5, <3>1, InterpOneIs
  <2>3. LinearAt(x, t) = x[l] + ((x[l + 1] - x[l]) * num) \div (Target - 1)
    BY <1>1, <2>2, BetweenKnots
  <2>4. ASSUME NEW low \in Int, \A i \in Positions(Size) : x[i] >= low
        PROVE  InterpOne(x, t) >= low
    <3>1. x[l] \in Int /\ x[l + 1] \in Int /\ x[l] >= low /\ x[l + 1] >= low
      BY <2>2, <2>4
    <3>2. T \in Nat \ {0} /\ num \in 0 .. T
      BY <1>1
    <3>3. x[l] + ((x[l + 1] - x[l]) * num) \div T >= low
      <4> HIDE DEF T
      <4> QED
        BY <3>1, <3>2, BetweenNeighbours
    <3> QED
      BY <2>2, <3>3
  <2> QED
    BY <2>1, <2>2, <2>3, <2>4
<1> QED
  BY <1>1, <1>3, <1>4, <1>5
-----------------------------------------------------------------------------
(* A straight channel, in the exact values of the stages: it starts at      *)
(* FirstValue and climbs by Rise from one position to the next.             *)
Rise(x) == IF Size = 1 THEN 0
           ELSE (LastValue(x) - FirstValue(x)) * (Unit \div (Size - 1))
OnLine(y, x) ==
    \A i \in Positions(Size) : y[i] = FirstValue(x) * Unit + Rise(x) * i

LEMMA UnitParts ==
    ASSUME samples \in Inputs, Size > 1
    PROVE  \E k \in Int : /\ Unit = 42 * ((Target - 1) * k) * (Size - 1)
                          /\ Unit \div (Size - 1) = 42 * ((Target - 1) * k)
<1> DEFINE m == Target - 1
           d == Size - 1
           g == 42 * m * d
           k == Unit \div g
<1>1. Size \in Nat /\ Unit \in Nat /\ m \in Nat \ {0}
  BY InputTyped, TargetAssumption
<1>2. d \in Nat \ {0} /\ d \in 1 .. Size - 1
  BY <1>1
<1>3. Unit % g = 0
  BY <1>2, ExactAssumption DEF Size
<1> HIDE DEF m, d
<1>4. g \in Nat \ {0}
  <2>1. \A a, b \in Nat \ {0} : 42 * a * b \in Nat \ {0}
    OBVIOUS
  <2> QED
    BY <1>1, <1>2, <2>1
<1>5. k \in Int /\ Unit = g * k
  <2> HIDE DEF g
  <2> QED
    BY <1>1, <1>3, <1>4
<1> HIDE DEF k
<1> DEFINE w == 42 * (m * k)
<1>6. w \in Int /\ Unit = w * d
  BY <1>1, <1>2, <1>5
<1> HIDE DEF w
<1>7. (w * d) \div d = w
  BY <1>2, <1>6
<1>8. Unit = w * d /\ Unit \div d = w
  BY <1>6, <1>7
<1> QED
  BY <1>5, <1>8 DEF w, m, d

\* The first and the last valid sample, and the rise between them.
LEMMA EndsOfLine ==
    ASSUME samples \in Inputs, Size \in Nat \ {0}, sensorMin \in Int,
           NEW x \in [Positions(Size) -> Int], Straight(x)
    PROVE  /\ FirstValue(x) \in Int /\ LastValue(x) \in Int
           /\ FirstValue(x) >= sensorMin /\ LastValue(x) >= sensorMin
           /\ Size = 1 => FirstValue(x) = LastValue(x)
<1> DEFINE valid == ValidAt(x)
<1>1. valid \subseteq Positions(Size) /\ valid \subseteq 0 .. Size /\ valid \subseteq Nat
  BY DEF ValidAt, Positions
<1>2. CASE valid = {}
  BY <1>2 DEF FirstValue, LastValue
<1>3. CASE valid # {}
  <2>1. /\ Min(valid) \in valid /\ \A k \in valid : Min(valid) <= k
        /\ Max(valid) \in valid /\ \A k \in valid : Max(valid) >= k
    <3> HIDE DEF valid
    <3> QED
      BY <1>1, <1>3, MinIs, MaxIs
  <2>2. FirstValue(x) = x[Min(valid)] /\ LastValue(x) = x[Max(valid)]
    BY <1>3 DEF FirstValue, LastValue
  <2>3. \A p \in valid : x[p] \in Int /\ x[p] >= sensorMin
    BY <1>1 DEF Straight
  <2>4. Size = 1 => Min(valid) = 0 /\ Max(valid) = 0
    <3>1. Min(valid) \in 0 .. Size - 1 /\ Max(valid) \in 0 .. Size - 1
      <4> HIDE DEF valid
      <4> QED
        BY <1>1, <2>1 DEF Positions
    <3> HIDE DEF valid
    <3> QED
      BY <3>1
  <2> HIDE DEF valid
  <2> QED
    BY <2>1, <2>2, <2>3, <2>4
<1> QED
  BY <1>2, <1>3

LEMMA RiseIs ==
    ASSUME samples \in Inputs, Size \in Nat \ {0}, sensorMin \in Int,
           NEW x \in [Positions(Size) -> Int], Straight(x)
    PROVE  /\ Rise(x) * (Size - 1) = (LastValue(x) - FirstValue(x)) * Unit
           /\ FirstValue(x) = LastValue(x) => Rise(x) = 0
           /\ \E k \in Int : Rise(x) = 42 * ((Target - 1) * k)
           /\ Size > 1 => \E k \in Int : FirstValue(x) * Unit = 42 * k
<1> DEFINE a == FirstValue(x)
           b == LastValue(x)
           m == Target - 1
<1>1. a \in Int /\ b \in Int /\ Unit \in Nat /\ m \in Int /\ (Size = 1 => a = b)
  BY EndsOfLine, TargetAssumption
<1>2. CASE Size = 1
  <2>1. Rise(x) = 0 /\ Size - 1 = 0
    BY <1>2 DEF Rise
  <2>2. 42 * (m * 0) = 0
    BY <1>1
  <2> HIDE DEF a, b, m
  <2>3. (b - a) * Unit = 0 /\ Rise(x) * (Size - 1) = 0
    BY <1>1, <1>2, <2>1
  <2> QED
    BY <1>2, <2>1, <2>2, <2>3 DEF a, b, m
<1>3. CASE Size > 1
  <2>1. PICK k \in Int : /\ Unit = 42 * (m * k) * (Size - 1)
                         /\ Unit \div (Size - 1) = 42 * (m * k)
    BY <1>3, UnitParts
  <2>2. Rise(x) = (b - a) * (42 * (m * k))
    BY <1>3, <2>1 DEF Rise
  <2> DEFINE d == Size - 1
  <2>3. d \in Int
    BY <1>3
  <2> HIDE DEF a, b, m, d
  <2>4. Rise(x) * d = (b - a) * Unit
    <3> DEFINE w == 42 * (m * k)
    <3>1. w \in Int /\ Rise(x) = (b - a) * w /\ Unit = w * d
      BY <1>1, <2>1, <2>2 DEF d
    <3> HIDE DEF w
    <3> QED
      BY <1>1, <2>3, <3>1
  <2>5. a = b => Rise(x) = 0
    BY <1>1, <2>2
  <2>6. Rise(x) = 42 * (m * (k * (b - a))) /\ k * (b - a) \in Int
    BY <1>1, <2>2
  <2>7. a * Unit = 42 * (a * ((m * k) * d)) /\ a * ((m * k) * d) \in Int
    BY <1>1, <2>1, <2>3 DEF d
  <2> QED
    BY <2>4, <2>5, <2>6, <2>7 DEF a, b, m, d
<1> QED
  BY <1>2, <1>3

(* The valid samples of a straight channel are on its line.                 *)
LEMMA SamplesOnLine ==
    ASSUME samples \in Inputs, Size \in Nat \ {0}, sensorMin \in Int,
           NEW x \in [Positions(Size) -> Int], Straight(x), NEW p \in ValidAt(x)
    PROVE  x[p] * Unit = FirstValue(x) * Unit + Rise(x) * p
<1> DEFINE a == FirstValue(x)
           b == LastValue(x)
           d == Size - 1
           v == x[p]
           u == Unit
<1>1. p \in 0 .. d /\ v \in Int /\ d \in Nat /\ u \in Int /\ a \in Int /\ b \in Int
  BY EndsOfLine, TargetAssumption DEF ValidAt, Positions
<1>2. (v - a) * d = (b - a) * p /\ (d = 0 => a = b)
  BY EndsOfLine DEF Straight
<1>3. Rise(x) * d = (b - a) * u /\ (a = b => Rise(x) = 0) /\ Rise(x) \in Int
  <2>1. Rise(x) \in Int
    <3>1. PICK k \in Int : Rise(x) = 42 * ((Target - 1) * k)
      BY RiseIs
    <3> QED
      BY <3>1, TargetAssumption
  <2> QED
    BY <2>1, RiseIs
<1>4. CASE d = 0
  <2>1. p = 0 /\ ValidAt(x) = {0}
    BY <1>1, <1>4 DEF ValidAt, Positions
  <2>2. a = x[Min({0})]
    BY <2>1 DEF FirstValue
  <2>3. Min({0}) = 0
    <3>1. Min({0}) \in {0}
      BY MinIs
    <3> QED
      BY <3>1
  <2>4. v = a /\ Rise(x) = 0
    BY <1>2, <1>3, <1>4, <2>1, <2>2, <2>3
  <2> HIDE DEF a, v, u
  <2>5. v * u = a * u + Rise(x) * p
    BY <1>1, <2>1, <2>4
  <2> QED
    BY <2>5 DEF a, v, u
<1>5. CASE d > 0
  <2> DEFINE r == Rise(x)
  <2>1. r \in Int /\ r * d = (b - a) * u
    BY <1>3
  <2> HIDE DEF a, b, d, v, u, r
  <2>2. ((v - a) * u - r * p) * d = 0
    <3>1. ((v - a) * u) * d = ((v - a) * d) * u
      BY <1>1
    <3>2. (r * p) * d = (r * d) * p
      BY <1>1, <2>1
    <3>3. ((b - a) * p) * u = ((b - a) * u) * p
      BY <1>1
    <3> DEFINE e == (v - a) * u
               f == r * p
    <3>4. e \in Int /\ f \in Int /\ e * d = f * d
      BY <1>1, <1>2, <2>1, <3>1, <3>2, <3>3
    <3> HIDE DEF e, f
    <3>5. (e - f) * d = 0
      BY <1>1, <3>4
    <3> QED
      BY <3>5 DEF e, f
  <2> DEFINE q == (v - a) * u - r * p
  <2>3. q \in Int /\ q * d = 0
    BY <1>1, <2>1, <2>2
  <2> HIDE DEF q
  <2>4. q = 0
    BY <1>1, <1>5, <2>3
  <2>5. v * u = a * u + r * p
    BY <1>1, <2>1, <2>4 DEF q
  <2> QED
    BY <2>5 DEF a, v, u, r
<1> QED
  BY <1>1, <1>4, <1>5

(* What stands in for a sample that is missing is on the line too.          *)
LEMMA RepairKeepsLine ==
    ASSUME samples \in Inputs, Size \in Nat \ {0}, sensorMin \in Int,
           NEW x \in [Positions(Size) -> Int], Straight(x)
    PROVE  OnLine(RepairChannel(x), x)
<1> SUFFICES ASSUME NEW i \in Positions(Size)
             PROVE  RepairChannel(x)[i] = FirstValue(x) * Unit + Rise(x) * i
  BY DEF OnLine
<1> DEFINE valid == ValidAt(x)
           r == CHOOSE c \in Candidates(valid, i) : IsRepaired(valid, i, c)
           a == FirstValue(x) * Unit
           s == Rise(x)
<1>1. valid \in SUBSET Positions(Size) /\ i \in 0 .. Size - 1 /\ Size \in Nat
  BY DEF ValidAt, Positions
<1>2. a \in Int /\ s \in Int
  <2>1. PICK k \in Int : Rise(x) = 42 * ((Target - 1) * k)
    BY RiseIs
  <2> QED
    BY <2>1, EndsOfLine, TargetAssumption
<1>3. \A p \in valid : x[p] * Unit = a + s * p /\ p \in Int /\ x[p] \in Int
  BY SamplesOnLine DEF ValidAt, Positions
<1>4. RepairChannel(x)[i] = Value(x, r)
  BY DEF RepairChannel
<1>5. \/ r = Floor /\ valid = {}
      \/ \E p \in valid :
            /\ r = Sample(p)
            /\ p = i \/ (\A k \in valid : i < k) \/ (\A k \in valid : k < i)
      \/ \E p, q \in valid :
            p < i /\ i < q /\ r = Line(Sample(p), Sample(q), i - p, q - p)
  <2> HIDE DEF valid, r
  <2>1. r = CHOOSE c \in Candidates(valid, i) : IsRepaired(valid, i, c)
    BY DEF r
  <2>2. Size \in Nat /\ valid \in SUBSET Positions(Size) /\ i \in Positions(Size)
    BY <1>1
  <2> QED
    <3>1. RepairShape(valid, i, r)
      BY <2>1, <2>2, RepairedCell
    <3> QED
      BY <3>1 DEF RepairShape
<1> HIDE DEF r
<1>6. CASE r = Floor /\ valid = {}
  <2>1. Value(x, r) = sensorMin * Unit
    BY <1>6 DEF Value, Floor
  <2>2. FirstValue(x) = sensorMin /\ LastValue(x) = sensorMin
    BY <1>6 DEF FirstValue, LastValue
  <2>3. s = 0
    BY <2>2, RiseIs
  <2> QED
    BY <1>1, <1>2, <1>4, <2>1, <2>2, <2>3
<1>7. ASSUME NEW p \in valid, r = Sample(p),
             p = i \/ (\A k \in valid : i < k) \/ (\A k \in valid : k < i)
      PROVE  RepairChannel(x)[i] = a + s * i
  <2>1. Value(x, r) = a + s * p
    BY <1>3, <1>7 DEF Value, Sample
  <2>2. CASE FirstValue(x) = LastValue(x)
    <3>1. s = 0
      BY <2>2, RiseIs
    <3> HIDE DEF valid, a, s
    <3> QED
      BY <1>1, <1>2, <1>3, <1>4, <2>1, <3>1
  <2>3. CASE {0, Size - 1} \subseteq valid
    <3>1. p = i
      <4> HIDE DEF valid
      <4> QED
        BY <1>1, <1>7, <2>3
    <3> QED
      BY <1>4, <2>1, <3>1
  <2> QED
    BY <2>2, <2>3 DEF Straight
<1>8. ASSUME NEW p \in valid, NEW q \in valid, p < i, i < q,
             r = Line(Sample(p), Sample(q), i - p, q - p)
      PROVE  RepairChannel(x)[i] = a + s * i
  <2> DEFINE y0 == x[p] * Unit
             y1 == x[q] * Unit
             den == q - p
             num == i - p
  <2>1. Value(x, r) = y0 + ((y1 - y0) * num) \div den
    BY <1>8 DEF Value, Line, Sample
  <2>2. y0 = a + s * p /\ y1 = a + s * q /\ p \in Int /\ q \in Int /\ i \in Int
    BY <1>1, <1>3
  <2>3. den \in Nat \ {0} /\ num \in Int
    BY <1>8, <2>2
  <2> HIDE DEF valid, a, s, y0, y1
  <2>4. y1 - y0 = s * den
    BY <1>2, <2>2
  <2> DEFINE w == s * num
  <2>5. w \in Int /\ (y1 - y0) * num = w * den
    <3> HIDE DEF den, num
    <3> QED
      BY <1>2, <2>3, <2>4
  <2>6. (w * den) \div den = w
    <3> HIDE DEF w, den
    <3> QED
      BY <2>3, <2>5
  <2>7. Value(x, r) = y0 + w
    BY <2>1, <2>5, <2>6
  <2>8. y0 + w = a + s * i
    BY <1>2, <2>2
  <2> QED
    BY <1>4, <2>7, <2>8
<1> QED
  BY <1>5, <1>6, <1>7, <1>8

(* A row of weights reproduces a line: the weights of a row add up to 42,   *)
(* and weighted with their positions to 42 times its number.                *)
LEMMA RowOnLine ==
    ASSUME NEW b \in Int, NEW s \in Int, NEW r \in 0 .. 6
    PROVE  kWeights[r][1] * b + kWeights[r][2] * (b + s) + kWeights[r][3] * (b + 2 * s)
             + kWeights[r][4] * (b + 3 * s) + kWeights[r][5] * (b + 4 * s)
             + kWeights[r][6] * (b + 5 * s) + kWeights[r][7] * (b + 6 * s)
               = 42 * b + 42 * s * r
<1>1. r = 0 \/ r = 1 \/ r = 2 \/ r = 3 \/ r = 4 \/ r = 5 \/ r = 6
  OBVIOUS
<1>2. CASE r = 0
  BY <1>2 DEF kWeights
<1>3. CASE r = 1
  BY <1>3 DEF kWeights
<1>4. CASE r = 2
  BY <1>4 DEF kWeights
<1>5. CASE r = 3
  BY <1>5 DEF kWeights
<1>6. CASE r = 4
  BY <1>6 DEF kWeights
<1>7. CASE r = 5
  BY <1>7 DEF kWeights
<1>8. CASE r = 6
  BY <1>8 DEF kWeights
<1> QED
  BY <1>1, <1>2, <1>3, <1>4, <1>5, <1>6, <1>7, <1>8

(* savgol_7_2_interp does not bend a line, at the edges either.             *)
LEMMA SmoothKeepsLine ==
    ASSUME Size \in Nat, Size >= 7, NEW a \in Int, NEW s \in Int, NEW y,
           \A i \in Positions(Size) : y[i] = 42 * a + 42 * s * i,
           NEW i \in Positions(Size)
    PROVE  SmoothChannel(y)[i] = 42 * a + 42 * s * i
<1>1. i \in 0 .. Size - 1
  BY DEF Positions
<1>2. ASSUME NEW start \in 0 .. Size - 7, NEW r \in 0 .. 6, start + r = i
      PROVE  Evaluate(y, start, r) = 42 * a + 42 * s * i
  <2>1. start \in Int /\ \A j \in 0 .. 6 : y[start + j] = 42 * a + 42 * s * (start + j)
    <3>1. start \in Int /\ \A j \in 0 .. 6 : start + j \in Positions(Size)
      BY DEF Positions
    <3> QED
      BY <3>1
  <2> DEFINE b == a + s * start
             z == [j \in 0 .. 6 |-> b + j * s]
  <2>2. b \in Int
    OBVIOUS
  <2>3. \A j \in 0 .. 6 : y[start + j] = 42 * z[j]
    <3> SUFFICES ASSUME NEW j \in 0 .. 6
                 PROVE  42 * a + 42 * s * (start + j) = 42 * z[j]
      BY <2>1
    <3>1. z[j] = a + s * start + j * s
      OBVIOUS
    <3> HIDE DEF z
    <3> QED
      BY <3>1
  <2>4. 42 * b + 42 * s * r = 42 * a + 42 * s * (start + r)
    OBVIOUS
  <2> HIDE DEF b
  <2>5. z \in [0 .. 6 -> Int]
    BY <2>2
  <2>6. /\ z[0] = b /\ z[1] = b + s /\ z[2] = b + 2 * s /\ z[3] = b + 3 * s
        /\ z[4] = b + 4 * s /\ z[5] = b + 5 * s /\ z[6] = b + 6 * s
    BY <2>2
  <2> HIDE DEF z
  <2>7. Evaluate(y, start, r)
          = kWeights[r][1] * z[0] + kWeights[r][2] * z[1] + kWeights[r][3] * z[2]
            + kWeights[r][4] * z[3] + kWeights[r][5] * z[4] + kWeights[r][6] * z[5]
            + kWeights[r][7] * z[6]
    BY <2>3, <2>5, EvaluateIs
  <2>8. Evaluate(y, start, r) = 42 * b + 42 * s * r
    <3> DEFINE e == kWeights[r][1] * b + kWeights[r][2] * (b + s)
                    + kWeights[r][3] * (b + 2 * s) + kWeights[r][4] * (b + 3 * s)
                    + kWeights[r][5] * (b + 4 * s) + kWeights[r][6] * (b + 5 * s)
                    + kWeights[r][7] * (b + 6 * s)
    <3>1. Evaluate(y, start, r) = e
      BY ONLY <2>6, <2>7, Zenon
    <3>2. e = 42 * b + 42 * s * r
      BY <2>2, RowOnLine
    <3> HIDE DEF e
    <3> QED
      BY <3>1, <3>2
  <2> QED
    BY <1>2, <2>4, <2>8
<1>3. CASE i < 3
  <2>1. SmoothChannel(y)[i] = Evaluate(y, 0, i)
    BY <1>1, <1>3 DEF SmoothChannel
  <2>2. 0 \in 0 .. Size - 7 /\ i \in 0 .. 6 /\ 0 + i = i
    BY <1>1, <1>3
  <2> QED
    BY <1>2, <2>1, <2>2
<1>4. CASE ~(i < 3) /\ i + 3 < Size
  <2>1. SmoothChannel(y)[i] = Evaluate(y, i - 3, 3)
    BY <1>1, <1>4 DEF SmoothChannel
  <2>2. i - 3 \in 0 .. Size - 7 /\ 3 \in 0 .. 6 /\ (i - 3) + 3 = i
    BY <1>1, <1>4
  <2> QED
    BY <1>2, <2>1, <2>2
<1>5. CASE ~(i < 3) /\ ~(i + 3 < Size)
  <2>1. i + 3 >= Size
    BY <1>1, <1>5
  <2>2. SmoothChannel(y)[i] = Evaluate(y, Size - 7, i - (Size - 7))
    BY <1>1, <1>5, <2>1 DEF SmoothChannel
  <2>3. Size - 7 \in 0 .. Size - 7 /\ i - (Size - 7) \in 0 .. 6
        /\ (Size - 7) + (i - (Size - 7)) = i
    BY <1>1, <1>5
  <2> QED
    BY <1>2, <2>2, <2>3
<1> QED
  BY <1>3, <1>4, <1>5

(* Nothing on a straight channel's line is below sensor_min, so the clamp   *)
(* changes nothing.                                                         *)
LEMMA LineAboveMin ==
    ASSUME samples \in Inputs, Size \in Nat \ {0}, sensorMin \in Int,
           NEW x \in [Positions(Size) -> Int], Straight(x), NEW i \in Positions(Size)
    PROVE  /\ FirstValue(x) * Unit + Rise(x) * i \in Int
           /\ FirstValue(x) * Unit + Rise(x) * i >= sensorMin * Unit
<1> DEFINE a == FirstValue(x) * Unit
           b == LastValue(x) * Unit
           s == Rise(x)
           d == Size - 1
           low == sensorMin * Unit
<1>1. i \in 0 .. d /\ d \in Nat
  BY DEF Positions
<1>2. s \in Int /\ s * d = b - a
  <2>1. PICK k \in Int : Rise(x) = 42 * ((Target - 1) * k)
    BY RiseIs
  <2>2. s \in Int
    BY <2>1, TargetAssumption
  <2>3. (LastValue(x) - FirstValue(x)) * Unit = b - a
    BY EndsOfLine, TargetAssumption
  <2> QED
    BY <2>2, <2>3, RiseIs
<1>3. a \in Int /\ b \in Int /\ low \in Int /\ a >= low /\ b >= low
  <2>1. \A u \in Nat : \A p, q \in Int : p >= q => p * u >= q * u
    OBVIOUS
  <2> QED
    BY <2>1, EndsOfLine, TargetAssumption
<1> HIDE DEF a, b, s, d, low
<1>4. CASE s >= 0
  <2>1. s * i >= 0
    BY <1>1, <1>2, <1>4
  <2> QED
    BY <1>1, <1>2, <1>3, <2>1 DEF a, s, low
<1>5. CASE s < 0
  <2>1. s * (d - i) <= 0
    <3>1. d - i \in Nat
      BY <1>1
    <3>2. \A e \in Nat : s * e <= 0
      BY <1>2, <1>5
    <3> QED
      BY <3>1, <3>2
  <2>2. s * (d - i) = s * d - s * i
    BY <1>1, <1>2
  <2>3. s * i \in Int /\ s * i >= b - a
    BY <1>1, <1>2, <1>3, <2>1, <2>2
  <2>4. a + s * i \in Int /\ a + s * i >= low
    BY <1>3, <2>3
  <2> QED
    BY <2>4 DEF a, s, low
<1> QED
  BY <1>2, <1>4, <1>5

(* resample_linear_normalized reads the same line at other points.          *)
LEMMA ResampleKeepsLine ==
    ASSUME Size \in Nat \ {0}, NEW a \in Int, NEW s \in Int, NEW k \in Int,
           s = (Target - 1) * k,
           NEW y, \A i \in Positions(Size) : y[i] = a + s * i, NEW t \in 0 .. Target - 1
    PROVE  Resampled(y)[t] * (Target - 1) = a * (Target - 1) + s * (Size - 1) * t
<1> DEFINE m == Target - 1
           d == Size - 1
<1>1. m \in Nat \ {0} /\ d \in Nat /\ t \in 0 .. m /\ s = m * k
  BY TargetAssumption
<1>2. 0 \in Positions(Size) /\ d \in Positions(Size)
  BY DEF Positions
<1>3. CASE Size = 1 \/ t = 0
  <2>1. Resampled(y)[t] = y[0]
    <3>1. ~(Size > 1 /\ t = Target - 1) /\ ~(Size > 1 /\ t > 0 /\ t < Target - 1)
      <4>1. CASE Size = 1
        BY <4>1
      <4>2. CASE t = 0
        BY <1>1, <4>2
      <4> QED
        BY <1>3, <4>1, <4>2
    <3> QED
      BY <1>3, <3>1 DEF Resampled
  <2>2. y[0] = a
    BY <1>2
  <2>3. d = 0 \/ t = 0
    BY <1>3
  <2> HIDE DEF m, d
  <2>4. s * d * t = 0
    BY <1>1, <2>3
  <2>5. a * m = a * m + s * d * t
    BY <1>1, <2>4
  <2> QED
    BY <2>1, <2>2, <2>5 DEF m, d
<1>4. CASE Size > 1 /\ t # 0 /\ t = Target - 1
  <2>1. Resampled(y)[t] = y[d]
    BY <1>1, <1>4 DEF Resampled
  <2>2. y[d] = a + s * d
    BY <1>2
  <2>3. t = m
    BY <1>4
  <2> HIDE DEF m, d
  <2>4. (a + s * d) * m = a * m + s * d * t
    BY <1>1, <2>3
  <2> QED
    BY <2>1, <2>2, <2>4 DEF m, d
<1>5. CASE Size > 1 /\ t > 0 /\ t < Target - 1
  <2>1. Resampled(y)[t] = InterpOne(y, t)
    BY <1>1, <1>5 DEF Resampled
  <2>2. PICK l \in Positions(Size), num \in 0 .. Target - 1 :
              /\ l + 1 \in Positions(Size)
              /\ t * (Size - 1) = l * (Target - 1) + num
              /\ InterpOne(y, t) = y[l] + ((y[l + 1] - y[l]) * num) \div (Target - 1)
    <3>1. Size \in Nat \ {0, 1} /\ 0 < t /\ t \in Nat
      BY <1>5
    <3> QED
      BY <1>5, <3>1, InterpOneIs
  <2>3. y[l] = a + s * l /\ y[l + 1] = a + s * (l + 1) /\ l \in Int /\ num \in Int
    BY <2>2 DEF Positions
  <2>4. y[l + 1] - y[l] = s
    BY <2>3
  <2>5. (s * num) \div m = k * num
    <3> HIDE DEF m
    <3> DEFINE w == k * num
    <3>1. w \in Int /\ s * num = w * m
      BY <1>1, <2>3
    <3> HIDE DEF w
    <3>2. (w * m) \div m = w
      BY <1>1, <3>1
    <3> QED
      BY <3>1, <3>2 DEF w
  <2>6. InterpOne(y, t) = a + s * l + k * num
    BY <2>2, <2>3, <2>4, <2>5
  <2>7. t * d = l * m + num
    BY <2>2
  <2> HIDE DEF m, d
  <2>8. (a + s * l + k * num) * m = a * m + s * d * t
    <3>1. (k * num) * m = s * num
      BY <1>1, <2>3
    <3>2. s * d * t = s * (l * m + num)
      BY <1>1, <2>7
    <3>3. (a + s * l + k * num) * m = a * m + s * (l * m) + (k * num) * m
      BY <1>1, <2>3
    <3>4. s * (l * m + num) = s * (l * m) + s * num
      BY <1>1, <2>3
    <3> QED
      BY <1>1, <2>3, <3>1, <3>2, <3>3, <3>4
  <2> QED
    BY <2>1, <2>6, <2>8 DEF m, d
<1>6. \/ Size = 1 \/ t = 0
      \/ Size > 1 /\ t # 0 /\ t = Target - 1
      \/ Size > 1 /\ t > 0 /\ t < Target - 1
  BY <1>1
<1> QED
  BY <1>3, <1>4, <1>5, <1>6
-----------------------------------------------------------------------------
\* What run has checked when it goes on.
Accepted == Size > 0 /\ sensorMin # NonFinite
\* The values the channels may hold between two stages.
Signals == [Channels -> [Positions(Size) -> Int]]

\* Exact enough for the smoothing, whose weights are over 42.
Exact(x) == Size >= 7 =>
    \A c \in Channels : \A i \in Positions(Size) : \E z \in Int : x[c][i] = 42 * z

Clamped(x) ==
    \A c \in Channels : \A i \in Positions(Size) : x[c][i] >= sensorMin * Unit

\* The straight channels are still on their lines.
Unbent(y) ==
    \A c \in Channels : Straight(samples.radar[c]) => OnLine(y[c], samples.radar[c])

Given ==
    /\ samples \in Inputs /\ sensorMin \in SensorMins
    /\ radar \in Signals
    /\ pc \in {"check", "repair", "smooth", "clamp", "resample", "done"}
    /\ pc \notin {"check", "done"} => Accepted

Stages ==
    /\ pc \in {"check", "repair"} => radar = samples.radar
    /\ pc = "smooth" => Exact(radar)
    /\ pc = "clamp" =>
          /\ Exact(source)
          /\ Size >= 7 => radar = [c \in Channels |-> SmoothChannel(source[c])]
    /\ pc = "resample" => Clamped(radar)
    /\ pc \in {"smooth", "clamp", "resample"} => Unbent(radar)

Result ==
    pc = "done" =>
        \/ ~Accepted /\ out.status = "failed"
        \/ /\ Accepted /\ Clamped(radar) /\ Unbent(radar)
           /\ out.radar = [c \in Channels |-> Resampled(radar[c])]
           /\ out.imu = Resampled(Imu)

\* Given: the window and the channels.  Stages: what the stages passed so far have
\* done.  Result: what the caller gets.
PreprocessInv == Given /\ Stages /\ Result

(* The window and sensor_min never change, and neither does what is         *)
(* computed from them.                                                      *)
LEMMA SameWindow ==
    ASSUME UNCHANGED <<samples, sensorMin>>
    PROVE  /\ (samples \in Inputs)' <=> samples \in Inputs
           /\ Size' = Size /\ Signals' = Signals /\ Accepted' = Accepted
           /\ Imu' = Imu
           /\ \A x : Exact(x)' = Exact(x)
           /\ \A x : Clamped(x)' = Clamped(x)
           /\ \A x : Unbent(x)' = Unbent(x)
           /\ \A x : Resampled(x)' = Resampled(x)
           /\ \A x : SmoothChannel(x)' = SmoothChannel(x)
<1>1. Size' = Size
  BY DEF Size
<1>2. \A x : /\ ValidAt(x)' = ValidAt(x)
            /\ FirstValue(x)' = FirstValue(x) /\ LastValue(x)' = LastValue(x)
            /\ Rise(x)' = Rise(x)
  BY <1>1 DEF ValidAt, FirstValue, LastValue, Rise
<1>3. \A x : Straight(x)' = Straight(x)
  BY <1>1, <1>2 DEF Straight
<1>4. \A y, x : OnLine(y, x)' = OnLine(y, x)
  BY <1>1, <1>2 DEF OnLine
<1>5. \A x : Unbent(x)' = Unbent(x)
  BY <1>3, <1>4 DEF Unbent
<1> QED
  BY <1>1, <1>5 DEF Signals, Accepted, Imu, Exact, Clamped, Resampled, SmoothChannel,
                    InterpOne, UpperBound

\* What each stage does to a straight channel.
LEMMA RepairUnbent ==
    ASSUME samples \in Inputs, sensorMin \in Int, Accepted,
           NEW y, y = [c \in Channels |-> RepairChannel(samples.radar[c])]
    PROVE  Unbent(y)
<1> SUFFICES ASSUME NEW c \in Channels, Straight(samples.radar[c])
             PROVE  OnLine(y[c], samples.radar[c])
  BY DEF Unbent
<1>1. samples.radar[c] \in [Positions(Size) -> Int] /\ Size \in Nat \ {0}
  BY InputTyped DEF Accepted
<1>2. y[c] = RepairChannel(samples.radar[c])
  OBVIOUS
<1> QED
  BY <1>1, <1>2, RepairKeepsLine

LEMMA SmoothUnbent ==
    ASSUME samples \in Inputs, sensorMin \in Int, Size >= 7,
           NEW x, Unbent(x), NEW y, y = [c \in Channels |-> SmoothChannel(x[c])]
    PROVE  Unbent(y)
<1> SUFFICES ASSUME NEW c \in Channels, Straight(samples.radar[c]), NEW i \in Positions(Size)
             PROVE  y[c][i] = FirstValue(samples.radar[c]) * Unit + Rise(samples.radar[c]) * i
  BY DEF Unbent, OnLine
<1> DEFINE z == samples.radar[c]
           a == FirstValue(z) * Unit
           r == Rise(z)
<1>1. z \in [Positions(Size) -> Int] /\ Size \in Nat \ {0} /\ Size > 1
  BY InputTyped
<1>2. \A k \in Positions(Size) : x[c][k] = a + r * k
  BY DEF Unbent, OnLine
<1>3. PICK k \in Int : a = 42 * k
  BY <1>1, RiseIs
<1>4. PICK s \in Int : r = 42 * s
  <2>1. PICK k1 \in Int : r = 42 * ((Target - 1) * k1)
    BY <1>1, RiseIs
  <2>2. (Target - 1) * k1 \in Int
    BY TargetAssumption
  <2> QED
    BY <2>1, <2>2
<1> HIDE DEF a, r
<1>5. SmoothChannel(x[c])[i] = a + r * i
  BY ONLY <1>1, <1>2, <1>3, <1>4, SmoothKeepsLine, Size >= 7, i \in Positions(Size)
<1> QED
  BY <1>5 DEF a, r, z

LEMMA ClampUnbent ==
    ASSUME samples \in Inputs, sensorMin \in Int, Accepted, NEW x, Unbent(x), NEW y,
           y = [c \in Channels |-> [i \in Positions(Size) |-> Max({x[c][i], sensorMin * Unit})]]
    PROVE  Unbent(y)
<1> SUFFICES ASSUME NEW c \in Channels, Straight(samples.radar[c]), NEW i \in Positions(Size)
             PROVE  y[c][i] = FirstValue(samples.radar[c]) * Unit + Rise(samples.radar[c]) * i
  BY DEF Unbent, OnLine
<1> DEFINE low == sensorMin * Unit
           v == x[c][i]
<1>1. samples.radar[c] \in [Positions(Size) -> Int] /\ Size \in Nat \ {0}
  BY InputTyped DEF Accepted
<1>2. v = FirstValue(samples.radar[c]) * Unit + Rise(samples.radar[c]) * i
  BY DEF Unbent, OnLine
<1>3. v \in Int /\ low \in Int /\ v >= low
  BY <1>1, <1>2, LineAboveMin, TargetAssumption
<1>4. y[c][i] = Max({v, low})
  OBVIOUS
<1> HIDE DEF low, v
<1>5. Max({v, low}) = v
  BY <1>3, MaxUnique
<1> QED
  BY <1>2, <1>4, <1>5

(* The invariant holds at first and is kept by every stage.                 *)
LEMMA PreprocessInitInv == Init => PreprocessInv
<1> SUFFICES ASSUME Init PROVE PreprocessInv
  OBVIOUS
<1>1. Given
  BY InputTyped DEF Init, Given, Signals
<1>2. Stages /\ Result
  BY DEF Init, Stages, Result
<1> QED
  BY <1>1, <1>2 DEF PreprocessInv

LEMMA PreprocessKept == PreprocessInv /\ [Next]_vars => PreprocessInv'
<1> SUFFICES ASSUME PreprocessInv, [Next]_vars PROVE PreprocessInv'
  OBVIOUS
<1>1. /\ samples \in Inputs /\ sensorMin \in SensorMins /\ sensorMin \in Int
      /\ radar \in Signals
      /\ Size \in Nat /\ sensorMin * Unit \in Int
  BY InputTyped, ChannelsAssumption, TargetAssumption DEF PreprocessInv, Given
<1>2. CASE Refuse
  <2>1. Given' /\ Stages'
    BY <1>2, SameWindow DEF PreprocessInv, Given, Stages, Refuse, Stage
  <2>2. Result'
    <3>1. ~Accepted /\ Accepted' = Accepted
      BY <1>1, <1>2, SameWindow DEF Refuse, Accepted
    <3> QED
      BY <1>2, <3>1 DEF Result, Refuse
  <2> QED
    BY <2>1, <2>2 DEF PreprocessInv
<1>3. CASE Accept
  <2>1. Accepted /\ Accepted' = Accepted
    BY <1>3, SameWindow DEF Accept, Accepted
  <2> QED
    BY <1>3, <2>1, SameWindow DEF PreprocessInv, Given, Stages, Result, Accept, Stage
<1>4. CASE Repair
  <2>1. Accepted' = Accepted /\ Signals' = Signals
    BY <1>4, SameWindow DEF Repair
  <2>2. ASSUME NEW c \in Channels
        PROVE  /\ RepairChannel(radar[c]) \in [Positions(Size) -> Int]
               /\ Size >= 7 => \A i \in Positions(Size) :
                                  \E z \in Int : RepairChannel(radar[c])[i] = 42 * z
    <3>1. radar[c] \in [Positions(Size) -> Int]
      BY <1>1 DEF Signals
    <3> QED
      BY <1>1, <3>1, RepairTyped
  <2>3. Given'
    <3>1. radar' \in Signals
      BY <1>4, <2>2 DEF Repair, Signals
    <3> QED
      BY <1>4, <2>1, <3>1 DEF PreprocessInv, Given, Repair, Stage
  <2>4. Exact(radar)'
    <3>1. Size' = Size
      BY <1>4, SameWindow DEF Repair
    <3> QED
      BY <1>4, <2>2, <3>1 DEF Repair, Exact
  <2>5. Unbent(radar)'
    <3>1. radar = samples.radar /\ Accepted
      BY <1>4 DEF PreprocessInv, Given, Stages, Repair, Stage
    <3>2. radar' = [c \in Channels |-> RepairChannel(samples.radar[c])]
      BY <1>4, <3>1 DEF Repair
    <3>3. Unbent(radar')
      BY <1>1, <3>1, <3>2, RepairUnbent
    <3> QED
      BY <1>4, <3>3, SameWindow DEF Repair
  <2>6. Stages' /\ Result'
    BY <1>4, <2>1, <2>4, <2>5 DEF Stages, Result, Repair, Stage
  <2> QED
    BY <2>3, <2>6 DEF PreprocessInv
<1>5. CASE Smooth
  <2>1. /\ Accepted' = Accepted /\ Signals' = Signals /\ Size' = Size
        /\ \A x : SmoothChannel(x)' = SmoothChannel(x)
    BY <1>5, SameWindow DEF Smooth
  <2>2. pc = "smooth" /\ pc' = "clamp" /\ source' = radar /\ Exact(radar)
        /\ Unbent(radar)
    BY <1>5 DEF Smooth, Stage, PreprocessInv, Stages
  <2>3. Given'
    <3>1. radar' \in Signals
      <4>1. CASE Size >= 7
        <5>1. \A c \in Channels : SmoothChannel(radar[c]) \in [Positions(Size) -> Int]
          <6>1. \A c \in Channels : radar[c] \in [Positions(Size) -> Int]
            BY <1>1 DEF Signals
          <6> QED
            BY <1>1, <4>1, <6>1, SmoothTyped
        <5> QED
          BY <1>5, <4>1, <5>1 DEF Smooth, Signals
      <4>2. CASE ~(Size >= 7)
        BY <1>1, <1>5, <4>2 DEF Smooth
      <4> QED
        BY <4>1, <4>2
    <3> QED
      BY <1>5, <2>1, <2>2, <3>1 DEF PreprocessInv, Given, Smooth
  <2>4. Exact(source)'
    BY <2>1, <2>2 DEF Exact
  <2>5. Size >= 7 => radar' = [c \in Channels |-> SmoothChannel(source[c])']
    BY <1>5, <2>1, <2>2 DEF Smooth
  <2>6. Unbent(radar)'
    <3>1. Unbent(radar')
      <4>1. CASE Size >= 7
        <5>1. radar' = [c \in Channels |-> SmoothChannel(radar[c])]
          BY <1>5, <4>1 DEF Smooth
        <5> QED
          BY <1>1, <2>2, <4>1, <5>1, SmoothUnbent
      <4>2. CASE ~(Size >= 7)
        BY <1>5, <2>2, <4>2 DEF Smooth
      <4> QED
        BY <4>1, <4>2
    <3> QED
      BY <1>5, <3>1, SameWindow DEF Smooth
  <2>7. Stages' /\ Result'
    BY <2>1, <2>2, <2>4, <2>5, <2>6 DEF Stages, Result
  <2> QED
    BY <2>3, <2>7 DEF PreprocessInv
<1>6. CASE Clamp
  <2>1. /\ Accepted' = Accepted /\ Signals' = Signals /\ Size' = Size
        /\ sensorMin' = sensorMin
    BY <1>6, SameWindow DEF Clamp
  <2>2. pc = "clamp" /\ pc' = "resample" /\ Unbent(radar) /\ Accepted
    BY <1>6 DEF Clamp, Stage, PreprocessInv, Given, Stages
  <2>3. ASSUME NEW c \in Channels, NEW i \in Positions(Size)
        PROVE  /\ Max({radar[c][i], sensorMin * Unit}) \in Int
               /\ Max({radar[c][i], sensorMin * Unit}) >= sensorMin * Unit
    <3> DEFINE low == sensorMin * Unit
               v == radar[c][i]
    <3>1. v \in Int /\ low \in Int
      BY <1>1 DEF Signals
    <3> HIDE DEF v, low
    <3>2. Max({v, low}) = IF v >= low THEN v ELSE low
      <4>1. CASE v >= low
        BY <3>1, <4>1, MaxUnique
      <4>2. CASE ~(v >= low)
        BY <3>1, <4>2, MaxUnique
      <4> QED
        BY <4>1, <4>2
    <3>3. Max({v, low}) \in Int /\ Max({v, low}) >= low
      BY <3>1, <3>2
    <3> QED
      BY <3>3 DEF v, low
  <2>4. radar' = [c \in Channels |-> [i \in Positions(Size) |->
                     Max({radar[c][i], sensorMin * Unit})]]
    BY <1>6 DEF Clamp
  <2>5. radar' \in Signals
    BY <2>3, <2>4 DEF Signals
  <2>6. Clamped(radar)'
    BY <2>1, <2>3, <2>4 DEF Clamped
  <2>7. Given'
    BY <1>6, <2>1, <2>2, <2>5 DEF PreprocessInv, Given, Clamp
  <2>8. Unbent(radar)'
    <3>1. Unbent(radar')
      BY <1>1, <2>2, <2>4, ClampUnbent
    <3> QED
      BY <1>6, <3>1, SameWindow DEF Clamp
  <2>9. Stages' /\ Result'
    BY <2>1, <2>2, <2>6, <2>8 DEF Stages, Result
  <2> QED
    BY <2>7, <2>9 DEF PreprocessInv
<1>7. CASE Resample
  <2>1. /\ Accepted' = Accepted /\ Signals' = Signals /\ Size' = Size
        /\ Resampled(Imu)' = Resampled(Imu)
        /\ \A x : Resampled(x)' = Resampled(x)
    BY <1>7, SameWindow DEF Resample
  <2>2. pc = "resample" /\ pc' = "done"
        /\ Clamped(radar) /\ Unbent(radar) /\ Accepted /\ radar' = radar
    BY <1>7 DEF Resample, Stage, PreprocessInv, Given, Stages
  <2>3. Clamped(radar)' /\ Unbent(radar)'
    BY <1>7, <2>2, SameWindow DEF Resample
  <2>4. Given'
    BY <1>7, <2>1, <2>2 DEF PreprocessInv, Given, Resample
  <2>5. Stages'
    BY <2>2 DEF Stages
  <2>6. \A c \in Channels : Resampled(radar[c])' = Resampled(radar[c])
    BY <2>1, <2>2
  <2>7. /\ out'.radar = [c \in Channels |-> Resampled(radar[c])']
        /\ out'.imu = Resampled(Imu)'
    BY <1>7, <2>1, <2>6 DEF Resample
  <2>8. Result'
    BY <2>1, <2>2, <2>3, <2>7 DEF Result
  <2> QED
    BY <2>4, <2>5, <2>8 DEF PreprocessInv
<1>8. CASE Returned \/ UNCHANGED vars
  <2>1. UNCHANGED vars
    BY <1>8 DEF Returned
  <2>2. UNCHANGED <<samples, sensorMin, radar, source, local, out, pc>>
    BY <2>1 DEF vars
  <2>3. Given'
    BY <2>2 DEF PreprocessInv, Given, Size, Signals, Accepted
  <2>4. /\ Exact(radar)' = Exact(radar) /\ Exact(source)' = Exact(source)
        /\ Clamped(radar)' = Clamped(radar) /\ Unbent(radar)' = Unbent(radar)
        /\ Accepted' = Accepted /\ Size' = Size
    BY <2>2, SameWindow
  <2>5. /\ \A c \in Channels : SmoothChannel(source[c])' = SmoothChannel(source[c])
        /\ \A c \in Channels : Resampled(radar[c])' = Resampled(radar[c])
        /\ Resampled(Imu)' = Resampled(Imu)
    BY <2>2, SameWindow
  <2>6. Stages'
    BY <2>2, <2>4, <2>5 DEF PreprocessInv, Stages
  <2>7. Result'
    BY <2>2, <2>4, <2>5 DEF PreprocessInv, Result
  <2> QED
    BY <2>3, <2>6, <2>7 DEF PreprocessInv
<1> QED
  BY <1>2, <1>3, <1>4, <1>5, <1>6, <1>7, <1>8 DEF Next

LEMMA PreprocessAlways == Spec => []PreprocessInv
BY PreprocessInitInv, PreprocessKept, PTL DEF Spec

(* No value of the tensor's radar channels is below sensor_min, for         *)
(* windows of every length: run clamps after smoothing and interpolates     *)
(* afterwards.                                                              *)
THEOREM NothingBelowMin == Spec => []AboveSensorMin
<1>1. PreprocessInv => AboveSensorMin
  <2> SUFFICES ASSUME PreprocessInv, Ok, NEW c \in Channels, NEW t \in 0 .. Target - 1
               PROVE  out.radar[c][t] >= sensorMin * Unit
    BY DEF AboveSensorMin
  <2>1. /\ Accepted /\ Clamped(radar) /\ out.radar[c] = Resampled(radar[c])
        /\ radar[c] \in [Positions(Size) -> Int]
    BY DEF PreprocessInv, Given, Result, Ok, Signals
  <2>2. Size \in Nat \ {0} /\ sensorMin * Unit \in Int
    BY <2>1, InputTyped, ChannelsAssumption, TargetAssumption DEF PreprocessInv, Given, Accepted
  <2>3. \A i \in Positions(Size) : radar[c][i] >= sensorMin * Unit
    BY <2>1 DEF Clamped
  <2> QED
    BY <2>1, <2>2, <2>3, ResampledIs
<1> QED
  BY <1>1, PreprocessAlways, PTL

(* A window of seven samples or more is smoothed to the least-squares       *)
(* parabola of the seven samples around each position, also at the edges.   *)
THEOREM SmoothingIsLeastSquares == Spec => []SmoothedIsLeastSquares
<1>1. PreprocessInv => SmoothedIsLeastSquares
  <2> SUFFICES ASSUME PreprocessInv, pc = "clamp", Size >= 7, NEW c \in Channels,
                      NEW i \in Positions(Size),
                      NEW s, s = WindowStart(i),
                      NEW y, y = [k \in 0 .. 6 |-> source[c][s + k]],
                      NEW f, f = [k \in 0 .. 6 |-> Evaluate(y, 0, k)]
               PROVE  Parabola(f) /\ Orthogonal(f, y) /\ radar[c][i] = f[i - s]
    BY DEF SmoothedIsLeastSquares
  <2>1. Exact(source) /\ radar[c] = SmoothChannel(source[c])
    BY DEF PreprocessInv, Stages
  <2>2. Size \in Nat
    BY InputTyped DEF PreprocessInv, Given
  <2>3. \A p \in Positions(Size) : \E z \in Int : source[c][p] = 42 * z
    BY <2>1 DEF Exact
  <2>4. Parabola(f) /\ Orthogonal(f, y) /\ SmoothChannel(source[c])[i] = f[i - s]
    BY <2>2, <2>3, SmoothIsLeastSquares
  <2> QED
    BY <2>1, <2>4
<1> QED
  BY <1>1, PreprocessAlways, PTL

(* The tensor is the piecewise linear function through the clamped radar    *)
(* samples and the IMU, read at Target equidistant points.                  *)
THEOREM ResamplingIsLinear == Spec => []ResampledIsLinear
<1>1. PreprocessInv => ResampledIsLinear
  <2> SUFFICES ASSUME PreprocessInv, Ok, NEW t \in 0 .. Target - 1
               PROVE  /\ out.imu[t] = LinearAt(Imu, t)
                      /\ \A c \in Channels : out.radar[c][t] = LinearAt(radar[c], t)
    BY DEF ResampledIsLinear
  <2>1. /\ Accepted /\ out.imu = Resampled(Imu)
        /\ \A c \in Channels : out.radar[c] = Resampled(radar[c])
        /\ \A c \in Channels : radar[c] \in [Positions(Size) -> Int]
    BY DEF PreprocessInv, Given, Result, Ok, Signals
  <2>2. Size \in Nat \ {0}
    BY <2>1, InputTyped DEF PreprocessInv, Given, Accepted
  <2>3. Imu \in [Positions(Size) -> Int]
    BY InputTyped, TargetAssumption DEF PreprocessInv, Given, Imu
  <2>4. Resampled(Imu)[t] = LinearAt(Imu, t)
    BY <2>2, <2>3, ResampledIs
  <2>5. \A c \in Channels : Resampled(radar[c])[t] = LinearAt(radar[c], t)
    BY <2>1, <2>2, ResampledIs
  <2> QED
    BY <2>1, <2>4, <2>5
<1> QED
  BY <1>1, PreprocessAlways, PTL

(* A channel whose valid samples lie on a straight line comes out of all    *)
(* four stages as that line, for windows and tensors of every length and    *)
(* whatever is missing between its ends (preprocessor.cpp:43-64).           *)
THEOREM StraightStaysStraight == Spec => []StraightSignalsKept
<1>1. PreprocessInv => StraightSignalsKept
  <2> SUFFICES ASSUME PreprocessInv, Ok, NEW c \in Channels, NEW t \in 0 .. Target - 1,
                      Straight(samples.radar[c])
               PROVE  out.radar[c][t] * (Target - 1)
                        = (FirstValue(samples.radar[c]) * (Target - 1)
                            + (LastValue(samples.radar[c]) - FirstValue(samples.radar[c])) * t)
                          * Unit
    BY DEF StraightSignalsKept
  <2> DEFINE x == samples.radar[c]
             a == FirstValue(x)
             b == LastValue(x)
             r == Rise(x)
             m == Target - 1
             d == Size - 1
  <2>1. Accepted /\ Unbent(radar) /\ out.radar[c] = Resampled(radar[c])
    BY DEF PreprocessInv, Result, Ok
  <2>2. samples \in Inputs /\ Size \in Nat \ {0} /\ sensorMin \in Int
        /\ x \in [Positions(Size) -> Int]
    BY <2>1, InputTyped, ChannelsAssumption DEF PreprocessInv, Given, Accepted
  <2>3. \A i \in Positions(Size) : radar[c][i] = a * Unit + r * i
    BY <2>1 DEF Unbent, OnLine
  <2>4. a \in Int /\ b \in Int /\ Unit \in Int /\ m \in Int /\ d \in Int /\ t \in Int
    BY <2>2, EndsOfLine, TargetAssumption
  <2>5. r * d = (b - a) * Unit
    BY <2>2, RiseIs
  <2>6. PICK k \in Int : r = m * k /\ r \in Int
    <3>1. PICK k \in Int : r = 42 * (m * k)
      BY <2>2, RiseIs
    <3> HIDE DEF m, r
    <3>2. 42 * k \in Int /\ r = m * (42 * k) /\ r \in Int
      BY <2>4, <3>1
    <3> QED
      BY <3>2
  <2>7. Resampled(radar[c])[t] * m = (a * Unit) * m + r * d * t
    <3> DEFINE e == a * Unit
    <3>1. e \in Int /\ \A i \in Positions(Size) : radar[c][i] = e + r * i
      BY <2>3, <2>4
    <3> HIDE DEF e, r
    <3>2. Resampled(radar[c])[t] * m = e * m + r * d * t
      BY <2>2, <2>6, <3>1, ResampleKeepsLine
    <3> QED
      BY <3>2 DEF e
  <2> HIDE DEF a, b, r, m, d
  <2>8. (a * Unit) * m + ((b - a) * Unit) * t = (a * m + (b - a) * t) * Unit
    BY <2>4
  <2>9. out.radar[c][t] * m = (a * m + (b - a) * t) * Unit
    BY <2>1, <2>5, <2>7, <2>8
  <2> QED
    BY <2>9 DEF a, b, m, x
<1> QED
  BY <1>1, PreprocessAlways, PTL
=============================================================================
