----------------------------- MODULE FileProofs -----------------------------
(***************************************************************************)
(* The two parsers, for any file.  CsvReader: the quote machine finds the  *)
(* fields of a line, read finds the samples of a file, and preprocess_csv  *)
(* leaves its output alone until it has them.  Config: what load and its   *)
(* getters promise, and what main and Application::initialize make of it,  *)
(* for any change of the file between the two loads and any width of the   *)
(* integers.                                                               *)
(***************************************************************************)
EXTENDS Startup, PreprocessTool, DataProofs

\* Texts and lines.
Chars == Seq(STRING)
-----------------------------------------------------------------------------
(* csv_reader.cpp: what the quote machine makes of a line, and read of the  *)
(* lines of a file.                                                         *)

LEMMA QuotesStep ==
    ASSUME NEW l
    PROVE  /\ QuotesBefore(l, 1) = 0
           /\ \A i \in Nat \ {0} :
                 /\ QuotesBefore(l, i) \in Nat
                 /\ QuotesBefore(l, i + 1)
                      = QuotesBefore(l, i) + (IF l[i] = Quote THEN 1 ELSE 0)
<1> DEFINE Q(i) == {k \in 1 .. i - 1 : l[k] = Quote}
<1>1. QuotesBefore(l, 1) = 0
  <2>1. Q(1) = {}
    OBVIOUS
  <2> QED
    BY <2>1, FS_EmptySet DEF QuotesBefore
<1>2. ASSUME NEW i \in Nat \ {0}
      PROVE  IsFiniteSet(Q(i)) /\ Cardinality(Q(i)) \in Nat
  <2>1. IsFiniteSet(1 .. i - 1)
    BY FS_Interval
  <2>2. IsFiniteSet(Q(i))
    BY <2>1, FS_Subset
  <2> QED
    BY <2>2, FS_CardinalityType
<1>3. ASSUME NEW i \in Nat \ {0}
      PROVE  Cardinality(Q(i + 1)) = Cardinality(Q(i)) + (IF l[i] = Quote THEN 1 ELSE 0)
  <2>1. CASE l[i] = Quote
    <3>1. Q(i + 1) = Q(i) \cup {i} /\ i \notin Q(i)
      BY <2>1
    <3>2. IsFiniteSet(Q(i))
      BY <1>2
    <3> HIDE DEF Q
    <3>3. Cardinality(Q(i) \cup {i}) = Cardinality(Q(i)) + 1
      BY <3>1, <3>2, FS_AddElement
    <3> QED
      BY <2>1, <3>1, <3>3
  <2>2. CASE l[i] # Quote
    <3>1. Q(i + 1) = Q(i)
      BY <2>2
    <3>2. Cardinality(Q(i)) \in Nat
      BY <1>2
    <3> HIDE DEF Q
    <3> QED
      BY <2>2, <3>1, <3>2
  <2> QED
    BY <2>1, <2>2
<1> HIDE DEF Q
<1>4. \A i \in Nat \ {0} : QuotesBefore(l, i) = Cardinality(Q(i)) /\ i + 1 \in Nat \ {0}
  BY DEF QuotesBefore, Q
<1> QED
  BY <1>1, <1>2, <1>3, <1>4

LEMMA PartOf ==
    ASSUME NEW l \in Chars, NEW b \in 1 .. Len(l) + 1, NEW e \in b - 1 .. Len(l)
    PROVE  /\ SubSeq(l, b, e) \in Chars
           /\ Len(SubSeq(l, b, e)) = e - b + 1
           /\ \A i \in 1 .. e - b + 1 : SubSeq(l, b, e)[i] = l[b + i - 1]
<1>1. Len(l) \in Nat /\ b \in Int /\ e \in Int /\ b <= e + 1
  BY DEF Chars
<1>2. \A i \in b .. e : l[i] \in STRING
  <2>1. \A i \in b .. e : i \in 1 .. Len(l)
    BY <1>1
  <2> QED
    BY <2>1, ElementOfSeq DEF Chars
<1>3. /\ SubSeq(l, b, e) \in Seq(STRING)
      /\ Len(SubSeq(l, b, e)) = IF b <= e THEN e - b + 1 ELSE 0
      /\ \A i \in 1 .. e - b + 1 : SubSeq(l, b, e)[i] = l[b + i - 1]
  BY <1>1, <1>2, SubSeqProperties
<1> QED
  BY <1>1, <1>3 DEF Chars

LEMMA PartGrows ==
    ASSUME NEW l \in Chars, NEW b \in 1 .. Len(l), NEW e \in b .. Len(l)
    PROVE  SubSeq(l, b, e) = Append(SubSeq(l, b, e - 1), l[e])
<1> DEFINE s == SubSeq(l, b, e - 1)
           t == SubSeq(l, b, e)
           u == Append(s, l[e])
<1>1. Len(l) \in Nat /\ e \in 1 .. Len(l) /\ e - 1 \in b - 1 .. Len(l) /\ e \in b - 1 .. Len(l)
      /\ b \in 1 .. Len(l) + 1
  BY DEF Chars
<1>2. l[e] \in STRING
  BY <1>1, ElementOfSeq DEF Chars
<1>3. /\ s \in Chars /\ Len(s) = e - b
      /\ \A i \in 1 .. e - b : s[i] = l[b + i - 1]
  <2>1. /\ s \in Chars /\ Len(s) = (e - 1) - b + 1
        /\ \A i \in 1 .. (e - 1) - b + 1 : s[i] = l[b + i - 1]
    BY <1>1, PartOf
  <2>2. (e - 1) - b + 1 = e - b
    BY <1>1
  <2> HIDE DEF s
  <2> QED
    BY <2>1, <2>2
<1>4. /\ t \in Chars /\ Len(t) = e - b + 1
      /\ \A i \in 1 .. e - b + 1 : t[i] = l[b + i - 1]
  BY <1>1, PartOf
<1> HIDE DEF s, t
<1>5. /\ u \in Chars /\ Len(u) = e - b + 1
      /\ \A i \in 1 .. e - b : u[i] = l[b + i - 1]
      /\ u[e - b + 1] = l[e]
  <2>1. s \in Seq(STRING)
    BY <1>3 DEF Chars
  <2>2. /\ u \in Seq(STRING) /\ Len(u) = Len(s) + 1
        /\ \A i \in 1 .. Len(s) : u[i] = s[i]
        /\ u[Len(s) + 1] = l[e]
    BY <1>2, <2>1, AppendProperties
  <2> HIDE DEF u
  <2> QED
    BY <1>1, <1>3, <2>2 DEF Chars
<1>6. \A i \in 1 .. e - b + 1 : u[i] = l[b + i - 1]
  <2> SUFFICES ASSUME NEW i \in 1 .. e - b + 1 PROVE u[i] = l[b + i - 1]
    OBVIOUS
  <2>1. i \in 1 .. e - b \/ (i = e - b + 1 /\ b + i - 1 = e)
    BY <1>1
  <2> HIDE DEF u
  <2> QED
    BY <1>5, <2>1
<1> HIDE DEF u
<1>7. t = u
  <2>1. DOMAIN t = 1 .. e - b + 1 /\ DOMAIN u = 1 .. e - b + 1
    BY <1>4, <1>5, LenProperties DEF Chars
  <2>2. t = [i \in 1 .. Len(t) |-> t[i]] /\ u = [i \in 1 .. Len(u) |-> u[i]]
    BY <1>4, <1>5, LenProperties DEF Chars
  <2> QED
    BY <1>4, <1>5, <1>6, <2>2
<1> QED
  BY <1>7 DEF s, t, u

LEMMA QuotesShift ==
    ASSUME NEW l \in Chars, NEW b \in 1 .. Len(l) + 1, NEW e \in b - 1 .. Len(l),
           NEW i \in 1 .. e - b + 2
    PROVE  QuotesBefore(SubSeq(l, b, e), i) = QuotesBefore(l, b + i - 1) - QuotesBefore(l, b)
<1> DEFINE s == SubSeq(l, b, e)
           n == e - b + 1
           P == {k \in 0 .. n : QuotesBefore(s, k + 1) = QuotesBefore(l, b + k) - QuotesBefore(l, b)}
<1>1. Len(l) \in Nat /\ b \in Nat \ {0} /\ n \in Nat /\ \A k \in 0 .. n : b + k \in Nat \ {0}
  BY DEF Chars
<1>2. \A k \in 1 .. n : s[k] = l[b + k - 1]
  BY PartOf
<1>3. 0 \in P
  <2>1. QuotesBefore(s, 0 + 1) = 0
    BY QuotesStep
  <2>2. QuotesBefore(l, b + 0) - QuotesBefore(l, b) = 0
    <3>1. QuotesBefore(l, b) \in Nat /\ b + 0 = b
      BY <1>1, QuotesStep
    <3> QED
      BY <3>1
  <2> QED
    BY <1>1, <2>1, <2>2
<1>4. ASSUME NEW k \in 1 .. n, k - 1 \in P
      PROVE  k \in P
  <2>1. QuotesBefore(s, k) = QuotesBefore(l, b + (k - 1)) - QuotesBefore(l, b)
    <3>1. (k - 1) + 1 = k
      BY <1>1
    <3> QED
      BY <1>4, <3>1
  <2>2. k \in Nat \ {0} /\ b + (k - 1) \in Nat \ {0} /\ (b + (k - 1)) + 1 = b + k
        /\ b + (k - 1) = b + k - 1
    BY <1>1
  <2>3. QuotesBefore(s, k + 1) = QuotesBefore(s, k) + (IF s[k] = Quote THEN 1 ELSE 0)
    BY <2>2, QuotesStep
  <2>4. QuotesBefore(l, b + k)
          = QuotesBefore(l, b + (k - 1)) + (IF l[b + (k - 1)] = Quote THEN 1 ELSE 0)
    BY <2>2, QuotesStep
  <2>5. s[k] = l[b + (k - 1)]
    BY <1>2, <2>2
  <2>6. QuotesBefore(s, k) \in Nat /\ QuotesBefore(l, b) \in Nat
        /\ QuotesBefore(l, b + (k - 1)) \in Nat
    BY <1>1, <2>2, QuotesStep
  <2>7. QuotesBefore(s, k + 1) = QuotesBefore(l, b + k) - QuotesBefore(l, b)
    <3> HIDE DEF s
    <3> QED
      BY <2>1, <2>3, <2>4, <2>5, <2>6
  <2>8. k \in 0 .. n
    BY <1>1
  <2> QED
    BY <2>7, <2>8
<1>5. 0 .. n \subseteq P
  <2> HIDE DEF P, n
  <2> QED
    BY <1>1, <1>3, <1>4, InductionUpTo
<1>6. i - 1 \in 0 .. n /\ (i - 1) + 1 = i /\ b + (i - 1) = b + i - 1
  BY <1>1
<1>7. i - 1 \in P
  <2> HIDE DEF P, n
  <2> QED
    BY <1>5, <1>6
<1> QED
  BY <1>6, <1>7

LEMMA Parity ==
    ASSUME NEW a \in Nat, NEW b \in Nat
    PROVE  /\ a % 2 \in {0, 1}
           /\ (a + 1) % 2 = IF a % 2 = 0 THEN 1 ELSE 0
           /\ (a - b) % 2 = 0 <=> a % 2 = b % 2
OBVIOUS

(* No quotes, no pairs.                                                     *)
LEMMA QuotesBeforeIs ==
    ASSUME NEW l, NEW i \in Nat \ {0}
    PROVE  /\ QuotesBefore(l, i) \in Nat
           /\ QuotesBefore(l, i) % 2 \in {0, 1}
           /\ l[i] = Quote =>
                 QuotesBefore(l, i + 1) % 2 = IF QuotesBefore(l, i) % 2 = 0 THEN 1 ELSE 0
           /\ l[i] # Quote => QuotesBefore(l, i + 1) % 2 = QuotesBefore(l, i) % 2
<1> DEFINE q == QuotesBefore(l, i)
<1>1. /\ q \in Nat
      /\ QuotesBefore(l, i + 1) = q + (IF l[i] = Quote THEN 1 ELSE 0)
  BY QuotesStep
<1>2. q % 2 \in {0, 1} /\ (q + 1) % 2 = IF q % 2 = 0 THEN 1 ELSE 0
  <2> HIDE DEF q
  <2> QED
    BY <1>1, Parity
<1>3. q + 0 = q
  BY <1>1
<1> HIDE DEF q
<1> QED
  BY <1>1, <1>2, <1>3 DEF q

(* Unpaired, element by element.                                            *)
StepOf(s, f) ==
    f = [i \in 0 .. Len(s) |->
            IF i = 0 THEN <<>>
            ELSE IF OpensPair(s, i) THEN f[i - 1] ELSE Append(f[i - 1], s[i])]

LEMMA UnpairedIs ==
    ASSUME NEW s \in Chars
    PROVE  \E f \in [0 .. Len(s) -> Chars] : StepOf(s, f) /\ Unpaired(s) = f[Len(s)]
<1> DEFINE n == Len(s)
           h == [p \in Chars \X (1 .. n) |->
                    IF OpensPair(s, p[2]) THEN p[1] ELSE Append(p[1], s[p[2]])]
<1>1. n \in Nat /\ <<>> \in Chars /\ \A i \in 1 .. n : s[i] \in STRING
  BY ElementOfSeq, EmptySeq DEF Chars
<1>2. ASSUME NEW x \in Chars, NEW k \in 1 .. n
      PROVE  /\ h[<<x, k>>] \in Chars
             /\ h[<<x, k>>] = IF OpensPair(s, k) THEN x ELSE Append(x, s[k])
  <2>1. h[<<x, k>>] = IF OpensPair(s, k) THEN x ELSE Append(x, s[k])
    OBVIOUS
  <2>2. Append(x, s[k]) \in Chars
    BY <1>1, AppendProperties DEF Chars
  <2> HIDE DEF h
  <2> QED
    BY <2>1, <2>2
<1> HIDE DEF h, n
<1>3. IsStep(h, Chars, n)
  BY <1>2 DEF IsStep
<1>4. PICK g \in [0 .. n -> Chars] : Recurs(g, <<>>, h, n)
  BY <1>1, <1>3, Recursion
<1>5. \A k \in 0 .. n :
         g[k] = IF k = 0 THEN <<>>
                ELSE IF OpensPair(s, k) THEN g[k - 1] ELSE Append(g[k - 1], s[k])
  <2> SUFFICES ASSUME NEW k \in 0 .. n
               PROVE  g[k] = IF k = 0 THEN <<>>
                             ELSE IF OpensPair(s, k) THEN g[k - 1] ELSE Append(g[k - 1], s[k])
    OBVIOUS
  <2>1. g[k] = IF k = 0 THEN <<>> ELSE h[<<g[k - 1], k>>]
    BY <1>4 DEF Recurs
  <2>2. k # 0 => k - 1 \in 0 .. n /\ k \in 1 .. n
    BY <1>1
  <2>3. k # 0 => g[k - 1] \in Chars
    BY <1>4, <2>2
  <2> QED
    BY <1>2, <2>1, <2>2, <2>3
<1>6. StepOf(s, g)
  BY <1>4, <1>5 DEF StepOf, n
<1> DEFINE F(f) == f = [i \in 0 .. Len(s) |->
                 IF i = 0 THEN <<>>
                 ELSE IF OpensPair(s, i) THEN f[i - 1] ELSE Append(f[i - 1], s[i])]
           c == CHOOSE f : F(f)
<1>7. Unpaired(s) = c[Len(s)]
  BY Zenon DEF Unpaired
<1>8. StepOf(s, c)
  <2>1. F(g)
    BY <1>6 DEF StepOf
  <2>2. F(c)
    BY <2>1, Zenon
  <2> QED
    BY <2>2 DEF StepOf
<1> HIDE DEF c
<1>9. c \in [0 .. n -> Chars]
  <2> DEFINE P == {k \in 0 .. n : c[k] \in Chars}
  <2>1. \A k \in 0 .. n :
           c[k] = IF k = 0 THEN <<>>
                  ELSE IF OpensPair(s, k) THEN c[k - 1] ELSE Append(c[k - 1], s[k])
    BY <1>8 DEF StepOf, n
  <2>2. 0 \in P
    BY <1>1, <2>1
  <2>3. ASSUME NEW k \in 1 .. n, k - 1 \in P
        PROVE  k \in P
    <3>1. k \in 0 .. n /\ k # 0
      BY <1>1
    <3>2. c[k - 1] \in Chars
      BY <2>3
    <3>3. Append(c[k - 1], s[k]) \in Chars
      BY <1>1, <3>2, AppendProperties DEF Chars
    <3> QED
      BY <2>1, <3>1, <3>2, <3>3
  <2>4. 0 .. n \subseteq P
    <3> HIDE DEF P
    <3> QED
      BY <1>1, <2>2, <2>3, InductionUpTo
  <2>5. c = [i \in 0 .. n |-> c[i]]
    BY <1>8 DEF StepOf, n
  <2> QED
    BY <2>4, <2>5
<1> QED
  BY <1>7, <1>8, <1>9 DEF n

LEMMA UnpairedEmpty == Unpaired(<<>>) = <<>>
<1>1. <<>> \in Chars /\ Len(<<>>) = 0
  BY EmptySeq DEF Chars
<1>2. PICK f : StepOf(<<>>, f) /\ Unpaired(<<>>) = f[0]
  BY <1>1, UnpairedIs
<1>3. f[0] = <<>>
  <2>1. 0 \in 0 .. Len(<<>>)
    BY <1>1
  <2> QED
    BY <1>2, <2>1 DEF StepOf
<1> QED
  BY <1>2, <1>3

(* In a part of a line, a quote opens a pair by the quotes before it in the *)
(* line.                                                                    *)
LEMMA OpensInPart ==
    ASSUME NEW l \in Chars, NEW b \in 1 .. Len(l) + 1, NEW e \in b - 1 .. Len(l),
           NEW i \in 1 .. e - b + 1
    PROVE  OpensPair(SubSeq(l, b, e), i)
             <=> /\ l[b + i - 1] = Quote
                 /\ QuotesBefore(l, b + i - 1) % 2 = QuotesBefore(l, b) % 2
<1> DEFINE s == SubSeq(l, b, e)
           x == QuotesBefore(l, b + i - 1)
           y == QuotesBefore(l, b)
<1>1. Len(l) \in Nat /\ b \in Nat \ {0} /\ b + i - 1 \in Nat \ {0} /\ i \in 1 .. e - b + 2
  BY DEF Chars
<1>2. s[i] = l[b + i - 1]
  BY PartOf
<1>3. QuotesBefore(s, i) = x - y
  BY <1>1, QuotesShift
<1>4. x \in Nat /\ y \in Nat
  BY <1>1, QuotesStep
<1> HIDE DEF x, y
<1>5. (x - y) % 2 = 0 <=> x % 2 = y % 2
  BY <1>4, Parity
<1> HIDE DEF s
<1>6. OpensPair(s, i) <=> l[b + i - 1] = Quote /\ x % 2 = y % 2
  BY <1>2, <1>3, <1>5 DEF OpensPair
<1> QED
  BY <1>6 DEF x, y, s

LEMMA UnpairedGrows ==
    ASSUME NEW l \in Chars, NEW b \in 1 .. Len(l), NEW e \in b .. Len(l)
    PROVE  /\ Unpaired(SubSeq(l, b, e - 1)) \in Chars
           /\ Unpaired(SubSeq(l, b, e)) =
                IF l[e] = Quote /\ QuotesBefore(l, e) % 2 = QuotesBefore(l, b) % 2
                THEN Unpaired(SubSeq(l, b, e - 1))
                ELSE Append(Unpaired(SubSeq(l, b, e - 1)), l[e])
<1> DEFINE r == SubSeq(l, b, e - 1)
           s == SubSeq(l, b, e)
           m == e - b
<1>1. /\ Len(l) \in Nat /\ e \in 1 .. Len(l) /\ e - 1 \in b - 1 .. Len(l)
      /\ e \in b - 1 .. Len(l) /\ b \in 1 .. Len(l) + 1
      /\ (e - 1) - b + 1 = m /\ e - b + 1 = m + 1 /\ m \in Nat /\ b + (m + 1) - 1 = e
  BY DEF Chars
<1>2. /\ r \in Chars /\ Len(r) = m
      /\ \A i \in 1 .. m : r[i] = l[b + i - 1]
  <2>1. /\ r \in Chars /\ Len(r) = (e - 1) - b + 1
        /\ \A i \in 1 .. (e - 1) - b + 1 : r[i] = l[b + i - 1]
    BY <1>1, PartOf
  <2> HIDE DEF r, m
  <2> QED
    BY <1>1, <2>1
<1>3. /\ s \in Chars /\ Len(s) = m + 1
      /\ \A i \in 1 .. m + 1 : s[i] = l[b + i - 1]
  <2>1. /\ s \in Chars /\ Len(s) = e - b + 1
        /\ \A i \in 1 .. e - b + 1 : s[i] = l[b + i - 1]
    BY <1>1, PartOf
  <2> HIDE DEF s, m
  <2> QED
    BY <1>1, <2>1
<1>4. \A i \in 1 .. m : OpensPair(r, i) <=> /\ l[b + i - 1] = Quote
                          /\ QuotesBefore(l, b + i - 1) % 2 = QuotesBefore(l, b) % 2
  <2>1. \A i \in 1 .. (e - 1) - b + 1 : OpensPair(r, i) <=> /\ l[b + i - 1] = Quote
                          /\ QuotesBefore(l, b + i - 1) % 2 = QuotesBefore(l, b) % 2
    BY <1>1, OpensInPart
  <2> HIDE DEF r, m
  <2> QED
    BY <1>1, <2>1
<1>5. \A i \in 1 .. m + 1 : OpensPair(s, i) <=> /\ l[b + i - 1] = Quote
                          /\ QuotesBefore(l, b + i - 1) % 2 = QuotesBefore(l, b) % 2
  <2>1. \A i \in 1 .. e - b + 1 : OpensPair(s, i) <=> /\ l[b + i - 1] = Quote
                          /\ QuotesBefore(l, b + i - 1) % 2 = QuotesBefore(l, b) % 2
    BY <1>1, OpensInPart
  <2> HIDE DEF s, m
  <2> QED
    BY <1>1, <2>1
<1> HIDE DEF r, s, m
<1>6. PICK f \in [0 .. m -> Chars] : StepOf(r, f) /\ Unpaired(r) = f[m]
  BY <1>2, UnpairedIs
<1>7. PICK g \in [0 .. m + 1 -> Chars] : StepOf(s, g) /\ Unpaired(s) = g[m + 1]
  BY <1>3, UnpairedIs
<1>8. \A k \in 0 .. m : f[k] = IF k = 0 THEN <<>>
                ELSE IF OpensPair(r, k) THEN f[k - 1] ELSE Append(f[k - 1], r[k])
  BY <1>2, <1>6 DEF StepOf
<1>9. \A k \in 0 .. m + 1 : g[k] = IF k = 0 THEN <<>>
                ELSE IF OpensPair(s, k) THEN g[k - 1] ELSE Append(g[k - 1], s[k])
  BY <1>3, <1>7 DEF StepOf
<1> DEFINE P == {k \in 0 .. m : f[k] = g[k]}
<1>10. 0 \in P
  <2>1. 0 \in 0 .. m /\ 0 \in 0 .. m + 1
    BY <1>1
  <2> QED
    BY <1>8, <1>9, <2>1
<1>11. ASSUME NEW k \in 1 .. m, k - 1 \in P
       PROVE  k \in P
  <2>1. k \in 0 .. m /\ k \in 0 .. m + 1 /\ k \in 1 .. m + 1 /\ k # 0
    BY <1>1
  <2>2. (OpensPair(r, k) <=> OpensPair(s, k)) /\ r[k] = s[k] /\ f[k - 1] = g[k - 1]
    BY <1>2, <1>3, <1>4, <1>5, <1>11, <2>1
  <2> QED
    BY <1>8, <1>9, <2>1, <2>2
<1>12. m \in P
  <2> HIDE DEF P
  <2>1. 0 .. m \subseteq P
    BY <1>1, <1>10, <1>11, InductionUpTo
  <2>2. m \in 0 .. m
    BY <1>1
  <2> QED
    BY <2>1, <2>2
<1>13. g[m] = Unpaired(r) /\ Unpaired(r) \in Chars
  BY <1>1, <1>6, <1>12
<1>14. m + 1 \in 0 .. m + 1 /\ m + 1 \in 1 .. m + 1 /\ m + 1 # 0 /\ (m + 1) - 1 = m
  BY <1>1
<1>15. Unpaired(s) = IF OpensPair(s, m + 1) THEN Unpaired(r) ELSE Append(Unpaired(r), s[m + 1])
  BY <1>7, <1>9, <1>13, <1>14
<1>16. s[m + 1] = l[e] /\ (OpensPair(s, m + 1) <=>
          l[e] = Quote /\ QuotesBefore(l, e) % 2 = QuotesBefore(l, b) % 2)
  BY <1>1, <1>3, <1>5, <1>14
<1> QED
  BY <1>13, <1>15, <1>16 DEF r, s

(* Where the field begins that is under construction at p.                  *)
Passed(l, p) == {i \in Separators(l) : i < p}

LEMMA PassedIs ==
    ASSUME NEW l \in Chars
    PROVE  /\ Separators(l) \subseteq 1 .. Len(l)
           /\ Ends(l) \subseteq Nat /\ IsFiniteSet(Ends(l))
           /\ \A p : IsFiniteSet(Passed(l, p)) /\ Cardinality(Passed(l, p)) \in Nat
           /\ Passed(l, 1) = {}
           /\ \A p \in 1 .. Len(l) :
                Passed(l, p + 1) = IF p \in Separators(l) THEN Passed(l, p) \cup {p}
                                   ELSE Passed(l, p)
           /\ \A p : p \notin Passed(l, p)
<1>1. Len(l) \in Nat /\ DOMAIN l = 1 .. Len(l)
  BY DEF Chars
<1>2. Separators(l) \subseteq 1 .. Len(l)
  BY <1>1 DEF Separators
<1>3. IsFiniteSet(1 .. Len(l))
  BY <1>1, FS_Interval
<1>4. IsFiniteSet(Separators(l))
  BY <1>2, <1>3, FS_Subset
<1>5. IsFiniteSet(Ends(l)) /\ Ends(l) \subseteq Nat
  BY <1>1, <1>2, <1>4, FS_AddElement DEF Ends
<1>6. \A p : IsFiniteSet(Passed(l, p)) /\ Cardinality(Passed(l, p)) \in Nat
  <2>1. \A p : IsFiniteSet(Passed(l, p))
    BY <1>4, FS_Subset DEF Passed
  <2> QED
    BY <2>1, FS_CardinalityType
<1>7. \A i \in Separators(l) : i \in Int /\ 1 <= i /\ ~(i < i)
  BY <1>1, <1>2
<1>8. Passed(l, 1) = {}
  BY <1>7 DEF Passed
<1>9. ASSUME NEW p \in 1 .. Len(l)
      PROVE  Passed(l, p + 1) = IF p \in Separators(l) THEN Passed(l, p) \cup {p}
                                ELSE Passed(l, p)
  <2>1. \A i \in Separators(l) : i < p + 1 <=> i < p \/ i = p
    BY <1>1, <1>7
  <2> QED
    BY <2>1 DEF Passed
<1>10. \A p : p \notin Passed(l, p)
  BY <1>7 DEF Passed
<1> QED
  BY <1>2, <1>5, <1>6, <1>8, <1>9, <1>10

LEMMA BeginIs ==
    ASSUME NEW l \in Chars, NEW p \in 1 .. Len(l) + 1
    PROVE  /\ Begin(l, p) \in 1 .. p
           /\ QuotesBefore(l, Begin(l, p)) % 2 = 0
           /\ \A i \in Separators(l) : i < p => i < Begin(l, p)
<1> DEFINE S == {0} \cup Passed(l, p)
           m == Max(S)
<1>1. Len(l) \in Nat /\ Separators(l) \subseteq 1 .. Len(l)
  BY PassedIs DEF Chars
<1>2. S \subseteq 0 .. p - 1 /\ 0 \in S /\ p - 1 \in Nat
  BY <1>1 DEF Passed
<1>3. m \in S /\ \A y \in S : m >= y
  <2> HIDE DEF S
  <2> QED
    BY <1>2, MaxIs
<1>4. Begin(l, p) = m + 1
  BY DEF Begin, Passed
<1> HIDE DEF m
<1>5. m + 1 \in 1 .. p
  <2> HIDE DEF S
  <2> QED
    BY <1>2, <1>3
<1>6. QuotesBefore(l, m + 1) % 2 = 0
  <2>1. CASE m = 0
    <3>1. QuotesBefore(l, 1) = 0 /\ 0 % 2 = 0 /\ m + 1 = 1
      BY <2>1, QuotesStep
    <3> QED
      BY <3>1
  <2>2. CASE m \in Separators(l)
    <3>1. m \in Nat \ {0} /\ l[m] = Comma /\ QuotesBefore(l, m) % 2 = 0
      BY <1>1, <2>2 DEF Separators
    <3>2. Comma # Quote
      BY DEF Comma, Quote
    <3> QED
      BY <3>1, <3>2, QuotesBeforeIs
  <2> QED
    BY <1>3, <2>1, <2>2 DEF Passed
<1>7. \A i \in Separators(l) : i < p => i < m + 1
  <2>1. \A i \in Separators(l) : i < p => m >= i /\ i \in Int /\ m \in Int
    <3>1. m \in Int
      <4> HIDE DEF S
      <4> QED
        BY <1>2, <1>3
    <3> QED
      BY <1>1, <1>3, <3>1 DEF Passed
  <2> QED
    BY <2>1
<1> QED
  BY <1>4, <1>5, <1>6, <1>7

LEMMA BeginNext ==
    ASSUME NEW l \in Chars, NEW p \in 1 .. Len(l)
    PROVE  Begin(l, p + 1) = IF p \in Separators(l) THEN p + 1 ELSE Begin(l, p)
<1>1. CASE p \notin Separators(l)
  <2>1. Passed(l, p + 1) = Passed(l, p)
    BY <1>1, PassedIs
  <2> QED
    BY <1>1, <2>1 DEF Begin, Passed
<1>2. CASE p \in Separators(l)
  <2>1. p + 1 \in 1 .. Len(l) + 1 /\ Len(l) \in Nat /\ p < p + 1 /\ p \in Int
    BY DEF Chars
  <2>2. Begin(l, p + 1) \in 1 .. p + 1 /\ p < Begin(l, p + 1)
    BY <1>2, <2>1, BeginIs
  <2>3. Begin(l, p + 1) = p + 1
    BY <2>1, <2>2
  <2> QED
    BY <1>2, <2>3
<1> QED
  BY <1>1, <1>2

(* What a chunk of a line is, said of the line.                             *)
LEMMA PlainPart ==
    ASSUME NEW l \in Chars, NEW b \in 1 .. Len(l) + 1, NEW e \in b .. Len(l) + 1
    PROVE  IsPlain(SubSeq(l, b, e - 1)) <=> \A i \in b .. e - 1 : l[i] # Quote
<1> DEFINE s == SubSeq(l, b, e - 1)
<1>1. Len(l) \in Nat /\ e - 1 \in b - 1 .. Len(l) /\ (e - 1) - b + 1 = e - b
  BY DEF Chars
<1>2. Len(s) = e - b /\ \A i \in 1 .. e - b : s[i] = l[b + i - 1]
  <2>1. Len(s) = (e - 1) - b + 1 /\ \A i \in 1 .. (e - 1) - b + 1 : s[i] = l[b + i - 1]
    BY <1>1, PartOf
  <2> HIDE DEF s
  <2> QED
    BY <1>1, <2>1
<1>3. IsPlain(s) <=> \A i \in 1 .. e - b : l[b + i - 1] # Quote
  <2> HIDE DEF s
  <2> QED
    BY <1>2 DEF IsPlain, Contains
<1>4. (\A i \in 1 .. e - b : l[b + i - 1] # Quote) <=> \A i \in b .. e - 1 : l[i] # Quote
  <2>1. ASSUME \A i \in 1 .. e - b : l[b + i - 1] # Quote, NEW i \in b .. e - 1
        PROVE  l[i] # Quote
    <3>1. i - b + 1 \in 1 .. e - b /\ b + (i - b + 1) - 1 = i
      BY <1>1
    <3> QED
      BY <2>1, <3>1
  <2>2. ASSUME \A i \in b .. e - 1 : l[i] # Quote, NEW i \in 1 .. e - b
        PROVE  l[b + i - 1] # Quote
    <3>1. b + i - 1 \in b .. e - 1
      BY <1>1
    <3> QED
      BY <2>2, <3>1
  <2> QED
    BY <2>1, <2>2
<1> QED
  BY <1>3, <1>4

LEMMA InnerPart ==
    ASSUME NEW l \in Chars, NEW b \in 1 .. Len(l) + 1, NEW e \in b + 2 .. Len(l) + 1
    PROVE  Inner(SubSeq(l, b, e - 1)) = SubSeq(l, b + 1, e - 2)
<1> DEFINE s == SubSeq(l, b, e - 1)
           m == e - b
           t == SubSeq(s, 2, m - 1)
           u == SubSeq(l, b + 1, e - 2)
<1>1. /\ Len(l) \in Nat /\ e - 1 \in b - 1 .. Len(l) /\ (e - 1) - b + 1 = m
      /\ b + 1 \in 1 .. Len(l) + 1 /\ e - 2 \in (b + 1) - 1 .. Len(l)
      /\ (e - 2) - (b + 1) + 1 = m - 2 /\ m \in Nat
  BY DEF Chars
<1>2. s \in Chars /\ Len(s) = m /\ \A i \in 1 .. m : s[i] = l[b + i - 1]
  <2>1. s \in Chars /\ Len(s) = (e - 1) - b + 1 /\ \A i \in 1 .. (e - 1) - b + 1 : s[i] = l[b + i - 1]
    BY <1>1, PartOf
  <2> HIDE DEF s, m
  <2> QED
    BY <1>1, <2>1
<1>3. u \in Chars /\ Len(u) = m - 2 /\ \A i \in 1 .. m - 2 : u[i] = l[(b + 1) + i - 1]
  <2>1. u \in Chars /\ Len(u) = (e - 2) - (b + 1) + 1
        /\ \A i \in 1 .. (e - 2) - (b + 1) + 1 : u[i] = l[(b + 1) + i - 1]
    BY <1>1, PartOf
  <2> HIDE DEF u, m
  <2> QED
    BY <1>1, <2>1
<1>4. t \in Chars /\ Len(t) = m - 2 /\ \A i \in 1 .. m - 2 : t[i] = s[2 + i - 1]
  <2>1. 2 \in 1 .. Len(s) + 1 /\ m - 1 \in 2 - 1 .. Len(s) /\ (m - 1) - 2 + 1 = m - 2
    <3> HIDE DEF s
    <3> QED
      BY <1>1, <1>2
  <2>2. t \in Chars /\ Len(t) = (m - 1) - 2 + 1
        /\ \A i \in 1 .. (m - 1) - 2 + 1 : t[i] = s[2 + i - 1]
    <3> HIDE DEF s, m
    <3> QED
      BY <1>2, <2>1, PartOf
  <2> HIDE DEF t, s, m
  <2> QED
    BY <2>1, <2>2
<1>5. Inner(s) = t
  <2> HIDE DEF s
  <2> QED
    BY <1>2 DEF Inner
<1>6. \A i \in 1 .. m - 2 : t[i] = u[i]
  <2> SUFFICES ASSUME NEW i \in 1 .. m - 2 PROVE t[i] = u[i]
    OBVIOUS
  <2>1. i + 1 \in 1 .. m /\ 2 + i - 1 = i + 1 /\ b + (i + 1) - 1 = (b + 1) + i - 1
    BY <1>1
  <2> HIDE DEF s, t, u, m
  <2> QED
    BY <1>2, <1>3, <1>4, <2>1
<1> HIDE DEF t, u
<1>7. t = u
  <2>1. t = [i \in 1 .. Len(t) |-> t[i]] /\ u = [i \in 1 .. Len(u) |-> u[i]]
    BY <1>3, <1>4, LenProperties DEF Chars
  <2> QED
    BY <1>3, <1>4, <1>6, <2>1
<1> QED
  BY <1>5, <1>7 DEF s, t, u

LEMMA QuotedPart ==
    ASSUME NEW l \in Chars, NEW b \in 1 .. Len(l) + 1, NEW e \in b .. Len(l) + 1,
           IsQuoted(SubSeq(l, b, e - 1))
    PROVE  /\ b + 2 <= e /\ l[b] = Quote
           /\ \A i \in b + 1 .. e - 2 :
                l[i] = Quote /\ QuotesBefore(l, i) % 2 = QuotesBefore(l, b + 1) % 2
                  => i < e - 2 /\ l[i + 1] = Quote
<1> DEFINE s == SubSeq(l, b, e - 1)
           t == SubSeq(l, b + 1, e - 2)
<1>1. Len(l) \in Nat /\ e - 1 \in b - 1 .. Len(l) /\ (e - 1) - b + 1 = e - b
  BY DEF Chars
<1>2. Len(s) = e - b /\ \A i \in 1 .. e - b : s[i] = l[b + i - 1]
  <2>1. Len(s) = (e - 1) - b + 1 /\ \A i \in 1 .. (e - 1) - b + 1 : s[i] = l[b + i - 1]
    BY <1>1, PartOf
  <2> HIDE DEF s
  <2> QED
    BY <1>1, <2>1
<1>3. /\ Len(s) >= 2 /\ s[1] = Quote
      /\ \A i \in DOMAIN Inner(s) : OpensPair(Inner(s), i) =>
            i < Len(Inner(s)) /\ Inner(s)[i + 1] = Quote
  BY DEF IsQuoted
<1>4. b + 2 <= e /\ l[b] = Quote
  <2>1. b + 2 <= e /\ 1 \in 1 .. e - b /\ b + 1 - 1 = b
    <3> HIDE DEF s
    <3> QED
      BY <1>1, <1>2, <1>3
  <2> QED
    BY <1>2, <1>3, <2>1
<1>5. Inner(s) = t
  <2>1. e \in b + 2 .. Len(l) + 1
    BY <1>1, <1>4
  <2> QED
    BY <2>1, InnerPart
<1>6. ASSUME NEW i \in b + 1 .. e - 2, l[i] = Quote,
             QuotesBefore(l, i) % 2 = QuotesBefore(l, b + 1) % 2
      PROVE  i < e - 2 /\ l[i + 1] = Quote
  <2> DEFINE c == b + 1
             d == e - 2
             k == i - b
  <2>1. /\ c \in 1 .. Len(l) + 1 /\ d \in c - 1 .. Len(l)
        /\ k \in 1 .. d - c + 1 /\ c + k - 1 = i /\ d - c + 1 = e - b - 2
        /\ c + (k + 1) - 1 = i + 1
    BY <1>1, <1>4
  <2>2. OpensPair(t, k)
    <3>1. OpensPair(SubSeq(l, c, d), k)
      <4> HIDE DEF c, d, k
      <4>1. l[c + k - 1] = Quote /\ QuotesBefore(l, c + k - 1) % 2 = QuotesBefore(l, c) % 2
        BY <1>6, <2>1 DEF c
      <4> QED
        BY <2>1, <4>1, OpensInPart
    <3> QED
      BY <3>1
  <2>3. /\ t \in Chars /\ Len(t) = d - c + 1
        /\ \A j \in 1 .. d - c + 1 : t[j] = l[c + j - 1]
    BY <2>1, PartOf
  <2>4. k \in DOMAIN t
    <3> HIDE DEF t, c, d, k
    <3> QED
      BY <2>1, <2>3, LenProperties DEF Chars
  <2>5. k < Len(t) /\ t[k + 1] = Quote
    BY <1>3, <1>5, <2>2, <2>4
  <2>6. k + 1 \in 1 .. d - c + 1 /\ i < e - 2
    <3> HIDE DEF t
    <3> QED
      BY <1>1, <2>1, <2>3, <2>5
  <2>7. t[k + 1] = l[i + 1]
    <3> HIDE DEF t, c, d, k
    <3> QED
      BY <2>1, <2>3, <2>6
  <2> QED
    BY <2>5, <2>6, <2>7
<1> QED
  BY <1>4, <1>6

(* A field that begins at b and cannot become a plain one any more, nor a   *)
(* properly quoted one.                                                     *)
Mangled(l, b, p) ==
    \/ l[b] # Quote /\ \E i \in b .. p - 1 : l[i] = Quote
    \/ /\ b < p /\ l[b] = Quote
       /\ \E i \in b + 1 .. p - 2 :
            l[i] = Quote /\ QuotesBefore(l, i) % 2 = 1 /\ l[i + 1] # Quote

LEMMA MangledStays ==
    ASSUME NEW l \in Chars, NEW b \in 1 .. Len(l) + 1, NEW p \in b .. Len(l) + 1,
           NEW e \in p .. Len(l) + 1, Mangled(l, b, p), QuotesBefore(l, b) % 2 = 0
    PROVE  Mangled(l, b, e) /\ ~IsPlain(SubSeq(l, b, e - 1)) /\ ~IsQuoted(SubSeq(l, b, e - 1))
<1>1. Len(l) \in Nat /\ e \in b .. Len(l) + 1 /\ b .. p - 1 \subseteq b .. e - 1
      /\ b + 1 .. p - 2 \subseteq b + 1 .. e - 2 /\ (b < p => b < e)
  BY DEF Chars
<1>2. Mangled(l, b, e)
  BY <1>1 DEF Mangled
<1>3. ~IsPlain(SubSeq(l, b, e - 1))
  <2>1. \E i \in b .. e - 1 : l[i] = Quote
    <3>1. b < p => b \in b .. e - 1
      BY <1>1
    <3> QED
      BY <1>1, <3>1 DEF Mangled
  <2> QED
    BY <1>1, <2>1, PlainPart
<1>4. ASSUME IsQuoted(SubSeq(l, b, e - 1))
      PROVE  FALSE
  <2>1. /\ l[b] = Quote
        /\ \A i \in b + 1 .. e - 2 :
                l[i] = Quote /\ QuotesBefore(l, i) % 2 = QuotesBefore(l, b + 1) % 2
                  => l[i + 1] = Quote
    BY <1>1, <1>4, QuotedPart
  <2>2. QuotesBefore(l, b + 1) % 2 = 1
    <3>1. b \in Nat \ {0}
      BY <1>1
    <3>2. QuotesBefore(l, b + 1) % 2 = IF QuotesBefore(l, b) % 2 = 0 THEN 1 ELSE 0
      BY <2>1, <3>1, QuotesBeforeIs
    <3> QED
      BY <3>2
  <2> QED
    BY <1>1, <2>1, <2>2 DEF Mangled
<1> QED
  BY <1>2, <1>3, <1>4

-----------------------------------------------------------------------------
(* A finished field is what the chunk it comes from says.                   *)
Right(l, b, e, f) ==
    LET chunk == SubSeq(l, b, e - 1) IN
    IsPlain(chunk) \/ IsQuoted(chunk) => f = Unquoted(chunk)

(* The field under construction, which begins at b: a plain one so far, one *)
(* inside its quotes, one whose quotes were closed just now, or neither.    *)
PlainSoFar(l, b, p, f, q) ==
    ~q /\ (\A i \in b .. p - 1 : l[i] # Quote) /\ f = SubSeq(l, b, p - 1)
InsideQuotes(l, b, p, f, q) ==
    q /\ b < p /\ l[b] = Quote /\ f = Unpaired(SubSeq(l, b + 1, p - 1))
QuotesClosed(l, b, p, f, q) ==
    /\ ~q /\ b + 1 < p /\ l[b] = Quote /\ l[p - 1] = Quote
    /\ f = Unpaired(SubSeq(l, b + 1, p - 2))
    /\ p <= Len(l) => l[p] # Quote
Phase(l, b, p, f, q) ==
    \/ PlainSoFar(l, b, p, f, q) \/ InsideQuotes(l, b, p, f, q)
    \/ QuotesClosed(l, b, p, f, q) \/ Mangled(l, b, p)

FieldsRight(l, fs) ==
    \A k \in 1 .. Len(fs) :
        Right(l, Begin(l, Nth(Ends(l), k)), Nth(Ends(l), k), fs[k])

Machine(l, p, f, q, fs) ==
    /\ p \in 1 .. Len(l) + 1 /\ f \in Chars /\ fs \in Seq(Chars)
    /\ q \in BOOLEAN /\ (q <=> QuotesBefore(l, p) % 2 = 1)
    /\ Len(fs) = Cardinality(Passed(l, p))
    /\ FieldsRight(l, fs)
    /\ Phase(l, Begin(l, p), p, f, q)

LEMMA MachineStarts ==
    ASSUME NEW l \in Chars
    PROVE  Machine(l, 1, <<>>, FALSE, <<>>)
<1>1. /\ Len(l) \in Nat /\ 1 \in 1 .. Len(l) + 1 /\ <<>> \in Chars /\ <<>> \in Seq(Chars)
      /\ Len(<<>>) = 0
  BY EmptySeq DEF Chars
<1>2. ~(QuotesBefore(l, 1) % 2 = 1)
  <2>1. QuotesBefore(l, 1) = 0 /\ 0 % 2 = 0
    BY QuotesStep
  <2> QED
    BY <2>1
<1>3. Cardinality(Passed(l, 1)) = 0
  BY PassedIs, FS_EmptySet
<1>4. FieldsRight(l, <<>>)
  BY <1>1 DEF FieldsRight
<1>5. Begin(l, 1) = 1
  BY <1>1, BeginIs
<1>6. PlainSoFar(l, 1, 1, <<>>, FALSE)
  <2>1. SubSeq(l, 1, 1 - 1) \in Chars /\ Len(SubSeq(l, 1, 1 - 1)) = 0
    <3>1. 1 - 1 \in 1 - 1 .. Len(l) /\ (1 - 1) - 1 + 1 = 0
      BY <1>1
    <3>2. /\ SubSeq(l, 1, 1 - 1) \in Chars
          /\ Len(SubSeq(l, 1, 1 - 1)) = (1 - 1) - 1 + 1
      BY <1>1, <3>1, PartOf
    <3> QED
      BY <3>1, <3>2
  <2>2. SubSeq(l, 1, 1 - 1) = <<>>
    BY <2>1, EmptySeq DEF Chars
  <2> QED
    BY <2>2 DEF PlainSoFar
<1> QED
  BY <1>1, <1>2, <1>3, <1>4, <1>5, <1>6 DEF Machine, Phase

(* An empty part of a line.                                                 *)
LEMMA NoPart ==
    ASSUME NEW l \in Chars, NEW b \in 1 .. Len(l) + 1
    PROVE  SubSeq(l, b, b - 1) = <<>>
<1>1. Len(l) \in Nat /\ b - 1 \in b - 1 .. Len(l) /\ (b - 1) - b + 1 = 0
  BY DEF Chars
<1>2. SubSeq(l, b, b - 1) \in Chars /\ Len(SubSeq(l, b, b - 1)) = (b - 1) - b + 1
  BY <1>1, PartOf
<1> QED
  BY <1>1, <1>2, EmptySeq DEF Chars

(* A step that ends no field keeps the fields, their count and where the    *)
(* current one begins.                                                      *)
LEMMA SameField ==
    ASSUME NEW l \in Chars, NEW p \in 1 .. Len(l), p \notin Separators(l)
    PROVE  Begin(l, p + 1) = Begin(l, p) /\ Passed(l, p + 1) = Passed(l, p)
BY BeginNext, PassedIs

\* Inside quotes, two quotes in a row.
LEMMA PairKeeps ==
    ASSUME NEW l \in Chars, NEW p, NEW f, NEW fs, Machine(l, p, f, TRUE, fs),
           p < Len(l), l[p] = Quote, l[p + 1] = Quote
    PROVE  Machine(l, p + 2, Append(f, Quote), TRUE, fs)
<1> DEFINE b == Begin(l, p)
           r == p + 1
<1>1. /\ Len(l) \in Nat /\ p \in 1 .. Len(l) /\ r \in 1 .. Len(l) /\ p \in 1 .. Len(l) + 1
      /\ r \in Nat \ {0} /\ p \in Nat \ {0} /\ r + 1 = p + 2 /\ p + 2 \in 1 .. Len(l) + 1
  BY DEF Machine, Chars
<1>2. p \notin Separators(l) /\ r \notin Separators(l)
  BY DEF Separators, Comma, Quote
<1>3. Begin(l, p + 2) = b /\ Passed(l, p + 2) = Passed(l, p)
  <2>1. Begin(l, r) = b /\ Passed(l, r) = Passed(l, p)
    BY <1>1, <1>2, SameField
  <2>2. Begin(l, r + 1) = Begin(l, r) /\ Passed(l, r + 1) = Passed(l, r)
    <3> HIDE DEF r
    <3> QED
      BY <1>1, <1>2, SameField
  <2> QED
    BY <1>1, <2>1, <2>2
<1>4. QuotesBefore(l, p) % 2 = 1 /\ QuotesBefore(l, r) % 2 = 0 /\ QuotesBefore(l, p + 2) % 2 = 1
  <2>1. QuotesBefore(l, p) % 2 = 1
    BY DEF Machine
  <2>2. QuotesBefore(l, r) % 2 = IF QuotesBefore(l, p) % 2 = 0 THEN 1 ELSE 0
    BY <1>1, QuotesBeforeIs
  <2>3. QuotesBefore(l, r + 1) % 2 = IF QuotesBefore(l, r) % 2 = 0 THEN 1 ELSE 0
    <3> HIDE DEF r
    <3> QED
      BY <1>1, QuotesBeforeIs DEF r
  <2> QED
    BY <1>1, <2>1, <2>2, <2>3
<1>5. Append(f, Quote) \in Chars
  <2>1. f \in Chars
    BY DEF Machine
  <2>2. Quote \in STRING
    BY <1>1, ElementOfSeq DEF Chars
  <2> QED
    BY <2>1, <2>2, AppendProperties DEF Chars
<1>6. b \in 1 .. p /\ QuotesBefore(l, b) % 2 = 0
  BY <1>1, BeginIs
<1>7. Phase(l, b, p + 2, Append(f, Quote), TRUE)
  <2>1. CASE InsideQuotes(l, b, p, f, TRUE)
    <3> HIDE DEF b
    <3> DEFINE c == b + 1
    <3>1. b < p /\ l[b] = Quote /\ f = Unpaired(SubSeq(l, c, p - 1))
      BY <2>1 DEF InsideQuotes
    <3>2. c \in 1 .. Len(l) /\ p \in c .. Len(l) /\ r \in c .. Len(l) /\ r - 1 = p
          /\ b < p + 2 /\ (p + 2) - 1 = r /\ b \in Nat \ {0}
      BY <1>1, <1>6, <3>1
    <3>3. QuotesBefore(l, c) % 2 = 1
      <4>1. QuotesBefore(l, c) % 2 = IF QuotesBefore(l, b) % 2 = 0 THEN 1 ELSE 0
        BY <3>1, <3>2, QuotesBeforeIs
      <4> QED
        BY <1>6, <4>1
    <3>4. Unpaired(SubSeq(l, c, p)) = f
      <4> HIDE DEF c
      <4> QED
        BY <1>4, <3>1, <3>2, <3>3, UnpairedGrows
    <3>5. Unpaired(SubSeq(l, c, r)) = Append(Unpaired(SubSeq(l, c, r - 1)), l[r])
      <4> HIDE DEF c, r
      <4>1. ~(l[r] = Quote /\ QuotesBefore(l, r) % 2 = QuotesBefore(l, c) % 2)
        BY <1>4, <3>3
      <4> QED
        BY <3>2, <4>1, UnpairedGrows
    <3>6. Unpaired(SubSeq(l, b + 1, (p + 2) - 1)) = Append(f, Quote)
      BY <3>2, <3>4, <3>5
    <3> QED
      BY <3>1, <3>2, <3>6 DEF Phase, InsideQuotes
  <2>2. CASE Mangled(l, b, p)
    <3>1. b \in 1 .. Len(l) + 1 /\ p \in b .. Len(l) + 1 /\ p + 2 \in p .. Len(l) + 1
      BY <1>1, <1>6
    <3> HIDE DEF b
    <3>2. Mangled(l, b, p + 2)
      BY <1>6, <2>2, <3>1, MangledStays
    <3> QED
      BY <3>2 DEF Phase
  <2> QED
    BY <2>1, <2>2 DEF Machine, Phase, PlainSoFar, QuotesClosed
<1> QED
  BY <1>1, <1>3, <1>4, <1>5, <1>7 DEF Machine

\* Inside quotes, a single one.
LEMMA CloseKeeps ==
    ASSUME NEW l \in Chars, NEW p, NEW f, NEW fs, Machine(l, p, f, TRUE, fs),
           p <= Len(l), l[p] = Quote, p < Len(l) => l[p + 1] # Quote
    PROVE  Machine(l, p + 1, f, FALSE, fs)
<1> DEFINE b == Begin(l, p)
<1>1. /\ Len(l) \in Nat /\ p \in 1 .. Len(l) /\ p \in 1 .. Len(l) + 1
      /\ p \in Nat \ {0} /\ p + 1 \in 1 .. Len(l) + 1
  BY DEF Machine, Chars
<1>2. p \notin Separators(l)
  BY DEF Separators, Comma, Quote
<1>3. Begin(l, p + 1) = b /\ Passed(l, p + 1) = Passed(l, p)
  BY <1>1, <1>2, SameField
<1>4. QuotesBefore(l, p + 1) % 2 = 0
  <2>1. QuotesBefore(l, p) % 2 = 1
    BY DEF Machine
  <2>2. QuotesBefore(l, p + 1) % 2 = IF QuotesBefore(l, p) % 2 = 0 THEN 1 ELSE 0
    BY <1>1, QuotesBeforeIs
  <2> QED
    BY <2>1, <2>2
<1>5. b \in 1 .. p /\ QuotesBefore(l, b) % 2 = 0
  BY <1>1, BeginIs
<1>6. Phase(l, b, p + 1, f, FALSE)
  <2>1. CASE InsideQuotes(l, b, p, f, TRUE)
    <3> HIDE DEF b
    <3>1. b < p /\ l[b] = Quote /\ f = Unpaired(SubSeq(l, b + 1, p - 1))
      BY <2>1 DEF InsideQuotes
    <3>2. b + 1 < p + 1 /\ (p + 1) - 1 = p /\ (p + 1) - 2 = p - 1
          /\ (p + 1 <= Len(l) => p < Len(l))
      BY <1>1, <1>5, <3>1
    <3> QED
      BY <3>1, <3>2 DEF Phase, QuotesClosed
  <2>2. CASE Mangled(l, b, p)
    <3>1. b \in 1 .. Len(l) + 1 /\ p \in b .. Len(l) + 1 /\ p + 1 \in p .. Len(l) + 1
      BY <1>1, <1>5
    <3> HIDE DEF b
    <3>2. Mangled(l, b, p + 1)
      BY <1>5, <2>2, <3>1, MangledStays
    <3> QED
      BY <3>2 DEF Phase
  <2> QED
    BY <2>1, <2>2 DEF Machine, Phase, PlainSoFar, QuotesClosed
<1>7. ~(QuotesBefore(l, p + 1) % 2 = 1)
  BY <1>4
<1> QED
  BY <1>1, <1>3, <1>6, <1>7 DEF Machine

\* A character of the field.
LEMMA CharacterKeeps ==
    ASSUME NEW l \in Chars, NEW p, NEW f, NEW q, NEW fs, Machine(l, p, f, q, fs),
           p <= Len(l), l[p] # Quote, q \/ l[p] # Comma
    PROVE  Machine(l, p + 1, Append(f, l[p]), q, fs)
<1> DEFINE b == Begin(l, p)
           g == Append(f, l[p])
<1>1. /\ Len(l) \in Nat /\ p \in 1 .. Len(l) /\ p \in 1 .. Len(l) + 1
      /\ p \in Nat \ {0} /\ p + 1 \in 1 .. Len(l) + 1
  BY DEF Machine, Chars
<1>2. p \notin Separators(l)
  <2>1. q => QuotesBefore(l, p) % 2 = 1
    BY DEF Machine
  <2> QED
    BY <2>1 DEF Separators
<1>3. Begin(l, p + 1) = b /\ Passed(l, p + 1) = Passed(l, p)
  BY <1>1, <1>2, SameField
<1>4. q \in BOOLEAN /\ (q <=> QuotesBefore(l, p + 1) % 2 = 1)
  <2>1. QuotesBefore(l, p + 1) % 2 = QuotesBefore(l, p) % 2
    BY <1>1, QuotesBeforeIs
  <2> QED
    BY <2>1 DEF Machine
<1>5. g \in Chars
  <2>1. f \in Chars
    BY DEF Machine
  <2>2. l[p] \in STRING
    BY <1>1, ElementOfSeq DEF Chars
  <2> QED
    BY <2>1, <2>2, AppendProperties DEF Chars
<1>6. b \in 1 .. p /\ QuotesBefore(l, b) % 2 = 0
  BY <1>1, BeginIs
<1> HIDE DEF b, g
<1>7. b \in 1 .. Len(l) /\ p \in b .. Len(l) /\ (p + 1) - 1 = p
  BY <1>1, <1>6
<1>8. Phase(l, b, p + 1, g, q)
  <2>1. CASE PlainSoFar(l, b, p, f, q)
    <3>1. \A i \in b .. (p + 1) - 1 : i = p \/ i \in b .. p - 1
      BY <1>7
    <3>2. \A i \in b .. (p + 1) - 1 : l[i] # Quote
      BY <2>1, <3>1 DEF PlainSoFar
    <3>3. g = SubSeq(l, b, (p + 1) - 1)
      BY <1>7, <2>1, PartGrows DEF PlainSoFar, g
    <3> QED
      BY <2>1, <3>2, <3>3 DEF Phase, PlainSoFar
  <2>2. CASE InsideQuotes(l, b, p, f, q)
    <3> DEFINE c == b + 1
    <3>1. q /\ b < p /\ l[b] = Quote /\ f = Unpaired(SubSeq(l, c, p - 1))
      BY <2>2 DEF InsideQuotes
    <3>2. c \in 1 .. Len(l) /\ p \in c .. Len(l) /\ b < p + 1
      BY <1>1, <1>7, <3>1
    <3>3. Unpaired(SubSeq(l, c, p)) = g
      <4> HIDE DEF c
      <4> QED
        BY <3>1, <3>2, UnpairedGrows DEF g
    <3> QED
      BY <1>7, <3>1, <3>2, <3>3 DEF Phase, InsideQuotes
  <2>3. CASE QuotesClosed(l, b, p, f, q)
    <3>1. ~q /\ b + 1 < p /\ l[b] = Quote /\ l[p - 1] = Quote
      BY <2>3 DEF QuotesClosed
    <3>2. /\ p - 1 \in b + 1 .. (p + 1) - 2 /\ b < p + 1 /\ (p - 1) + 1 = p
          /\ p - 1 \in Nat \ {0}
      BY <1>7, <3>1
    <3>3. QuotesBefore(l, p - 1) % 2 = 1
      <4>1. ~(QuotesBefore(l, p) % 2 = 1)
        BY <3>1 DEF Machine
      <4>2. QuotesBefore(l, (p - 1) + 1) % 2
              = IF QuotesBefore(l, p - 1) % 2 = 0 THEN 1 ELSE 0
        BY <3>1, <3>2, QuotesBeforeIs
      <4>3. QuotesBefore(l, p - 1) % 2 \in {0, 1}
        BY <3>2, QuotesBeforeIs
      <4> QED
        BY <3>2, <4>1, <4>2, <4>3
    <3>4. Mangled(l, b, p + 1)
      BY <3>1, <3>2, <3>3 DEF Mangled
    <3> QED
      BY <3>4 DEF Phase
  <2>4. CASE Mangled(l, b, p)
    <3>1. b \in 1 .. Len(l) + 1 /\ p \in b .. Len(l) + 1 /\ p + 1 \in p .. Len(l) + 1
      BY <1>1, <1>6
    <3>2. Mangled(l, b, p + 1)
      BY <1>6, <2>4, <3>1, MangledStays
    <3> QED
      BY <3>2 DEF Phase
  <2> QED
    BY <2>1, <2>2, <2>3, <2>4 DEF Machine, Phase, b
<1>9. p + 1 \in 1 .. Len(l) + 1
  BY <1>1
<1> QED
  BY <1>3, <1>4, <1>5, <1>8, <1>9 DEF Machine, g

\* A quote outside, after a field that is not there yet or was blank.
LEMMA OpenKeeps ==
    ASSUME NEW l \in Chars, NEW p, NEW f, NEW fs, Machine(l, p, f, FALSE, fs),
           p <= Len(l), l[p] = Quote
    PROVE  /\ Machine(l, p + 1, <<>>, TRUE, fs)
           /\ f # <<>> => Mangled(l, Begin(l, p), p + 1)
<1> DEFINE b == Begin(l, p)
<1>1. /\ Len(l) \in Nat /\ p \in 1 .. Len(l) /\ p \in 1 .. Len(l) + 1
      /\ p \in Nat \ {0} /\ p + 1 \in 1 .. Len(l) + 1
  BY DEF Machine, Chars
<1>2. p \notin Separators(l)
  BY DEF Separators, Comma, Quote
<1>3. Begin(l, p + 1) = b /\ Passed(l, p + 1) = Passed(l, p)
  BY <1>1, <1>2, SameField
<1>4. QuotesBefore(l, p + 1) % 2 = 1
  <2>1. ~(QuotesBefore(l, p) % 2 = 1)
    BY DEF Machine
  <2>2. QuotesBefore(l, p + 1) % 2 = IF QuotesBefore(l, p) % 2 = 0 THEN 1 ELSE 0
    BY <1>1, QuotesBeforeIs
  <2>3. QuotesBefore(l, p) % 2 \in {0, 1}
    BY <1>1, QuotesBeforeIs
  <2> QED
    BY <2>1, <2>2, <2>3
<1>5. <<>> \in Chars
  BY EmptySeq DEF Chars
<1>6. b \in 1 .. p /\ QuotesBefore(l, b) % 2 = 0
  BY <1>1, BeginIs
<1> HIDE DEF b
<1>7. \/ b = p
      \/ Mangled(l, b, p + 1)
  <2>1. CASE PlainSoFar(l, b, p, f, FALSE)
    <3>1. b < p => b \in b .. p - 1 /\ p \in b .. (p + 1) - 1
      BY <1>1, <1>6
    <3>2. b < p => Mangled(l, b, p + 1)
      BY <2>1, <3>1 DEF PlainSoFar, Mangled
    <3> QED
      BY <1>1, <1>6, <3>2
  <2>2. CASE Mangled(l, b, p)
    <3>1. b \in 1 .. Len(l) + 1 /\ p \in b .. Len(l) + 1 /\ p + 1 \in p .. Len(l) + 1
      BY <1>1, <1>6
    <3> QED
      BY <1>6, <2>2, <3>1, MangledStays
  <2> QED
    BY <2>1, <2>2 DEF Machine, Phase, InsideQuotes, QuotesClosed, b
<1>8. Phase(l, b, p + 1, <<>>, TRUE)
  <2>1. CASE b = p
    <3> DEFINE c == p + 1
    <3>1. SubSeq(l, c, c - 1) = <<>> /\ b < c
      <4>1. b < c
        BY <1>1, <2>1
      <4> HIDE DEF c
      <4> QED
        BY <1>1, <4>1, NoPart DEF c
    <3> QED
      BY <2>1, <3>1, UnpairedEmpty DEF Phase, InsideQuotes
  <2> QED
    BY <1>7, <2>1 DEF Phase
<1>9. f # <<>> => Mangled(l, b, p + 1)
  <2>1. CASE b = p
    <3>1. ~Mangled(l, b, p)
      <4>1. \A i \in b .. p - 1 : FALSE
        BY <1>1, <2>1
      <4>2. ~(b < p)
        BY <1>1, <2>1
      <4> QED
        BY <4>1, <4>2 DEF Mangled
    <3>2. ~(b + 1 < p)
      BY <1>1, <2>1
    <3>3. f = SubSeq(l, p, p - 1)
      BY <2>1, <3>1, <3>2 DEF Machine, Phase, InsideQuotes, QuotesClosed, PlainSoFar, b
    <3> QED
      BY <1>1, <3>3, NoPart
  <2> QED
    BY <1>7, <2>1
<1>10. p + 1 \in 1 .. Len(l) + 1
  BY <1>1
<1>11. Machine(l, p + 1, <<>>, TRUE, fs)
  <2>1. fs \in Seq(Chars) /\ Len(fs) = Cardinality(Passed(l, p)) /\ FieldsRight(l, fs)
    BY DEF Machine
  <2> QED
    BY <1>3, <1>4, <1>5, <1>8, <1>10, <2>1 DEF Machine
<1> QED
  BY <1>9, <1>11 DEF b

(* Where the chunk that ends at p stands among the chunks.                  *)
LEMMA RankOf ==
    ASSUME NEW l \in Chars, NEW p \in Ends(l)
    PROVE  /\ Cardinality(Passed(l, p)) + 1 \in 1 .. Cardinality(Ends(l))
           /\ Nth(Ends(l), Cardinality(Passed(l, p)) + 1) = p
<1>1. /\ Ends(l) \subseteq Nat /\ IsFiniteSet(Ends(l)) /\ Separators(l) \subseteq 1 .. Len(l)
      /\ IsFiniteSet(Passed(l, p)) /\ p \notin Passed(l, p)
      /\ Len(l) \in Nat /\ p \in Int
  BY PassedIs DEF Chars
<1>2. UpToIn(Ends(l), p) = Passed(l, p) \cup {p}
  <2>1. \A j \in Ends(l) : j <= p <=> (j \in Separators(l) /\ j < p) \/ j = p
    <3> SUFFICES ASSUME NEW j \in Ends(l)
                 PROVE  j <= p <=> (j \in Separators(l) /\ j < p) \/ j = p
      OBVIOUS
    <3>1. j \in Int /\ (j \in Separators(l) \/ j = Len(l) + 1) /\ p <= Len(l) + 1
      BY <1>1 DEF Ends
    <3> QED
      BY <1>1, <3>1
  <2>2. \A j \in Separators(l) : j \in Ends(l)
    BY DEF Ends
  <2> QED
    BY <2>1, <2>2 DEF UpToIn, Passed
<1>3. Cardinality(UpToIn(Ends(l), p)) = Cardinality(Passed(l, p)) + 1
  BY <1>1, <1>2, FS_AddElement
<1> QED
  BY <1>1, <1>3, NthOf

(* What has been collected when a field ends is what its chunk says.        *)
LEMMA FieldRight ==
    ASSUME NEW l \in Chars, NEW p, NEW f, NEW fs, Machine(l, p, f, FALSE, fs)
    PROVE  Right(l, Begin(l, p), p, f)
<1> DEFINE b == Begin(l, p)
           chunk == SubSeq(l, b, p - 1)
<1>1. Len(l) \in Nat /\ p \in 1 .. Len(l) + 1
  BY DEF Machine, Chars
<1>2. b \in 1 .. p /\ QuotesBefore(l, b) % 2 = 0
  BY <1>1, BeginIs
<1> HIDE DEF b
<1>3. b \in 1 .. Len(l) + 1 /\ p \in b .. Len(l) + 1
  BY <1>1, <1>2
<1>4. CASE PlainSoFar(l, b, p, f, FALSE)
  <2>1. IsPlain(chunk) /\ f = chunk
    BY <1>3, <1>4, PlainPart DEF PlainSoFar
  <2> QED
    BY <2>1 DEF Right, Unquoted, b
<1>5. CASE QuotesClosed(l, b, p, f, FALSE)
  <2>1. b + 1 < p /\ l[b] = Quote /\ f = Unpaired(SubSeq(l, b + 1, p - 2))
    BY <1>5 DEF QuotesClosed
  <2>2. p \in b + 2 .. Len(l) + 1 /\ b \in b .. p - 1
    BY <1>1, <1>3, <2>1
  <2>3. Inner(chunk) = SubSeq(l, b + 1, p - 2)
    BY <1>3, <2>2, InnerPart
  <2>4. ~IsPlain(chunk)
    BY <1>3, <2>1, <2>2, PlainPart
  <2> QED
    BY <2>1, <2>3, <2>4 DEF Right, Unquoted, b
<1>6. CASE Mangled(l, b, p)
  <2>1. ~IsPlain(chunk) /\ ~IsQuoted(chunk)
    <3>1. p \in p .. Len(l) + 1
      BY <1>1
    <3> QED
      BY <1>2, <1>3, <1>6, <3>1, MangledStays
  <2> QED
    BY <2>1 DEF Right, b
<1> QED
  BY <1>4, <1>5, <1>6 DEF Machine, Phase, InsideQuotes, b

\* One field more.
LEMMA FieldsGrow ==
    ASSUME NEW l \in Chars, NEW p \in Ends(l), NEW f, NEW fs, Machine(l, p, f, FALSE, fs)
    PROVE  /\ Append(fs, f) \in Seq(Chars)
           /\ Len(Append(fs, f)) = Cardinality(Passed(l, p)) + 1
           /\ FieldsRight(l, Append(fs, f))
<1> DEFINE gs == Append(fs, f)
           n == Cardinality(Passed(l, p))
<1>1. fs \in Seq(Chars) /\ f \in Chars /\ Len(fs) = n /\ FieldsRight(l, fs)
  BY DEF Machine
<1>2. n \in Nat
  BY PassedIs
<1> HIDE DEF n
<1>3. /\ gs \in Seq(Chars) /\ Len(gs) = n + 1 /\ gs[n + 1] = f
      /\ \A k \in 1 .. n : gs[k] = fs[k]
  BY <1>1, AppendProperties
<1>4. Nth(Ends(l), n + 1) = p
  BY RankOf DEF n
<1>5. Right(l, Begin(l, p), p, f)
  BY FieldRight
<1> HIDE DEF gs
<1>6. FieldsRight(l, gs)
  <2> SUFFICES ASSUME NEW k \in 1 .. n + 1
               PROVE  Right(l, Begin(l, Nth(Ends(l), k)), Nth(Ends(l), k), gs[k])
    BY <1>3 DEF FieldsRight
  <2>1. CASE k = n + 1
    BY <1>3, <1>4, <1>5, <2>1
  <2>2. CASE k # n + 1
    <3>1. k \in 1 .. n
      BY <1>2, <2>2
    <3> QED
      BY <1>1, <1>3, <3>1 DEF FieldsRight
  <2> QED
    BY <2>1, <2>2
<1> QED
  BY <1>3, <1>6 DEF gs, n

\* A comma outside.
LEMMA CommaKeeps ==
    ASSUME NEW l \in Chars, NEW p, NEW f, NEW fs, Machine(l, p, f, FALSE, fs),
           p <= Len(l), l[p] = Comma
    PROVE  Machine(l, p + 1, <<>>, FALSE, Append(fs, f))
<1>1. /\ Len(l) \in Nat /\ p \in 1 .. Len(l) /\ p \in Nat \ {0}
      /\ p + 1 \in 1 .. Len(l) + 1 /\ DOMAIN l = 1 .. Len(l)
  BY DEF Machine, Chars
<1>2. QuotesBefore(l, p) % 2 = 0
  <2>1. ~(QuotesBefore(l, p) % 2 = 1)
    BY DEF Machine
  <2>2. QuotesBefore(l, p) % 2 \in {0, 1}
    BY <1>1, QuotesBeforeIs
  <2> QED
    BY <2>1, <2>2
<1>3. p \in Separators(l) /\ p \in Ends(l)
  BY <1>1, <1>2 DEF Separators, Ends
<1>4. ~(QuotesBefore(l, p + 1) % 2 = 1)
  <2>1. l[p] # Quote
    BY DEF Comma, Quote
  <2>2. QuotesBefore(l, p + 1) % 2 = QuotesBefore(l, p) % 2
    BY <1>1, <2>1, QuotesBeforeIs
  <2> QED
    BY <1>2, <2>2
<1>5. Begin(l, p + 1) = p + 1
  BY <1>1, <1>3, BeginNext
<1>6. Cardinality(Passed(l, p + 1)) = Cardinality(Passed(l, p)) + 1
  <2>1. Passed(l, p + 1) = Passed(l, p) \cup {p} /\ p \notin Passed(l, p)
        /\ IsFiniteSet(Passed(l, p))
    BY <1>1, <1>3, PassedIs
  <2> QED
    BY <2>1, FS_AddElement
<1>7. /\ Append(fs, f) \in Seq(Chars)
      /\ Len(Append(fs, f)) = Cardinality(Passed(l, p)) + 1
      /\ FieldsRight(l, Append(fs, f))
  BY <1>3, FieldsGrow
<1>8. Phase(l, p + 1, p + 1, <<>>, FALSE)
  <2> DEFINE r == p + 1
  <2>1. SubSeq(l, r, r - 1) = <<>>
    <3> HIDE DEF r
    <3> QED
      BY <1>1, NoPart DEF r
  <2>2. \A i \in r .. r - 1 : l[i] # Quote
    BY <1>1
  <2> HIDE DEF r
  <2>3. PlainSoFar(l, r, r, <<>>, FALSE)
    BY <2>1, <2>2 DEF PlainSoFar
  <2> QED
    BY <2>3 DEF Phase, r
<1>9. <<>> \in Chars
  BY EmptySeq DEF Chars
<1> QED
  BY <1>1, <1>4, <1>5, <1>6, <1>7, <1>8, <1>9 DEF Machine

(* A line that was taken to its end.                                        *)
FieldsOf(l, all) ==
    /\ Len(all) = Len(Chunks(l))
    /\ \A k \in DOMAIN Chunks(l) :
          IsPlain(Chunks(l)[k]) \/ IsQuoted(Chunks(l)[k]) => all[k] = Unquoted(Chunks(l)[k])

LEMMA ChunksAre ==
    ASSUME NEW l \in Chars
    PROVE  /\ Cardinality(Ends(l)) \in Nat
           /\ DOMAIN Chunks(l) = 1 .. Cardinality(Ends(l))
           /\ Len(Chunks(l)) = Cardinality(Ends(l))
           /\ \A k \in 1 .. Cardinality(Ends(l)) : Chunks(l)[k] =
                 SubSeq(l, Begin(l, Nth(Ends(l), k)), Nth(Ends(l), k) - 1)
<1>1. Cardinality(Ends(l)) \in Nat
  BY PassedIs, FS_CardinalityType
<1>2. Chunks(l) = [k \in 1 .. Cardinality(Ends(l)) |->
         SubSeq(l, Begin(l, Nth(Ends(l), k)), Nth(Ends(l), k) - 1)]
  BY DEF Chunks
<1>3. Len(Chunks(l)) = Cardinality(Ends(l))
  <2> DEFINE n == Cardinality(Ends(l))
             c == Chunks(l)
  <2>1. n \in Nat /\ DOMAIN c = 1 .. n
    BY <1>1, <1>2
  <2> HIDE DEF n, c
  <2>2. Len(c) = n
    BY <2>1
  <2> QED
    BY <2>2 DEF n, c
<1> QED
  BY <1>1, <1>2, <1>3

LEMMA MachineAccepts ==
    ASSUME NEW l \in Chars, NEW p, NEW f, NEW fs, Machine(l, p, f, FALSE, fs), ~(p <= Len(l))
    PROVE  FieldsOf(l, Append(fs, f)) /\ Append(fs, f) \in Seq(Chars)
<1>1. Len(l) \in Nat /\ p = Len(l) + 1 /\ p \in Ends(l)
  BY DEF Machine, Chars, Ends
<1>2. UpToIn(Ends(l), p) = Ends(l)
  <2>1. \A i \in Ends(l) : i <= p
    <3>1. \A i \in Separators(l) : i \in 1 .. Len(l)
      BY PassedIs
    <3>2. \A i \in 1 .. Len(l) : i <= p
      BY <1>1
    <3>3. p <= p
      BY <1>1
    <3> QED
      BY <1>1, <3>1, <3>2, <3>3 DEF Ends
  <2> QED
    BY <2>1 DEF UpToIn
<1>3. Passed(l, p) \cup {p} = Ends(l)
  <2>1. \A i \in Separators(l) : i < p
    BY <1>1, PassedIs
  <2> QED
    BY <1>1, <2>1 DEF Passed, Ends
<1>4. Cardinality(Ends(l)) = Cardinality(Passed(l, p)) + 1
  BY <1>3, PassedIs, FS_AddElement
<1>5. /\ Append(fs, f) \in Seq(Chars)
      /\ Len(Append(fs, f)) = Cardinality(Ends(l))
      /\ FieldsRight(l, Append(fs, f))
  BY <1>1, <1>4, FieldsGrow
<1> QED
  BY <1>5, ChunksAre DEF FieldsOf, FieldsRight, Right

(* A line with a mangled field is not well-formed.                          *)
LEMMA MangledIllFormed ==
    ASSUME NEW l \in Chars, NEW p \in 1 .. Len(l) + 1, Mangled(l, Begin(l, p), p)
    PROVE  ~WellFormed(l)
<1> DEFINE T == {e \in Ends(l) : p <= e}
<1>1. /\ Len(l) \in Nat /\ Ends(l) \subseteq Nat /\ IsFiniteSet(Ends(l))
      /\ Separators(l) \subseteq 1 .. Len(l)
  BY PassedIs DEF Chars
<1>2. T \subseteq Nat /\ Len(l) + 1 \in T
  BY <1>1 DEF Ends
<1>3. PICK e \in T : \A i \in T : e <= i
  <2> HIDE DEF T
  <2> QED
    BY <1>2, Least
<1>4. e \in p .. Len(l) + 1 /\ e \in Ends(l)
  <2>1. e <= Len(l) + 1 /\ e \in Nat /\ p <= e
    BY <1>2, <1>3
  <2> QED
    BY <1>1, <1>3, <2>1
<1>5. Begin(l, e) = Begin(l, p)
  <2>1. \A i \in Separators(l) : i < e <=> i < p
    <3> SUFFICES ASSUME NEW i \in Separators(l) PROVE i < e <=> i < p
      OBVIOUS
    <3>1. i \in Int /\ e \in Int /\ p \in Int /\ i \in Ends(l)
      BY <1>1, <1>4 DEF Ends
    <3>2. p <= i => e <= i
      BY <1>3, <3>1
    <3> QED
      BY <1>4, <3>1, <3>2
  <2>2. {i \in Separators(l) : i < e} = {i \in Separators(l) : i < p}
    BY <2>1
  <2> QED
    BY <2>2 DEF Begin
<1> DEFINE b == Begin(l, p)
           chunk == SubSeq(l, b, e - 1)
<1>6. ~IsPlain(chunk) /\ ~IsQuoted(chunk)
  <2>1. b \in 1 .. p /\ QuotesBefore(l, b) % 2 = 0
    BY BeginIs
  <2> HIDE DEF b
  <2>2. b \in 1 .. Len(l) + 1 /\ p \in b .. Len(l) + 1
    BY <1>1, <2>1
  <2>3. Mangled(l, b, p)
    BY DEF b
  <2> QED
    BY <1>4, <2>1, <2>2, <2>3, MangledStays
<1> DEFINE k == Cardinality(Passed(l, e)) + 1
<1>7. k \in 1 .. Cardinality(Ends(l)) /\ Nth(Ends(l), k) = e
  BY <1>4, RankOf
<1>8. k \in DOMAIN Chunks(l) /\ Chunks(l)[k] = chunk
  <2> HIDE DEF k
  <2> QED
    BY <1>5, <1>7, ChunksAre
<1> QED
  BY <1>6, <1>8 DEF WellFormed

LEMMA MachineRefuses ==
    ASSUME NEW l \in Chars, NEW p, NEW f, NEW q, NEW fs, Machine(l, p, f, q, fs),
           \/ ~q /\ p <= Len(l) /\ l[p] = Quote /\ f # <<>>
           \/ q /\ ~(p <= Len(l))
    PROVE  ~WellFormed(l)
<1>1. Len(l) \in Nat /\ p \in 1 .. Len(l) + 1
  BY DEF Machine, Chars
<1>2. CASE ~q /\ p <= Len(l) /\ l[p] = Quote /\ f # <<>>
  <2> DEFINE r == p + 1
  <2>1. q = FALSE
    BY <1>2 DEF Machine
  <2>2. Mangled(l, Begin(l, p), r)
    BY <1>2, <2>1, OpenKeeps
  <2>3. p \in 1 .. Len(l) /\ r \in 1 .. Len(l) + 1
    BY <1>1, <1>2
  <2>4. Begin(l, r) = Begin(l, p)
    <3>1. p \notin Separators(l)
      BY <1>2 DEF Separators, Comma, Quote
    <3> QED
      BY <2>3, <3>1, SameField
  <2> HIDE DEF r
  <2> QED
    BY <2>2, <2>3, <2>4, MangledIllFormed
<1>3. CASE q /\ ~(p <= Len(l))
  <2>1. p = Len(l) + 1
    BY <1>1, <1>3
  <2>2. QuotesBefore(l, Len(l) + 1) % 2 = 1
    BY <1>3, <2>1 DEF Machine
  <2> QED
    BY <2>2 DEF WellFormed
<1> QED
  BY <1>2, <1>3

-----------------------------------------------------------------------------
(* Where the quote machine is in its line.                                  *)
SplitInv ==
    /\ line \in Chars /\ header \in Chars /\ rows \in Seq(Chars)
    /\ Machine(line, pos, field, quoted, fields)

LEMMA SplitStepKeeps ==
    ASSUME SplitInv, SplitStep
    PROVE  line' = line /\ Machine(line, pos', field', quoted', fields')
<1>1. line \in Chars /\ Machine(line, pos, field, quoted, fields)
      /\ quoted \in BOOLEAN /\ pos \in 1 .. Len(line) + 1 /\ Len(line) \in Nat
  BY DEF SplitInv, Machine, Chars
<1>2. CASE QuotedQuote
  <2>1. /\ quoted = TRUE /\ line[pos] = Quote /\ line[pos + 1] = Quote /\ pos < Len(line)
        /\ line' = line /\ pos' = pos + 2 /\ field' = Append(field, Quote)
        /\ quoted' = TRUE /\ fields' = fields
    BY <1>1, <1>2 DEF QuotedQuote, Next1, QuotePairAhead, Advance
  <2> QED
    BY <1>1, <2>1, PairKeeps
<1>3. CASE CloseQuotes
  <2>1. /\ quoted = TRUE /\ line[pos] = Quote /\ pos <= Len(line)
        /\ (pos < Len(line) => line[pos + 1] # Quote)
        /\ line' = line /\ pos' = pos + 1 /\ field' = field
        /\ quoted' = FALSE /\ fields' = fields
    BY <1>1, <1>3 DEF CloseQuotes, Next1, More, QuotePairAhead, Advance
  <2> QED
    BY <1>1, <2>1, CloseKeeps
<1>4. CASE TakeCharacter
  <2>1. /\ pos <= Len(line) /\ line[pos] # Quote /\ (quoted \/ line[pos] # Comma)
        /\ line' = line /\ pos' = pos + 1 /\ field' = Append(field, line[pos])
        /\ quoted' = quoted /\ fields' = fields
    BY <1>4 DEF TakeCharacter, More, Advance
  <2> QED
    BY <1>1, <2>1, CharacterKeeps
<1>5. CASE EndField
  <2>1. /\ quoted = FALSE /\ line[pos] = Comma /\ pos <= Len(line)
        /\ line' = line /\ pos' = pos + 1 /\ field' = <<>>
        /\ quoted' = FALSE /\ fields' = Append(fields, field)
    BY <1>1, <1>5 DEF EndField, Next1, More, Advance
  <2> QED
    BY <1>1, <2>1, CommaKeeps
<1>6. CASE OpenQuotes
  <2>1. /\ quoted = FALSE /\ line[pos] = Quote /\ pos <= Len(line)
        /\ line' = line /\ pos' = pos + 1 /\ field' = <<>>
        /\ quoted' = TRUE /\ fields' = fields
    BY <1>1, <1>6 DEF OpenQuotes, Next1, More, Advance
  <2> QED
    BY <1>1, <2>1, OpenKeeps
<1> QED
  BY <1>2, <1>3, <1>4, <1>5, <1>6 DEF SplitStep

LEMMA BeginKeeps ==
    ASSUME NEW l \in Chars, BeginSplit(l)
    PROVE  line' \in Chars /\ Machine(line', pos', field', quoted', fields')
BY MachineStarts DEF BeginSplit

LEMMA RowIsText ==
    ASSUME rows \in Seq(Chars), Len(rows) < Len(Rows), NEW l \in Rows[Len(rows) + 1]
    PROVE  l \in Chars /\ Append(rows, l) \in Seq(Chars)
<1>1. Len(rows) \in Nat /\ Len(Rows) \in Nat
  BY LinesAssumption
<1>2. Len(rows) + 1 \in 1 .. Len(Rows)
  BY <1>1
<1>3. Rows[Len(rows) + 1] \in SUBSET Seq(STRING)
  BY <1>2, LinesAssumption, ElementOfSeq
<1>4. l \in Chars
  BY <1>3 DEF Chars
<1> QED
  BY <1>4, AppendProperties

LEMMA SplitInvInductive ==
    ASSUME SplitInv, [CsvNext]_csvVars
    PROVE  SplitInv'
<1> USE DEF Goto
<1>1. CASE UNCHANGED <<splitVars, header, rows>>
  BY <1>1 DEF SplitInv, splitVars
<1>2. CASE ReadHeader
  <2>1. PICK l \in Headers : header' = l /\ BeginSplit(l)
    BY <1>2 DEF ReadHeader
  <2>2. l \in Chars
    BY LinesAssumption DEF Chars
  <2>3. rows' = rows
    BY <1>2 DEF ReadHeader
  <2> QED
    BY <2>1, <2>2, <2>3, BeginKeeps DEF SplitInv
<1>3. CASE Split
  BY <1>3, SplitStepKeeps DEF Split, SplitInv
<1>4. CASE NextRow
  <2>1. PICK l \in Rows[Len(rows) + 1] :
          /\ rows' = Append(rows, l)
          /\ IF Trim(l) = <<>> THEN UNCHANGED <<splitVars, pc>> ELSE BeginSplit(l)
    BY <1>4 DEF NextRow
  <2>2. Len(rows) < Len(Rows) /\ header' = header
    BY <1>4 DEF NextRow
  <2>3. l \in Chars /\ rows' \in Seq(Chars)
    BY <2>1, <2>2, RowIsText DEF SplitInv
  <2>4. CASE Trim(l) = <<>>
    BY <2>1, <2>2, <2>3, <2>4 DEF SplitInv, splitVars
  <2>5. CASE Trim(l) # <<>>
    BY <2>1, <2>2, <2>3, <2>5, BeginKeeps DEF SplitInv
  <2> QED
    BY <2>4, <2>5
<1>5. ASSUME CsvOpenFails \/ SplitFails \/ ColumnMissing \/ HeaderRead
             \/ BadNumber \/ RowRead \/ EndOfFile \/ Returned \/ UNCHANGED csvVars
      PROVE  UNCHANGED <<splitVars, header, rows>>
  BY <1>5 DEF CsvOpenFails, SplitFails, ColumnMissing, HeaderRead, BadNumber, RowRead,
              EndOfFile, Returned, csvVars
<1> QED
  BY <1>1, <1>2, <1>3, <1>4, <1>5 DEF CsvNext

LEMMA SplitInvInitially ==
    ASSUME CsvInit
    PROVE  SplitInv
<1>1. <<>> \in Chars /\ <<>> \in Seq(Chars)
  BY EmptySeq DEF Chars
<1> QED
  BY <1>1, MachineStarts DEF CsvInit, SplitInv

LEMMA SplitInvHolds == CsvSpec => []SplitInv
BY SplitInvInitially, SplitInvInductive, PTL DEF CsvSpec

LEMMA SplitInvSays ==
    ASSUME SplitInv
    PROVE  SplitAsWritten
<1>1. line \in Chars /\ Machine(line, pos, field, quoted, fields) /\ quoted \in BOOLEAN
  BY DEF SplitInv, Machine
<1>2. ASSUME SplitEnds("header") \/ SplitEnds("row")
      PROVE  FieldsOf(line, AllFields)
  <2>1. quoted = FALSE /\ ~(pos <= Len(line))
    BY <1>1, <1>2 DEF SplitEnds, More
  <2> QED
    BY <1>1, <2>1, MachineAccepts DEF AllFields
<1>3. ASSUME SplitFailed
      PROVE  ~WellFormed(line)
  <2>1. Trim(<<>>) = <<>>
    BY DEF Trim
  <2>2. \/ ~quoted /\ pos <= Len(line) /\ line[pos] = Quote /\ field # <<>>
        \/ quoted /\ ~(pos <= Len(line))
    BY <1>3, <2>1 DEF SplitFailed, Next1, More
  <2> QED
    BY <1>1, <2>2, MachineRefuses
<1> QED
  BY <1>2, <1>3 DEF SplitAsWritten, FieldsOf

(* The fields that split_line finds walking along a line are those the line *)
(* has when it is cut at the commas with an even number of quotes before    *)
(* them, and no line whose fields are all plain or properly quoted is       *)
(* refused, for lines of any length.                                        *)
THEOREM FieldsAsWritten == CsvSpec => []SplitAsWritten
BY SplitInvHolds, SplitInvSays, PTL

-----------------------------------------------------------------------------
(* The rows that count, among the lines read.                               *)
SolidOf(rs) == {i \in DOMAIN rs : Trim(rs[i]) # <<>>}
DataOf(rs) == [k \in 1 .. Cardinality(SolidOf(rs)) |-> rs[Nth(SolidOf(rs), k)]]

LEMMA SolidIs ==
    ASSUME NEW rs \in Seq(Chars)
    PROVE  /\ SolidOf(rs) \subseteq Nat /\ IsFiniteSet(SolidOf(rs))
           /\ Cardinality(SolidOf(rs)) \in Nat
           /\ \A i \in SolidOf(rs) : i <= Len(rs) /\ i \in DOMAIN rs
<1>1. Len(rs) \in Nat /\ DOMAIN rs = 1 .. Len(rs)
  OBVIOUS
<1>2. SolidOf(rs) \subseteq 1 .. Len(rs)
  BY <1>1 DEF SolidOf
<1>3. IsFiniteSet(1 .. Len(rs))
  BY <1>1, FS_Interval
<1>4. IsFiniteSet(SolidOf(rs))
  BY <1>2, <1>3, FS_Subset
<1>5. Cardinality(SolidOf(rs)) \in Nat
  BY <1>4, FS_CardinalityType
<1>6. \A i \in 1 .. Len(rs) : i \in Nat /\ i <= Len(rs)
  BY <1>1
<1> QED
  BY <1>1, <1>2, <1>4, <1>5, <1>6

\* A line more.
LEMMA RowAdded ==
    ASSUME NEW rs \in Seq(Chars), NEW l \in Chars
    PROVE  LET n == Cardinality(SolidOf(rs))
               ss == Append(rs, l)
           IN  /\ Cardinality(SolidOf(ss)) = IF Trim(l) = <<>> THEN n ELSE n + 1
               /\ \A k \in 1 .. n : DataOf(ss)[k] = DataOf(rs)[k]
               /\ Trim(l) # <<>> => DataOf(ss)[n + 1] = l
<1> DEFINE n == Cardinality(SolidOf(rs))
           ss == Append(rs, l)
           m == Len(rs) + 1
           S == SolidOf(rs)
           T == SolidOf(ss)
<1>1. Len(rs) \in Nat /\ DOMAIN rs = 1 .. Len(rs) /\ m \in Nat /\ n \in Nat
  BY SolidIs
<1>2. /\ ss \in Seq(Chars) /\ Len(ss) = m /\ DOMAIN ss = 1 .. m
      /\ \A i \in 1 .. Len(rs) : ss[i] = rs[i]
      /\ ss[m] = l
  BY AppendProperties
<1> HIDE DEF ss
<1>3. T = IF Trim(l) = <<>> THEN S ELSE S \cup {m}
  <2>1. \A i : i \in 1 .. m <=> i \in 1 .. Len(rs) \/ i = m
    BY <1>1
  <2>2. m \notin 1 .. Len(rs)
    BY <1>1
  <2> HIDE DEF m
  <2>3. \A i : i \in T <=> (i \in S \/ (i = m /\ Trim(l) # <<>>))
    BY <1>1, <1>2, <2>1, <2>2 DEF SolidOf
  <2> QED
    BY <2>3
<1>4. S \subseteq Nat /\ IsFiniteSet(S) /\ \A i \in S : i < m /\ i \in 1 .. Len(rs)
  <2>1. \A i \in 1 .. Len(rs) : i < m
    BY <1>1
  <2> QED
    BY <1>1, <2>1, SolidIs
<1>5. \A k \in 1 .. n : Nth(S, k) \in S
  BY <1>4, NthIs
<1>6. /\ Cardinality(T) = IF Trim(l) = <<>> THEN n ELSE n + 1
      /\ \A k \in 1 .. n : Nth(T, k) = Nth(S, k)
      /\ Trim(l) # <<>> => Nth(T, n + 1) = m
  <2>1. CASE Trim(l) = <<>>
    BY <1>3, <2>1
  <2>2. CASE Trim(l) # <<>>
    <3>1. T = S \cup {m}
      BY <1>3, <2>2
    <3> HIDE DEF S, T, m
    <3>2. /\ Cardinality(T) = Cardinality(S) + 1
          /\ \A k \in 1 .. Cardinality(S) : Nth(T, k) = Nth(S, k)
          /\ Nth(T, Cardinality(S) + 1) = m
      BY <1>1, <1>4, <3>1, NthAdded
    <3> QED
      BY <2>2, <3>2 DEF S
  <2> QED
    BY <2>1, <2>2
<1>7. n + 1 \in 1 .. n + 1 /\ 1 .. n \subseteq 1 .. n + 1
  BY <1>1
<1> HIDE DEF n, m, S, T
<1>8. /\ \A k \in 1 .. n : DataOf(rs)[k] = rs[Nth(S, k)]
      /\ \A k \in 1 .. Cardinality(T) : DataOf(ss)[k] = ss[Nth(T, k)]
  BY DEF DataOf, n, S, T
<1>9. \A k \in 1 .. n : DataOf(ss)[k] = DataOf(rs)[k]
  BY <1>2, <1>4, <1>5, <1>6, <1>7, <1>8
<1>10. Trim(l) # <<>> => DataOf(ss)[n + 1] = l
  BY <1>2, <1>6, <1>7, <1>8
<1> QED
  BY <1>6, <1>9, <1>10 DEF n, T, ss

(* What the fields of a well-formed line say.                               *)
FieldIn(l, k) == Trim(IF k \in DOMAIN Chunks(l) THEN Unquoted(Chunks(l)[k]) ELSE <<>>)
ColumnNamed(h, c) ==
    Max({i \in DOMAIN Chunks(h) : Trim(Unquoted(Chunks(h)[i])) = <<c>>})

LEMMA FieldsSay ==
    ASSUME NEW l \in Chars, NEW all \in Seq(Chars), FieldsOf(l, all), WellFormed(l)
    PROVE  /\ DOMAIN all = DOMAIN Chunks(l)
           /\ \A k \in DOMAIN Chunks(l) : all[k] = Unquoted(Chunks(l)[k])
           /\ \A k : Trim(IF k \in DOMAIN all THEN all[k] ELSE <<>>) = FieldIn(l, k)
<1>1. \A k \in DOMAIN Chunks(l) : all[k] = Unquoted(Chunks(l)[k])
  BY DEF FieldsOf, WellFormed
<1>2. Len(Chunks(l)) = Len(all) /\ Len(all) \in Nat /\ DOMAIN all = 1 .. Len(all)
  BY DEF FieldsOf
<1>3. DOMAIN Chunks(l) = 1 .. Len(Chunks(l))
  BY ChunksAre
<1>4. DOMAIN all = DOMAIN Chunks(l)
  BY <1>2, <1>3
<1> QED
  BY <1>1, <1>4 DEF FieldIn

LEMMA ColumnFound ==
    ASSUME NEW h \in Chars, NEW all \in Seq(Chars), FieldsOf(h, all), WellFormed(h),
           NEW c, ColumnIn(all, c) # 0
    PROVE  ColumnIn(all, c) = ColumnNamed(h, c)
<1> DEFINE I == {i \in 1 .. Len(all) : Trim(all[i]) = <<c>>}
<1>1. ColumnIn(all, c) = IF I # {} THEN Max(I) ELSE 0
  BY DEF ColumnIn, SelectLastInSeq
<1>2. I = {i \in DOMAIN Chunks(h) : Trim(Unquoted(Chunks(h)[i])) = <<c>>}
  <2>1. 1 .. Len(all) = DOMAIN Chunks(h)
        /\ \A k \in DOMAIN Chunks(h) : all[k] = Unquoted(Chunks(h)[k])
    BY FieldsSay
  <2> QED
    BY <2>1
<1> QED
  BY <1>1, <1>2 DEF ColumnNamed

Sample == [ts : Int, value : [Columns -> Int] \cup {<<>>}]

(* The k-th sample is read from the k-th row that counts.                   *)
SampleOf(h, l, k, s) ==
    /\ s.ts = k - 1
    /\ WellFormed(h) /\ WellFormed(l) =>
          \A c \in Columns : s.value[c] = Parsed(FieldIn(l, ColumnNamed(h, c)))
SamplesOf(h, rs, ss) == \A k \in 1 .. Len(ss) : SampleOf(h, DataOf(rs)[k], k, ss[k])

Counted == Cardinality(SolidOf(rows))

(* How far the reading is, and how many samples there are by then.          *)
Progress ==
    /\ pc \in {"open", "header"} => columns = <<>> /\ rows = <<>>
    /\ pc = "header" => line = header
    /\ pc \in {"next", "row", "ok"} => columns # <<>>
    /\ pc = "row" => Counted = Len(samples) + 1 /\ DataOf(rows)[Counted] = line
    /\ pc \in {"next", "ok"} => Len(samples) = Counted
    /\ pc = "ok" => samples # <<>>
    /\ pc = "failed" /\ columns # <<>> => Len(samples) = Max({Counted - 1, 0})
    /\ columns = <<>> => samples = <<Old>>

Contents ==
    columns # <<>> =>
        /\ Len(samples) <= Counted
        /\ WellFormed(header) => \A c \in Columns : columns[c] = ColumnNamed(header, c)
        /\ SamplesOf(header, rows, samples)

ReadInv == SplitInv /\ samples \in Seq(Sample) /\ Progress /\ Contents

LEMMA ReadInvInitially ==
    ASSUME CsvInit
    PROVE  ReadInv
<1>1. samples \in Seq(Sample)
  <2>1. Old \in Sample
    BY DEF Old, Sample
  <2>2. samples = <<Old>>
    BY DEF CsvInit
  <2> QED
    BY <2>1, <2>2
<1> QED
  BY <1>1, SplitInvInitially DEF CsvInit, ReadInv, Progress, Contents

LEMMA LargestOfTwo ==
    ASSUME NEW n \in Nat
    PROVE  Max({(n + 1) - 1, 0}) = n /\ Max({0 - 1, 0}) = 0
<1> DEFINE S == {(n + 1) - 1, 0}
           T == {0 - 1, 0}
<1>1. S \subseteq Int /\ n \in S /\ (\A y \in S : n >= y)
  OBVIOUS
<1>2. T \subseteq Int /\ 0 \in T /\ (\A y \in T : 0 >= y)
  OBVIOUS
<1> HIDE DEF S, T
<1>3. Max(S) = n /\ Max(T) = 0
  BY <1>1, <1>2, MaxUnique
<1> QED
  BY <1>3 DEF S, T

LEMMA NoRows == Cardinality(SolidOf(<<>>)) = 0
<1>1. SolidOf(<<>>) = {}
  BY DEF SolidOf
<1> QED
  BY <1>1, FS_EmptySet

\* The header is accepted.
LEMMA HeaderKeeps ==
    ASSUME ReadInv, HeaderRead
    PROVE  Progress' /\ Contents' /\ samples' \in Seq(Sample)
<1>1. /\ SplitEnds("header") /\ \A c \in Columns : ColumnIn(AllFields, c) # 0
      /\ columns' = [c \in Columns |-> ColumnIn(AllFields, c)]
      /\ samples' = <<>> /\ pc' = "next" /\ header' = header /\ rows' = rows
  BY DEF HeaderRead, Goto
<1>2. pc = "header" /\ line = header /\ rows = <<>>
  BY <1>1 DEF SplitEnds, ReadInv, Progress
<1>3. columns' # <<>>
  <2>1. DOMAIN columns' = Columns
    BY <1>1
  <2>2. DOMAIN <<>> = {}
    OBVIOUS
  <2> QED
    BY <2>1, <2>2, ColumnsAssumption, Zenon
<1>4. header \in Chars /\ FieldsOf(header, AllFields) /\ AllFields \in Seq(Chars)
  <2>1. line \in Chars /\ Machine(line, pos, field, FALSE, fields) /\ ~(pos <= Len(line))
    BY <1>1 DEF ReadInv, SplitInv, SplitEnds, More, Machine
  <2> QED
    BY <1>2, <2>1, MachineAccepts DEF AllFields
<1>5. WellFormed(header) => \A c \in Columns : columns'[c] = ColumnNamed(header, c)
  BY <1>1, <1>4, ColumnFound
<1>6. Counted' = 0 /\ Len(samples') = 0 /\ samples' \in Seq(Sample)
  BY <1>1, <1>2, NoRows DEF Counted
<1>7. Progress'
  BY <1>1, <1>3, <1>6 DEF Progress
<1>8. Contents'
  <2>1. SamplesOf(header', rows', samples')
    BY <1>6 DEF SamplesOf
  <2> QED
    BY <1>1, <1>5, <1>6, <2>1 DEF Contents
<1> QED
  BY <1>6, <1>7, <1>8

\* A line is read.
LEMMA RowKeeps ==
    ASSUME ReadInv, NextRow
    PROVE  Progress' /\ Contents'
<1>1. /\ pc = "next" /\ Len(rows) < Len(Rows)
      /\ header' = header /\ columns' = columns /\ samples' = samples
  BY DEF NextRow
<1>2. PICK l \in Rows[Len(rows) + 1] :
        /\ rows' = Append(rows, l)
        /\ IF Trim(l) = <<>> THEN UNCHANGED <<splitVars, pc>> ELSE BeginSplit(l) /\ pc' = "row"
  BY DEF NextRow, Goto
<1>3. rows \in Seq(Chars) /\ l \in Chars
  BY <1>1, RowIsText DEF ReadInv, SplitInv
<1>4. /\ Counted' = IF Trim(l) = <<>> THEN Counted ELSE Counted + 1
      /\ \A k \in 1 .. Counted : DataOf(rows')[k] = DataOf(rows)[k]
      /\ Trim(l) # <<>> => DataOf(rows')[Counted + 1] = l
      /\ Counted \in Nat
  BY <1>2, <1>3, RowAdded, SolidIs DEF Counted
<1>5. Len(samples) = Counted /\ columns # <<>>
  BY <1>1 DEF ReadInv, Progress
<1>6. /\ pc' = IF Trim(l) = <<>> THEN "next" ELSE "row"
      /\ Trim(l) # <<>> => line' = l
  BY <1>1, <1>2 DEF BeginSplit
<1>7. Progress'
  BY <1>1, <1>4, <1>5, <1>6 DEF Progress
<1>8. Contents'
  <2>1. /\ WellFormed(header) => \A c \in Columns : columns[c] = ColumnNamed(header, c)
        /\ SamplesOf(header, rows, samples)
    BY <1>5 DEF ReadInv, Contents
  <2>2. SamplesOf(header, rows', samples)
    BY <1>4, <1>5, <2>1 DEF SamplesOf
  <2>3. Len(samples) <= Counted'
    BY <1>4, <1>5
  <2> QED
    BY <1>1, <2>1, <2>2, <2>3 DEF Contents
<1> QED
  BY <1>7, <1>8

\* A row becomes a sample.
LEMMA SampleKeeps ==
    ASSUME ReadInv, RowRead
    PROVE  Progress' /\ Contents' /\ samples' \in Seq(Sample)
<1> DEFINE v == [c \in Columns |-> Parsed(Cell(columns[c]))]
           s == [ts |-> Len(samples), value |-> v]
<1>1. /\ SplitEnds("row") /\ samples' = Append(samples, s) /\ pc' = "next"
      /\ header' = header /\ columns' = columns /\ rows' = rows
  BY DEF RowRead, Goto
<1>2. /\ pc = "row" /\ Counted = Len(samples) + 1 /\ DataOf(rows)[Counted] = line
      /\ columns # <<>> /\ samples \in Seq(Sample) /\ Len(samples) \in Nat
  BY <1>1 DEF SplitEnds, ReadInv, Progress
<1>3. line \in Chars /\ FieldsOf(line, AllFields) /\ AllFields \in Seq(Chars)
  <2>1. line \in Chars /\ Machine(line, pos, field, FALSE, fields) /\ ~(pos <= Len(line))
    BY <1>1 DEF ReadInv, SplitInv, SplitEnds, More, Machine
  <2> QED
    BY <2>1, MachineAccepts DEF AllFields
<1>4. \A k : Cell(k) \in Chars
  <2> SUFFICES ASSUME NEW k PROVE Cell(k) \in Chars
    OBVIOUS
  <2>1. (IF k \in DOMAIN AllFields THEN AllFields[k] ELSE <<>>) \in Chars
    <3>1. <<>> \in Chars
      BY EmptySeq DEF Chars
    <3>2. k \in DOMAIN AllFields => AllFields[k] \in Chars
      BY <1>3
    <3> QED
      BY <3>1, <3>2
  <2> QED
    BY <2>1, TrimTyped DEF Cell, Chars
<1>5. v \in [Columns -> Int]
  <2>1. \A t \in Chars : Parsed(t) \in Int
    BY DEF Parsed, NaN, Chars
  <2> QED
    BY <1>4, <2>1
<1>6. s \in Sample
  <2> HIDE DEF v
  <2> QED
    BY <1>2, <1>5 DEF Sample
<1>7. WellFormed(line) => \A k : Cell(k) = FieldIn(line, k)
  BY <1>3, FieldsSay DEF Cell
<1>8. Contents
  BY DEF ReadInv
<1>9. SampleOf(header, line, Counted, s)
  <2>1. ASSUME WellFormed(header), WellFormed(line), NEW c \in Columns
        PROVE  v[c] = Parsed(FieldIn(line, ColumnNamed(header, c)))
    BY <1>2, <1>7, <1>8, <2>1 DEF Contents
  <2>2. s.ts = Counted - 1 /\ s.value = v
    BY <1>2
  <2> HIDE DEF s, v
  <2> QED
    BY <2>1, <2>2 DEF SampleOf
<1> HIDE DEF s
<1>10. /\ samples' \in Seq(Sample) /\ Len(samples') = Counted /\ samples'[Counted] = s
       /\ \A k \in 1 .. Len(samples) : samples'[k] = samples[k]
  BY <1>1, <1>2, <1>6, AppendProperties
<1>11. Counted' = Counted /\ samples' # <<>>
  <2>1. Counted' = Counted
    BY <1>1 DEF Counted
  <2> QED
    BY <1>2, <1>10, <2>1
<1>12. Progress'
  BY <1>1, <1>2, <1>10, <1>11 DEF Progress
<1>13. SamplesOf(header, rows, samples')
  <2>1. SamplesOf(header, rows, samples)
    BY <1>2, <1>8 DEF Contents
  <2>2. \A k \in 1 .. Counted : k \in 1 .. Len(samples) \/ k = Counted
    BY <1>2
  <2> QED
    BY <1>2, <1>9, <1>10, <2>1, <2>2 DEF SamplesOf
<1>14. Contents'
  <2>1. Len(samples') <= Counted'
    BY <1>2, <1>10, <1>11
  <2> QED
    BY <1>1, <1>2, <1>8, <1>13, <2>1 DEF Contents
<1> QED
  BY <1>10, <1>12, <1>14

\* The call ends, or a part of a row is read.
LEMMA RestKeeps ==
    ASSUME ReadInv, UNCHANGED <<samples, columns, rows, header>>,
           \/ pc' = pc /\ line' = line
           \/ pc \in {"open", "header", "row"} /\ pc' = "failed"
           \/ pc = "next" /\ pc' = IF samples = <<>> THEN "failed" ELSE "ok"
    PROVE  Progress' /\ Contents'
<1>1. /\ samples' = samples /\ columns' = columns /\ rows' = rows /\ header' = header
      /\ Counted' = Counted
  BY DEF Counted
<1>2. Contents'
  BY <1>1 DEF ReadInv, Contents
<1>3. samples \in Seq(Sample) /\ Len(samples) \in Nat /\ Progress
  BY DEF ReadInv
<1>4. CASE pc' = pc /\ line' = line
  BY <1>1, <1>2, <1>3, <1>4 DEF Progress
<1>5. CASE pc \in {"open", "header", "row"} /\ pc' = "failed"
  <2>1. columns # <<>> => Len(samples) = Max({Counted - 1, 0})
    <3>1. columns # <<>> => Counted = Len(samples) + 1
      BY <1>3, <1>5 DEF Progress
    <3> QED
      BY <1>3, <3>1, LargestOfTwo
  <2> QED
    BY <1>1, <1>2, <1>3, <1>5, <2>1 DEF Progress
<1>6. CASE pc = "next" /\ pc' = IF samples = <<>> THEN "failed" ELSE "ok"
  <2>1. Len(samples) = Counted /\ columns # <<>>
    BY <1>3, <1>6 DEF Progress
  <2>2. samples = <<>> => Len(samples) = Max({Counted - 1, 0})
    <3>1. samples = <<>> => Counted = 0 /\ Len(samples) = 0
      BY <2>1
    <3>2. Max({0 - 1, 0}) = 0
      BY <1>3, LargestOfTwo
    <3> QED
      BY <3>1, <3>2
  <2> QED
    BY <1>1, <1>2, <1>3, <1>6, <2>1, <2>2 DEF Progress
<1> QED
  BY <1>4, <1>5, <1>6

LEMMA ReadInvInductive ==
    ASSUME ReadInv, [CsvNext]_csvVars
    PROVE  ReadInv'
<1> USE DEF Goto
<1>1. SplitInv' /\ samples \in Seq(Sample)
  BY SplitInvInductive DEF ReadInv
<1>2. CASE ReadHeader
  <2>1. /\ pc = "open" /\ pc' = "header" /\ line' = header' /\ samples' = samples
        /\ columns' = columns /\ rows' = rows
    BY <1>2 DEF ReadHeader, BeginSplit
  <2>2. columns = <<>> /\ rows = <<>> /\ samples = <<Old>>
    BY <2>1 DEF ReadInv, Progress
  <2> QED
    BY <1>1, <2>1, <2>2 DEF ReadInv, Progress, Contents
<1>3. CASE HeaderRead
  BY <1>1, <1>3, HeaderKeeps DEF ReadInv
<1>4. CASE NextRow
  <2>1. samples' = samples
    BY <1>4 DEF NextRow
  <2> QED
    BY <1>1, <1>4, <2>1, RowKeeps DEF ReadInv
<1>5. CASE RowRead
  BY <1>1, <1>5, SampleKeeps DEF ReadInv
<1>6. ASSUME CsvOpenFails \/ Split \/ SplitFails \/ ColumnMissing \/ BadNumber
             \/ EndOfFile \/ Returned \/ UNCHANGED csvVars
      PROVE  ReadInv'
  <2>1. UNCHANGED <<samples, columns, rows, header>>
    BY <1>6 DEF CsvOpenFails, Split, SplitFails, ColumnMissing, BadNumber, EndOfFile,
                Returned, csvVars
  <2>2. \/ pc' = pc /\ line' = line
        \/ pc \in {"open", "header", "row"} /\ pc' = "failed"
        \/ pc = "next" /\ pc' = IF samples = <<>> THEN "failed" ELSE "ok"
    BY <1>6, SplitStepKeeps DEF CsvOpenFails, Split, SplitFails, ColumnMissing, BadNumber,
                EndOfFile, Returned, csvVars, splitVars, SplitEnds, ReadInv
  <2>3. Progress' /\ Contents'
    BY <2>1, <2>2, RestKeeps
  <2> QED
    BY <1>1, <2>1, <2>3 DEF ReadInv
<1> QED
  BY <1>2, <1>3, <1>4, <1>5, <1>6 DEF CsvNext

LEMMA ReadInvHolds == CsvSpec => []ReadInv
BY ReadInvInitially, ReadInvInductive, PTL DEF CsvSpec

LEMMA ReadInvSays ==
    ASSUME ReadInv
    PROVE  SamplesAsRead
<1>1. DataRows = DataOf(rows) /\ Len(samples) \in Nat /\ DOMAIN samples = 1 .. Len(samples)
  BY DEF DataRows, DataOf, Solid, SolidOf, ReadInv
<1>2. Counted \in Nat
  BY SolidIs DEF ReadInv, SplitInv, Counted
<1>3. Len(DataRows) = Counted
  <2> DEFINE n == Counted
             d == DataRows
  <2>1. n \in Nat /\ DOMAIN d = 1 .. n
    BY <1>1, <1>2 DEF DataOf, Counted
  <2> HIDE DEF n, d
  <2>2. Len(d) = n
    BY <2>1
  <2> QED
    BY <2>2 DEF n, d
<1>4. \A l : \A c : TextAt(l, c) = FieldIn(l, ColumnNamed(header, c))
  BY DEF TextAt, FieldIn, ColumnNamed
<1>5. columns # <<>> => \A k \in DOMAIN samples :
          /\ samples[k].ts = k - 1
          /\ WellFormed(header) /\ WellFormed(DataRows[k]) =>
                \A c \in Columns :
                    samples[k].value[c] = Parsed(TextAt(DataRows[k], c))
  BY <1>1, <1>4 DEF ReadInv, Contents, SamplesOf, SampleOf
<1> QED
  BY <1>3, <1>5 DEF SamplesAsRead, ReadInv, Progress

(* One sample for each row that counts, in order, each with the values that *)
(* stand under the names of its columns, and the caller's vector untouched  *)
(* until the header is accepted, for files of any length.                   *)
THEOREM RowsAsRead == CsvSpec => []SamplesAsRead
BY ReadInvHolds, ReadInvSays, PTL

-----------------------------------------------------------------------------
(* The first n lines of the output.                                         *)
FirstLines(n) == [k \in 1 .. n |-> k]

Kept == IF failedAt = 0 THEN written ELSE failedAt - 1

ToolInv ==
    /\ written \in 0 .. OutputLines /\ failedAt \in 0 .. written
    /\ out \in {"cout", "file"}
    /\ tool \in {"reading", "EXIT_FAILURE"} => out = "cout"
    /\ out = "cout" => output = Earlier
    /\ tool = "reading" => written = 0
    /\ tool \in {"reading", "EXIT_FAILURE", "writing", "EXIT_SUCCESS"}
    /\ tool \in {"writing", "EXIT_SUCCESS"} => pc = "ok"
    /\ out = "file" => output = FirstLines(Kept)
    /\ tool = "EXIT_SUCCESS" => written = OutputLines

LEMMA FirstLinesGrow ==
    /\ FirstLines(0) = <<>>
    /\ \A n \in Nat : Append(FirstLines(n), n + 1) = FirstLines(n + 1)
<1>1. FirstLines(0) = <<>>
  BY DEF FirstLines
<1>2. ASSUME NEW n \in Nat
      PROVE  Append(FirstLines(n), n + 1) = FirstLines(n + 1)
  <2> DEFINE s == FirstLines(n)
             t == FirstLines(n + 1)
             u == Append(s, n + 1)
  <2>1. s \in Seq(Nat) /\ Len(s) = n /\ \A k \in 1 .. n : s[k] = k
    BY DEF FirstLines
  <2>2. t \in Seq(Nat) /\ Len(t) = n + 1 /\ \A k \in 1 .. n + 1 : t[k] = k
    BY DEF FirstLines
  <2> HIDE DEF s, t
  <2>3. u \in Seq(Nat) /\ Len(u) = n + 1 /\ (\A k \in 1 .. n : u[k] = k) /\ u[n + 1] = n + 1
    BY <2>1, AppendProperties
  <2> HIDE DEF u
  <2>4. \A k \in 1 .. n + 1 : u[k] = k
    <3>1. \A k \in 1 .. n + 1 : k \in 1 .. n \/ k = n + 1
      OBVIOUS
    <3> QED
      BY <2>3, <3>1
  <2>5. t = [k \in 1 .. Len(t) |-> t[k]] /\ u = [k \in 1 .. Len(u) |-> u[k]]
    BY <2>2, <2>3, LenProperties
  <2>6. t = u
    BY <2>2, <2>3, <2>4, <2>5
  <2> QED
    BY <2>6 DEF s, t, u
<1> QED
  BY <1>1, <1>2

LEMMA ToolInvInductive ==
    ASSUME ToolInv, [ToolNext]_<<csvVars, toolVars>>
    PROVE  ToolInv'
<1> USE DEF ToolInv
<1>1. OutputLines \in Nat /\ written \in Nat /\ failedAt \in Nat
  BY TensorRowsAssumption DEF OutputLines
<1>2. CASE ReadCsv
  <2>1. /\ tool = "reading" /\ tool' = tool /\ out' = out /\ output' = output
        /\ written' = written /\ failedAt' = failedAt
    BY <1>2 DEF ReadCsv, toolVars
  <2> QED
    BY <2>1
<1>3. CASE CsvError
  BY <1>3 DEF CsvError
<1>4. CASE CreateOutput
  <2>1. /\ tool = "reading" /\ pc = "ok" /\ pc' = pc /\ written' = written
        /\ failedAt' = failedAt /\ out = "cout" /\ output = Earlier
    BY <1>4 DEF CreateOutput, csvVars
  <2>2. written = 0 /\ failedAt = 0
    BY <2>1
  <2>3. CASE tool' = "writing" /\ out' = "file" /\ output' = <<>>
    <3>1. Kept' = 0
      BY <2>1, <2>2 DEF Kept
    <3> QED
      BY <2>1, <2>2, <2>3, <3>1, FirstLinesGrow
  <2>4. CASE tool' \in {"writing", "EXIT_FAILURE"} /\ out' = out /\ output' = output
    BY <2>1, <2>2, <2>4
  <2> QED
    BY <1>4, <2>3, <2>4 DEF CreateOutput
<1>5. CASE WriteLine
  <2>1. /\ tool = "writing" /\ tool' = tool /\ out' = out /\ pc = "ok" /\ pc' = pc
        /\ written < OutputLines /\ written' = written + 1
    BY <1>5 DEF WriteLine, csvVars
  <2>2. written' \in 0 .. OutputLines
    BY <1>1, <2>1
  <2>3. CASE failedAt = 0 /\ out = "file" /\ output' = Append(output, written') /\ failedAt' = failedAt
    <3>1. Kept = written /\ Kept' = written + 1 /\ output = FirstLines(Kept)
      BY <2>1, <2>3 DEF Kept
    <3>2. output' = FirstLines(Kept')
      BY <1>1, <2>1, <2>3, <3>1, FirstLinesGrow
    <3>3. failedAt' \in 0 .. written'
      BY <2>2, <2>3
    <3> QED
      BY <2>1, <2>2, <2>3, <3>2, <3>3
  <2>4. CASE failedAt = 0 /\ failedAt' = written' /\ output' = output
    <3>1. Kept = written /\ Kept' = written
      BY <1>1, <2>1, <2>4 DEF Kept
    <3>2. failedAt' \in 0 .. written'
      BY <2>2, <2>4
    <3> QED
      BY <2>1, <2>2, <2>4, <3>1, <3>2
  <2>5. CASE (failedAt # 0 \/ out = "cout") /\ output' = output /\ failedAt' = failedAt
    <3>1. out = "file" => Kept' = Kept
      BY <2>5 DEF Kept
    <3>2. failedAt' \in 0 .. written'
      BY <1>1, <2>1, <2>5
    <3> QED
      BY <2>1, <2>2, <2>5, <3>1, <3>2
  <2> QED
    BY <1>5, <2>3, <2>4, <2>5 DEF WriteLine
<1>6. CASE Finish
  <2>1. /\ tool = "writing" /\ written = OutputLines /\ tool' = "EXIT_SUCCESS" /\ pc' = pc
        /\ out' = out /\ output' = output /\ written' = written /\ failedAt' = failedAt /\ Kept' = Kept
    BY <1>6 DEF Finish, csvVars, Kept
  <2> QED
    BY <2>1
<1>7. CASE Exited \/ UNCHANGED <<csvVars, toolVars>>
  <2>1. /\ tool' = tool /\ out' = out /\ output' = output /\ written' = written
        /\ failedAt' = failedAt /\ pc' = pc /\ Kept' = Kept
    BY <1>7 DEF Exited, csvVars, toolVars, Kept
  <2> QED
    BY <2>1
<1> QED
  BY <1>2, <1>3, <1>4, <1>5, <1>6, <1>7 DEF ToolNext

LEMMA ToolReads == ToolSpec => CsvSpec
<1>1. ToolInit => CsvInit
  BY DEF ToolInit
<1>2. [ToolNext]_<<csvVars, toolVars>> => [CsvNext]_csvVars
  BY DEF ToolNext, ReadCsv, CsvError, CreateOutput, WriteLine, Finish, Exited
<1> QED
  BY <1>1, <1>2, PTL DEF ToolSpec, CsvSpec

(* preprocess_csv overwrites its output only after the whole input has been *)
(* accepted, and what is then in it is a beginning of what it writes, the   *)
(* header and the tensor, without a gap and whole unless a write failed.    *)
THEOREM OutputWhole == ToolSpec => []OutputOnlyOnSuccess
<1>1. ToolInit => ToolInv
  BY TensorRowsAssumption DEF ToolInit, ToolInv, OutputLines
<1>2. ASSUME ToolInv, ReadInv
      PROVE  OutputOnlyOnSuccess
  <2>1. pc = "ok" => Len(samples) = Len(DataRows)
    BY <1>2, ReadInvSays DEF SamplesAsRead
  <2>2. tool = "EXIT_SUCCESS" /\ out = "file" =>
          output = [k \in 1 .. (IF failedAt = 0 THEN OutputLines ELSE failedAt - 1) |-> k]
    BY <1>2 DEF ToolInv, Kept, FirstLines
  <2> QED
    BY <1>2, <2>1, <2>2 DEF ToolInv, OutputOnlyOnSuccess
<1> QED
  BY <1>1, <1>2, ToolInvInductive, ToolReads, ReadInvHolds, PTL DEF ToolSpec
-----------------------------------------------------------------------------
(* config.cpp, and the two programs' parts that load a configuration.       *)

USE LimitAssumption, FallbackAssumption, FilesAssumption

(* The parts load takes out of a line are texts again.                      *)

LEMMA ValueIsText ==
    ASSUME NEW l \in Chars
    PROVE  ValueOf(l) \in Chars
<1> DEFINE I == {i \in 1 .. Len(l) : l[i] = "="}
<1>1. Len(l) \in Nat
  BY DEF Chars
<1>2. EqualsAt(l) = IF I # {} THEN Min(I) ELSE 0
  BY DEF EqualsAt, SelectInSeq
<1>3. I # {} => Min(I) \in I
  <2>1. I \subseteq Nat
    BY <1>1
  <2> HIDE DEF I
  <2> QED
    BY <2>1, MinIs
<1>4. EqualsAt(l) \in 0 .. Len(l)
  BY <1>1, <1>2, <1>3
<1>5. SubSeq(l, EqualsAt(l) + 1, Len(l)) \in Chars
  <2>1. EqualsAt(l) + 1 \in 1 .. Len(l) + 1 /\ Len(l) \in (EqualsAt(l) + 1) - 1 .. Len(l)
    BY <1>1, <1>4
  <2> QED
    BY <2>1, SubSeqProperties DEF Chars
<1> QED
  BY <1>5, TrimTyped DEF ValueOf, Chars
-----------------------------------------------------------------------------
(* The number a text of digits is: a natural number, whatever its length.   *)

LEMMA DigitsAreNumbers ==
    \A d \in DOMAIN DigitValue : DigitValue[d] \in Nat
<1>1. DOMAIN Digits = 1 .. 10
  BY DEF Digits
<1>2. ASSUME NEW d \in ToSet(Digits)
      PROVE  (CHOOSE i \in DOMAIN Digits : Digits[i] = d) \in DOMAIN Digits
  BY <1>2 DEF ToSet
<1>3. ASSUME NEW d \in ToSet(Digits)
      PROVE  DigitValue[d] \in Nat
  <2> DEFINE i == CHOOSE i \in DOMAIN Digits : Digits[i] = d
  <2>1. i \in 1 .. 10
    BY <1>1, <1>2
  <2>2. DigitValue[d] = i - 1
    BY DEF DigitValue
  <2> HIDE DEF i
  <2> QED
    BY <2>1, <2>2
<1> QED
  BY <1>3 DEF DigitValue

LEMMA MagnitudeIsNatural ==
    ASSUME NEW text \in Chars, IsWhole(text)
    PROVE  Magnitude(text) \in Nat
<1> DEFINE u == Unsigned(text)
           n == Len(u)
           Step(g, k) == IF k = 0 THEN 0 ELSE 10 * g[k - 1] + DigitValue[u[k]]
           F(f) == f = [k \in 0 .. n |-> Step(f, k)]
           upTo == CHOOSE f : F(f)
           h == [p \in Nat \X (1 .. n) |-> 10 * p[1] + DigitValue[u[p[2]]]]
<1>1. u \in Chars /\ n \in Nat /\ DOMAIN u = 1 .. n
  <2>1. CASE text # <<>> /\ text[1] \in {"+", "-"}
    <3>1. Tail(text) \in Chars
      BY <2>1 DEF Chars
    <3> QED
      BY <2>1, <3>1 DEF Chars, Unsigned
  <2>2. CASE ~(text # <<>> /\ text[1] \in {"+", "-"})
    BY <2>2 DEF Chars, Unsigned
  <2> QED
    BY <2>1, <2>2
<1>2. \A k \in 1 .. n : DigitValue[u[k]] \in Nat
  <2>1. \A k \in 1 .. n : u[k] \in DOMAIN DigitValue
    BY <1>1 DEF IsWhole, ToSet
  <2> QED
    BY <2>1, DigitsAreNumbers
<1> HIDE DEF u, n
<1>3. \A x \in Nat : \A k \in 1 .. n : h[<<x, k>>] = 10 * x + DigitValue[u[k]]
  OBVIOUS
<1> HIDE DEF h
<1>4. \A x \in Nat : \A k \in 1 .. n : h[<<x, k>>] \in Nat
  <2>1. \A x, d \in Nat : 10 * x + d \in Nat
    OBVIOUS
  <2> QED
    BY <1>2, <1>3, <2>1
<1>5. PICK g \in [0 .. n -> Nat] : Recurs(g, 0, h, n)
  <2>1. IsStep(h, Nat, n) /\ 0 \in Nat
    BY <1>4 DEF IsStep
  <2> QED
    BY <1>1, <2>1, Recursion
<1>6. ASSUME NEW k \in 0 .. n
      PROVE  g[k] = Step(g, k)
  <2>1. k # 0 => g[k - 1] \in Nat /\ k \in 1 .. n
    BY <1>1
  <2>2. k # 0 => h[<<g[k - 1], k>>] = 10 * g[k - 1] + DigitValue[u[k]]
    BY <1>3, <2>1
  <2>3. g[k] = IF k = 0 THEN 0 ELSE h[<<g[k - 1], k>>]
    BY <1>5 DEF Recurs
  <2> QED
    BY <2>2, <2>3, Zenon
<1>7. F(g)
  BY <1>6
<1>8. F(upTo)
  BY <1>7
<1>9. \A k \in 0 .. n : upTo[k] = Step(upTo, k)
  <2> HIDE DEF upTo
  <2> QED
    BY <1>8
<1> HIDE DEF upTo
<1> DEFINE Q == {k \in 0 .. n : upTo[k] \in Nat}
<1>10. 0 \in Q
  BY <1>1, <1>9
<1>11. ASSUME NEW k \in 1 .. n, k - 1 \in Q
       PROVE  k \in Q
  <2>1. upTo[k] = 10 * upTo[k - 1] + DigitValue[u[k]]
    BY <1>1, <1>9
  <2>2. upTo[k - 1] \in Nat /\ k \in 0 .. n
    BY <1>11
  <2> QED
    BY <1>2, <2>1, <2>2
<1>12. n \in Q
  <2> HIDE DEF Q
  <2> QED
    <3>1. 0 .. n \subseteq Q
      BY <1>1, <1>10, <1>11, InductionUpTo
    <3> QED
      BY <1>1, <3>1
<1>13. upTo[n] \in Nat
  BY <1>12
<1> QED
  BY <1>13, Zenon DEF Magnitude, u, n, upTo
-----------------------------------------------------------------------------
(* What strtoull does with a minus is the remainder of the negative number. *)

LEMMA Wraps ==
    ASSUME NEW M \in Nat, M < SizeLimit
    PROVE  (SizeLimit - M) % SizeLimit = (-M) % SizeLimit
<1>1. CASE M = 0
  BY <1>1, SMT
<1>2. CASE M # 0
  <2>1. SizeLimit - M \in 1 .. SizeLimit - 1
    BY <1>2
  <2>2. (SizeLimit - M) % SizeLimit = SizeLimit - M
    BY <2>1, SMT
  <2>3. (-M) % SizeLimit = SizeLimit - M
    BY <2>1, SMT
  <2> QED
    BY <2>2, <2>3
<1> QED
  BY <1>1, <1>2

LEMMA TextsAgree ==
    ASSUME NEW text \in Chars, IntOf(text, 0) = IntOf(text, 1)
    PROVE  /\ SizeOf(text, 0) = SizeOf(text, 1)
           /\ SizeOf(text, 0) = IntOf(text, 0) % SizeLimit
<1> DEFINE M == Magnitude(text)
           n == IF IsNegative(text) THEN -M ELSE M
<1>1. IsWhole(text) /\ n \in -IntLimit .. IntLimit - 1
  BY DEF IntOf
<1>2. M \in Nat
  BY <1>1, MagnitudeIsNatural
<1>3. IntOf(text, 0) = n
  BY <1>1 DEF IntOf
<1> HIDE DEF M
<1>4. M < SizeLimit
  BY <1>1, <1>2
<1>5. ASSUME NEW fallback
      PROVE  SizeOf(text, fallback) = n % SizeLimit
  <2>1. CASE IsNegative(text)
    <3>1. SizeOf(text, fallback) = (SizeLimit - M) % SizeLimit
      BY <1>1, <1>4, <2>1 DEF SizeOf, M
    <3> QED
      BY <1>2, <1>4, <2>1, <3>1, Wraps
  <2>2. CASE ~IsNegative(text)
    BY <1>1, <1>4, <2>2 DEF SizeOf, M
  <2> QED
    BY <2>1, <2>2
<1> QED
  BY <1>3, <1>5

LEMMA SizeIsNatural ==
    ASSUME NEW text \in Chars
    PROVE  SizeOf(text, Fallback) \in Nat
<1> DEFINE M == Magnitude(text)
<1>1. CASE IsWhole(text) /\ M < SizeLimit
  <2>1. M \in Nat
    BY <1>1, MagnitudeIsNatural
  <2> HIDE DEF M
  <2>2. (SizeLimit - M) % SizeLimit \in Nat /\ M % SizeLimit \in Nat
    BY <2>1
  <2> QED
    BY <1>1, <2>2 DEF SizeOf, M
<1>2. CASE ~(IsWhole(text) /\ M < SizeLimit)
  BY <1>2 DEF SizeOf
<1> QED
  BY <1>1, <1>2

(* A text of digits that fits is the size itself.                           *)
LEMMA PlainSize ==
    ASSUME NEW text \in Chars, IsWhole(text), text[1] \in DOMAIN DigitValue
    PROVE  SizeOf(text, Fallback) =
               IF Magnitude(text) < SizeLimit THEN Magnitude(text) ELSE Fallback
<1> DEFINE M == Magnitude(text)
<1>1. ~IsNegative(text)
  BY DEF IsNegative, DigitValue, Digits, ToSet
<1>2. M \in Nat
  BY MagnitudeIsNatural
<1>3. SizeOf(text, Fallback) = IF M < SizeLimit THEN M % SizeLimit ELSE Fallback
  BY <1>1 DEF SizeOf
<1> HIDE DEF M
<1>4. M < SizeLimit => M % SizeLimit = M
  BY <1>2
<1> QED
  BY <1>3, <1>4 DEF M
-----------------------------------------------------------------------------
(* A file's lines, and what it means that values and a section are what     *)
(* they say: ValuesAsWritten without the variables, and the section.        *)

SectionIn(ls, k) ==
    LET before == {i \in 1 .. k : IsSection(ls[i])}
    IN  IF before = {} THEN <<>> ELSE SectionName(ls[Max(before)])
KeyIn(ls, k) == Qualified(SectionIn(ls, k), KeyOf(ls[k]))
EntriesIn(ls) == {k \in DOMAIN ls : IsEntry(ls[k])}
Accepted(l) == IsSkipped(l) \/ IsEntry(l) \/ (IsSection(l) /\ SectionName(l) # <<>>)

\* The last of the entries with its key.
IsLast(ls, k) ==
    k \in EntriesIn(ls) /\ \A j \in EntriesIn(ls) : KeyIn(ls, j) = KeyIn(ls, k) => j <= k

Says(ls, vs, sec) ==
    /\ sec = SectionIn(ls, Len(ls))
    /\ DOMAIN vs = {KeyIn(ls, k) : k \in EntriesIn(ls)}
    /\ \A k \in EntriesIn(ls) : IsLast(ls, k) => vs[KeyIn(ls, k)] = ValueOf(ls[k])
    /\ \A k \in DOMAIN ls : Accepted(ls[k])
    /\ \A key \in DOMAIN vs : vs[key] \in Chars

(* The sections and the keys of the lines before do not change when one     *)
(* more is read, and the last section is found again.                       *)
LEMMA OneMoreLine ==
    ASSUME NEW ls \in Seq(Chars), NEW l \in Chars
    PROVE  LET m == Append(ls, l)
               n == Len(ls)
           IN  /\ m \in Seq(Chars) /\ Len(m) = n + 1 /\ m[n + 1] = l
               /\ \A k \in 1 .. n : m[k] = ls[k] /\ KeyIn(m, k) = KeyIn(ls, k)
               /\ SectionIn(m, n + 1) =
                      IF IsSection(l) THEN SectionName(l) ELSE SectionIn(ls, n)
               /\ EntriesIn(m) = EntriesIn(ls) \cup IF IsEntry(l) THEN {n + 1} ELSE {}
<1> DEFINE m == Append(ls, l)
           n == Len(ls)
           B(s, k) == {i \in 1 .. k : IsSection(s[i])}
<1>1. n \in Nat /\ DOMAIN ls = 1 .. n
  OBVIOUS
<1>2. m \in Seq(Chars) /\ Len(m) = n + 1 /\ m[n + 1] = l /\ DOMAIN m = 1 .. n + 1
  OBVIOUS
<1>3. \A k \in 1 .. n : m[k] = ls[k]
  OBVIOUS
<1> HIDE DEF m, n
<1>4. ASSUME NEW k \in 0 .. n
      PROVE  B(m, k) = B(ls, k) /\ B(ls, k) \subseteq 0 .. k
  <2>1. 1 .. k \subseteq 1 .. n /\ 1 .. k \subseteq 0 .. k
    BY <1>1
  <2> QED
    BY <1>3, <2>1
<1>5. ASSUME NEW k \in 0 .. n
      PROVE  SectionIn(m, k) = SectionIn(ls, k)
  <2>1. B(ls, k) # {} => Max(B(ls, k)) \in 1 .. n
    <3>1. k \in Nat
      BY <1>1
    <3>2. B(ls, k) # {} => Max(B(ls, k)) \in B(ls, k)
      <4> HIDE DEF B
      <4> QED
        BY <1>4, <3>1, MaxIs
    <3> QED
      BY <1>1, <3>2
  <2>2. B(ls, k) # {} => m[Max(B(ls, k))] = ls[Max(B(ls, k))]
    BY <1>3, <2>1
  <2> QED
    BY <1>4, <2>2, Zenon DEF SectionIn
<1>6. ASSUME NEW k \in 1 .. n
      PROVE  m[k] = ls[k] /\ KeyIn(m, k) = KeyIn(ls, k)
  <2>1. k \in 0 .. n
    BY <1>1
  <2> QED
    BY <1>3, <1>5, <2>1, Zenon DEF KeyIn
<1>7. SectionIn(m, n + 1) =
          IF IsSection(l) THEN SectionName(l) ELSE SectionIn(ls, n)
  <2>1. 1 .. n + 1 = (1 .. n) \cup {n + 1} /\ n \in 0 .. n
    BY <1>1
  <2>2. B(m, n + 1) = B(m, n) \cup IF IsSection(l) THEN {n + 1} ELSE {}
    BY <1>2, <2>1
  <2>3. CASE IsSection(l)
    <3>1. B(m, n + 1) \subseteq Int /\ n + 1 \in B(m, n + 1)
          /\ \A y \in B(m, n + 1) : n + 1 >= y
      BY <1>1, <2>2, <2>3
    <3>2. Max(B(m, n + 1)) = n + 1
      <4> HIDE DEF B
      <4> QED
        BY <3>1, MaxUnique
    <3>3. SectionIn(m, n + 1) = SectionName(m[n + 1])
      BY <3>1, <3>2, Zenon DEF SectionIn
    <3> QED
      BY <1>2, <2>3, <3>3
  <2>4. CASE ~IsSection(l)
    <3>1. B(m, n + 1) = B(m, n)
      BY <2>2, <2>4
    <3>2. SectionIn(m, n + 1) = SectionIn(m, n)
      BY <3>1, Zenon DEF SectionIn
    <3> QED
      BY <1>5, <2>1, <2>4, <3>2
  <2> QED
    BY <2>3, <2>4
<1>8. EntriesIn(m) = EntriesIn(ls) \cup IF IsEntry(l) THEN {n + 1} ELSE {}
  <2>1. 1 .. n + 1 = (1 .. n) \cup {n + 1}
    BY <1>1
  <2> QED
    BY <1>1, <1>2, <1>3, <2>1 DEF EntriesIn
<1> QED
  BY <1>2, <1>6, <1>7, <1>8 DEF m, n

(* One accepted line more, and what it does to the values and the section.  *)
LEMMA SaysSkipped ==
    ASSUME NEW ls \in Seq(Chars), NEW l \in Chars, NEW vs, NEW sec,
           Says(ls, vs, sec), Accepted(l), ~IsEntry(l)
    PROVE  Says(Append(ls, l), vs, IF IsSection(l) THEN SectionName(l) ELSE sec)
<1> DEFINE m == Append(ls, l)
           n == Len(ls)
<1>1. /\ m \in Seq(Chars) /\ Len(m) = n + 1 /\ m[n + 1] = l
      /\ \A k \in 1 .. n : m[k] = ls[k] /\ KeyIn(m, k) = KeyIn(ls, k)
      /\ SectionIn(m, n + 1) = IF IsSection(l) THEN SectionName(l) ELSE SectionIn(ls, n)
      /\ EntriesIn(m) = EntriesIn(ls)
  BY OneMoreLine
<1>2. n \in Nat /\ DOMAIN ls = 1 .. n /\ DOMAIN m = (1 .. n) \cup {n + 1}
  BY <1>1
<1>3. EntriesIn(ls) \subseteq 1 .. n
  BY <1>2 DEF EntriesIn
<1> HIDE DEF m, n
<1>4. {KeyIn(m, k) : k \in EntriesIn(m)} = {KeyIn(ls, k) : k \in EntriesIn(ls)}
  BY <1>1, <1>3
<1>5. \A k \in EntriesIn(m) : IsLast(m, k) => IsLast(ls, k)
  BY <1>1, <1>3 DEF IsLast
<1>6. \A k \in EntriesIn(m) : IsLast(m, k) => vs[KeyIn(m, k)] = ValueOf(m[k])
  BY <1>1, <1>3, <1>5 DEF Says
<1>7. \A k \in DOMAIN m : Accepted(m[k])
  BY <1>1, <1>2 DEF Says
<1>8. SectionIn(m, Len(m)) = IF IsSection(l) THEN SectionName(l) ELSE sec
  BY <1>1 DEF Says, n
<1> QED
  BY <1>4, <1>6, <1>7, <1>8 DEF Says, m

LEMMA SaysEntry ==
    ASSUME NEW ls \in Seq(Chars), NEW l \in Chars, NEW vs, NEW sec,
           Says(ls, vs, sec), IsEntry(l)
    PROVE  LET set == Qualified(sec, KeyOf(l)) IN
           Says(Append(ls, l),
                [key \in DOMAIN vs \cup {set} |->
                    IF key = set THEN ValueOf(l) ELSE vs[key]], sec)
<1> DEFINE m == Append(ls, l)
           n == Len(ls)
           set == Qualified(sec, KeyOf(l))
           ws == [key \in DOMAIN vs \cup {set} |-> IF key = set THEN ValueOf(l) ELSE vs[key]]
<1>0. ~IsSection(l) /\ Accepted(l)
  BY DEF IsEntry, Accepted
<1>1. /\ m \in Seq(Chars) /\ Len(m) = n + 1 /\ m[n + 1] = l
      /\ \A k \in 1 .. n : m[k] = ls[k] /\ KeyIn(m, k) = KeyIn(ls, k)
      /\ SectionIn(m, n + 1) = SectionIn(ls, n)
      /\ EntriesIn(m) = EntriesIn(ls) \cup {n + 1}
  BY <1>0, OneMoreLine
<1>2. n \in Nat /\ DOMAIN ls = 1 .. n /\ DOMAIN m = (1 .. n) \cup {n + 1}
  BY <1>1
<1>3. EntriesIn(ls) \subseteq 1 .. n
  BY <1>2 DEF EntriesIn
<1>4. SectionIn(ls, n) = sec /\ KeyIn(m, n + 1) = set
  <2>1. SectionIn(ls, n) = sec
    BY DEF Says
  <2> QED
    BY <1>1, <2>1 DEF KeyIn
<1> HIDE DEF m, n, set
<1>5. {KeyIn(m, k) : k \in EntriesIn(m)} = {KeyIn(ls, k) : k \in EntriesIn(ls)} \cup {set}
  BY <1>1, <1>3, <1>4
<1>6. DOMAIN ws = {KeyIn(m, k) : k \in EntriesIn(m)}
  BY <1>5 DEF Says
<1>7. ASSUME NEW k \in EntriesIn(m), IsLast(m, k)
      PROVE  ws[KeyIn(m, k)] = ValueOf(m[k])
  <2>1. CASE k = n + 1
    BY <1>1, <1>4, <2>1
  <2>2. CASE k \in EntriesIn(ls)
    <3>1. KeyIn(m, k) # set
      <4>1. n + 1 \in EntriesIn(m) /\ ~(n + 1 <= k)
        BY <1>1, <1>2, <1>3, <2>2
      <4> QED
        BY <1>4, <1>7, <4>1 DEF IsLast
    <3>2. IsLast(ls, k) /\ KeyIn(m, k) = KeyIn(ls, k) /\ m[k] = ls[k]
      BY <1>1, <1>3, <1>7, <2>2 DEF IsLast
    <3>3. vs[KeyIn(ls, k)] = ValueOf(ls[k]) /\ KeyIn(ls, k) \in DOMAIN vs
      BY <2>2, <3>2 DEF Says
    <3> QED
      BY <3>1, <3>2, <3>3
  <2> QED
    BY <1>1, <2>1, <2>2
<1>8. \A k \in DOMAIN m : Accepted(m[k])
  BY <1>0, <1>1, <1>2 DEF Says
<1>9. SectionIn(m, Len(m)) = sec
  BY <1>1, <1>4
<1>10. \A key \in DOMAIN ws : ws[key] \in Chars
  BY ValueIsText DEF Says
<1> HIDE DEF ws
<1> QED
  BY <1>6, <1>7, <1>8, <1>9, <1>10 DEF Says, m, set, ws

LEMMA SaysNothing ==
    Says(<<>>, NoValues, <<>>)
<1>1. SectionIn(<<>>, Len(<<>>)) = <<>>
  <2>1. Len(<<>>) = 0 /\ 1 .. 0 = {}
    OBVIOUS
  <2> QED
    BY <2>1 DEF SectionIn
<1> QED
  BY <1>1 DEF Says, NoValues, EntriesIn
-----------------------------------------------------------------------------
(* Reading: what is unread is the end of the file, and a step of load turns *)
(* its first line into the last one that has been read.                     *)

RawOf(o, u) == SubSeq(o, 1, Len(o) - Len(u))
LinesOf(raw) == [k \in DOMAIN raw |-> Trim(raw[k])]

IsRest(o, u) ==
    /\ o \in Seq(Chars) /\ u \in Seq(Chars)
    /\ Len(u) <= Len(o)
    /\ \A k \in 1 .. Len(u) : u[k] = o[Len(o) - Len(u) + k]

LEMMA LinesReadIs ==
    RawLines = RawOf(opened, unread) /\ LinesRead = LinesOf(RawLines)
BY DEF RawLines, LinesRead, RawOf, LinesOf

LEMMA RawIs ==
    ASSUME NEW o, NEW u, IsRest(o, u)
    PROVE  /\ RawOf(o, u) \in Seq(Chars) /\ Len(RawOf(o, u)) = Len(o) - Len(u)
           /\ \A k \in 1 .. Len(o) - Len(u) : RawOf(o, u)[k] = o[k]
<1>1. Len(o) \in Nat /\ Len(u) \in Nat /\ Len(u) <= Len(o) /\ o \in Seq(Chars)
  BY DEF IsRest
<1>2. 1 \in 1 .. Len(o) + 1 /\ Len(o) - Len(u) \in 1 - 1 .. Len(o)
  BY <1>1
<1> QED
  BY <1>1, <1>2, SubSeqProperties DEF RawOf

LEMMA LinesAre ==
    ASSUME NEW raw \in Seq(Chars)
    PROVE  /\ LinesOf(raw) \in Seq(Chars) /\ Len(LinesOf(raw)) = Len(raw)
           /\ \A k \in 1 .. Len(raw) : LinesOf(raw)[k] = Trim(raw[k])
<1>1. Len(raw) \in Nat /\ DOMAIN raw = 1 .. Len(raw)
  OBVIOUS
<1>2. \A k \in 1 .. Len(raw) : Trim(raw[k]) \in Chars
  BY TrimTyped DEF Chars
<1> QED
  BY <1>1, <1>2 DEF LinesOf

LEMMA OneMoreRead ==
    ASSUME NEW o, NEW u, IsRest(o, u), u # <<>>
    PROVE  /\ IsRest(o, Tail(u))
           /\ Trim(Head(u)) \in Chars
           /\ LinesOf(RawOf(o, Tail(u))) = Append(LinesOf(RawOf(o, u)), Trim(Head(u)))
<1> DEFINE v == Tail(u)
           d == Len(o) - Len(u)
           e == Len(o) - Len(v)
           raw == RawOf(o, u)
           more == RawOf(o, v)
<1>1. o \in Seq(Chars) /\ u \in Seq(Chars)
  BY DEF IsRest
<1>2. v \in Seq(Chars) /\ Len(v) = Len(u) - 1 /\ Head(u) = u[1] /\ u[1] \in Chars
  BY <1>1
<1>3. Len(u) \in 1 .. Len(o) /\ Len(o) \in Nat /\ Len(v) \in Nat
  BY <1>1, <1>2 DEF IsRest
<1>4. d \in Nat /\ e = d + 1
  BY <1>2, <1>3
<1>5. ASSUME NEW k \in 1 .. Len(v)
      PROVE  v[k] = o[e + k]
  <2>1. v[k] = u[k + 1] /\ k + 1 \in 1 .. Len(u)
    BY <1>1, <1>2
  <2>2. u[k + 1] = o[d + (k + 1)] /\ d + (k + 1) = e + k
    BY <1>4, <2>1 DEF IsRest
  <2> QED
    BY <2>1, <2>2
<1>6. IsRest(o, v)
  BY <1>1, <1>2, <1>3, <1>5 DEF IsRest
<1>7. o[e] = u[1]
  <2>1. 1 \in 1 .. Len(u) /\ d + 1 = e
    BY <1>3, <1>4
  <2> QED
    BY <2>1 DEF IsRest
<1>8. /\ raw \in Seq(Chars) /\ Len(raw) = d /\ \A k \in 1 .. d : raw[k] = o[k]
      /\ more \in Seq(Chars) /\ Len(more) = e /\ \A k \in 1 .. e : more[k] = o[k]
  BY <1>6, RawIs
<1> HIDE DEF v, d, e, raw, more
<1>9. /\ LinesOf(raw) \in Seq(Chars) /\ Len(LinesOf(raw)) = d
      /\ LinesOf(more) \in Seq(Chars) /\ Len(LinesOf(more)) = e
      /\ \A k \in 1 .. d : LinesOf(raw)[k] = Trim(o[k])
      /\ \A k \in 1 .. e : LinesOf(more)[k] = Trim(o[k])
  BY <1>8, LinesAre
<1>10. Trim(Head(u)) \in Chars
  BY <1>2, TrimTyped DEF Chars
<1>11. LinesOf(more) = Append(LinesOf(raw), Trim(Head(u)))
  <2> DEFINE a == Append(LinesOf(raw), Trim(Head(u)))
  <2>1. a \in Seq(Chars) /\ Len(a) = e /\ a[e] = Trim(Head(u))
        /\ \A k \in 1 .. d : a[k] = LinesOf(raw)[k]
    BY <1>4, <1>9, <1>10
  <2>2. \A k \in 1 .. e : k = e \/ k \in 1 .. d
    BY <1>4
  <2>3. \A k \in 1 .. e : a[k] = LinesOf(more)[k]
    BY <1>2, <1>4, <1>7, <1>9, <2>1, <2>2
  <2> HIDE DEF a
  <2>4. LinesOf(more) = a
    BY <1>9, <2>1, <2>3, SeqEqual
  <2> QED
    BY <2>4 DEF a
<1> QED
  BY <1>6, <1>10, <1>11 DEF v, raw, more
-----------------------------------------------------------------------------
(* The invariant of a load: at every moment, also before a file is opened   *)
(* and after a bad line, the values and the section are what the lines read *)
(* so far say.                                                              *)
LoadInv ==
    /\ IsRest(opened, unread)
    /\ Says(LinesRead, values, section)

LEMMA LoadTyped ==
    ASSUME LoadInv
    PROVE  RawLines \in Seq(Chars) /\ LinesRead \in Seq(Chars) /\ Len(LinesRead) = Len(RawLines)
BY RawIs, LinesAre, LinesReadIs DEF LoadInv

LEMMA FreshLoad ==
    ASSUME NEW lines \in Seq(Chars)
    PROVE  IsRest(lines, lines) /\ Says(LinesOf(RawOf(lines, lines)), NoValues, <<>>)
<1>1. IsRest(lines, lines)
  BY DEF IsRest
<1>2. RawOf(lines, lines) \in Seq(Chars) /\ Len(RawOf(lines, lines)) = 0
  BY <1>1, RawIs
<1>3. LinesOf(RawOf(lines, lines)) = <<>>
  <2>1. LinesOf(RawOf(lines, lines)) \in Seq(Chars) /\ Len(LinesOf(RawOf(lines, lines))) = 0
    BY <1>2, LinesAre
  <2> QED
    BY <2>1, EmptySeq
<1> QED
  BY <1>1, <1>3, SaysNothing

LEMMA ReadKeeps ==
    ASSUME LoadInv, ReadStep
    PROVE  LoadInv'
<1> DEFINE more == /\ IsRest(opened', unread')
                   /\ LinesRead' = Append(LinesRead, Line)
<1>1. ASSUME Reading, opened' = opened, unread' = Tail(unread)
      PROVE  more /\ Line \in Chars
  <2>1. IsRest(opened, unread) /\ unread # <<>>
    BY <1>1 DEF LoadInv, Reading
  <2>2. /\ IsRest(opened, Tail(unread)) /\ Line \in Chars
        /\ LinesOf(RawOf(opened, Tail(unread))) = Append(LinesRead, Line)
    BY <2>1, OneMoreRead, LinesReadIs DEF Line
  <2>3. LinesRead' = LinesOf(RawOf(opened', unread'))
    BY DEF LinesRead, RawLines, LinesOf, RawOf
  <2> QED
    BY <1>1, <2>2, <2>3
<1>2. LinesRead \in Seq(Chars) /\ Says(LinesRead, values, section)
  BY LoadTyped DEF LoadInv
<1>3. CASE SkipLine
  <2>1. more /\ Line \in Chars /\ values' = values /\ section' = section
    BY <1>1, <1>3 DEF SkipLine
  <2>2. Accepted(Line) /\ ~IsEntry(Line) /\ ~IsSection(Line)
    BY <1>3 DEF SkipLine, Accepted, IsEntry, IsSection
  <2>3. Says(Append(LinesRead, Line), values, section)
    BY <1>2, <2>1, <2>2, SaysSkipped
  <2> QED
    BY <2>1, <2>3 DEF LoadInv
<1>4. CASE EnterSection
  <2>1. more /\ Line \in Chars /\ values' = values /\ section' = SectionName(Line)
    BY <1>1, <1>4 DEF EnterSection
  <2>2. Accepted(Line) /\ ~IsEntry(Line) /\ IsSection(Line)
    BY <1>4 DEF EnterSection, Accepted, IsEntry
  <2>3. Says(Append(LinesRead, Line), values, SectionName(Line))
    BY <1>2, <2>1, <2>2, SaysSkipped
  <2> QED
    BY <2>1, <2>3 DEF LoadInv
<1>5. CASE SetValue
  <2> DEFINE set == Qualified(section, KeyOf(Line))
             vs == [key \in DOMAIN values \cup {set} |->
                       IF key = set THEN ValueOf(Line) ELSE values[key]]
  <2>1. more /\ Line \in Chars /\ values' = vs /\ section' = section
    BY <1>1, <1>5 DEF SetValue
  <2>2. IsEntry(Line)
    BY <1>5 DEF SetValue
  <2>3. Says(Append(LinesRead, Line), vs, section)
    BY <1>2, <2>1, <2>2, SaysEntry
  <2> QED
    BY <2>1, <2>3 DEF LoadInv
<1>6. CASE BadLine \/ EndOfLines
  <2>1. UNCHANGED <<values, section, opened, unread>>
    BY <1>6 DEF BadLine, EndOfLines
  <2> QED
    BY <2>1 DEF LoadInv, LinesRead, RawLines
<1> QED
  BY <1>3, <1>4, <1>5, <1>6 DEF ReadStep
-----------------------------------------------------------------------------
(* The program: the size a file names, seen from its lines alone.           *)

NamesCapacity(ls) == {k \in EntriesIn(ls) : KeyIn(ls, k) = CapacityKey}
SizeSaid(raw) ==
    LET ls == LinesOf(raw) IN
    IF NamesCapacity(ls) = {} THEN Fallback
    ELSE SizeOf(ValueOf(ls[Max(NamesCapacity(ls))]), Fallback)

LEMMA CapacityIs ==
    ASSUME LoadInv
    PROVE  /\ GetSize(CapacityKey, Fallback) = SizeSaid(RawLines)
           /\ SizeSaid(RawLines) \in Nat
           /\ CapacityEntries = NamesCapacity(LinesRead)
           /\ CapacityEntries # {} => CapacityText \in Chars
<1> DEFINE S == NamesCapacity(LinesRead)
           k == Max(S)
<1>1. LinesRead \in Seq(Chars) /\ LinesRead = LinesOf(RawLines)
  BY LoadTyped, LinesReadIs
<1>2. DOMAIN LinesRead = 1 .. Len(LinesRead) /\ Len(LinesRead) \in Nat
  BY <1>1
<1>3. CapacityEntries = S
  BY DEF CapacityEntries, NamesCapacity, Entries, EntriesIn, KeyAt, KeyIn, SectionAt, SectionIn
<1>4. S \subseteq 1 .. Len(LinesRead) /\ S \subseteq 0 .. Len(LinesRead)
  BY <1>2 DEF NamesCapacity, EntriesIn
<1>5. CapacityKey \in DOMAIN values <=> S # {}
  BY DEF LoadInv, Says, NamesCapacity
<1>6. CASE S = {}
  <2>1. GetSize(CapacityKey, Fallback) = Fallback
    BY <1>5, <1>6 DEF GetSize
  <2>2. SizeSaid(RawLines) = Fallback /\ Fallback \in Nat
    BY <1>1, <1>6 DEF SizeSaid
  <2> QED
    BY <1>3, <1>6, <2>1, <2>2
<1>7. CASE S # {}
  <2>1. k \in S /\ \A y \in S : k >= y
    <3> HIDE DEF S
    <3> QED
      BY <1>2, <1>4, <1>7, MaxIs
  <2>2. k \in EntriesIn(LinesRead) /\ KeyIn(LinesRead, k) = CapacityKey
    BY <2>1 DEF NamesCapacity
  <2>3. ASSUME NEW j \in EntriesIn(LinesRead), KeyIn(LinesRead, j) = KeyIn(LinesRead, k)
        PROVE  j <= k
    <3>1. j \in S
      BY <2>2, <2>3 DEF NamesCapacity
    <3>2. j \in Int /\ k \in Int /\ k >= j
      BY <1>4, <2>1, <3>1
    <3> QED
      BY <3>2
  <2> HIDE DEF S, k
  <2>4. IsLast(LinesRead, k)
    BY <2>2, <2>3 DEF IsLast
  <2>5. values[CapacityKey] = ValueOf(LinesRead[k])
    BY <2>2, <2>4 DEF LoadInv, Says
  <2>6. GetSize(CapacityKey, Fallback) = SizeOf(ValueOf(LinesRead[k]), Fallback)
    BY <1>5, <1>7, <2>5 DEF GetSize
  <2>7. SizeSaid(RawLines) = SizeOf(ValueOf(LinesRead[k]), Fallback)
    BY <1>1, <1>7 DEF SizeSaid, S, k
  <2>8. CapacityText = ValueOf(LinesRead[k])
    BY <1>3 DEF CapacityText, k
  <2>9. ValueOf(LinesRead[k]) \in Chars
    <3>1. LinesRead[k] \in Chars
      BY <1>1, <1>4, <2>1, <1>2 DEF S
    <3> QED
      BY <3>1, ValueIsText
  <2> QED
    BY <1>3, <2>6, <2>7, <2>8, <2>9, SizeIsNatural DEF S
<1> QED
  BY <1>6, <1>7

StartupInv ==
    /\ disk \in Files \cup Edits \cup {NoFile}
    /\ LoadInv
    /\ announced \in {Silent, SizeSaid(heard)}
    /\ main = "start" => capacity = SizeSaid(RawLines) /\ capacity # 0

LEMMA StartupInit ==
    Init => StartupInv
<1> SUFFICES ASSUME Init PROVE StartupInv
  OBVIOUS
<1>1. <<>> \in Seq(Chars)
  OBVIOUS
<1>2. IsRest(<<>>, <<>>) /\ Says(LinesOf(RawOf(<<>>, <<>>)), NoValues, <<>>)
  BY <1>1, FreshLoad
<1>3. LoadInv
  BY <1>2, LinesReadIs DEF Init, ConfigInit, LoadInv
<1> QED
  BY <1>3 DEF Init, StartupInv

LEMMA StartupStep ==
    StartupInv /\ [Next]_vars => StartupInv'
<1> SUFFICES ASSUME StartupInv, [Next]_vars PROVE StartupInv'
  OBVIOUS
<1> USE DEF StartupInv
<1>1. ASSUME UNCHANGED configVars
      PROVE  LoadInv' /\ RawLines' = RawLines
  BY <1>1 DEF configVars, LoadInv, LinesRead, RawLines
<1>2. ASSUME NEW lines \in Seq(Chars), opened' = lines, unread' = lines,
             values' = NoValues, section' = <<>>
      PROVE  LoadInv'
  <2>1. IsRest(lines, lines) /\ Says(LinesOf(RawOf(lines, lines)), NoValues, <<>>)
    BY FreshLoad
  <2>2. LinesRead' = LinesOf(RawOf(opened', unread'))
    BY DEF LinesRead, RawLines, LinesOf, RawOf
  <2> QED
    BY <1>2, <2>1, <2>2 DEF LoadInv
<1>3. CASE Edit
  BY <1>1, <1>3 DEF Edit, startupVars
<1>4. CASE Open
  <2>1. LoadInv'
    <3>1. CASE disk = NoFile
      BY <1>1, <1>4, <3>1 DEF Open, OpenFails, configVars, LoadInv, LinesRead, RawLines
    <3>2. CASE disk # NoFile
      <4>1. disk \in Seq(Chars)
        BY <3>2 DEF Chars
      <4> QED
        BY <1>2, <1>4, <3>2, <4>1 DEF Open, OpenFile
    <3> QED
      BY <3>1, <3>2
  <2> QED
    BY <1>4, <2>1 DEF Open, Loading, startupVars
<1>5. CASE Read
  <2>1. LoadInv'
    BY <1>5, ReadKeeps DEF Read
  <2> QED
    BY <1>5, <2>1 DEF Read, Loading, startupVars
<1>6. CASE LoadFailed
  BY <1>1, <1>6 DEF LoadFailed
<1>7. CASE Announce
  <2>1. LoadInv'
    <3>1. <<>> \in Seq(Chars)
      OBVIOUS
    <3> QED
      BY <1>2, <1>7, <3>1 DEF Announce
  <2>2. announced' \in {Silent, SizeSaid(heard')}
    BY <1>7, CapacityIs DEF Announce
  <2> QED
    BY <1>7, <2>1, <2>2 DEF Announce
<1>8. CASE BuildQueue
  <2>1. LoadInv' /\ RawLines' = RawLines
    BY <1>1, <1>8 DEF BuildQueue
  <2>2. capacity' = SizeSaid(RawLines) /\ (main' = "start" => capacity' # 0)
    BY <1>8, CapacityIs DEF BuildQueue
  <2> QED
    BY <1>8, <2>1, <2>2 DEF BuildQueue
<1>9. CASE UNCHANGED vars
  BY <1>1, <1>9 DEF vars, startupVars
<1> QED
  BY <1>3, <1>4, <1>5, <1>6, <1>7, <1>8, <1>9 DEF Next, Ended

LEMMA StartupInvariant ==
    Spec => []StartupInv
BY StartupInit, StartupStep, PTL DEF Spec
-----------------------------------------------------------------------------
(* What Config::load has put into values_ is what the lines of the file     *)
(* that were read say, for every file: each entry under the last section    *)
(* before it, the last of several with one key, and no malformed line       *)
(* passed over (config.cpp:23-54).                                          *)
THEOREM FilesSay ==
    Spec => []ValuesAsWritten
<1>1. StartupInv => ValuesAsWritten
  <2> SUFFICES ASSUME LoadInv PROVE ValuesAsWritten
    BY DEF StartupInv
  <2>1. Entries = EntriesIn(LinesRead) /\ \A k : KeyAt(k) = KeyIn(LinesRead, k)
    BY DEF Entries, EntriesIn, KeyAt, KeyIn, SectionAt, SectionIn
  <2>2. ASSUME NEW k \in Entries, \A j \in Entries : KeyAt(j) = KeyAt(k) => j <= k
        PROVE  values[KeyAt(k)] = ValueOf(LinesRead[k])
    <3>1. IsLast(LinesRead, k)
      BY <2>1, <2>2 DEF IsLast
    <3> QED
      BY <2>1, <3>1 DEF LoadInv, Says
  <2>3. DOMAIN values = {KeyAt(k) : k \in Entries}
    BY <2>1 DEF LoadInv, Says
  <2>4. \A k \in DOMAIN LinesRead : Accepted(LinesRead[k])
    BY DEF LoadInv, Says
  <2> QED
    BY <2>2, <2>3, <2>4 DEF ValuesAsWritten, Accepted
<1> QED
  BY <1>1, StartupInvariant, PTL

(* For every text the file can hold, of whatever length: a number get_int   *)
(* finds, get_size finds too and it is the same one modulo 2^64             *)
(* (config.cpp:69-93).                                                      *)
THEOREM NumbersAgree ==
    Spec => []GettersAgree
<1>1. StartupInv => GettersAgree
  <2> SUFFICES ASSUME LoadInv, NEW key \in DOMAIN values, GetInt(key, 0) = GetInt(key, 1)
               PROVE  /\ GetSize(key, 0) = GetSize(key, 1)
                      /\ GetSize(key, 0) = GetInt(key, 0) % SizeLimit
    BY DEF StartupInv, GettersAgree, Finds
  <2>1. values[key] \in Chars
    BY DEF LoadInv, Says
  <2>2. IntOf(values[key], 0) = IntOf(values[key], 1)
    BY DEF GetInt
  <2> QED
    BY <2>1, <2>2, TextsAgree DEF GetInt, GetSize
<1> QED
  BY <1>1, StartupInvariant, PTL

(* The raw queue is as large as the file Application::initialize has read   *)
(* says, and as main has logged if both loads have read the same lines; it  *)
(* has room whenever the pipeline is started (main.cpp:40,                  *)
(* application.cpp:22).                                                     *)
THEOREM QueueSized ==
    Spec => []QueueAsAnnounced
<1>1. StartupInv => QueueAsAnnounced
  <2> SUFFICES ASSUME StartupInv, main = "start" PROVE QueueAsAnnounced
    BY DEF QueueAsAnnounced
  <2>1. /\ capacity = SizeSaid(RawLines) /\ capacity > 0
        /\ CapacityEntries = NamesCapacity(LinesRead)
        /\ CapacityEntries # {} => CapacityText \in Chars
    BY CapacityIs DEF StartupInv
  <2>2. announced # Silent /\ heard = RawLines => capacity = announced
    BY <2>1 DEF StartupInv
  <2>3. CapacityEntries = {} => capacity = Fallback
    BY <2>1, LinesReadIs DEF SizeSaid
  <2>4. ASSUME CapacityEntries # {}
        PROVE  capacity = SizeOf(CapacityText, Fallback) /\ CapacityText \in Chars
    BY <2>1, <2>4, LinesReadIs DEF SizeSaid, CapacityText
  <2>5. ASSUME CapacityEntries # {}, ~IsWhole(CapacityText)
        PROVE  capacity = Fallback
    BY <2>4, <2>5 DEF SizeOf
  <2>6. ASSUME CapacityEntries # {}, IsWhole(CapacityText),
               CapacityText[1] \in DOMAIN DigitValue
        PROVE  capacity = IF Magnitude(CapacityText) < SizeLimit
                          THEN Magnitude(CapacityText) ELSE Fallback
    BY <2>4, <2>6, PlainSize
  <2> QED
    BY <2>1, <2>2, <2>3, <2>5, <2>6 DEF QueueAsAnnounced
<1> QED
  BY <1>1, StartupInvariant, PTL
=============================================================================
