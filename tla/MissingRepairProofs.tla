------------------------- MODULE MissingRepairProofs ------------------------
(***************************************************************************)
(* repair_radar_channel computes what its header promises, for channels of *)
(* every length.  The loop invariant says where the frontier is: up to     *)
(* left the channel is repaired, after it the channel is as Mark left it,  *)
(* and there is nothing valid between left and right.                      *)
(***************************************************************************)
EXTENDS MissingRepair, FiniteSetTheorems, TLAPS

Marked(i) == values[i] = IF i \in valid THEN Sample(i) ELSE Missing
Repaired(i) == IsRepaired(valid, i, values[i])
Counted == stats.invalid = Cardinality(Positions(n) \ valid)

Shape ==
    /\ n \in Nat
    /\ valid \subseteq Positions(n)
    /\ values = [i \in Positions(n) |-> values[i]]
    /\ stats \in [invalid : Nat, all : BOOLEAN]
    /\ left \in Nat /\ right \in Nat
    /\ pc \in {"mark", "first", "scan", "done"}

AtMark == pc = "mark" =>
    /\ \A i \in Positions(n) : values[i] = Sample(i)
    /\ stats.invalid = 0 /\ stats.all = FALSE

AtFirst == pc = "first" =>
    /\ n > 0
    /\ \A i \in Positions(n) : Marked(i)
    /\ Counted /\ stats.all = FALSE

AtScan == pc = "scan" =>
    /\ left \in valid /\ left < right /\ right <= n
    /\ \A i \in 0 .. left : Repaired(i)
    /\ \A i \in Positions(n) : left < i => Marked(i)
    /\ \A i \in Positions(n) : left < i /\ i < right => i \notin valid
    /\ Counted /\ stats.all = FALSE

AtDone == pc = "done" =>
    /\ \A i \in Positions(n) : Repaired(i)
    /\ Counted
    /\ stats.all <=> n > 0 /\ valid = {}

Inv == Shape /\ AtMark /\ AtFirst /\ AtScan /\ AtDone

USE LengthAssumption DEF Positions, input, WalkOn, GapValue

LEMMA Distinct ==
    \A i : Missing # Sample(i) /\ Missing # Floor
BY DEF Missing, Sample, Floor

LEMMA MarkedNaN ==
    ASSUME NEW i, Marked(i)
    PROVE  IsNaN(i) <=> i \notin valid
BY Distinct DEF Marked, IsNaN

LEMMA InvalidCount ==
    ASSUME NEW k \in Nat, NEW V \in SUBSET (0 .. k - 1)
    PROVE  /\ Cardinality((0 .. k - 1) \ V) \in Nat
           /\ Cardinality((0 .. k - 1) \ V) = k - Cardinality(V)
<1>1. IsFiniteSet(0 .. k - 1) /\ Cardinality(0 .. k - 1) = k
  BY FS_Interval
<1>2. (0 .. k - 1) \cap V = V
  OBVIOUS
<1>3. Cardinality((0 .. k - 1) \ V) = k - Cardinality(V)
  BY <1>1, <1>2, FS_Difference
<1>4. IsFiniteSet((0 .. k - 1) \ V)
  BY <1>1, FS_Difference
<1> QED
  BY <1>3, <1>4, FS_CardinalityType

LEMMA InitInv == Init => Inv
<1> SUFFICES ASSUME Init PROVE Inv
  OBVIOUS
<1>1. Shape
  BY DEF Init, Shape
<1>2. AtMark /\ AtFirst /\ AtScan /\ AtDone
  BY DEF Init, AtMark, AtFirst, AtScan, AtDone
<1> QED
  BY <1>1, <1>2 DEF Inv

LEMMA ReturnEmptyStep ==
    ASSUME Inv, ReturnEmpty
    PROVE  Inv'
<1>1. Shape'
  BY DEF Inv, ReturnEmpty, Shape
<1>2. Positions(n) \ valid = {} /\ n = 0
  BY DEF Inv, ReturnEmpty, Shape
<1>3. Counted'
  BY <1>2, FS_EmptySet DEF Inv, ReturnEmpty, AtMark, Counted
<1>4. AtDone'
  BY <1>2, <1>3 DEF Inv, ReturnEmpty, AtMark, AtDone
<1> QED
  BY <1>1, <1>4 DEF ReturnEmpty, Inv, AtMark, AtFirst, AtScan

LEMMA MarkStep ==
    ASSUME Inv, Mark
    PROVE  Inv'
<1>1. Cardinality(Positions(n) \ valid) \in Nat
  BY InvalidCount DEF Inv, Shape
<1>2. Shape'
  BY <1>1 DEF Inv, Mark, Shape
<1>3. AtFirst'
  <2>1. \A i \in Positions(n) : Marked(i)'
    BY DEF Inv, Mark, AtMark, Marked
  <2>2. Counted' /\ stats'.all = FALSE
    BY DEF Inv, Shape, Mark, AtMark, Counted
  <2> QED
    BY <2>1, <2>2 DEF Mark, AtFirst
<1> QED
  BY <1>2, <1>3 DEF Inv, Mark, AtMark, AtScan, AtDone

LEMMA FillFloorStep ==
    ASSUME Inv, FillFloor
    PROVE  Inv'
<1>1. valid = {} /\ n > 0
  BY MarkedNaN DEF Inv, Shape, AtFirst, FillFloor
<1>2. Shape'
  BY DEF Inv, FillFloor, Shape
<1>3. \A i \in Positions(n) : Repaired(i)'
  BY <1>1 DEF FillFloor, Repaired, IsRepaired, Neighbours
<1>4. Counted' /\ stats'.all = TRUE
  BY DEF Inv, Shape, AtFirst, FillFloor, Counted
<1>5. AtDone'
  BY <1>1, <1>3, <1>4 DEF AtDone, FillFloor
<1> QED
  BY <1>2, <1>5 DEF Inv, FillFloor, AtMark, AtFirst, AtScan

LEMMA HoldLeftStep ==
    ASSUME Inv, HoldLeft
    PROVE  Inv'
<1>1. PICK f \in Positions(n) :
          /\ IsFirst(f)
          /\ values' = [i \in Positions(n) |-> IF i < f THEN values[f] ELSE values[i]]
          /\ left' = f /\ right' = f + 1
  BY DEF HoldLeft
<1>2. /\ pc = "first" /\ UNCHANGED <<n, valid, stats>>
      /\ pc' = IF f + 1 < n THEN "scan" ELSE "done"
  BY <1>1 DEF HoldLeft
<1>3. /\ n \in Nat /\ valid \subseteq Positions(n)
      /\ \A i \in Positions(n) : Marked(i)
      /\ Counted /\ stats.all = FALSE
  BY <1>2 DEF Inv, Shape, AtFirst
<1>4. f \in valid /\ \A i \in 0 .. f - 1 : i \notin valid
  <2>1. ~IsNaN(f) /\ \A i \in 0 .. f - 1 : IsNaN(i)
    BY <1>1 DEF IsFirst
  <2>2. \A i \in 0 .. f - 1 : i \in Positions(n)
    BY <1>3
  <2> QED
    BY <2>1, <2>2, <1>3, MarkedNaN
<1>5. values[f] = Sample(f)
  BY <1>3, <1>4 DEF Marked
<1>6. \A i \in 0 .. f : Repaired(i)'
  BY <1>1, <1>2, <1>3, <1>4, <1>5 DEF Repaired, IsRepaired, Neighbours
<1>7. \A i \in Positions(n) : f < i => Marked(i)'
  BY <1>1, <1>2, <1>3 DEF Marked
<1>8. Counted' /\ stats'.all = FALSE
  BY <1>2, <1>3 DEF Counted
<1>9. Shape'
  BY <1>1, <1>2 DEF Inv, Shape
<1>10. AtScan'
  BY <1>1, <1>2, <1>3, <1>4, <1>6, <1>7, <1>8 DEF AtScan
<1>11. AtDone'
  <2>1. CASE f + 1 < n
    BY <1>2, <2>1 DEF AtDone
  <2>2. CASE ~(f + 1 < n)
    <3>1. Positions(n) = 0 .. f /\ n > 0
      BY <1>1, <1>3, <2>2
    <3> QED
      BY <1>2, <1>3, <1>4, <1>6, <1>8, <3>1 DEF AtDone
  <2> QED
    BY <2>1, <2>2
<1> QED
  BY <1>2, <1>9, <1>10, <1>11 DEF Inv, AtMark, AtFirst

LEMMA ScanStep ==
    ASSUME Inv, Scan
    PROVE  Inv'
<1>1. right \notin valid /\ right \in Positions(n)
  BY MarkedNaN DEF Inv, Shape, AtScan, Scan
<1>2. Shape'
  BY DEF Inv, Shape, Scan
<1>3. AtScan'
  <2>1. /\ pc = "scan" /\ pc' = "scan" /\ right' = right + 1 /\ right < n
        /\ UNCHANGED <<n, valid, values, left, stats>>
    BY DEF Scan
  <2>2. /\ \A i \in 0 .. left : Repaired(i)'
        /\ \A i \in Positions(n) : left < i => Marked(i)'
        /\ Counted' /\ stats'.all = FALSE
    BY <2>1 DEF Inv, AtScan, Repaired, Marked, Counted
  <2>3. \A i \in Positions(n) : left < i /\ i < right + 1 => i \notin valid
    <3>1. ASSUME NEW i \in Positions(n), left < i, i < right + 1
          PROVE  i \notin valid
      <4>1. CASE i = right
        BY <1>1, <4>1
      <4>2. CASE i # right
        BY <2>1, <3>1, <4>2 DEF Inv, Shape, AtScan
      <4> QED
        BY <4>1, <4>2
    <3> QED
      BY <3>1
  <2>4. left \in valid /\ left < right + 1 /\ right + 1 <= n
    BY <2>1 DEF Inv, Shape, AtScan
  <2> QED
    BY <2>1, <2>2, <2>3, <2>4 DEF AtScan
<1> QED
  BY <1>2, <1>3 DEF Inv, Scan, AtMark, AtFirst, AtDone

LEMMA HoldRightStep ==
    ASSUME Inv, HoldRight
    PROVE  Inv'
<1>1. /\ pc = "scan" /\ right = n /\ pc' = "done"
      /\ values' = [i \in Positions(n) |-> IF left < i THEN values[left] ELSE values[i]]
      /\ UNCHANGED <<n, valid, left, right, stats>>
  BY DEF HoldRight
<1>2. /\ n \in Nat /\ valid \subseteq Positions(n) /\ left \in valid
      /\ \A i \in 0 .. left : Repaired(i)
      /\ \A i \in Positions(n) : left < i => i \notin valid
      /\ Counted /\ stats.all = FALSE
  BY <1>1 DEF Inv, Shape, AtScan
<1>3. values[left] = Sample(left)
  BY <1>2 DEF Repaired, IsRepaired
<1>4. ASSUME NEW i \in Positions(n)
      PROVE  Repaired(i)'
  <2>1. CASE left < i
    <3>1. values'[i] = Sample(left)
      BY <1>1, <1>3, <2>1
    <3>2. \A k \in valid : k <= left /\ k < i
      BY <1>2, <2>1
    <3> QED
      BY <1>1, <1>2, <2>1, <3>1, <3>2 DEF Repaired, IsRepaired, Neighbours
  <2>2. CASE ~(left < i)
    BY <1>1, <1>2, <2>2 DEF Repaired
  <2> QED
    BY <2>1, <2>2
<1>5. Shape'
  BY <1>1 DEF Inv, Shape
<1>6. AtDone'
  BY <1>1, <1>2, <1>4 DEF AtDone, Counted
<1> QED
  BY <1>1, <1>5, <1>6 DEF Inv, AtMark, AtFirst, AtScan

LEMMA FillGapStep ==
    ASSUME Inv, FillGap
    PROVE  Inv'
<1>1. /\ pc = "scan" /\ right < n /\ ~IsNaN(right)
      /\ values' = [i \in Positions(n) |->
             IF left < i /\ i < right
             THEN Line(values[left], values[right], i - left, right - left)
             ELSE values[i]]
      /\ left' = right /\ right' = right + 1
      /\ pc' = IF right + 1 < n THEN "scan" ELSE "done"
      /\ UNCHANGED <<n, valid, stats>>
  BY DEF FillGap, input
<1>2. /\ n \in Nat /\ valid \subseteq Positions(n)
      /\ left \in valid /\ left < right /\ left \in Nat /\ right \in Nat
      /\ \A i \in 0 .. left : Repaired(i)
      /\ \A i \in Positions(n) : left < i => Marked(i)
      /\ \A i \in Positions(n) : left < i /\ i < right => i \notin valid
      /\ Counted /\ stats.all = FALSE
  BY <1>1 DEF Inv, Shape, AtScan
<1>3. right \in Positions(n) /\ right \in valid
  BY <1>1, <1>2, MarkedNaN
<1>4. values[left] = Sample(left) /\ values[right] = Sample(right)
  BY <1>2, <1>3 DEF Repaired, IsRepaired, Marked
<1>5. ASSUME NEW i \in 0 .. right
      PROVE  Repaired(i)'
  <2>0. i \in Positions(n)
    BY <1>2, <1>3
  <2>1. CASE i <= left
    BY <1>1, <1>2, <2>0, <2>1 DEF Repaired
  <2>2. CASE left < i /\ i < right
    <3>1. values'[i] = Line(Sample(left), Sample(right), i - left, right - left)
      BY <1>1, <1>4, <2>0, <2>2
    <3>2. i \notin valid
      BY <1>2, <2>0, <2>2
    <3>3. \A k \in valid : k <= left \/ right <= k
      BY <1>2
    <3>4. \A p, q \in valid :
              Neighbours(valid, p, q) /\ p < i /\ i < q => p = left /\ q = right
      BY <1>2, <1>3, <2>2, <3>3 DEF Neighbours
    <3>5. \A p \in valid : ~(i < p /\ \A k \in valid : p <= k)
      BY <1>2, <2>2
    <3>6. \A p \in valid : ~(p < i /\ \A k \in valid : k <= p)
      BY <1>2, <1>3, <2>2
    <3> QED
      BY <1>1, <1>2, <3>1, <3>2, <3>4, <3>5, <3>6 DEF Repaired, IsRepaired
  <2>3. CASE i = right
    <3>1. values'[i] = Sample(i)
      BY <1>1, <1>4, <2>0, <2>3
    <3>2. \A p \in valid : ~(i < p /\ \A k \in valid : p <= k)
      BY <1>2, <1>3, <2>3
    <3>3. \A p \in valid : ~(p < i /\ \A k \in valid : k <= p)
      BY <1>2, <1>3, <2>3
    <3>4. \A p, q \in valid : Neighbours(valid, p, q) => ~(p < i /\ i < q)
      BY <1>2, <1>3, <2>3 DEF Neighbours
    <3> QED
      BY <1>1, <1>2, <1>3, <3>1, <3>2, <3>3, <3>4 DEF Repaired, IsRepaired
  <2> QED
    BY <1>2, <2>1, <2>2, <2>3
<1>6. \A i \in Positions(n) : right < i => Marked(i)'
  BY <1>1, <1>2 DEF Marked
<1>7. Shape'
  BY <1>1, <1>2 DEF Inv, Shape
<1>8. AtScan'
  BY <1>1, <1>2, <1>3, <1>5, <1>6 DEF AtScan, Counted
<1>9. AtDone'
  <2>1. CASE right + 1 < n
    BY <1>1, <2>1 DEF AtDone
  <2>2. CASE ~(right + 1 < n)
    <3>1. Positions(n) = 0 .. right /\ n > 0
      BY <1>1, <1>2, <2>2
    <3> QED
      BY <1>1, <1>2, <1>5, <3>1 DEF AtDone, Counted
  <2> QED
    BY <2>1, <2>2
<1> QED
  BY <1>1, <1>7, <1>8, <1>9 DEF Inv, AtMark, AtFirst
-----------------------------------------------------------------------------
LEMMA InvKept ==
    ASSUME Inv, [Next]_vars
    PROVE  Inv'
<1>1. CASE UNCHANGED vars
  BY <1>1 DEF vars, Inv, Shape, AtMark, AtFirst, AtScan, AtDone, Marked,
              Repaired, Counted
<1> QED
  BY <1>1, ReturnEmptyStep, MarkStep, FillFloorStep, HoldLeftStep, ScanStep,
     HoldRightStep, FillGapStep DEF Next, Returned

LEMMA InvAlways == Spec => []Inv
<1> QED
  BY InitInv, InvKept, PTL DEF Spec

\* The channel that repair_radar_channel returns is np.interp of its valid
\* samples, and the statistics are those of its input, for every length.
THEOREM RepairCorrect == Spec => []RepairedAsPromised
<1>1. Inv => RepairedAsPromised
  <2> SUFFICES ASSUME Inv, pc = "done" PROVE RepairedAsPromised
    BY DEF RepairedAsPromised
  <2>1. stats.invalid = n - Cardinality(valid)
    BY InvalidCount DEF Inv, Shape, AtDone, Counted
  <2> QED
    BY <2>1 DEF Inv, AtDone, Repaired, RepairedAsPromised
<1> QED
  BY <1>1, InvAlways, PTL

\* The loop's indices stay inside the vector, and the cell it interpolates from
\* is an input, never a repaired cell.
THEOREM IndicesStayInside == Spec => []IndicesInside
<1>1. Inv => IndicesInside
  BY DEF Inv, AtScan, IndicesInside
<1> QED
  BY <1>1, InvAlways, PTL
=============================================================================
