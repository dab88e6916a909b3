---------------------------- MODULE MissingRepair ---------------------------
(***************************************************************************)
(* preprocess/missing_repair.cpp: repair_radar_channel, one call on one    *)
(* channel.  The loops walk the channel with two indices and write into    *)
(* the vector they read, so a cell that has been repaired must never be    *)
(* taken for an input.  One step is one iteration of the outer loops; the  *)
(* inner ones, which only copy or interpolate a gap, are part of it.       *)
(***************************************************************************)
EXTENDS Interp, FiniteSets

CONSTANT MaxLength    \* bounds the channels TLC tries, from 0

ASSUME LengthAssumption == MaxLength \in Nat

VARIABLES
    n,          \* values.size()
    valid,      \* the positions whose input is finite and positive
    values,     \* the vector, repaired in place
    left,       \* the last valid position passed
    right,      \* the position looked at for the next one
    stats,      \* RadarRepairStats
    pc

vars == <<n, valid, values, left, right, stats, pc>>
input == <<n, valid>>

IsNaN(i) == values[i] = Missing

Init ==
    /\ n \in 0 .. MaxLength
    /\ valid \in SUBSET Positions(n)
    /\ values = [i \in Positions(n) |-> Sample(i)]
    /\ left = 0 /\ right = 0
    /\ stats = [invalid |-> 0, all |-> FALSE]
    /\ pc = "mark"

ReturnEmpty ==
    /\ pc = "mark" /\ n = 0
    /\ pc' = "done"
    /\ UNCHANGED <<input, values, left, right, stats>>

\* Non-finite and non-positive inputs become NaN and are counted.
Mark ==
    /\ pc = "mark" /\ n > 0
    /\ values' = [i \in Positions(n) |-> IF i \in valid THEN values[i] ELSE Missing]
    /\ stats' = [stats EXCEPT !.invalid = Cardinality(Positions(n) \ valid)]
    /\ pc' = "first"
    /\ UNCHANGED <<input, left, right>>

\* first_valid is still values.size(): the channel becomes sensor_min.
FillFloor ==
    /\ pc = "first"
    /\ \A i \in Positions(n) : IsNaN(i)
    /\ values' = [i \in Positions(n) |-> Floor]
    /\ stats' = [stats EXCEPT !.all = TRUE]
    /\ pc' = "done"
    /\ UNCHANGED <<input, left, right>>

IsFirst(f) == ~IsNaN(f) /\ \A i \in 0 .. f - 1 : IsNaN(i)

\* Mutant: the next valid position is looked for from l itself.
WalkOnMutant(l) ==
    /\ left' = l /\ right' = l
    /\ pc' = IF l + 1 < n THEN "scan" ELSE "done"

\* The outer loop goes on from l, if there is anything after it.
WalkOn(l) ==
    /\ left' = l /\ right' = l + 1
    /\ pc' = IF l + 1 < n THEN "scan" ELSE "done"

\* Everything before the first valid position holds its value.
HoldLeft ==
    /\ pc = "first"
    /\ \E f \in Positions(n) :
          /\ IsFirst(f)
          /\ values' = [i \in Positions(n) |-> IF i < f THEN values[f] ELSE values[i]]
          /\ WalkOn(f)
    /\ UNCHANGED <<input, stats>>

Scan ==
    /\ pc = "scan"
    /\ right < n /\ IsNaN(right)
    /\ right' = right + 1
    /\ UNCHANGED <<input, values, left, stats, pc>>

\* No valid position is left: what follows holds the last one.
HoldRight ==
    /\ pc = "scan"
    /\ right = n
    /\ values' = [i \in Positions(n) |-> IF left < i THEN values[left] ELSE values[i]]
    /\ pc' = "done"
    /\ UNCHANGED <<input, left, right, stats>>

\* Mutant: alpha is counted from the wrong end of the gap.
GapValueMutant(i) == Line(values[left], values[right], right - i, right - left)

GapValue(i) == Line(values[left], values[right], i - left, right - left)

FillGap ==
    /\ pc = "scan"
    /\ right < n /\ ~IsNaN(right)
    /\ values' = [i \in Positions(n) |->
           IF left < i /\ i < right THEN GapValue(i) ELSE values[i]]
    /\ WalkOn(right)
    /\ UNCHANGED <<input, stats>>

Returned == pc = "done" /\ UNCHANGED vars

Next ==
    \/ ReturnEmpty \/ Mark \/ FillFloor \/ HoldLeft
    \/ Scan \/ HoldRight \/ FillGap
    \/ Returned

Spec == Init /\ [][Next]_vars
-----------------------------------------------------------------------------
\* The repaired channel is the one the header describes, at every position and
\* for every pattern of valid ones, and the statistics count the inputs, not
\* the cells as they are when the function returns.
RepairedAsPromised ==
    pc = "done" =>
        /\ \A i \in Positions(n) : IsRepaired(valid, i, values[i])
        /\ stats.invalid = n - Cardinality(valid)
        /\ stats.all <=> n > 0 /\ valid = {}

\* While the loop runs, left is a position that was valid in the input, never
\* one that was just repaired, and neither index leaves the vector.
IndicesInside ==
    pc = "scan" => left \in valid /\ left < right /\ right <= n
=============================================================================
