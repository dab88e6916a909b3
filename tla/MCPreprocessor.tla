--------------------------- MODULE MCPreprocessor --------------------------
\* Windows of up to nine samples on both sides of the smoothing's minimum of
\* seven: every first channel over three values (0 is invalid; the two longest
\* over two) and every rising and falling line with gaps between its ends, a
\* second channel that is a ramp, flat between gaps or empty, and one IMU signal
\* with negative and non-finite values.
EXTENDS Preprocessor

CONSTANT Lengths

Ramp(n)   == [i \in Positions(n) |-> 1 + i \div 2]
Bump(n)   == [i \in Positions(n) |-> IF i \in {0, n - 1} THEN NonFinite ELSE 3]
Nothing(n) == [i \in Positions(n) |-> 0]
Wave(n) == [i \in Positions(n) |->
               IF i % 3 = 2 THEN NonFinite ELSE IF i % 3 = 1 THEN -2 ELSE 3]

Values(n) == IF n <= 7 THEN {0, 1, 4} ELSE {0, 4}

Lines(n) == UNION {
    {[i \in Positions(n) |-> IF i \in gaps THEN 0 ELSE 2 + i],
     [i \in Positions(n) |-> IF i \in gaps THEN 0 ELSE 1 + 2 * (n - i)]} :
        gaps \in SUBSET (1 .. n - 2)}

Window(n, x, y) == [size |-> n, radar |-> <<x, y>>, imu |-> Wave(n)]

MCChannels == {1, 2}
MCInputs == UNION {
    {Window(n, x, y) : x \in [Positions(n) -> Values(n)] \cup Lines(n),
                       y \in {Ramp(n), Bump(n), Nothing(n)}} : n \in Lengths}
MCSensorMins == {NonFinite, 2}
=============================================================================
