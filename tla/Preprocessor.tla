---------------------------- MODULE Preprocessor ----------------------------
(***************************************************************************)
(* preprocess/preprocessor.cpp: one call of run, from a window of samples  *)
(* to the tensor of the model, with savgol.cpp and resample.cpp.           *)
(*                                                                         *)
(* Values are exact: an integer v stands for v / Unit, and Unit is a       *)
(* multiple of every divisor that occurs, so each \div below has no rest   *)
(* (ExactAssumption).                                                      *)
(* What rounding to float adds is not modelled.  Each stage works on all   *)
(* the channels and is one step.                                           *)
(***************************************************************************)
EXTENDS Interp, FiniteSetsExt

CONSTANTS
    Inputs,      \* windows: [size, radar : channel -> position -> value, imu]
    Channels,    \* the radar channels
    SensorMins,  \* the values of options_.sensor_min
    Target,      \* kTargetLength
    Unit

\* A float that is not finite.  Non-positive radar values are finite, and as
\* invalid; the input values are small, so this one is none of them.
NonFinite == -1000

ASSUME TargetAssumption == Target \in Nat \ {0, 1} /\ Unit \in Nat \ {0}

ASSUME ChannelsAssumption == IsFiniteSet(Channels) /\ SensorMins \subseteq Int

ASSUME InputsAssumption ==
    \A s \in Inputs :
        /\ s.size \in Nat
        /\ s.radar \in [Channels -> [Positions(s.size) -> Int]]
        /\ s.imu \in [Positions(s.size) -> Int]

\* The repair divides by the distance of two samples, the smoothing by 42 and
\* the resampling by Target - 1.
ASSUME ExactAssumption ==
    \A s \in Inputs : \A d \in 1 .. s.size - 1 : Unit % (42 * (Target - 1) * d) = 0

VARIABLES
    samples,     \* the window, one of Inputs
    sensorMin,   \* options_.sensor_min
    radar,       \* the channels the stages work on
    source,      \* the channels as the smoothing found them
    local,       \* the PreprocessReport being filled
    out,         \* the caller's ModelInput and report
    pc

vars == <<samples, sensorMin, radar, source, local, out, pc>>

Size == samples.size
Zero == [invalid |-> 0, allInvalid |-> 0, imu |-> 0, smoothed |-> FALSE]
Untouched == [status |-> "none"]

Init ==
    /\ samples \in Inputs
    /\ sensorMin \in SensorMins
    /\ radar = samples.radar
    /\ source = samples.radar
    /\ local = Zero
    /\ out = Untouched
    /\ pc = "check"

Stage(from, to) == pc = from /\ pc' = to

\* An empty window and a sensor_min that is no number are refused at once.
Refuse ==
    /\ Stage("check", "done")
    /\ Size = 0 \/ sensorMin = NonFinite
    /\ out' = [status |-> "failed"]
    /\ UNCHANGED <<samples, sensorMin, radar, source, local>>

Accept ==
    /\ Stage("check", "repair")
    /\ Size > 0 /\ sensorMin # NonFinite
    /\ UNCHANGED <<samples, sensorMin, radar, source, local, out>>
-----------------------------------------------------------------------------
\* repair_radar_channel by its result, which MissingRepair shows it computes.
ValidAt(channel) == {i \in Positions(Size) : channel[i] # NonFinite /\ channel[i] > 0}

Candidates(valid, i) ==
    {Floor} \cup {Sample(p) : p \in valid}
        \cup {Line(Sample(p), Sample(q), i - p, q - p) : p \in valid, q \in valid}

\* Mutant: the fraction is taken from the sample after the gap.
ValueMutant(channel, cell) ==
    CASE cell.kind = "floor"  -> sensorMin * Unit
      [] cell.kind = "sample" -> channel[cell.at] * Unit
      [] cell.kind = "line"   ->
            LET y0 == channel[cell.from.at] * Unit
                y1 == channel[cell.to.at] * Unit
            IN  y0 + ((y1 - y0) * (cell.den - cell.num)) \div cell.den

Value(channel, cell) ==
    CASE cell.kind = "floor"  -> sensorMin * Unit
      [] cell.kind = "sample" -> channel[cell.at] * Unit
      [] cell.kind = "line"   ->
            LET y0 == channel[cell.from.at] * Unit
                y1 == channel[cell.to.at] * Unit
            IN  y0 + ((y1 - y0) * cell.num) \div cell.den

RepairChannel(channel) ==
    LET valid == ValidAt(channel) IN
    [i \in Positions(Size) |->
        Value(channel, CHOOSE c \in Candidates(valid, i) : IsRepaired(valid, i, c))]

InvalidIn(c) == Size - Cardinality(ValidAt(samples.radar[c]))

Repair ==
    /\ Stage("repair", "smooth")
    /\ radar' = [c \in Channels |-> RepairChannel(radar[c])]
    /\ local' = [local EXCEPT
          !.invalid = SumFunctionOnSet([c \in Channels |-> InvalidIn(c)], Channels),
          !.allInvalid = Cardinality({c \in Channels : InvalidIn(c) = Size}),
          !.imu = Cardinality({i \in Positions(Size) : samples.imu[i] = NonFinite})]
    /\ UNCHANGED <<samples, sensorMin, source, out>>

\* sanitize_imu: a value that is not finite becomes zero, all others stay.
Imu == [i \in Positions(Size) |->
            IF samples.imu[i] = NonFinite THEN 0 ELSE samples.imu[i] * Unit]
-----------------------------------------------------------------------------
\* savgol_7_2_interp.

kWeights == [r \in 0 .. 6 |->
    <<<<32, 15, 3, -4, -6, -3, 5>>,
      <<15, 12, 9, 6, 3, 0, -3>>,
      <<3, 9, 12, 12, 9, 3, -6>>,
      <<-4, 6, 12, 14, 12, 6, -4>>,
      <<-6, 3, 9, 12, 12, 9, 3>>,
      <<-3, 0, 3, 6, 9, 12, 15>>,
      <<5, -3, -6, -4, 3, 15, 32>>>>[r + 1]]

Evaluate(x, start, row) ==
    SumFunctionOnSet([j \in 0 .. 6 |-> kWeights[row][j + 1] * x[start + j]],
                     0 .. 6) \div 42

\* Mutant: the right edge uses the rows before its own.
SmoothChannelMutant(x) ==
    [i \in Positions(Size) |->
        CASE i < 3 -> Evaluate(x, 0, i)
          [] i >= 3 /\ i + 3 < Size -> Evaluate(x, i - 3, 3)
          [] i + 3 >= Size -> Evaluate(x, Size - 7, i - (Size - 7) - 1)]

SmoothChannel(x) ==
    [i \in Positions(Size) |->
        CASE i < 3 -> Evaluate(x, 0, i)
          [] i >= 3 /\ i + 3 < Size -> Evaluate(x, i - 3, 3)
          [] i + 3 >= Size -> Evaluate(x, Size - 7, i - (Size - 7))]

Smooth ==
    /\ Stage("smooth", "clamp")
    /\ source' = radar
    /\ IF Size >= 7
       THEN /\ radar' = [c \in Channels |-> SmoothChannel(radar[c])]
            /\ local' = [local EXCEPT !.smoothed = TRUE]
       ELSE UNCHANGED <<radar, local>>
    /\ UNCHANGED <<samples, sensorMin, out>>

\* Mutant: no clamp after the smoothing, which can undershoot.
ClampMutant ==
    /\ Stage("clamp", "resample")
    /\ UNCHANGED <<samples, sensorMin, source, local, out, radar>>

Clamp ==
    /\ Stage("clamp", "resample")
    /\ radar' = [c \in Channels |-> [i \in Positions(Size) |->
           Max({radar[c][i], sensorMin * Unit})]]
    /\ UNCHANGED <<samples, sensorMin, source, local, out>>
-----------------------------------------------------------------------------
\* resample_linear_normalized.

\* upper_bound: the first knot k / (Size - 1) beyond t / (Target - 1).
UpperBound(t) == Min({k \in Positions(Size) : k * (Target - 1) > t * (Size - 1)})

\* Mutant: the fraction is taken from the right knot.
InterpOneMutant(x, t) ==
    LET right == UpperBound(t)
        left == right - 1
        num == right * (Target - 1) - t * (Size - 1)
    IN  x[left] + ((x[right] - x[left]) * num) \div (Target - 1)

\* interp_one strictly inside the first and the last knot.
InterpOne(x, t) ==
    LET right == UpperBound(t)
        left == right - 1
        num == t * (Size - 1) - left * (Target - 1)
    IN  x[left] + ((x[right] - x[left]) * num) \div (Target - 1)

Resampled(x) ==
    [t \in 0 .. Target - 1 |->
        CASE Size = 1 \/ t = 0 -> x[0]
          [] Size > 1 /\ t = Target - 1 -> x[Size - 1]
          [] Size > 1 /\ t > 0 /\ t < Target - 1 -> InterpOne(x, t)]

\* The tensor and the report are written when every channel is there.
Resample ==
    /\ Stage("resample", "done")
    /\ out' = [status |-> "ok",
               radar  |-> [c \in Channels |-> Resampled(radar[c])],
               imu    |-> Resampled(Imu),
               report |-> local]
    /\ UNCHANGED <<samples, sensorMin, radar, source, local>>

Returned == pc = "done" /\ UNCHANGED vars

Next ==
    \/ Refuse \/ Accept
    \/ Repair \/ Smooth \/ Clamp \/ Resample
    \/ Returned

Spec == Init /\ [][Next]_vars
-----------------------------------------------------------------------------
Ok == pc = "done" /\ out.status = "ok"

\* No value the model sees lies below sensor_min, although the smoothing that
\* runs after the repair undershoots at steps.
AboveSensorMin ==
    Ok => \A c \in Channels : \A t \in 0 .. Target - 1 :
              out.radar[c][t] >= sensorMin * Unit

\* savgol.hpp: the smoothed value at i is that of the least-squares parabola of
\* the seven samples around i, or of the seven at the edge i is near to.  f is
\* that parabola exactly when its third differences vanish and what it leaves
\* over is orthogonal to 1, x and x^2.
Parabola(f) == \A k \in 0 .. 3 : f[k + 3] - 3 * f[k + 2] + 3 * f[k + 1] - f[k] = 0
Orthogonal(f, y) == \A e \in 1 .. 3 :
    SumFunctionOnSet([k \in 0 .. 6 |-> <<1, k, k * k>>[e] * (y[k] - f[k])],
                     0 .. 6) = 0
WindowStart(i) == Min({Max({i - 3, 0}), Size - 7})
SmoothedIsLeastSquares ==
    (pc = "clamp" /\ Size >= 7) =>
        \A c \in Channels : \A i \in Positions(Size) :
            LET s == WindowStart(i)
                y == [k \in 0 .. 6 |-> source[c][s + k]]
                f == [k \in 0 .. 6 |-> Evaluate(y, 0, k)]
            IN  Parabola(f) /\ Orthogonal(f, y) /\ radar[c][i] = f[i - s]

\* resample.hpp: the output is the piecewise linear function through the clamped
\* samples, read at Target equidistant points: a sample weighs less the
\* farther it is, and nothing beyond its neighbours.  The IMU goes the same
\* way unsmoothed and unclamped.
Hat(d) == Max({0, Target - 1 - d})
Dist(a, b) == IF a < b THEN b - a ELSE a - b
LinearAt(x, t) ==
    SumFunctionOnSet(
        [k \in Positions(Size) |-> x[k] * Hat(Dist(t * (Size - 1), k * (Target - 1)))],
        Positions(Size)) \div (Target - 1)
ResampledIsLinear ==
    Ok => \A t \in 0 .. Target - 1 :
        /\ out.imu[t] = LinearAt(Imu, t)
        /\ \A c \in Channels : out.radar[c][t] = LinearAt(radar[c], t)

\* The four stages together do not bend a signal: a channel whose valid samples
\* lie on a straight line, none below sensor_min, comes out as that line,
\* wherever samples are missing between its ends; a constant channel may lack
\* its ends as well, and one without valid samples is constant at sensor_min.
FirstValue(x) == IF ValidAt(x) = {} THEN sensorMin ELSE x[Min(ValidAt(x))]
LastValue(x)  == IF ValidAt(x) = {} THEN sensorMin ELSE x[Max(ValidAt(x))]
Straight(x) ==
    /\ {0, Size - 1} \subseteq ValidAt(x) \/ FirstValue(x) = LastValue(x)
    /\ \A i \in ValidAt(x) :
          /\ x[i] >= sensorMin
          /\ (x[i] - FirstValue(x)) * (Size - 1) = (LastValue(x) - FirstValue(x)) * i
StraightSignalsKept ==
    Ok => \A c \in Channels : \A t \in 0 .. Target - 1 :
        LET x == samples.radar[c] IN
        Straight(x) =>
            out.radar[c][t] * (Target - 1)
                = (FirstValue(x) * (Target - 1) + (LastValue(x) - FirstValue(x)) * t) * Unit
=============================================================================
