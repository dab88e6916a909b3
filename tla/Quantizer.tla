------------------------------ MODULE Quantizer -----------------------------
(***************************************************************************)
(* The four float-to-int8 conversions of the program (tensor/quantizer.cpp,*)
(* tensor_converter.cpp, int8_input_pack.cpp, optimization/quant): divide  *)
(* by the scale, round, convert to int, add the zero point, clamp.         *)
(*                                                                         *)
(* A value is its quotient by the scale, counted in quarters, so that the  *)
(* ties of round are exact.  What does not fit the int is undefined        *)
(* behaviour: any int may come of it, and the sum may be any int too.      *)
(***************************************************************************)
EXTENDS Integers

CONSTANTS
    MinCode, MaxCode,   \* -128 and 127
    IntMin, IntMax,     \* of an int
    Quarters,           \* the quotients, in quarters
    ZeroPoints

ASSUME CodesAssumption ==
    /\ {MinCode, MaxCode, IntMin, IntMax} \subseteq Int
    /\ IntMin <= MinCode /\ MinCode < MaxCode /\ MaxCode <= IntMax
ASSUME ValuesAssumption == Quarters \subseteq Int /\ ZeroPoints \subseteq Int

VARIABLES
    quotient,    \* the value over the scale, in quarters
    zero,        \* the zero point
    code         \* what each conversion has returned, or None

quantVars == <<quotient, zero, code>>

Conversions == {"quantize", "floatToInt8", "pack", "quantize_int8"}
None == MaxCode + 1
Codes == MinCode..MaxCode
Ints == IntMin..IntMax

QuantInit ==
    /\ quotient \in Quarters
    /\ zero \in ZeroPoints
    /\ code = [c \in Conversions |-> None]
-----------------------------------------------------------------------------
\* Mutant: a cast alone, which rounds towards zero.
RoundMutant(q) == IF q >= 0 THEN q \div 4 ELSE -((-q) \div 4)

\* round and lround: to the nearest integer, halves away from zero.
Round(q) == IF q >= 0 THEN (q + 2) \div 4 ELSE -((2 - q) \div 4)

\* static_cast<int> of a float, and + of two ints.
ToInt(n) == IF n \in Ints THEN {n} ELSE Ints
IntSum(m, n) == ToInt(m + n)

\* lround returns a long, which does hold the value; the int takes its low
\* bits.
LowBits(n) == ((n - IntMin) % (IntMax - IntMin + 1)) + IntMin

Clamped(n) == IF n < MinCode THEN MinCode ELSE IF n > MaxCode THEN MaxCode ELSE n

Converted(c, ints) ==
    /\ code[c] = None
    /\ \E i \in ints : \E n \in IntSum(i, zero) :
          code' = [code EXCEPT ![c] = Clamped(n)]
    /\ UNCHANGED <<quotient, zero>>

Quantize == Converted("quantize", ToInt(Round(quotient)))
FloatToInt8 == Converted("floatToInt8", ToInt(Round(quotient)))
PackFloat == Converted("pack", ToInt(Round(quotient)))
QuantizeInt8 == Converted("quantize_int8", {LowBits(Round(quotient))})

AllConverted == (\A c \in Conversions : code[c] # None) /\ UNCHANGED quantVars

QuantNext == Quantize \/ FloatToInt8 \/ PackFloat \/ QuantizeInt8 \/ AllConverted

QuantSpec == QuantInit /\ [][QuantNext]_quantVars
-----------------------------------------------------------------------------
\* Of a code, in quarters of the scale.
Dequantized(d) == 4 * (d - zero)

Distance(a, b) == IF a < b THEN b - a ELSE a - b
Representable == Round(quotient) \in Ints /\ Round(quotient) + zero \in Ints

(* As long as the rounded quotient and its sum with the zero point fit an   *)
(* int, no code is nearer to the value than the one returned, saturation    *)
(* included, and all four conversions return the same.  Beyond that         *)
(* (quantizer.cpp:5 clamps only afterwards) nothing holds: a large value    *)
(* may come out as any code.                                                *)
CodesNearest ==
    Representable => \A c \in Conversions : code[c] # None =>
        /\ \A d \in Codes :
              Distance(Dequantized(code[c]), quotient)
                <= Distance(Dequantized(d), quotient)
        /\ \A other \in Conversions : code[other] \in {None, code[c]}
=============================================================================
