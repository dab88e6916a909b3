------------------------------ MODULE Classifier ----------------------------
(***************************************************************************)
(* postprocess/softmax.cpp and classifier.cpp: from the logits of a window *)
(* to its class.  A float is an integer or one of three special values;    *)
(* exp is any function a rounded exponential can be on the differences     *)
(* that occur: never falling, 1 at zero, possibly 1 just below it and      *)
(* possibly 0 far below.                                                   *)
(***************************************************************************)
EXTENDS Integers

CONSTANTS
    ClassCount,   \* kClassCount
    MaxLogit,     \* the finite logits are 0 .. MaxLogit
    One,          \* what stands for 1.0; the values of exp are 0 .. One
    NaN

ASSUME ClassAssumption ==
    ClassCount \in Nat \ {0} /\ MaxLogit \in Nat /\ One \in Nat \ {0} /\ NaN \notin Int

VARIABLES
    logits,
    expOf,         \* of a difference, by its size
    probabilities,
    total,         \* what they were divided by, 0 if they were not
    classId        \* counted from 1; 0 before classify

classVars == <<logits, expOf, probabilities, total, classId>>

Classes == 1..ClassCount
PlusInf == MaxLogit + 1
MinusInf == -PlusInf
Finite == 0..MaxLogit

\* Comparison and difference of floats; a comparison with NaN is false.
IsLess(a, b) == a # NaN /\ b # NaN /\ a < b
Minus(a, b) ==
    IF a = NaN \/ b = NaN \/ (a = b /\ a \in {PlusInf, MinusInf}) THEN NaN
    ELSE IF a = PlusInf \/ b = MinusInf THEN PlusInf
    ELSE IF a = MinusInf \/ b = PlusInf THEN MinusInf
    ELSE a - b

Exponentials ==
    {e \in [0..MaxLogit -> 0..One] :
        e[0] = One /\ \A d \in 1..MaxLogit : e[d] <= e[d - 1]}

ClassInit ==
    /\ logits \in [Classes -> Finite \cup {NaN, PlusInf, MinusInf}]
    /\ expOf \in Exponentials
    /\ probabilities = <<>>
    /\ total = 0
    /\ classId = 0
-----------------------------------------------------------------------------
\* Mutant: the last of equal elements, as with <= for <.
MaxElementMutant(s) ==
    LET best[i \in 0..ClassCount] ==
            IF i = 0 THEN 1
            ELSE IF IsLess(s[best[i - 1]], s[i]) \/ s[best[i - 1]] = s[i] THEN i
            ELSE best[i - 1]
    IN  best[ClassCount]

\* std::max_element: where the first largest element stands; what follows a
\* NaN in the first place never counts as larger.
MaxElement(s) ==
    LET best[i \in 0..ClassCount] ==
            IF i = 0 THEN 1
            ELSE IF IsLess(s[best[i - 1]], s[i]) THEN i ELSE best[i - 1]
    IN  best[ClassCount]

\* No difference is above zero but NaN.
Exp(d) == IF d = NaN THEN NaN ELSE IF d = MinusInf THEN 0 ELSE expOf[-d]

Plus(a, b) == IF a = NaN \/ b = NaN THEN NaN ELSE a + b
SumOf(p) ==
    LET upTo[i \in 0..ClassCount] ==
            IF i = 0 THEN 0 ELSE Plus(upTo[i - 1], p[i])
    IN  upTo[ClassCount]

\* Softmax::apply, the probabilities still to be divided by their total, which
\* does not change their order; a NaN among them suppresses the division.
Softmax ==
    LET m == logits[MaxElement(logits)]
        p == [i \in Classes |-> Exp(Minus(logits[i], m))]
        s == SumOf(p)
    IN  /\ probabilities = <<>>
        /\ probabilities' = p
        /\ total' = IF IsLess(0, s) THEN s ELSE 0
        /\ UNCHANGED <<logits, expOf, classId>>

Classify ==
    /\ probabilities # <<>> /\ classId = 0
    /\ classId' = MaxElement(probabilities)
    /\ UNCHANGED <<logits, expOf, probabilities, total>>

Classified == classId # 0 /\ UNCHANGED classVars

ClassNext == Softmax \/ Classify \/ Classified

ClassSpec == ClassInit /\ [][ClassNext]_classVars
-----------------------------------------------------------------------------
\* The logits that are numbers, and the best of them up to the rounding of exp.
Numbers == {i \in Classes : logits[i] # NaN}
SameUpToRounding(a, b) == a \in Finite /\ b \in Finite /\ expOf[b - a] = One
IsBest(i) ==
    \A j \in Numbers : logits[j] <= logits[i] \/ SameUpToRounding(logits[i], logits[j])

(* The class is the first one whose logit is the largest, up to what exp    *)
(* cannot tell apart, as long as the first logit is a number, some logit is *)
(* above minus infinity and none is plus infinity.  In every other case it  *)
(* is class 0, "normal", whatever the other logits say (classifier.cpp:8).  *)
(* The probabilities add up to 1 unless a logit is NaN or infinite: then    *)
(* the confidence may be 1 without a sum of 1.                              *)
ClassIsBest ==
    classId # 0 =>
        LET sound == /\ logits[1] # NaN
                     /\ \A i \in Classes : logits[i] # PlusInf
                     /\ \E i \in Classes : logits[i] \in Finite
        IN  /\ sound => /\ classId \in Numbers /\ IsBest(classId)
                        /\ \A i \in 1 .. classId - 1 : i \in Numbers => ~IsBest(i)
            /\ ~sound => classId = 1
            /\ total # 0 <=> sound /\ Numbers = Classes
            /\ total # 0 => ClassCount * probabilities[classId] >= total
=============================================================================
