-------------------------------- MODULE Text --------------------------------
(***************************************************************************)
(* What the two parsers have in common.  A line is a sequence of tokens:   *)
(* the characters a parser looks at, blanks, and words, which count as one *)
(* token each.                                                             *)
(***************************************************************************)
EXTENDS Integers, SequencesExt

Blank == " "

\* Without the blanks at its two ends: trim, which csv_reader.cpp:160-165 and
\* config.cpp:119-124 each define for themselves.
Trim(s) ==
    LET solid == {i \in DOMAIN s : s[i] # Blank} IN
    IF solid = {} THEN <<>> ELSE SubSeq(s, Min(solid), Max(solid))

\* The k-th smallest of a set of positions.
Nth(S, k) == CHOOSE i \in S : Cardinality({j \in S : j <= i}) = k
=============================================================================
