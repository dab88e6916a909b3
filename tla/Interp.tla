------------------------------- MODULE Interp -------------------------------
(***************************************************************************)
(* What preprocess/missing_repair.hpp promises of a repaired channel:      *)
(* "np.interp over sample index, including endpoint hold", and sensor_min  *)
(* when nothing was valid.                                                 *)
(*                                                                         *)
(* A cell of a channel is described by where its value comes from, so that *)
(* two cells are equal only if they were computed the same way.            *)
(***************************************************************************)
EXTENDS Integers

Missing   == [kind |-> "missing"]             \* the quiet NaN
Floor     == [kind |-> "floor"]               \* sensor_min
Sample(i) == [kind |-> "sample", at |-> i]    \* the valid input at i

\* from + (to - from) * num / den
Line(from, to, num, den) ==
    [kind |-> "line", from |-> from, to |-> to, num |-> num, den |-> den]

Positions(n) == 0 .. n - 1

\* p and q are neighbours among the valid positions.
Neighbours(valid, p, q) ==
    /\ p \in valid /\ q \in valid /\ p < q
    /\ \A k \in valid : k <= p \/ q <= k

\* The repaired cell at i, given the set of valid positions.
IsRepaired(valid, i, cell) ==
    /\ i \in valid => cell = Sample(i)
    /\ valid = {} => cell = Floor
    /\ \A p \in valid :
          /\ i < p /\ (\A k \in valid : p <= k) => cell = Sample(p)
          /\ p < i /\ (\A k \in valid : k <= p) => cell = Sample(p)
    /\ \A p, q \in valid :
          Neighbours(valid, p, q) /\ p < i /\ i < q
            => cell = Line(Sample(p), Sample(q), i - p, q - p)
=============================================================================
