----------------------------- MODULE BufferPool -----------------------------
(***************************************************************************)
(* tensor/buffer_pool.cpp: a free list of buffers.  acquire and release    *)
(* hold the mutex from beginning to end, so a call is one step, and who    *)
(* makes it does not matter; what matters is how many callers believe that *)
(* they own a buffer.                                                      *)
(***************************************************************************)
EXTENDS Integers, Sequences, FiniteSets

CONSTANTS
    Buffers,    \* all_
    Foreign,    \* a pointer that did not come from this pool
    MaxExtra    \* bound: releases without an acquire, per buffer

ASSUME BuffersAssumption ==
    IsFiniteSet(Buffers) /\ Foreign \notin Buffers /\ MaxExtra \in Nat

VARIABLES
    free,       \* free_, the next to be given out at the end
    owners,     \* how many callers have acquired a buffer and not released it
    extra       \* history: releases by callers that did not own the buffer

poolVars == <<free, owners, extra>>

\* The constructor puts every buffer into the free list, in some order.
PoolInit ==
    /\ free \in [1 .. Cardinality(Buffers) -> Buffers]
    /\ \A i, j \in DOMAIN free : free[i] = free[j] => i = j
    /\ \A b \in Buffers : \E i \in DOMAIN free : free[i] = b
    /\ owners = [b \in Buffers |-> 0]
    /\ extra = [b \in Buffers |-> 0]

\* Mutant: the buffer given out stays in the free list.
AcquireMutant ==
    /\ free # <<>>
    /\ owners' = [owners EXCEPT ![free[Len(free)]] = @ + 1]
    /\ UNCHANGED <<free, extra>>

Acquire ==
    /\ free # <<>>
    /\ owners' = [owners EXCEPT ![free[Len(free)]] = @ + 1]
    /\ free' = SubSeq(free, 1, Len(free) - 1)
    /\ UNCHANGED extra

\* nullptr: the caller has nothing, and nothing waits.
AcquireNothing == free = <<>> /\ UNCHANGED poolVars

\* release looks only at whether the pointer is one of its own.
Released(ptr) == free' = IF ptr \in Buffers THEN Append(free, ptr) ELSE free

Release(b) ==
    /\ owners[b] > 0
    /\ owners' = [owners EXCEPT ![b] = @ - 1]
    /\ Released(b)
    /\ UNCHANGED extra

\* By somebody who does not own the buffer, such as its owner of before.
ReleaseAgain(b) ==
    /\ extra[b] < MaxExtra
    /\ extra' = [extra EXCEPT ![b] = @ + 1]
    /\ Released(b)
    /\ UNCHANGED owners

ReleaseForeign == Released(Foreign) /\ UNCHANGED <<owners, extra>>

PoolNext ==
    \/ Acquire \/ AcquireNothing
    \/ \E b \in Buffers : Release(b) \/ ReleaseAgain(b)
    \/ ReleaseForeign

PoolSpec == PoolInit /\ [][PoolNext]_poolVars
-----------------------------------------------------------------------------
Copies(b) == Cardinality({i \in DOMAIN free : free[i] = b})

(* Each buffer is in the free list or with an owner, once, and once more    *)
(* for every release by somebody who did not own it (buffer_pool.cpp:31     *)
(* does not notice).  So callers that release only what they own never      *)
(* share a buffer and never find one lost, in whatever order they come; one *)
(* release too many, and two callers can own the same buffer at once.       *)
BuffersAccounted ==
    \A b \in Buffers : Copies(b) + owners[b] = 1 + extra[b]
=============================================================================
