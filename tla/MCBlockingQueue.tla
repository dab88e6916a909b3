-------------------------- MODULE MCBlockingQueue --------------------------
(***************************************************************************)
(* Two producers, two consumers, one of each with a timeout, and a thread  *)
(* that closes the queue: two sleepers on either condition variable, and   *)
(* room for two items, so that a wake-up can go to the wrong one.          *)
(***************************************************************************)
EXTENDS BlockingQueue

CONSTANTS p1, p2, c1, c2, closer, a, b

MCMayCall ==
    [t \in Threads |-> CASE t = p1 -> {"push"}
                         [] t = p2 -> {"push", "push_for"}
                         [] t = c1 -> {"pop"}
                         [] t = c2 -> {"pop", "pop_for"}
                         [] t = closer -> {"close"}]
\* For the liveness run: one producer, two consumers.
MCLiveMayCall ==
    [t \in Threads |-> CASE t = p1 -> {"push", "push_for"}
                         [] t = c1 -> {"pop"}
                         [] t = c2 -> {"pop_for"}
                         [] t = closer -> {"close"}]
=============================================================================
