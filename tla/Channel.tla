------------------------------ MODULE Channel ------------------------------
(***************************************************************************)
(* A bounded channel as a value: what BlockingQueue<T> keeps behind its    *)
(* mutex (queue_, closed_), and what each critical section does to it.     *)
(* The operators say when a call may pass its wait predicate and what it   *)
(* leaves behind, nothing about threads.  Modules that use a queue and do  *)
(* not look inside it build on them: BoundedChannel, Pipeline.             *)
(***************************************************************************)
EXTENDS Naturals, Sequences

\* A channel just constructed: empty and open.
NewChannel == [buf |-> <<>>, shut |-> FALSE]

ChannelOf(Items) == [buf : Seq(Items), shut : BOOLEAN]

\* The wait predicate of push: there is room, or nobody will make any.
PushReady(c, capacity) == c.shut \/ Len(c.buf) < capacity

\* The wait predicate of pop: there is an item, or none will come.
PopReady(c) == c.shut \/ c.buf # <<>>

\* A closed channel refuses the item and says so; an open one appends it.
Put(c, v) == IF c.shut THEN c ELSE [buf |-> Append(c.buf, v), shut |-> FALSE]

\* Items queued before close remain to be taken.
Take(c) == [buf |-> Tail(c.buf), shut |-> c.shut]

\* pop has nothing to return and never will.
Ended(c) == c.shut /\ c.buf = <<>>

Shut(c) == [buf |-> c.buf, shut |-> TRUE]
=============================================================================
