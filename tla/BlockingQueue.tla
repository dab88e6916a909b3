--------------------------- MODULE BlockingQueue ---------------------------
(***************************************************************************)
(* pipeline/blocking_queue.hpp: a bounded multi-producer multi-consumer    *)
(* queue made of a mutex, two condition variables and a closed flag.       *)
(*                                                                         *)
(* A call is cut where other threads can act.  What it does between taking *)
(* and releasing mutex_ is one step; the notify calls come after the       *)
(* unlock and are steps of their own, so another thread may take the item  *)
(* before the notified one wakes.  pc[t] is where thread t stands:         *)
(*                                                                         *)
(*   idle        outside the queue                                         *)
(*   lock        about to acquire mutex_, at the start of the call or      *)
(*               because a wait ended, and to evaluate the wait predicate  *)
(*   wait        asleep on not_full_ (a push) or not_empty_ (a pop)        *)
(*   notify      has pushed or popped and unlocked, notify_one is next     *)
(*   wake_empty  close: closed_ is set, notify_all on not_empty_ is next   *)
(*   wake_full   close: notify_all on not_full_ is next                    *)
(*                                                                         *)
(* A condition variable is the set of threads asleep on it; which of them  *)
(* notify_one picks is free, and a sleeper may wake for no reason.         *)
(***************************************************************************)
EXTENDS Channel, FiniteSets

CONSTANTS
    Threads,    \* the threads that share the queue
    Values,     \* the items they push
    Capacity,   \* capacity_
    MayCall     \* the operations each thread calls

PushOps  == {"push", "push_for"}
PopOps   == {"pop", "pop_for"}
TimedOps == {"push_for", "pop_for"}
Ops == PushOps \cup PopOps \cup {"close"}

\* The constructor throws on capacity 0: such a queue does not exist.
ASSUME CapacityAssumption == Capacity \in Nat \ {0}
ASSUME ThreadsAssumption == IsFiniteSet(Threads)
\* An item is not one of the marks that stand for bool, nullopt and nothing.
ASSUME ValuesAssumption ==
    Values \cap {"none", "true", "false", "nullopt"} = {}
ASSUME MayCallAssumption == MayCall \in [Threads -> SUBSET Ops]

VARIABLES
    queue,      \* queue_
    closed,     \* closed_
    pc,
    op,         \* the operation a thread is in, or was in last
    arg,        \* the item a push holds, moved into queue_ when it succeeds
    expired,    \* the timeout of the call has passed
    ret         \* what the call returns, fixed inside the critical section

vars == <<queue, closed, pc, op, arg, expired, ret>>

At(t, place) == pc[t] = place
Goto(t, place) == pc' = [pc EXCEPT ![t] = place]
Return(t, r) == ret' = [ret EXCEPT ![t] = r]

Chan == [buf |-> queue, shut |-> closed]

\* Mutant: a push waits for room one item too late.
MayProceedMutant(t) ==
    IF op[t] \in PushOps THEN PushReady(Chan, Capacity + 1) ELSE PopReady(Chan)

\* The predicate a push or a pop waits for.
MayProceed(t) ==
    IF op[t] \in PushOps THEN PushReady(Chan, Capacity) ELSE PopReady(Chan)

Sleepers(t, cvOps) == At(t, "wait") /\ op[t] \in cvOps
OnNotEmpty == {t \in Threads : Sleepers(t, PopOps)}
OnNotFull  == {t \in Threads : Sleepers(t, PushOps)}

Init ==
    /\ queue = <<>>
    /\ closed = FALSE
    /\ pc = [t \in Threads |-> "idle"]
    /\ op = [t \in Threads |-> "none"]
    /\ arg = [t \in Threads |-> "none"]
    /\ expired = [t \in Threads |-> FALSE]
    /\ ret = [t \in Threads |-> "none"]
-----------------------------------------------------------------------------
Enter(t, o) ==
    /\ At(t, "idle")
    /\ o \in MayCall[t]
    /\ Goto(t, "lock")
    /\ op' = [op EXCEPT ![t] = o]
    /\ expired' = [expired EXCEPT ![t] = FALSE]
    /\ Return(t, "none")
    /\ UNCHANGED <<queue, closed>>

CallPush(t, o, v) ==
    /\ o \in PushOps
    /\ Enter(t, o)
    /\ arg' = [arg EXCEPT ![t] = v]

CallOther(t, o) ==
    /\ o \notin PushOps
    /\ Enter(t, o)
    /\ UNCHANGED arg

AtLock(t, ops) == At(t, "lock") /\ op[t] \in ops

\* The call returns from inside the critical section, the queue untouched.
Finish(t, r) ==
    /\ Goto(t, "idle")
    /\ arg' = [arg EXCEPT ![t] = "none"]
    /\ Return(t, r)
    /\ UNCHANGED <<queue, closed, op, expired>>

\* Room, and not closed: the item goes to the back of the queue.
PushItem(t) ==
    /\ AtLock(t, PushOps)
    /\ MayProceed(t) /\ ~closed
    /\ queue' = Append(queue, arg[t])
    /\ Goto(t, "notify")
    /\ arg' = [arg EXCEPT ![t] = "none"]
    /\ Return(t, "true")
    /\ UNCHANGED <<closed, op, expired>>

\* The queue is closed, room or not: the item is dropped.
PushClosed(t) ==
    /\ AtLock(t, PushOps)
    /\ MayProceed(t) /\ closed
    /\ Finish(t, "false")

\* An item, closed or not: it comes off the front.
PopItem(t) ==
    /\ AtLock(t, PopOps)
    /\ MayProceed(t) /\ queue # <<>>
    /\ queue' = Tail(queue)
    /\ Goto(t, "notify")
    /\ Return(t, Head(queue))
    /\ UNCHANGED <<closed, op, arg, expired>>

\* Mutant: pop looks at closed_ where it should look at the queue.
PopEndedMutant(t) ==
    /\ AtLock(t, PopOps)
    /\ MayProceed(t) /\ closed
    /\ Finish(t, "nullopt")

\* Woken, or never asleep, with nothing to take: the queue is closed.
PopEnded(t) ==
    /\ AtLock(t, PopOps)
    /\ MayProceed(t) /\ queue = <<>>
    /\ Finish(t, "nullopt")

Failure(t) == IF op[t] \in PushOps THEN "false" ELSE "nullopt"

\* Mutant: the timeout decides, the predicate is not looked at again.
GiveUpMutant(t) ==
    /\ AtLock(t, TimedOps)
    /\ expired[t]
    /\ Finish(t, Failure(t))

\* wait_for evaluates the predicate once more after the timeout, and only
\* then gives up.
GiveUp(t) ==
    /\ AtLock(t, TimedOps)
    /\ ~MayProceed(t) /\ expired[t]
    /\ Finish(t, Failure(t))

\* Mutant: each wake starts the timeout anew.
SleepMutant(t) ==
    /\ AtLock(t, PushOps \cup PopOps)
    /\ ~MayProceed(t)
    /\ Goto(t, "wait")
    /\ expired' = [expired EXCEPT ![t] = FALSE]
    /\ UNCHANGED <<queue, closed, op, arg, ret>>

\* wait releases mutex_ and goes to sleep in one step.
Sleep(t) ==
    /\ AtLock(t, PushOps \cup PopOps)
    /\ ~MayProceed(t) /\ ~expired[t]
    /\ Goto(t, "wait")
    /\ UNCHANGED <<queue, closed, op, arg, expired, ret>>

SetClosed(t) ==
    /\ AtLock(t, {"close"})
    /\ closed' = TRUE
    /\ Goto(t, "wake_empty")
    /\ UNCHANGED <<queue, op, arg, expired, ret>>
-----------------------------------------------------------------------------
\* Mutant: a push signals only when it finds the queue empty, a pop only
\* when it finds it full.
SignalledMutant(t) ==
    IF op[t] \in PushOps
    THEN IF Len(queue) = 1 THEN OnNotEmpty ELSE {}
    ELSE IF Len(queue) = Capacity - 1 THEN OnNotFull ELSE {}

\* The condition variable a push or a pop signals: a push has made the queue
\* not empty, a pop has made it not full.
Signalled(t) == IF op[t] \in PushOps THEN OnNotEmpty ELSE OnNotFull

\* notify_one with a sleeper: one of them, any of them, goes for the mutex.
NotifyOne(t, s) ==
    /\ At(t, "notify")
    /\ s \in Signalled(t)
    /\ pc' = [pc EXCEPT ![t] = "idle", ![s] = "lock"]
    /\ UNCHANGED <<queue, closed, op, arg, expired, ret>>

\* notify_one with nobody asleep is lost.
NotifyNobody(t) ==
    /\ At(t, "notify")
    /\ Signalled(t) = {}
    /\ Goto(t, "idle")
    /\ UNCHANGED <<queue, closed, op, arg, expired, ret>>

\* notify_all: every sleeper goes for the mutex, t goes on.
Broadcast(t, sleepers, next) ==
    /\ pc' = [u \in Threads |-> IF u = t THEN next
                                ELSE IF u \in sleepers THEN "lock" ELSE pc[u]]
    /\ UNCHANGED <<queue, closed, op, arg, expired, ret>>

NotifyAllNotEmpty(t) ==
    At(t, "wake_empty") /\ Broadcast(t, OnNotEmpty, "wake_full")

\* Mutant: close forgets the blocked producers.
NotifyAllNotFullMutant(t) ==
    At(t, "wake_full") /\ Broadcast(t, {}, "idle")

NotifyAllNotFull(t) ==
    At(t, "wake_full") /\ Broadcast(t, OnNotFull, "idle")

\* The deadline of a timed call passes; a sleeper wakes for it.
Expire(t) ==
    /\ op[t] \in TimedOps /\ ~expired[t]
    /\ pc[t] \in {"lock", "wait"}
    /\ expired' = [expired EXCEPT ![t] = TRUE]
    /\ Goto(t, "lock")
    /\ UNCHANGED <<queue, closed, op, arg, ret>>

SpuriousWake(t) ==
    /\ At(t, "wait")
    /\ Goto(t, "lock")
    /\ UNCHANGED <<queue, closed, op, arg, expired, ret>>
-----------------------------------------------------------------------------
\* What a thread does once it is inside a call.
InCall(t) ==
    \/ PushItem(t)
    \/ PushClosed(t)
    \/ PopItem(t)
    \/ PopEnded(t)
    \/ GiveUp(t)
    \/ Sleep(t)
    \/ SetClosed(t)
    \/ \E s \in Threads : NotifyOne(t, s)
    \/ NotifyNobody(t)
    \/ NotifyAllNotEmpty(t)
    \/ NotifyAllNotFull(t)

Next ==
    \E t \in Threads :
        \/ \E o \in Ops, v \in Values : CallPush(t, o, v)
        \/ \E o \in Ops : CallOther(t, o)
        \/ InCall(t)
        \/ Expire(t)
        \/ SpuriousWake(t)

Spec == Init /\ [][Next]_vars

(***************************************************************************)
(* A thread that is runnable runs, and a deadline passes.  Nobody has to   *)
(* call the queue, and a sleeper is owed no wake-up but the ones signalled.*)
(***************************************************************************)
Fairness == \A t \in Threads : WF_vars(InCall(t)) /\ WF_vars(Expire(t))

FairSpec == Spec /\ Fairness
-----------------------------------------------------------------------------
Places == {"idle", "lock", "wait", "notify", "wake_empty", "wake_full"}

(* Type invariant, with the bound capacity_ on queue_ that no interleaving  *)
(* of pushes may break (lines 37 and 103).                                   *)
TypeOK ==
    /\ queue \in Seq(Values) /\ Len(queue) <= Capacity
    /\ closed \in BOOLEAN
    /\ pc \in [Threads -> Places]
    /\ op \in [Threads -> Ops \cup {"none"}]
    /\ arg \in [Threads -> Values \cup {"none"}]
    /\ expired \in [Threads -> BOOLEAN]
    /\ ret \in [Threads -> Values \cup {"none", "true", "false", "nullopt"}]

(* What place and operation of a thread have to do with each other.         *)
CallOK ==
    \A t \in Threads :
        /\ ~At(t, "idle") => op[t] \in Ops
        /\ (pc[t] \in {"lock", "wait"} /\ op[t] \in PushOps) => arg[t] \in Values
        /\ pc[t] \in {"wait", "notify"} => op[t] \in PushOps \cup PopOps
        /\ pc[t] \in {"wake_empty", "wake_full"} => closed

(***************************************************************************)
(* No lost wake-up.  notify_one comes after the unlock, wakes one thread,  *)
(* and may wake one that then finds nothing to do; still, while a thread   *)
(* sleeps, every item it could take (every free slot it could fill) is     *)
(* accounted for by a thread on its way to the mutex or by a notify_one    *)
(* still to come; and once the queue is closed, by a notify_all to come.   *)
(***************************************************************************)
Awake(cvOps)     == {t \in Threads : AtLock(t, cvOps)}
Notifying(cvOps) == {t \in Threads : At(t, "notify") /\ op[t] \in cvOps}

\* The threads that account for an item, and those that account for a slot.
ItemCarriers == Awake(PopOps) \cup Notifying(PushOps)
SlotCarriers == Awake(PushOps) \cup Notifying(PopOps)

ItemsClaimed ==
    (OnNotEmpty # {} /\ ~closed) => Len(queue) <= Cardinality(ItemCarriers)

SlotsClaimed ==
    (OnNotFull # {} /\ ~closed) =>
        Capacity - Len(queue) <= Cardinality(SlotCarriers)

CloseBroadcasts ==
    /\ (closed /\ OnNotEmpty # {}) => \E t \in Threads : At(t, "wake_empty")
    /\ (closed /\ OnNotFull # {}) =>
            \E t \in Threads : At(t, "wake_empty") \/ At(t, "wake_full")

NoLostWakeup == ItemsClaimed /\ SlotsClaimed /\ CloseBroadcasts

(* The inductive invariant behind the proofs: nothing NoLostWakeup says can *)
(* be kept up without knowing which calls a sleeper or a notifier is in.    *)
IInv == TypeOK /\ CallOK /\ NoLostWakeup

(* A push without a timeout fails only on a closed queue, and a pop without *)
(* a timeout comes back empty-handed only when the queue is closed and      *)
(* drained: the worker loops take that answer for the end of the stream.    *)
ResultJustified ==
    \A t \in Threads :
        /\ (op[t] = "push" /\ ret[t] = "false") => closed
        /\ (op[t] = "pop" /\ ret[t] = "nullopt") => closed /\ queue = <<>>

(* The queue implements the channel its comment promises (lines 14-18):     *)
(* FIFO, bounded, each item returned once, nothing accepted after close,    *)
(* what was accepted drainable, a timed call giving up only while it would  *)
(* block.                                                                   *)
Promise == INSTANCE BoundedChannel WITH
    Clients <- Threads, Items <- Values, chan <- Chan, result <- ret

ImplementsChannel == Promise!Spec

(* close() releases every caller, asleep or about to sleep (lines 78-85).   *)
CloseReleases ==
    \A t \in Threads : (closed /\ ~At(t, "idle")) ~> At(t, "idle")

(* push_for and pop_for return, whatever the other threads do.              *)
TimedReturns ==
    \A t \in Threads :
        (op[t] \in TimedOps /\ ~At(t, "idle")) ~> At(t, "idle")

(* Items do not lie in the queue for ever while a consumer sleeps, nor free *)
(* slots while a producer does: the state ends or somebody makes progress.  *)
SleepersServed ==
    /\ \/ []<>(queue = <<>> \/ OnNotEmpty = {})
       \/ []<><<\E t \in Threads : PopItem(t)>>_vars
    /\ \/ []<>(Len(queue) = Capacity \/ OnNotFull = {})
       \/ []<><<\E t \in Threads : PushItem(t)>>_vars
=============================================================================
