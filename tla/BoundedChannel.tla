--------------------------- MODULE BoundedChannel ---------------------------
(***************************************************************************)
(* What BlockingQueue<T> promises its callers, without mutex or condition  *)
(* variables: every call takes effect in one step, between its start and   *)
(* its return, and the step a call takes fixes what it returns.            *)
(*                                                                         *)
(* result[c] is what the last call of client c returns: "none" while the   *)
(* call has not taken effect, "true" and "false" for a push, "nullopt" or  *)
(* the item for a pop.                                                     *)
(***************************************************************************)
EXTENDS Channel

CONSTANTS Clients, Items, Capacity

VARIABLES chan, result
vars == <<chan, result>>

Returns(c, r) == result' = [result EXCEPT ![c] = r]

Init ==
    /\ chan = NewChannel
    /\ result = [c \in Clients |-> "none"]

Call(c) == Returns(c, "none") /\ UNCHANGED chan

Send(c, v) ==
    /\ ~chan.shut
    /\ Len(chan.buf) < Capacity
    /\ chan' = Put(chan, v)
    /\ Returns(c, "true")

\* push fails for good only on a closed channel.
Refuse(c) ==
    /\ chan.shut
    /\ Returns(c, "false")
    /\ UNCHANGED chan

\* A timed push gives up only while it would block.
SendTimeout(c) ==
    /\ ~PushReady(chan, Capacity)
    /\ Returns(c, "false")
    /\ UNCHANGED chan

\* An item comes out once, from the front, closed or not.
Receive(c) ==
    /\ chan.buf # <<>>
    /\ chan' = Take(chan)
    /\ Returns(c, Head(chan.buf))

EndOfStream(c) ==
    /\ Ended(chan)
    /\ Returns(c, "nullopt")
    /\ UNCHANGED chan

\* A timed pop gives up only while it would block.
ReceiveTimeout(c) ==
    /\ ~PopReady(chan)
    /\ Returns(c, "nullopt")
    /\ UNCHANGED chan

Close == chan' = Shut(chan) /\ UNCHANGED result

Next ==
    \/ \E c \in Clients :
        \/ Call(c)
        \/ \E v \in Items : Send(c, v)
        \/ Refuse(c)
        \/ SendTimeout(c)
        \/ Receive(c)
        \/ EndOfStream(c)
        \/ ReceiveTimeout(c)
    \/ Close

Spec == Init /\ [][Next]_vars
=============================================================================
