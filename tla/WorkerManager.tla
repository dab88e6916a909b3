---------------------------- MODULE WorkerManager ---------------------------
(***************************************************************************)
(* runtime/worker_manager.cpp: a list of workers, each a thread of         *)
(* pipeline/worker.cpp that runs its loop while running_ is set.  add      *)
(* starts a worker at once, start_all does nothing, stop_all stops and     *)
(* joins them one after the other, in the order they were added.           *)
(*                                                                         *)
(* The loops are the client's.  What matters of them is that an iteration  *)
(* may wait for something another worker makes in an iteration of its own, *)
(* and that the manager has no way to end such a wait.                     *)
(***************************************************************************)
EXTENDS Integers, Sequences

CONSTANT Workers

VARIABLES
    waits,      \* whom the loop of each worker waits for, or Nobody
    entries,    \* workers_, in the order of add
    on,         \* running_ of each worker
    thread,     \* none, check, loop, done: where its thread is
    made,       \* something it has made lies ready for whoever waits
    calls       \* what the owner has left to do of stop_all

managerVars == <<waits, entries, on, thread, made, calls>>

Nobody == "nobody"
Added(w) == \E k \in DOMAIN entries : entries[k] = w

ManagerInit ==
    /\ waits \in [Workers -> Workers \cup {Nobody}]
    /\ \A w \in Workers : waits[w] # w
    /\ entries = <<>>
    /\ on = [w \in Workers |-> FALSE]
    /\ thread = [w \in Workers |-> "none"]
    /\ made = [w \in Workers |-> FALSE]
    /\ calls = <<>>
-----------------------------------------------------------------------------
\* Worker::start of a worker that was just built, and the list.
Add(w) ==
    /\ calls = <<>>
    /\ ~Added(w)
    /\ entries' = Append(entries, w)
    /\ on' = [on EXCEPT ![w] = TRUE]
    /\ thread' = [thread EXCEPT ![w] = "check"]
    /\ UNCHANGED <<waits, made, calls>>

\* Mutant: the worker added last is stopped first.
StopAllMutant ==
    /\ calls = <<>> /\ entries # <<>>
    /\ calls' = [k \in DOMAIN entries |->
                    <<"stop", entries[Len(entries) + 1 - k]>>]
    /\ UNCHANGED <<waits, entries, on, thread, made>>

\* stop_all, and the destructor, whose workers find that they are stopped.
StopAll ==
    /\ calls = <<>> /\ entries # <<>>
    /\ calls' = [k \in DOMAIN entries |-> <<"stop", entries[k]>>]
    /\ UNCHANGED <<waits, entries, on, thread, made>>

\* Worker::stop: nothing more if running_ was not set.
StopOne(w) ==
    /\ calls # <<>> /\ Head(calls) = <<"stop", w>>
    /\ on' = [on EXCEPT ![w] = FALSE]
    /\ calls' = (IF on[w] THEN << <<"join", w>> >> ELSE <<>>) \o Tail(calls)
    /\ UNCHANGED <<waits, entries, thread, made>>

JoinOne(w) ==
    /\ calls # <<>> /\ Head(calls) = <<"join", w>>
    /\ thread[w] = "done"
    /\ thread' = [thread EXCEPT ![w] = "none"]
    /\ calls' = Tail(calls)
    /\ UNCHANGED <<waits, entries, on, made>>

\* while (running_) loop();
TestOn(w) ==
    /\ thread[w] = "check"
    /\ thread' = [thread EXCEPT ![w] = IF on[w] THEN "loop" ELSE "done"]
    /\ UNCHANGED <<waits, entries, on, made, calls>>

\* An iteration takes what it waited for, and leaves something itself.
Iterate(w) ==
    /\ thread[w] = "loop"
    /\ waits[w] # Nobody => made[waits[w]]
    /\ made' = [v \in Workers |-> v = w \/ (made[v] /\ v # waits[w])]
    /\ thread' = [thread EXCEPT ![w] = "check"]
    /\ UNCHANGED <<waits, entries, on, calls>>

OwnerStops == \E w \in Workers : StopOne(w) \/ JoinOne(w)
ThreadRuns(w) == TestOn(w) \/ Iterate(w)

ManagerNext ==
    \/ \E w \in Workers : Add(w)
    \/ StopAll \/ OwnerStops
    \/ \E w \in Workers : ThreadRuns(w)

ManagerSpec == ManagerInit /\ [][ManagerNext]_managerVars
-----------------------------------------------------------------------------
\* Whoever waits for another was added before it.
Position(w) == CHOOSE k \in DOMAIN entries : entries[k] = w
WaitsForLater ==
    \A w \in Workers : Added(w) /\ waits[w] # Nobody =>
        Added(waits[w]) /\ Position(w) < Position(waits[w])

(* stop_all returns, and no thread is left, when each worker waits only for *)
(* workers that are stopped after it: those still run until it is joined    *)
(* (worker_manager.cpp:20).   In any other order of add it may hang, with   *)
(* all the later workers still running.  That the worker waited for is      *)
(* waited for by nobody else is part of the condition: one that is can be   *)
(* robbed of what it needs for ever.                                        *)
StopAllReturns ==
    (calls # <<>> /\ WaitsForLater
        /\ \A v, w \in Workers : v # w /\ waits[v] = waits[w] => waits[v] = Nobody)
            ~> (calls = <<>> /\ \A w \in Workers : thread[w] = "none")
=============================================================================
